----------------------------- MODULE UpdateFlow -----------------------------
(* lwa update (update_flow.py, update_source.py, update_continuation.py,    *)
(* updater.py): a process that replaces its own source.  The workspaces     *)
(* share one repository and one environment; each has its own services.     *)
(* Two locks, repository before workspace, are tried and never waited for,  *)
(* and a child that goes on with the new code inherits them.                *)
EXTENDS Naturals, FiniteSets

CONSTANTS Updater,    \* processes of the command
          Home,       \* workspaces
          NoUpdater,     \* holder of a lock nobody holds
          MaxRun,     \* bound: commands that are started
          MaxCommit,  \* bound: commits of the remote
          MaxMishap,  \* bound: kills, failing restarts, failing installs
          MaxUser     \* bound: what users do to the tree and the services

ASSUME UpdateAssumption == /\ NoUpdater \notin Updater /\ Home # {}
                           /\ {MaxRun, MaxMishap, MaxUser} \subseteq Nat
                           /\ MaxCommit \in Nat \ {0}

VARIABLES
    repo,      \* the clone: its head, the remote's, local edits of tracked files
    venv,      \* the commit whose dependencies are installed
    repoLock, homeLock,
    bin,       \* the process each updater is, and what it knows
    phase,     \* the runtime phase each updater is in: itself, or its child
    svc,       \* the code and the dependencies the service of a workspace runs on
    wanted,    \* the service's enabled flag
    ugh,       \* ghost: updaters that read their code before another one moved it; an
               \*        install a move overtook; a child whose parent gave its locks up
    spentUpdate

updateVars == <<repo, venv, repoLock, homeLock, bin, phase, svc, wanted, ugh, spentUpdate>>
sourceVars == <<repo, venv>>
flockVars   == <<repoLock, homeLock>>
svcVars    == <<svc, wanted>>

Commit  == 0 .. MaxCommit
Down    == [code |-> 0, deps |-> 0]
NewSvc  == [code |-> repo.head, deps |-> venv]
NoBin   == [pc |-> "none", home |-> CHOOSE w \in Home : TRUE, pull |-> FALSE, skip |-> FALSE,
            code |-> 0, from |-> 0, moved |-> FALSE, failed |-> FALSE]
NoPhase == [pc |-> "none", home |-> CHOOSE w \in Home : TRUE, pull |-> FALSE,
            code |-> 0, child |-> FALSE, failed |-> FALSE]

OnStep(u, pc) == bin[u].pc = pc
To(u, pc) == bin' = [bin EXCEPT ![u].pc = pc]
Reports(u, failed) == bin' = [bin EXCEPT ![u].pc = "reports", ![u].failed = @ \/ failed]
Mishap == /\ spentUpdate.mishap < MaxMishap
          /\ spentUpdate' = [spentUpdate EXCEPT !.mishap = @ + 1]
Fine   == UNCHANGED spentUpdate

----------------------------------------------------------------------------
(* The locks.                                                               *)

(* The interpreter has read its code before it comes to the locks.          *)
StartUpdate(u) ==
    /\ OnStep(u, "none") /\ phase[u].pc = "none" /\ spentUpdate.run < MaxRun
    /\ \E w \in Home, pull \in BOOLEAN, skip \in BOOLEAN :
         bin' = [bin EXCEPT ![u] = [NoBin EXCEPT !.pc = "start", !.home = w, !.pull = pull,
                                                 !.skip = skip, !.code = repo.head]]
    /\ spentUpdate' = [spentUpdate EXCEPT !.run = @ + 1]
    /\ ugh' = [ugh EXCEPT !.late = @ \ {u}]
    /\ UNCHANGED <<sourceVars, flockVars, phase, svcVars>>

TakeRepo(u) ==
    /\ OnStep(u, "start")
    /\ IF ~bin[u].pull THEN To(u, "home") /\ UNCHANGED repoLock
       ELSE IF repoLock = NoUpdater THEN repoLock' = u /\ To(u, "home")
       ELSE Reports(u, TRUE) /\ UNCHANGED repoLock
    /\ UNCHANGED <<sourceVars, homeLock, phase, svcVars, ugh, spentUpdate>>

(* Every update takes the lock of its workspace, the one that leaves the    *)
(* source alone too.                                                        *)
TakeHome(u) ==
    /\ OnStep(u, "home")
    /\ IF homeLock[bin[u].home] # NoUpdater
       THEN /\ repoLock' = IF repoLock = u THEN NoUpdater ELSE repoLock
            /\ Reports(u, TRUE) /\ UNCHANGED homeLock
       ELSE /\ homeLock' = [homeLock EXCEPT ![bin[u].home] = u]
            /\ To(u, IF bin[u].pull THEN "source" ELSE "pip")
            /\ UNCHANGED repoLock
    /\ ugh' = IF bin[u].code # repo.head THEN [ugh EXCEPT !.late = @ \cup {u}] ELSE ugh
    /\ UNCHANGED <<sourceVars, phase, svcVars, spentUpdate>>

Released(u) ==
    /\ repoLock' = IF repoLock = u THEN NoUpdater ELSE repoLock
    /\ homeLock' = [w \in Home |-> IF homeLock[w] = u THEN NoUpdater ELSE homeLock[w]]
KeptLocks(u) == UNCHANGED flockVars

(* A lock lives as long as a process that has its descriptor.  Mutant: the  *)
(* child has not inherited it.                                              *)
Inherited_Not(u) == FALSE
Inherited(u) == phase[u].child

----------------------------------------------------------------------------
(* The source: fetch a candidate, look at the tree, fast-forward, install.  *)

(* Without pip the command stops before anything is changed.                *)
PipMissing(u) ==
    /\ OnStep(u, "source") /\ ~bin[u].skip /\ Reports(u, TRUE)
    /\ UNCHANGED <<sourceVars, flockVars, phase, svcVars, ugh, spentUpdate>>

(* A tree that has local edits is left alone, and so is one whose           *)
(* dependencies are not to be installed.                                    *)
Refuses(u) == repo.dirty \/ bin[u].skip

Fetched == {repo.head, repo.remote}  \* nothing new, or it could not be fetched
Behind(c) == repo.head < c
Merged(c) == [repo EXCEPT !.head = c]

(* A fetch that fails is a warning, a refusal is noted; the rest goes on    *)
(* with the code as it is.                                                  *)
Advance(u) ==
    /\ OnStep(u, "source")
    /\ \E c \in Fetched, merges \in BOOLEAN :
         LET moves == Behind(c) /\ ~Refuses(u) /\ merges IN
         /\ repo' = IF moves THEN Merged(c) ELSE repo
         /\ bin' = [bin EXCEPT ![u].pc = "pip", ![u].moved = moves,
                               ![u].failed = @ \/ (Behind(c) /\ ~moves)]
         /\ ugh' = IF moves /\ \E v \in Updater : OnStep(v, "installs")
                   THEN [ugh EXCEPT !.crossed = TRUE] ELSE ugh
    /\ UNCHANGED <<venv, flockVars, phase, svcVars, spentUpdate>>

PipBegins(u) ==
    /\ OnStep(u, "pip")
    /\ bin' = IF bin[u].skip THEN [bin EXCEPT ![u].pc = "runtime"]
              ELSE [bin EXCEPT ![u].pc = "installs", ![u].from = repo.head]
    /\ UNCHANGED <<sourceVars, flockVars, phase, svcVars, ugh, spentUpdate>>

(* What happens to the runtime phase after an install that failed.  Mutant: *)
(* it is begun in any case.                                                 *)
AfterPipFailed_GoOn(u) == "runtime"
AfterPipFailed(u) == IF bin[u].moved THEN "reports" ELSE "runtime"
PipEnds(u) ==
    /\ OnStep(u, "installs")
    /\ \/ venv' = bin[u].from /\ To(u, "runtime") /\ Fine
       \/ /\ bin' = [bin EXCEPT ![u].pc = AfterPipFailed(u), ![u].failed = TRUE]
          /\ Mishap /\ UNCHANGED venv
    /\ UNCHANGED <<repo, flockVars, phase, svcVars, ugh>>

----------------------------------------------------------------------------
(* The runtime phase: by this process when its code is still the tree's, by *)
(* a new interpreter, which compares its code with the fast-forward's.      *)
NeedsChild(u) == bin[u].moved

BeginUpdate(u) ==
    /\ OnStep(u, "runtime")
    /\ \/ /\ phase' = [phase EXCEPT ![u] =
                [NoPhase EXCEPT !.pc = "migrate", !.home = bin[u].home, !.pull = bin[u].pull,
                                !.child = NeedsChild(u),
                                !.code = IF NeedsChild(u) THEN repo.head ELSE bin[u].code]]
          /\ To(u, "waits") /\ Fine
       \/ NeedsChild(u) /\ Reports(u, TRUE) /\ Mishap /\ UNCHANGED phase
    /\ UNCHANGED <<sourceVars, flockVars, svcVars, ugh>>

(* skills, templates and configuration; then the services, unless an import *)
(* does not come to its end.                                                *)
MigratePhase(u) ==
    /\ phase[u].pc = "migrate"
    /\ \E failed \in BOOLEAN, idle \in BOOLEAN :
         phase' = [phase EXCEPT ![u].pc = IF idle THEN "restart" ELSE "review",
                                ![u].failed = @ \/ failed \/ ~idle]
    /\ UNCHANGED <<sourceVars, flockVars, bin, svcVars, ugh, spentUpdate>>

(* What runs is stopped and started, what is down is started when it is     *)
(* wanted and its circuit is closed.  Mutant: a service that cannot be      *)
(* stopped counts as restarted.                                             *)
NotStopped_Ignored == FALSE
NotStopped == TRUE
ComesUp(w) == svc[w] # Down \/ wanted[w]
RestartPhase(u) ==
    /\ phase[u].pc = "restart"
    /\ LET w == phase[u].home
           Next(f) == phase' = [phase EXCEPT ![u].pc = "review", ![u].failed = @ \/ f] IN
       \/ /\ ComesUp(w) /\ svc' = [svc EXCEPT ![w] = NewSvc] /\ Next(FALSE) /\ Fine
       \/ /\ svc[w] # Down /\ Next(NotStopped) /\ Mishap /\ UNCHANGED svc
       \/ /\ ComesUp(w) /\ svc' = [svc EXCEPT ![w] = Down] /\ Next(TRUE) /\ Mishap
       \/ svc[w] = Down /\ Next(FALSE) /\ Fine /\ UNCHANGED svc
    /\ UNCHANGED <<sourceVars, flockVars, bin, wanted, ugh>>

(* Alias fragments, readiness, one master, addresses, doctor.               *)
ReviewPhase(u) ==
    /\ phase[u].pc = "review"
    /\ \E failed \in BOOLEAN : phase' = [phase EXCEPT ![u].pc = "done", ![u].failed = @ \/ failed]
    /\ UNCHANGED <<sourceVars, flockVars, bin, svcVars, ugh, spentUpdate>>

(* The report of the phase reaches the command; a child nobody waits for    *)
(* ends with its locks.                                                     *)
PhaseEnds(u) ==
    /\ phase[u].pc = "done"
    /\ phase' = [phase EXCEPT ![u] = NoPhase]
    /\ IF OnStep(u, "waits") THEN Reports(u, phase[u].failed) /\ KeptLocks(u)
       ELSE UNCHANGED bin /\ Released(u)
    /\ UNCHANGED <<sourceVars, svcVars, ugh, spentUpdate>>

(* The child crashes, or is killed when it takes too long.                  *)
ChildDies(u) ==
    /\ phase[u].child /\ phase[u].pc # "none" /\ Mishap
    /\ phase' = [phase EXCEPT ![u] = NoPhase]
    /\ IF OnStep(u, "waits") THEN Reports(u, TRUE) /\ KeptLocks(u)
       ELSE UNCHANGED bin /\ Released(u)
    /\ UNCHANGED <<sourceVars, svcVars, ugh>>

EndUpdate(u) ==
    /\ OnStep(u, "reports")
    /\ bin' = [bin EXCEPT ![u] = NoBin] /\ Released(u)
    /\ UNCHANGED <<sourceVars, phase, svcVars, ugh, spentUpdate>>

(* The command is killed: what it did itself stops where it is.             *)
KillUpdate(u) ==
    /\ ~OnStep(u, "none") /\ Mishap
    /\ bin' = [bin EXCEPT ![u] = NoBin]
    /\ IF phase[u].child THEN UNCHANGED phase ELSE phase' = [phase EXCEPT ![u] = NoPhase]
    /\ IF Inherited(u) THEN KeptLocks(u) ELSE Released(u)
    /\ UNCHANGED <<sourceVars, svcVars, ugh>>

(* The command alone is interrupted while it waits: it unlocks, explicitly. *)
Interrupted(u) ==
    /\ OnStep(u, "waits") /\ phase[u].child /\ Mishap
    /\ bin' = [bin EXCEPT ![u] = NoBin] /\ Released(u)
    /\ ugh' = [ugh EXCEPT !.cut = TRUE]
    /\ UNCHANGED <<sourceVars, phase, svcVars>>

----------------------------------------------------------------------------
(* The remote, and the users of the workspaces.                             *)
User == /\ spentUpdate.user < MaxUser
        /\ spentUpdate' = [spentUpdate EXCEPT !.user = @ + 1]

Pushed ==
    /\ repo.remote < MaxCommit /\ repo' = [repo EXCEPT !.remote = @ + 1]
    /\ UNCHANGED <<venv, flockVars, bin, phase, svcVars, ugh, spentUpdate>>
TreeEdited ==
    /\ User /\ repo' = [repo EXCEPT !.dirty = ~@]
    /\ UNCHANGED <<venv, flockVars, bin, phase, svcVars, ugh>>
ServiceOn(w) ==
    /\ User /\ svc[w] = Down
    /\ svc' = [svc EXCEPT ![w] = NewSvc] /\ wanted' = [wanted EXCEPT ![w] = TRUE]
    /\ UNCHANGED <<sourceVars, flockVars, bin, phase, ugh>>
ServiceOff(w) ==
    /\ User /\ svc' = [svc EXCEPT ![w] = Down] /\ wanted' = [wanted EXCEPT ![w] = FALSE]
    /\ UNCHANGED <<sourceVars, flockVars, bin, phase, ugh>>
ServiceDies(w) ==
    /\ User /\ svc[w] # Down /\ svc' = [svc EXCEPT ![w] = Down]
    /\ UNCHANGED <<sourceVars, flockVars, bin, phase, wanted, ugh>>

UpdateInit ==
    /\ repo = [head |-> 1, remote |-> 1, dirty |-> FALSE] /\ venv = 1
    /\ repoLock = NoUpdater /\ homeLock = [w \in Home |-> NoUpdater]
    /\ bin = [u \in Updater |-> NoBin] /\ phase = [u \in Updater |-> NoPhase]
    /\ svc = [w \in Home |-> [code |-> 1, deps |-> 1]] /\ wanted = [w \in Home |-> TRUE]
    /\ ugh = [late |-> {}, crossed |-> FALSE, cut |-> FALSE]
    /\ spentUpdate = [run |-> 0, mishap |-> 0, user |-> 0]

CommandStep(u) ==
    \/ StartUpdate(u) \/ TakeRepo(u) \/ TakeHome(u) \/ PipMissing(u) \/ Advance(u)
    \/ PipBegins(u) \/ PipEnds(u) \/ BeginUpdate(u) \/ EndUpdate(u) \/ KillUpdate(u) \/ Interrupted(u)
PhaseStep(u) ==
    MigratePhase(u) \/ RestartPhase(u) \/ ReviewPhase(u) \/ PhaseEnds(u) \/ ChildDies(u)
UpdateNext ==
    \/ \E u \in Updater : CommandStep(u) \/ PhaseStep(u)
    \/ Pushed \/ TreeEdited
    \/ \E w \in Home : ServiceOn(w) \/ ServiceOff(w) \/ ServiceDies(w)
UpdateSpec == UpdateInit /\ [][UpdateNext]_updateVars

----------------------------------------------------------------------------
UpdateTypeOK ==
    /\ repo \in [head : Commit, remote : Commit, dirty : BOOLEAN] /\ venv \in Commit
    /\ repoLock \in Updater \cup {NoUpdater} /\ homeLock \in [Home -> Updater \cup {NoUpdater}]
    /\ svc \in [Home -> [code : Commit, deps : Commit]] /\ wanted \in [Home -> BOOLEAN]

(* Two updates never restart the services of one workspace at once, also    *)
(* when a command was killed and its child goes on alone.                   *)
OnePhase ==
    \A u, v \in Updater :
       u # v /\ phase[u].pc # "none" /\ phase[v].pc # "none" /\ ~ugh.cut
       => phase[u].home # phase[v].home

(* No old code on a new tree, no new code on old dependencies: the phase of *)
(* an update that may move the tree runs the tree's code, and a phase after *)
(* a move finds what it needs installed.                                    *)
NoMixedCode ==
    \A u \in Updater :
       phase[u].pc # "none" /\ phase[u].pull /\ ~ugh.cut =>
          /\ u \in ugh.late \/ phase[u].code = repo.head
          /\ phase[u].child /\ ~ugh.crossed => venv = repo.head

(* When an update of the source reports no failure, what runs in its        *)
(* workspace runs the code of the tree and, after a move, what was          *)
(* installed for it.                                                        *)
CleanMeansNew ==
    [][\A u \in Updater :
         LET s == svc[bin[u].home] IN
         /\ OnStep(u, "waits") /\ bin'[u].pc = "reports" /\ ~bin'[u].failed
         /\ bin[u].pull /\ ~ugh.cut /\ ~ugh.crossed /\ s # Down
         => s.code = repo.head /\ (bin[u].moved => s.deps = repo.head)]_updateVars

(* An update of the source in one statement: one at a time, no mixed code,   *)
(* and success means the new code runs.                                      *)
UpdateIsSafe == []UpdateTypeOK /\ []OnePhase /\ []NoMixedCode /\ CleanMeansNew
=============================================================================
