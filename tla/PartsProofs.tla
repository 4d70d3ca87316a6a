----------------------------- MODULE PartsProofs -----------------------------
(* Proofs about the smaller parts, for any sets of processes and contents,   *)
(* any number of schema versions and any bound: the patrol, the schema of    *)
(* the registry database, the daemon's process, importing, sync_status, the  *)
(* inbox and the full setup.  The modules share no state.                    *)
EXTENDS SchemaMigrate, DaemonService, ImportTxn, StatusSync, InboxWatch, FullSetup, FiniteSetTheorems, TLAPS

(***************************************************************************)
(* The patrol.                                                             *)
(***************************************************************************)

Drift == {"no manifest", "status", "no files", "edited files", "missing", "other text",
          "left over", "left by stop", "orphan", "dangling import", "not imported"}

(* While a round is on, each drift it saw is still to be told or has been.  *)
RoundIsTold ==
    /\ patrol \in [sig : (SUBSET Drift) \cup {Unmade}, seen : SUBSET Drift, todo : SUBSET Drift,
                   on : BOOLEAN]
    /\ patrol.on => patrol.seen \subseteq patrol.todo \cup toldOf
PatrolInv == PatrolIsHeard /\ RoundIsTold

(* A daemon that begins remembers nothing. *)
LEMMA BeginsFresh ==
    LET new == [sig |-> Unmade, seen |-> {}, todo |-> {}, on |-> FALSE]
    IN /\ new \in [sig : (SUBSET Drift) \cup {Unmade}, seen : SUBSET Drift, todo : SUBSET Drift,
                   on : BOOLEAN]
       /\ new.sig = Unmade /\ new.todo \subseteq new.seen /\ ~new.on
OBVIOUS

(* No family reports anything but the names of its drifts. *)
LEMMA DriftsAreNamed == Drifts \subseteq Drift
BY DEF ManifestDrifts, ArtifactDrifts, Drift, AliasDrifts, FragmentDrifts, CaddyDrifts, Drifts

LEMMA ChangedCopies == copies \in Copies /\ CopyChanges => copies' \in Copies
BY DEF Copies, CopyChanges

(* A drift may be told twice, but the patrol never keeps quiet about a set  *)
(* of which one was not told: the memory is written after the last event,   *)
(* and neither a failing event nor a restart leaves it ahead of them        *)
(* (run_consistency_patrol).                                                *)
THEOREM PatrolStaysHeard == PatrolSpec => []PatrolIsHeard
<1>1. PatrolInit => PatrolInv
  BY BeginsFresh DEF PatrolInit, Copies, Whole, PatrolInv, PatrolIsHeard, PatrolTypeOK,
         NothingSilent, RoundIsTold
<1>2. PatrolInv /\ [PatrolNext]_patrolVars => PatrolInv'
  <2> SUFFICES ASSUME PatrolInv, [PatrolNext]_patrolVars PROVE PatrolInv'
      OBVIOUS
  <2> USE DEF PatrolInv, PatrolIsHeard, PatrolTypeOK, NothingSilent, RoundIsTold
  <2>1. CASE Collects
    BY <2>1, DriftsAreNamed DEF Collects
  <2>2. CASE Tells
    BY <2>2 DEF Tells
  <2>3. CASE Remembers
    BY <2>3 DEF Remembers
  <2>4. CASE TellFails
    BY <2>4 DEF TellFails, AfterMiss
  <2>5. CASE DaemonBegins
    BY <2>5, BeginsFresh DEF DaemonBegins
  <2>6. CASE CopyChanges
    BY <2>6, ChangedCopies DEF CopyChanges
  <2>7. CASE UNCHANGED patrolVars
    BY <2>7 DEF patrolVars
  <2> QED BY <2>1, <2>2, <2>3, <2>4, <2>5, <2>6, <2>7 DEF PatrolNext, PatrolStep
<1>3. PatrolInv => PatrolIsHeard
  BY DEF PatrolInv
<1> QED BY <1>1, <1>2, <1>3, PTL DEF PatrolSpec

(***************************************************************************)
(* The schema of the registry database.                                    *)
(***************************************************************************)
Database == [version : 0..NewestSchema, ran : [1..NewestSchema -> Nat]]

Process  == [pc : {"away", "busy", "loop", "read", "alter", "open", "failed"},
             release : 1..NewestSchema, seen : 0..NewestSchema, next : Nat]

(* The pc of a process inside BEGIN IMMEDIATE. *)
InTxn(p) == opening[p].pc \in {"read", "alter"}

SchemaTypes ==
    /\ db \in Database /\ deaths \in 0..MaxDeath
    /\ writer \in [who : Opener \cup {Nobody}, copy : Database]
    /\ opening \in [Opener -> Process]

(* The writer, and nobody else, is inside a transaction. *)
OneWriter == \A p \in Opener : InTxn(p) <=> writer.who = p

(* A transaction holds what is committed, and the statements of the next    *)
(* version that have been run.                                              *)
HasRun(d, v, n) == [d EXCEPT !.ran[v] = n]
Pending(p) ==
    LET v == opening[p].seen
    IN /\ v = db.version + 1 /\ v <= opening[p].release
       /\ opening[p].next \in 1..Statements(v) + 1
       /\ writer.copy = HasRun(db, v, opening[p].next - 1)
CopyIsPending ==
    /\ \A p \in Opener : opening[p].pc = "alter" => Pending(p)
    /\ (\A p \in Opener : opening[p].pc # "alter") => writer.copy = db

SchemaInv == SchemaTypes /\ OneWriter /\ CopyIsPending /\ SchemaIsItsVersion

LEMMA SchemaInitInv == SchemaInit => SchemaInv
BY SchemaAssumption DEF SchemaInit, SchemaTypes, Database, Process, Idle, OneWriter, InTxn,
       CopyIsPending, SchemaIsItsVersion, SchemaInv

(* A step that leaves the committed database alone, and moves p only, from  *)
(* outside a transaction to outside it.                                     *)
LEMMA StaysOutside ==
    ASSUME SchemaInv, NEW p \in Opener, NEW new,
           opening' = [opening EXCEPT ![p] = new], UNCHANGED <<db, writer>>,
           ~InTxn(p), new.pc \in {"away", "busy", "loop", "open"},
           new \in Process,
           deaths' \in 0..MaxDeath, new.pc = "open" => new.release <= db.version
    PROVE  SchemaInv'
BY DEF SchemaInv, SchemaTypes, Process, OneWriter, InTxn, CopyIsPending, Pending,
       SchemaIsItsVersion

(* A rollback: p leaves the transaction and nothing was committed.          *)
LEMMA RollsBack ==
    ASSUME SchemaInv, NEW p \in Opener, InTxn(p), NEW to \in {"away", "open"},
           opening' = [opening EXCEPT ![p].pc = to], writer' = Idle, UNCHANGED db,
           deaths' \in 0..MaxDeath, to = "open" => opening[p].release <= db.version
    PROVE  SchemaInv'
<1> USE DEF SchemaInv
<1>1. SchemaTypes'
  BY DEF SchemaTypes, Process, Idle
<1>2. OneWriter'
  BY SchemaAssumption DEF SchemaTypes, Process, OneWriter, InTxn, Idle
<1>3. CopyIsPending'
  BY DEF SchemaTypes, Process, CopyIsPending, OneWriter, InTxn, Idle
<1>4. SchemaIsItsVersion'
  BY DEF SchemaTypes, Process, SchemaIsItsVersion
<1> QED BY <1>1, <1>2, <1>3, <1>4

LEMMA BeginsInv ==
    ASSUME SchemaInv, NEW p \in Opener, BeginsMigration(p)
    PROVE  SchemaInv'
<1> USE DEF SchemaInv, BeginsMigration, MayBegin
<1>1. SchemaTypes'
  BY DEF SchemaTypes, Process
<1>2. OneWriter'
  BY SchemaAssumption DEF SchemaTypes, Process, OneWriter, InTxn
<1>3. CopyIsPending'
  BY SchemaAssumption DEF SchemaTypes, Process, CopyIsPending, OneWriter, InTxn
<1>4. SchemaIsItsVersion'
  BY DEF SchemaTypes, Process, SchemaIsItsVersion
<1> QED BY <1>1, <1>2, <1>3, <1>4

LEMMA ReadsInv ==
    ASSUME SchemaInv, NEW p \in Opener, ReadsVersion(p)
    PROVE  SchemaInv'
<1> USE DEF SchemaInv
<1>1. InTxn(p) /\ writer.who = p /\ \A q \in Opener : q # p => ~InTxn(q)
  BY DEF ReadsVersion, OneWriter, InTxn
<1>2. writer.copy = db
  BY <1>1 DEF ReadsVersion, CopyIsPending, InTxn
<1>3. CASE VersionSeen(p) >= opening[p].release
  BY <1>1, <1>2, <1>3, RollsBack DEF ReadsVersion, VersionSeen, SchemaTypes, Process, Database
<1>4. CASE ~(VersionSeen(p) >= opening[p].release)
  <2>1. /\ opening' = [opening EXCEPT ![p].pc = "alter", ![p].seen = db.version + 1, ![p].next = 1]
        /\ UNCHANGED <<db, writer, deaths>>
    BY <1>2, <1>4 DEF ReadsVersion, VersionSeen
  <2>2. db.version \in 0..NewestSchema /\ opening[p].release \in 1..NewestSchema
        /\ db.version < opening[p].release
    BY <1>2, <1>4 DEF VersionSeen, SchemaTypes, Process, Database
  <2>3. SchemaTypes'
    <3>1. opening[p] \in Process
      BY DEF SchemaTypes
    <3>2. [opening[p] EXCEPT !.pc = "alter", !.seen = db.version + 1, !.next = 1] \in Process
      <4>1. db.version + 1 \in 0..NewestSchema
        BY <2>2, SchemaAssumption
      <4>2. \A x \in Process : \A k \in 0..NewestSchema :
               [x EXCEPT !.pc = "alter", !.seen = k, !.next = 1] \in Process
        BY DEF Process
      <4> QED BY <3>1, <4>1, <4>2
    <3> QED BY <2>1, <3>2 DEF SchemaTypes, Process
  <2>4. OneWriter'
    BY <1>1, <2>1 DEF OneWriter, InTxn, SchemaTypes, Process
  <2>5. CopyIsPending'
    <3>1. Statements(db.version + 1) \in Nat /\ db.ran[db.version + 1] = 0
      BY <2>2, SchemaAssumption DEF Statements, SchemaIsItsVersion
    <3>2. writer.copy = HasRun(db, db.version + 1, 0)
      BY <3>1, <1>2, <2>2, SchemaAssumption DEF SchemaTypes, Database, HasRun
    <3>3. Pending(p)'
      BY <3>1, <3>2, <2>1, <2>2 DEF Pending, SchemaTypes, Process, Statements
    <3>4. \A q \in Opener : opening'[q].pc = "alter" => q = p
      BY <1>1, <2>1 DEF InTxn, SchemaTypes, Process
    <3>5. opening'[p].pc = "alter"
      BY <2>1 DEF SchemaTypes, Process
    <3> QED BY <3>3, <3>4, <3>5 DEF CopyIsPending
  <2>6. SchemaIsItsVersion'
    BY <2>1 DEF SchemaIsItsVersion, SchemaTypes, Process
  <2> QED BY <2>3, <2>4, <2>5, <2>6
<1> QED BY <1>3, <1>4

(* No statement that has run is met again: the error of a second run is     *)
(* never reached.                                                           *)
LEMMA AltersInv ==
    ASSUME SchemaInv, NEW p \in Opener, Alters(p)
    PROVE  SchemaInv'
<1> DEFINE v == opening[p].seen
           n == opening[p].next
<1> USE DEF SchemaInv
<1>1. InTxn(p) /\ writer.who = p /\ \A q \in Opener : q # p => ~InTxn(q)
  BY DEF Alters, OneWriter, InTxn
<1>2. Pending(p)
  BY DEF Alters, CopyIsPending
<1>3. v \in 1..NewestSchema /\ n \in Nat \ {0} /\ n <= Statements(v) /\ Statements(v) \in Nat
  BY <1>2, SchemaAssumption DEF Alters, Pending, SchemaTypes, Process, Database, Statements
<1>4. writer.copy.ran[v] = n - 1 /\ writer.copy \in Database
  BY <1>2, <1>3 DEF Pending, HasRun, SchemaTypes, Database
<1>5. /\ opening' = [opening EXCEPT ![p].next = n + 1]
      /\ writer' = [writer EXCEPT !.copy.ran[v] = n]
      /\ UNCHANGED <<db, deaths>>
  BY <1>3, <1>4 DEF Alters
<1>6. SchemaTypes'
  <2>1. [opening[p] EXCEPT !.next = n + 1] \in Process
    BY <1>3 DEF SchemaTypes, Process
  <2>2. [writer.copy EXCEPT !.ran[v] = n] \in Database
    BY <1>3, <1>4 DEF Database
  <2>3. writer' = [writer EXCEPT !.copy = [writer.copy EXCEPT !.ran[v] = n]]
    BY <1>5
  <2> QED BY <1>5, <2>1, <2>2, <2>3 DEF SchemaTypes, Process
<1>7. OneWriter'
  BY <1>1, <1>5 DEF OneWriter, InTxn, SchemaTypes, Process
<1>8. CopyIsPending'
  <2>1. writer'.copy = HasRun(db, v, n)
    BY <1>2, <1>3, <1>5 DEF Pending, HasRun, SchemaTypes, Database
  <2>2. /\ opening'[p].pc = "alter" /\ opening'[p].seen = v /\ opening'[p].next = n + 1
        /\ opening'[p].release = opening[p].release
        /\ \A q \in Opener : q # p => opening'[q] = opening[q]
    BY <1>5 DEF SchemaTypes, Process, Alters
  <2>3. Pending(p)'
    BY <1>3, <1>2, <1>5, <2>2, <2>1 DEF Pending, Statements
  <2> QED BY <2>2, <2>3, <1>1 DEF CopyIsPending, InTxn
<1>9. SchemaIsItsVersion'
  BY <1>5 DEF SchemaIsItsVersion, SchemaTypes, Process
<1> QED BY <1>6, <1>7, <1>8, <1>9

LEMMA CommitsInv ==
    ASSUME SchemaInv, NEW p \in Opener, CommitsVersion(p)
    PROVE  SchemaInv'
<1> DEFINE v == opening[p].seen
<1> USE DEF SchemaInv
<1>1. InTxn(p) /\ writer.who = p /\ \A q \in Opener : q # p => ~InTxn(q)
  BY DEF CommitsVersion, OneWriter, InTxn
<1>2. Pending(p)
  BY DEF CommitsVersion, CopyIsPending
<1>3. v \in 1..NewestSchema /\ Statements(v) \in Nat /\ opening[p].next = Statements(v) + 1
      /\ v = db.version + 1
  <2>1. v = db.version + 1 /\ v <= opening[p].release /\ opening[p].next \in 1..Statements(v) + 1
    BY <1>2 DEF Pending
  <2>2. v \in 1..NewestSchema
    BY <2>1, SchemaAssumption DEF SchemaTypes, Process, Database
  <2>3. Statements(v) \in Nat
    BY <2>2, SchemaAssumption DEF Statements
  <2> QED BY <2>1, <2>2, <2>3 DEF CommitsVersion
<1>4. db' = [db EXCEPT !.ran[v] = Statements(v), !.version = v]
  <2>1. writer.copy = [db EXCEPT !.ran[v] = Statements(v)]
    BY <1>3, <1>2 DEF Pending, HasRun
  <2> QED BY <2>1 DEF CommitsVersion, Committed
<1>5. /\ opening' = [opening EXCEPT ![p].pc = "loop"]
      /\ writer' = [who |-> Nobody, copy |-> db'] /\ UNCHANGED deaths
  BY DEF CommitsVersion
<1>6. db' \in Database /\ db'.version = v
      /\ \A u \in 1..NewestSchema : db'.ran[u] = IF u = v THEN Statements(v) ELSE db.ran[u]
  <2>1. db \in Database
    BY DEF SchemaTypes
  <2>2. [db.ran EXCEPT ![v] = Statements(v)] \in [1..NewestSchema -> Nat]
    BY <2>1, <1>3 DEF Database
  <2>3. db' = [version |-> v, ran |-> [db.ran EXCEPT ![v] = Statements(v)]]
    BY <2>1, <1>4 DEF Database
  <2>4. \A u \in 1..NewestSchema : db'.ran[u] = IF u = v THEN Statements(v) ELSE db.ran[u]
    BY <2>1, <2>3 DEF Database
  <2> QED BY <2>2, <2>3, <2>4, <1>3 DEF Database
<1>7. SchemaTypes'
  BY <1>5, <1>6 DEF SchemaTypes, Process
<1>8. OneWriter'
  BY <1>1, <1>5, SchemaAssumption DEF OneWriter, InTxn, SchemaTypes, Process
<1>9. CopyIsPending'
  BY <1>1, <1>5 DEF CopyIsPending, InTxn, SchemaTypes, Process
<1>10. SchemaIsItsVersion'
  <2>1. \A u \in 1..NewestSchema : db'.ran[u] = IF u <= db'.version THEN Statements(u) ELSE 0
    BY <1>3, <1>6 DEF SchemaTypes, Database, SchemaIsItsVersion
  <2>2. ASSUME NEW q \in Opener
        PROVE  opening'[q].pc # "failed" /\ (opening'[q].pc = "open" => opening'[q].release <= db'.version)
    BY <1>3, <1>5, <1>6 DEF SchemaIsItsVersion, SchemaTypes, Process, Database
  <2> QED BY <2>1, <2>2 DEF SchemaIsItsVersion, Statements
<1> QED BY <1>7, <1>8, <1>9, <1>10

LEMMA DiesInv ==
    ASSUME SchemaInv, NEW p \in Opener, DiesMigrating(p)
    PROVE  SchemaInv'
<1>1. deaths' \in 0..MaxDeath
  BY SchemaAssumption DEF DiesMigrating, SchemaInv, SchemaTypes
<1>2. CASE writer.who = p
  BY <1>2, <1>1, RollsBack DEF SchemaInv, OneWriter, DiesMigrating
<1>3. CASE writer.who # p
  BY <1>3, <1>1, StaysOutside DEF SchemaInv, OneWriter, DiesMigrating, SchemaTypes, Process
<1> QED BY <1>2, <1>3

LEMMA OpensInv ==
    ASSUME SchemaInv, NEW p \in Opener, OpensDb(p)
    PROVE  SchemaInv'
BY StaysOutside DEF OpensDb, InTxn, SchemaInv, SchemaTypes, Process, Database

LEMMA BusyInv ==
    ASSUME SchemaInv, NEW p \in Opener, TooBusy(p)
    PROVE  SchemaInv'
BY StaysOutside DEF TooBusy, InTxn, SchemaInv, SchemaTypes, Process

(* Opening the database, whatever the other processes do and wherever they  *)
(* die: the transaction of the writer holds the committed schema and a      *)
(* prefix of the next version, everybody else holds nothing.                *)
THEOREM SchemaInvariant == SchemaSpec => []SchemaInv
<1>1. SchemaInv /\ [SchemaNext]_schemaVars => SchemaInv'
  BY OpensInv, BeginsInv, BusyInv, ReadsInv, AltersInv, CommitsInv, DiesInv DEF schemaVars,
         SchemaInv, SchemaTypes, Process, OneWriter, InTxn, CopyIsPending, Pending,
         SchemaIsItsVersion, SchemaNext
<1> QED BY <1>1, SchemaInitInv, PTL DEF SchemaSpec

(* Each version is applied once, whole and in order, and no process fails   *)
(* on a statement another process has run (init_db, migrate, BUG-294).      *)
THEOREM SchemaStaysSafe == SchemaSpec => []SchemaIsSafe
<1>1. SchemaInv => SchemaIsSafe
  BY DEF SchemaInv, SchemaTypes, Database, SchemaIsSafe, SchemaTypeOK
<1> QED BY <1>1, SchemaInvariant, PTL

(***************************************************************************)
(* The daemon's process.                                                   *)
(***************************************************************************)
Pids     == 0..MaxWatcher
LifeOf   == {"none", "born", "open", "locked", "up", "ending", "dead"}
Intents  == [there : BOOLEAN, on : BOOLEAN, pid : Pids]
OnSteps  == {"lock", "clear", "look", "spawn", "wait", "unlock"}
OffSteps == {"term", "unlink", "note"}
Duties   == [pc : {"idle"} \cup OnSteps \cup OffSteps, job : {"none", "on", "off", "stop"},
             copy : Intents, pid : Pids]

DaemonTypes ==
    /\ dst \in Intents
    /\ path \in Inode \cup {0} /\ text \in [Inode -> Pids] /\ flock \in [Inode -> Pids]
    /\ watcher \in [Watcher -> [s : LifeOf, node : Inode \cup {0}]]
    /\ onLock \in Operator \cup {NoStarter, DeadStarter}
    /\ duty \in [Operator -> Duties]
    /\ dgh \in [crossed : BOOLEAN] /\ spentDaemon \in [duties : Nat, wrecks : Nat]

(* A lock file names its holder; one with a name in it was opened by a       *)
(* watcher, and only watchers that were born have opened one.                *)
LockNames ==
    /\ \A p \in Watcher : watcher[p].s \in {"none", "born"} => watcher[p].node = 0
    /\ \A i \in Inode :
        /\ flock[i] # 0 => text[i] = flock[i]
        /\ text[i] # 0 => \E p \in Watcher : watcher[p].node = i

JobOfStep ==
    \A c \in Operator :
        /\ duty[c].pc = "idle" => duty[c].job = "none"
        /\ duty[c].pc \in OnSteps => duty[c].job = "on"
        /\ duty[c].pc \in OffSteps => duty[c].job \in {"off", "stop"}

(* The watchers that are on the way up, and those that work. *)
Starting == {p \in Watcher : watcher[p].s \in {"born", "open", "locked"}}
Up       == {p \in Watcher : watcher[p].s = "up"}

(* While no start overlapped: a watcher's lock is on the file the path names, and *)
(* the record names the watcher. *)
LocksFound ==
    \A p \in Watcher :
        /\ watcher[p].s \in {"open", "locked", "up"} => path # 0 /\ watcher[p].node = path
        /\ watcher[p].s \in {"locked", "up"} => flock[watcher[p].node] = p
        /\ watcher[p].s = "up" => dst.pid = p

(* Between look and the end of the wait the start lock is held; of the watchers only the *)
(* one that is waited for may be alive. *)
StartsAlone ==
    \A c \in Operator :
        /\ duty[c].pc \in {"look", "spawn", "wait", "unlock"} => onLock = c
        /\ duty[c].pc = "wait" => Starting \cup Up \subseteq {duty[c].pid}

(* An off is the only command; nobody is on the way up, and nobody is up when it unlinks. *)
OffAlone ==
    \A c \in Operator :
        duty[c].job \in {"off", "stop"} =>
            /\ \A d \in Operator \ {c} : duty[d].pc = "idle"
            /\ Starting = {}
            /\ duty[c].pc = "term" => Up \subseteq {duty[c].copy.pid}
            /\ duty[c].pc \in {"unlink", "note"} => Up = {}

NoOverlap == LocksFound /\ StartsAlone /\ OffAlone

DaemonInv == DaemonTypes /\ LockNames /\ JobOfStep /\ (~dgh.crossed => NoOverlap)

(***************************************************************************)
(* Lemmas about the operators.                                             *)
(***************************************************************************)

(* There are more inodes than watchers, so a file that is created finds one. *)
LEMMA FreshIsThere ==
    ASSUME DaemonTypes, LockNames, path = 0
    PROVE  FreshNode \in Inode
<1> DEFINE nodes == {watcher[q].node : q \in Watcher}
<1>1. IsFiniteSet(Watcher) /\ Cardinality(Watcher) = MaxWatcher
  BY FS_Interval, DaemonAssumption DEF Watcher
<1>2. IsFiniteSet(Inode) /\ Cardinality(Inode) = MaxWatcher + 1
  BY FS_Interval, DaemonAssumption DEF Inode
<1>3. IsFiniteSet(nodes) /\ Cardinality(nodes) <= MaxWatcher
  <2> DEFINE nodeOf == [q \in Watcher |-> watcher[q].node]
  <2>1. nodeOf \in Surjection(Watcher, nodes)
    BY DEF Surjection
  <2> HIDE DEF nodeOf, nodes
  <2> QED BY <1>1, <2>1, FS_Surjection
<1>4. ~(Inode \subseteq nodes)
  BY <1>3, FS_Subset, FS_CardinalityType, <1>2, DaemonAssumption
<1>5. PICK i \in Inode : \A q \in Watcher : watcher[q].node # i
  BY <1>4
<1>6. i # 0 /\ text[i] = 0 /\ flock[i] = 0
  BY <1>5 DEF LockNames, Inode
<1>7. Unused(i)
  BY <1>5, <1>6 DEF Unused
<1> QED BY <1>7 DEF FreshNode

(* The pid of the lock is that of its live holder. *)
LEMMA PidOfLock ==
    ASSUME DaemonTypes
    PROVE  /\ LockPid \in Pids
           /\ LockNames /\ LocksFound =>
                \A p \in Watcher : watcher[p].s \in {"locked", "up"} => LockPid = p
BY DaemonAssumption DEF LockPid, DaemonTypes, Pids, LocksFound, Watcher, LockNames, IsAlive

(* No watcher is process 0. *)
LEMMA WatchersHavePids == Watcher \subseteq Pids /\ 0 \in Pids /\ 0 \notin Watcher
BY DaemonAssumption DEF Watcher, Pids

(* A watcher changes its state alone. *)
LEMMA BecomesOne ==
    ASSUME DaemonTypes, NEW p \in Watcher, NEW s \in LifeOf, Becomes(p, s)
    PROVE  /\ watcher' \in [Watcher -> [s : LifeOf, node : Inode \cup {0}]]
           /\ watcher'[p].s = s /\ \A q \in Watcher : watcher'[q].node = watcher[q].node
           /\ \A q \in Watcher : q # p => watcher'[q] = watcher[q]
BY DEF DaemonTypes, Becomes

(* A command changes its own record. *)
LEMMA DutyOne ==
    ASSUME DaemonTypes, NEW c \in Operator, NEW d \in Duties, NowAt(c, d)
    PROVE  /\ duty' \in [Operator -> Duties] /\ duty'[c] = d
           /\ \A e \in Operator : e # c => duty'[e] = duty[e]
BY DEF DaemonTypes, NowAt

(* Spending keeps the counts. *)
LEMMA SpendsDaemon ==
    ASSUME DaemonTypes, Wreck \/ Usual
    PROVE  spentDaemon' \in [duties : Nat, wrecks : Nat]
BY DEF DaemonTypes, Wreck, Usual

(* The record of a daemon that is to run. *)
LEMMA RunsAs ==
    ASSUME NEW n \in Pids, dst' = [there |-> TRUE, on |-> TRUE, pid |-> n]
    PROVE  dst' \in Intents /\ dst'.pid = n
BY DEF Intents

(* The record that is not there, and the command that is not given. *)
LEMMA DutyRecords ==
    /\ NoDst \in Intents /\ NoDuty \in Duties
    /\ NoDuty.pc = "idle" /\ NoDuty.job = "none"
BY WatchersHavePids DEF NoDst, Intents, NoDuty, Duties

(***************************************************************************)
(* Steps that leave the commands alone: the watchers.                      *)
(***************************************************************************)

(* What the watchers do keeps the commands' part when nobody new is on the   *)
(* way up and nobody new is up but one that was on its way.                  *)
LEMMA CommandsUndisturbed ==
    ASSUME UNCHANGED <<duty, onLock>>,
           Starting' \subseteq Starting, Up' \subseteq Up \cup Starting
    PROVE  /\ JobOfStep => JobOfStep'
           /\ StartsAlone => StartsAlone'
           /\ OffAlone => OffAlone'
BY DEF JobOfStep, StartsAlone, OffAlone

(* Opening the lock file creates it when the path names none. *)
LEMMA OpenLockKeeps ==
    ASSUME DaemonInv, NEW p \in Watcher, OpenLock(p)
    PROVE  DaemonInv'
BY FreshIsThere, DaemonAssumption, CommandsUndisturbed DEF DaemonInv, OpenLock, Usual,
       DaemonTypes, LifeOf, LockNames, Inode, Starting, Up, LocksFound, NoOverlap

(* The lock is taken when nobody has it; whoever does not get it ends. *)
LEMMA TakeRunLockKeeps ==
    ASSUME DaemonInv, NEW p \in Watcher, TakeRunLock(p)
    PROVE  DaemonInv'
<1> USE DEF DaemonInv
<1> DEFINE i == watcher[p].node
<1>1. /\ UNCHANGED <<dst, path, onLock, duty, dgh, spentDaemon>>
      /\ watcher[p].s = "open" /\ i \in Inode \cup {0}
  BY DEF TakeRunLock, Usual, DaemonTypes
<1>2. CASE LockIsFree(i)
  <2>1. /\ flock' = [flock EXCEPT ![i] = p] /\ text' = [text EXCEPT ![i] = p]
        /\ Becomes(p, "locked")
    BY <1>2 DEF TakeRunLock
  <2>2. /\ watcher' \in [Watcher -> [s : LifeOf, node : Inode \cup {0}]]
        /\ watcher'[p].s = "locked" /\ \A q \in Watcher : watcher'[q].node = watcher[q].node
        /\ \A q \in Watcher : q # p => watcher'[q] = watcher[q]
    BY <2>1, BecomesOne DEF LifeOf
  <2>3. DaemonTypes'
    BY <1>1, <2>1, <2>2, WatchersHavePids DEF DaemonTypes
  <2>4. LockNames'
    <3>1. \A j \in Inode : (flock'[j] # 0 => text'[j] = flock'[j])
      BY <2>1 DEF LockNames, DaemonTypes
    <3>2. \A j \in Inode : text'[j] # 0 => \E q \in Watcher : watcher'[q].node = j
      BY <2>1, <2>2 DEF LockNames, DaemonTypes
    <3>3. \A q \in Watcher : watcher'[q].s \in {"none", "born"} => watcher'[q].node = 0
      BY <2>2 DEF LockNames
    <3> QED BY <3>1, <3>2, <3>3 DEF LockNames
  <2>5. Starting' \subseteq Starting /\ Up' \subseteq Up
    BY <1>1, <2>2 DEF Starting, Up
  <2>6. ASSUME LocksFound PROVE LocksFound'
    BY <1>1, <1>2, <2>6, WatchersHavePids, <2>1, <2>2 DEF LocksFound, DaemonTypes, LockIsFree
  <2> QED BY <1>1, <2>3, <2>4, <2>5, <2>6, CommandsUndisturbed DEF NoOverlap
<1>3. CASE ~LockIsFree(i)
  <2>1. Becomes(p, "dead") /\ UNCHANGED <<flock, text>>
    BY <1>3 DEF TakeRunLock
  <2>2. /\ watcher' \in [Watcher -> [s : LifeOf, node : Inode \cup {0}]]
        /\ watcher'[p].s = "dead" /\ \A q \in Watcher : watcher'[q].node = watcher[q].node
        /\ \A q \in Watcher : q # p => watcher'[q] = watcher[q]
    BY <2>1, BecomesOne DEF LifeOf
  <2>3. DaemonTypes'
    BY <1>1, <2>1, <2>2 DEF DaemonTypes
  <2>4. LockNames'
    BY <2>1, <2>2 DEF LockNames
  <2>5. Starting' \subseteq Starting /\ Up' \subseteq Up
    BY <1>1, <2>2 DEF Starting, Up
  <2>6. ASSUME LocksFound PROVE LocksFound'
    BY <1>1, <2>1, <2>2, <2>6 DEF LocksFound
  <2> QED BY <1>1, <2>3, <2>4, <2>5, <2>6, CommandsUndisturbed DEF NoOverlap
<1> QED BY <1>2, <1>3

(* The holder of the lock writes its own pid. *)
LEMMA NotePidUpKeeps ==
    ASSUME DaemonInv, NEW p \in Watcher, NotePidUp(p)
    PROVE  DaemonInv'
BY BecomesOne, WatchersHavePids, CommandsUndisturbed DEF DaemonInv, NotePidUp, Usual, runFiles,
       LifeOf, Intents, DaemonTypes, LockNames, Starting, Up, LocksFound, NoOverlap

(* A watcher that is gone gives its locks back; the others keep theirs. *)
LEMMA GoneKeeps ==
    ASSUME DaemonTypes, NEW p \in Watcher, Becomes(p, "dead"),
           flock' = [i \in Inode |-> IF flock[i] = p THEN 0 ELSE flock[i]],
           UNCHANGED <<dst, path, text>>, watcher[p].s # "none"
    PROVE  /\ flock' \in [Inode -> Pids]
           /\ watcher' \in [Watcher -> [s : LifeOf, node : Inode \cup {0}]]
           /\ watcher'[p].s = "dead" /\ \A q \in Watcher : q # p => watcher'[q] = watcher[q]
           /\ LockNames => LockNames'
           /\ Starting' = Starting \ {p} /\ Up' = Up \ {p}
           /\ LocksFound => LocksFound'
<1>1. flock' \in [Inode -> Pids]
  BY WatchersHavePids DEF DaemonTypes
<1>2. /\ watcher' \in [Watcher -> [s : LifeOf, node : Inode \cup {0}]]
      /\ watcher'[p].s = "dead" /\ \A q \in Watcher : watcher'[q].node = watcher[q].node
      /\ \A q \in Watcher : q # p => watcher'[q] = watcher[q]
  BY BecomesOne DEF LifeOf
<1>3. ASSUME LockNames PROVE LockNames'
  BY <1>2, <1>3 DEF LockNames
<1>4. Starting' = Starting \ {p} /\ Up' = Up \ {p}
  BY <1>2 DEF Starting, Up
<1>5. ASSUME LocksFound PROVE LocksFound'
  BY <1>2, <1>5 DEF LocksFound, DaemonTypes
<1> QED BY <1>1, <1>2, <1>3, <1>4, <1>5

LEMMA WatcherGoesKeeps ==
    ASSUME DaemonInv, NEW p \in Watcher, WatcherEnds(p) \/ WatcherKilled(p)
    PROVE  DaemonInv'
BY GoneKeeps, SpendsDaemon, CommandsUndisturbed DEF DaemonInv, WatcherEnds, WatcherKilled,
       IsAlive, DaemonTypes, NoOverlap

(* The unit starts a watcher; beside a command that is an overlap. *)
LEMMA UnitStartsKeeps ==
    ASSUME DaemonInv, UnitStartsWatcher
    PROVE  DaemonInv'
<1> USE DEF DaemonInv
<1> DEFINE p == NextBorn
           busy == \E d \in Operator : duty[d].pc # "idle"
<1>1. /\ UNCHANGED <<dst, path, text, flock, onLock, duty>> /\ Wreck
      /\ Becomes(p, "born") /\ dgh' = [crossed |-> dgh.crossed \/ busy]
      /\ p \in Watcher /\ watcher[p].s = "none"
  BY DEF UnitStartsWatcher, runFiles, NextBorn, Unborn
<1> HIDE DEF p
<1>2. /\ watcher' \in [Watcher -> [s : LifeOf, node : Inode \cup {0}]]
      /\ watcher'[p].s = "born" /\ \A q \in Watcher : watcher'[q].node = watcher[q].node
      /\ \A q \in Watcher : q # p => watcher'[q] = watcher[q]
  BY <1>1, BecomesOne DEF LifeOf
<1>3. dgh' \in [crossed : BOOLEAN] /\ dgh'.crossed = (dgh.crossed \/ busy)
  BY <1>1 DEF DaemonTypes
<1>4. DaemonTypes'
  BY <1>1, <1>2, <1>3, SpendsDaemon DEF DaemonTypes
<1>5. LockNames' /\ JobOfStep'
  BY <1>1, <1>2 DEF LockNames, JobOfStep
<1>6. ASSUME ~dgh.crossed, ~busy PROVE NoOverlap'
  BY <1>1, <1>2, <1>6 DEF NoOverlap, LocksFound, JobOfStep, StartsAlone, OffAlone
<1> QED BY <1>3, <1>4, <1>5, <1>6

(***************************************************************************)
(* The commands.                                                           *)
(***************************************************************************)

(* A step of a command that leaves the watchers, their locks and the record's *)
(* pid alone.                                                                 *)
LEMMA WatchersUndisturbed ==
    ASSUME UNCHANGED <<path, text, flock, watcher>>
    PROVE  /\ LockNames => LockNames'
           /\ Starting' = Starting /\ Up' = Up
           /\ LocksFound /\ dst'.pid = dst.pid => LocksFound'
BY DEF LockNames, Starting, Up, LocksFound

(* An on begins; beside an off that is an overlap. *)
LEMMA BeginOnKeeps ==
    ASSUME DaemonInv, NEW c \in Operator, BeginOn(c)
    PROVE  DaemonInv'
<1> USE DEF DaemonInv
<1> DEFINE d == [NoDuty EXCEPT !.pc = "lock", !.job = "on"]
           off == \E e \in Operator : duty[e].job \in {"off", "stop"}
<1>1. /\ UNCHANGED <<dst, path, text, flock, watcher, onLock>>
      /\ duty[c].pc = "idle" /\ NowAt(c, d)
      /\ spentDaemon' = [spentDaemon EXCEPT !.duties = @ + 1]
      /\ dgh' = [crossed |-> dgh.crossed \/ off]
  BY DEF BeginOn, BeginDuty, runFiles
<1>2. d \in Duties /\ d.pc = "lock" /\ d.job = "on"
  BY DutyRecords DEF Duties, NoDuty, OnSteps
<1> HIDE DEF d
<1>3. /\ duty' \in [Operator -> Duties] /\ duty'[c] = d
      /\ \A e \in Operator : e # c => duty'[e] = duty[e]
  BY <1>1, <1>2, DutyOne
<1>4. dgh' \in [crossed : BOOLEAN] /\ dgh'.crossed = (dgh.crossed \/ off)
  BY <1>1 DEF DaemonTypes
<1>5. spentDaemon' \in [duties : Nat, wrecks : Nat]
  BY <1>1 DEF DaemonTypes
<1>6. DaemonTypes'
  BY <1>1, <1>3, <1>4, <1>5 DEF DaemonTypes
<1>7. LockNames' /\ JobOfStep'
  BY <1>1, <1>2, <1>3, WatchersUndisturbed DEF JobOfStep, OffSteps
<1>8. ASSUME ~dgh.crossed, ~off PROVE NoOverlap'
  BY <1>1, <1>8, WatchersUndisturbed, <1>2, <1>3 DEF NoOverlap, StartsAlone, OffAlone
<1> QED BY <1>4, <1>6, <1>7, <1>8

(* Beside an on that is under way there is no off. *)
LEMMA OnIsNoOff ==
    ASSUME JobOfStep, OffAlone, NEW c \in Operator, duty[c].pc \in OnSteps,
           \A e \in Operator : e # c => duty'[e] = duty[e], duty'[c].job \in {"none", "on"}
    PROVE  OffAlone'
BY DEF JobOfStep, OffAlone, OnSteps

(* The next step of an on, and the end of a command. *)
LEMMA NextOnStep ==
    ASSUME DaemonTypes, NEW c \in Operator, duty[c].job = "on", NEW s \in OnSteps,
           NowAt(c, [duty[c] EXCEPT !.pc = s])
    PROVE  /\ duty' \in [Operator -> Duties]
           /\ duty'[c].pc = s /\ duty'[c].job = "on" /\ duty'[c].pid = duty[c].pid
           /\ \A e \in Operator : e # c => duty'[e] = duty[e]
           /\ JobOfStep => JobOfStep'
BY DutyOne DEF DaemonTypes, Duties, JobOfStep, OnSteps, OffSteps

LEMMA CommandOver ==
    ASSUME DaemonTypes, NEW c \in Operator, Over(c)
    PROVE  /\ duty' \in [Operator -> Duties]
           /\ duty'[c].pc = "idle" /\ duty'[c].job = "none"
           /\ \A e \in Operator : e # c => duty'[e] = duty[e]
           /\ JobOfStep => JobOfStep'
BY DutyRecords, DutyOne DEF Over, JobOfStep, OnSteps, OffSteps

(* The start lock is free or taken, or its file was left by a dead command. *)
LEMMA TakeOnLockKeeps ==
    ASSUME DaemonInv, NEW c \in Operator, TakeOnLock(c)
    PROVE  DaemonInv'
<1> USE DEF DaemonInv
<1>1. /\ UNCHANGED <<dst, path, text, flock, watcher, dgh>>
      /\ duty[c].pc = "lock" /\ duty[c].pc \in OnSteps /\ duty[c].job = "on"
  BY DEF TakeOnLock, runFiles, OnSteps, JobOfStep
<1>2. LockNames' /\ Starting' = Starting /\ Up' = Up /\ (LocksFound => LocksFound')
  BY <1>1, WatchersUndisturbed
<1>3. CASE /\ onLock = NoStarter /\ onLock' = c /\ Usual
           /\ NowAt(c, [duty[c] EXCEPT !.pc = "look"])
  <2>1. /\ duty' \in [Operator -> Duties]
        /\ duty'[c].pc = "look" /\ duty'[c].job = "on"
        /\ \A e \in Operator : e # c => duty'[e] = duty[e]
        /\ JobOfStep'
    BY <1>1, <1>3, NextOnStep DEF OnSteps
  <2>2. DaemonTypes'
    BY <1>1, <1>3, <2>1, SpendsDaemon DEF DaemonTypes
  <2>3. ASSUME NoOverlap PROVE NoOverlap'
    BY <1>3, DaemonAssumption, <1>2, <2>1, <2>3, <1>1, OnIsNoOff DEF NoStarter, NoOverlap,
           StartsAlone
  <2> QED BY <1>1, <1>2, <2>1, <2>2, <2>3
<1>4. CASE /\ onLock = DeadStarter /\ UNCHANGED onLock /\ Usual
           /\ NowAt(c, [duty[c] EXCEPT !.pc = "clear"])
  <2>1. /\ duty' \in [Operator -> Duties]
        /\ duty'[c].pc = "clear" /\ duty'[c].job = "on"
        /\ \A e \in Operator : e # c => duty'[e] = duty[e]
        /\ JobOfStep'
    BY <1>1, <1>4, NextOnStep DEF OnSteps
  <2>2. DaemonTypes'
    BY <1>1, <1>4, <2>1, SpendsDaemon DEF DaemonTypes
  <2>3. ASSUME NoOverlap PROVE NoOverlap'
    BY <1>2, <1>4, <2>1, <2>3, <1>1, OnIsNoOff DEF NoOverlap, StartsAlone
  <2> QED BY <1>1, <1>2, <2>1, <2>2, <2>3
<1>5. CASE onLock \in Operator /\ Over(c) /\ UNCHANGED onLock /\ Wreck
  BY <1>5, CommandOver, <1>1, SpendsDaemon, <1>2, OnIsNoOff DEF DaemonTypes, NoOverlap,
         StartsAlone
<1> QED BY <1>3, <1>4, <1>5 DEF TakeOnLock

(* A start lock that is removed while it is held is an overlap. *)
LEMMA ClearOnLockKeeps ==
    ASSUME DaemonInv, NEW c \in Operator, ClearOnLock(c)
    PROVE  DaemonInv'
<1> USE DEF DaemonInv
<1> DEFINE taken == onLock \in Operator
<1>1. /\ UNCHANGED <<dst, path, text, flock, watcher>>
      /\ duty[c].pc = "clear" /\ duty[c].pc \in OnSteps /\ duty[c].job = "on"
      /\ onLock' = NoStarter /\ NowAt(c, [duty[c] EXCEPT !.pc = "lock"])
      /\ dgh' = [crossed |-> dgh.crossed \/ taken] /\ Usual
  BY DEF ClearOnLock, runFiles, OnSteps, JobOfStep
<1>2. LockNames' /\ Starting' = Starting /\ Up' = Up /\ (LocksFound => LocksFound')
  BY <1>1, WatchersUndisturbed
<1>3. /\ duty' \in [Operator -> Duties]
      /\ duty'[c].pc = "lock" /\ duty'[c].job = "on"
      /\ \A e \in Operator : e # c => duty'[e] = duty[e]
      /\ JobOfStep'
  BY <1>1, NextOnStep DEF OnSteps
<1>4. dgh' \in [crossed : BOOLEAN] /\ dgh'.crossed = (dgh.crossed \/ taken)
  BY <1>1 DEF DaemonTypes
<1>5. DaemonTypes'
  BY <1>1, <1>3, <1>4, SpendsDaemon DEF DaemonTypes
<1>6. ASSUME NoOverlap, ~taken PROVE NoOverlap'
  BY <1>6, <1>3, <1>1, OnIsNoOff, <1>2 DEF NoOverlap, StartsAlone
<1> QED BY <1>2, <1>3, <1>4, <1>5, <1>6

(* The command looks whether a watcher runs and notes the one it finds. *)
LEMMA LookForWatcherKeeps ==
    ASSUME DaemonInv, NEW c \in Operator, LookForWatcher(c)
    PROVE  DaemonInv'
<1> USE DEF DaemonInv
<1>1. /\ UNCHANGED <<path, text, flock, watcher, onLock, dgh>> /\ Usual
      /\ duty[c].pc = "look" /\ duty[c].pc \in OnSteps /\ duty[c].job = "on"
  BY DEF LookForWatcher, runFiles, OnSteps, JobOfStep
<1>2. LockNames' /\ Starting' = Starting /\ Up' = Up
  BY <1>1, WatchersUndisturbed
<1>3. PICK s \in {"unlock", "spawn"} : NowAt(c, [duty[c] EXCEPT !.pc = s])
  BY DEF LookForWatcher
<1>4. /\ duty' \in [Operator -> Duties]
      /\ duty'[c].pc = s /\ duty'[c].job = "on"
      /\ \A e \in Operator : e # c => duty'[e] = duty[e]
      /\ JobOfStep'
  BY <1>1, <1>3, NextOnStep DEF OnSteps
<1>5. /\ dst' \in Intents
      /\ dst'.pid = dst.pid \/ (LockPid # 0 /\ dst'.pid = LockPid)
  BY PidOfLock, RunsAs DEF LookForWatcher, DaemonTypes, Intents
<1>6. DaemonTypes'
  BY <1>1, <1>4, <1>5, SpendsDaemon DEF DaemonTypes
<1>7. ASSUME NoOverlap PROVE NoOverlap'
  BY <1>7, PidOfLock, <1>5, <1>1, <1>2, <1>4, OnIsNoOff DEF NoOverlap, LocksFound, StartsAlone
<1> QED BY <1>1, <1>2, <1>4, <1>6, <1>7

(* A watcher is spawned; beside one that is alive that is an overlap. *)
LEMMA SpawnWatcherKeeps ==
    ASSUME DaemonInv, NEW c \in Operator, SpawnWatcher(c)
    PROVE  DaemonInv'
<1> USE DEF DaemonInv
<1> DEFINE p == NextBorn
           beside == \E q \in Watcher : IsAlive(q)
           d == [duty[c] EXCEPT !.pc = "wait", !.pid = p]
<1>1. /\ UNCHANGED <<path, text, flock, onLock>> /\ Usual
      /\ duty[c].pc = "spawn" /\ duty[c].pc \in OnSteps /\ duty[c].job = "on"
      /\ Becomes(p, "born") /\ NowAt(c, d) /\ p \in Watcher /\ watcher[p].s = "none"
      /\ dst' = [there |-> TRUE, on |-> TRUE, pid |-> p]
      /\ dgh' = [crossed |-> dgh.crossed \/ beside]
  BY DEF SpawnWatcher, runFiles, OnSteps, JobOfStep, NextBorn, Unborn
<1> HIDE DEF p
<1>2. /\ watcher' \in [Watcher -> [s : LifeOf, node : Inode \cup {0}]]
      /\ watcher'[p].s = "born" /\ \A q \in Watcher : watcher'[q].node = watcher[q].node
      /\ \A q \in Watcher : q # p => watcher'[q] = watcher[q]
  BY <1>1, BecomesOne DEF LifeOf
<1>3. d \in Duties /\ d.pc = "wait" /\ d.job = "on" /\ d.pid = p
  BY <1>1, WatchersHavePids DEF DaemonTypes, Duties, OnSteps
<1> HIDE DEF d
<1>4. /\ duty' \in [Operator -> Duties] /\ duty'[c] = d
      /\ \A e \in Operator : e # c => duty'[e] = duty[e]
  BY <1>1, <1>3, DutyOne
<1>5. dgh' \in [crossed : BOOLEAN] /\ dgh'.crossed = (dgh.crossed \/ beside)
  BY <1>1 DEF DaemonTypes
<1>6. dst' \in Intents
  BY <1>1, WatchersHavePids DEF Intents
<1>7. DaemonTypes'
  BY <1>1, <1>2, <1>4, <1>5, <1>6, SpendsDaemon DEF DaemonTypes
<1>8. LockNames'
  BY <1>1, <1>2 DEF LockNames
<1>9. JobOfStep'
  BY <1>3, <1>4 DEF JobOfStep, OnSteps, OffSteps
<1>10. ASSUME NoOverlap, ~beside PROVE NoOverlap'
  BY <1>10, WatchersHavePids, <1>2, <1>1, <1>3, <1>4, OnIsNoOff DEF IsAlive, Starting, Up,
         LocksFound, NoOverlap, StartsAlone
<1> QED BY <1>5, <1>7, <1>8, <1>9, <1>10

(* The wait ends with the child's pid, or with none and a child that is to end. *)
LEMMA WaitForWatcherKeeps ==
    ASSUME DaemonInv, NEW c \in Operator, WaitForWatcher(c)
    PROVE  DaemonInv'
<1> USE DEF DaemonInv
<1> DEFINE p == duty[c].pid
<1>1. /\ UNCHANGED <<path, text, flock, onLock, dgh>> /\ (Wreck \/ Usual)
      /\ duty[c].pc = "wait" /\ duty[c].pc \in OnSteps /\ duty[c].job = "on"
      /\ NowAt(c, [duty[c] EXCEPT !.pc = "unlock"]) /\ p \in Pids
      /\ UNCHANGED watcher \/ (IsAlive(p) /\ Becomes(p, "ending"))
  BY DEF WaitForWatcher, runFiles, OnSteps, JobOfStep, DaemonTypes, Duties
<1>2. /\ dst' \in Intents
      /\ \/ LockPid = p /\ dst'.pid = p /\ UNCHANGED watcher
         \/ LockPid # p /\ dst'.pid = 0
  BY <1>1, RunsAs, WatchersHavePids DEF WaitForWatcher
<1>3. /\ duty' \in [Operator -> Duties]
      /\ duty'[c].pc = "unlock" /\ duty'[c].job = "on"
      /\ \A e \in Operator : e # c => duty'[e] = duty[e]
      /\ JobOfStep'
  BY <1>1, NextOnStep DEF OnSteps
<1>4. /\ watcher' \in [Watcher -> [s : LifeOf, node : Inode \cup {0}]]
      /\ \A q \in Watcher : /\ watcher'[q].node = watcher[q].node
                            /\ watcher'[q] = watcher[q]
                               \/ (watcher'[q].s = "ending" /\ watcher[q].s \notin {"none", "dead"})
  <2>1. CASE UNCHANGED watcher
    BY <2>1 DEF DaemonTypes
  <2>2. CASE IsAlive(p) /\ Becomes(p, "ending")
    BY <1>1, <2>2, BecomesOne DEF IsAlive, Pids, Watcher, LifeOf
  <2> QED BY <1>1, <2>1, <2>2
<1>5. DaemonTypes'
  BY <1>1, <1>2, <1>3, <1>4, SpendsDaemon DEF DaemonTypes
<1>6. LockNames'
  BY <1>1, <1>4 DEF LockNames
<1>7. Starting' \subseteq Starting /\ Up' \subseteq Up
  BY <1>4 DEF Starting, Up
<1>8. ASSUME NoOverlap PROVE NoOverlap'
  BY <1>1, <1>8, PidOfLock, <1>2, <1>4, <1>3, <1>7, OnIsNoOff DEF NoOverlap, StartsAlone, Up,
         LocksFound
<1> QED BY <1>1, <1>3, <1>5, <1>6, <1>8

(* The start lock is given back by its holder. *)
LEMMA GiveOnLockKeeps ==
    ASSUME DaemonInv, NEW c \in Operator, GiveOnLock(c)
    PROVE  DaemonInv'
BY WatchersUndisturbed, CommandOver, SpendsDaemon, OnIsNoOff DEF DaemonInv, GiveOnLock, runFiles,
       OnSteps, DaemonTypes, NoOverlap, StartsAlone

(* An off begins; beside another command or a watcher on its way up that is an overlap. *)
LEMMA BeginOffKeeps ==
    ASSUME DaemonInv, NEW c \in Operator, BeginOff(c)
    PROVE  DaemonInv'
<1> USE DEF DaemonInv
<1> DEFINE beside == Crosses(c) \/ \E p \in Watcher : watcher[p].s \in {"born", "open", "locked"}
<1>1. PICK job \in {"off", "stop"} :
        /\ dst' = IF job = "off" THEN [dst EXCEPT !.on = FALSE] ELSE dst
        /\ BeginDuty(c, [pc |-> "term", job |-> job, pid |-> 0, copy |-> dst'])
  BY DEF BeginOff
<1> DEFINE d == [pc |-> "term", job |-> job, pid |-> 0, copy |-> dst']
<1>2. /\ UNCHANGED <<path, text, flock, watcher, onLock>>
      /\ dgh' = [crossed |-> dgh.crossed \/ beside]
  BY DEF BeginOff, runFiles
<1>3. dst' \in Intents /\ dst'.pid = dst.pid
  BY <1>1 DEF DaemonTypes, Intents
<1>4. d \in Duties /\ d.pc = "term" /\ d.job = job /\ d.copy.pid = dst.pid
  BY <1>3, WatchersHavePids DEF Duties, OffSteps
<1>5. NowAt(c, d) /\ spentDaemon' = [spentDaemon EXCEPT !.duties = @ + 1]
  BY <1>1 DEF BeginDuty
<1> HIDE DEF d
<1>6. /\ duty' \in [Operator -> Duties] /\ duty'[c] = d
      /\ \A e \in Operator : e # c => duty'[e] = duty[e]
  BY <1>4, <1>5, DutyOne
<1>7. dgh' \in [crossed : BOOLEAN] /\ dgh'.crossed = (dgh.crossed \/ beside)
  BY <1>2 DEF DaemonTypes
<1>8. spentDaemon' \in [duties : Nat, wrecks : Nat]
  BY <1>5 DEF DaemonTypes
<1>9. DaemonTypes'
  BY <1>2, <1>3, <1>6, <1>7, <1>8 DEF DaemonTypes
<1>10. LockNames' /\ Starting' = Starting /\ Up' = Up /\ (LocksFound => LocksFound')
  BY <1>2, <1>3, WatchersUndisturbed
<1>11. JobOfStep'
  BY <1>4, <1>6 DEF JobOfStep, OnSteps, OffSteps
<1>12. ASSUME NoOverlap, ~beside PROVE NoOverlap'
  BY <1>6, <1>12, <1>4, <1>10 DEF Crosses, JobOfStep, Starting, Up, NoOverlap, LocksFound,
         StartsAlone, OffAlone
<1> QED BY <1>7, <1>9, <1>10, <1>11, <1>12

(* The next step of an off. *)
LEMMA NextOffStep ==
    ASSUME DaemonTypes, NEW c \in Operator, duty[c].job \in {"off", "stop"}, NEW s \in OffSteps,
           NowAt(c, [duty[c] EXCEPT !.pc = s])
    PROVE  /\ duty' \in [Operator -> Duties]
           /\ duty'[c].pc = s /\ duty'[c].job = duty[c].job
           /\ \A e \in Operator : e # c => duty'[e] = duty[e]
           /\ JobOfStep => JobOfStep'
BY DutyOne DEF DaemonTypes, Duties, JobOfStep, OnSteps, OffSteps

(* While an off is alone, no command starts a watcher. *)
LEMMA OffIsNoStart ==
    ASSUME OffAlone, JobOfStep, NEW c \in Operator, duty[c].pc \in OffSteps,
           \A e \in Operator : e # c => duty'[e] = duty[e],
           duty'[c].pc \in OffSteps \cup {"idle"}
    PROVE  StartsAlone'
BY DEF OffAlone, JobOfStep, StartsAlone, OffSteps

(* The process is gone, or the command gives up and leaves it to end. *)
LEMMA TerminateKeeps ==
    ASSUME DaemonInv, NEW c \in Operator, Terminate(c)
    PROVE  DaemonInv'
<1> USE DEF DaemonInv
<1> DEFINE p == duty[c].copy.pid
<1>1. /\ UNCHANGED <<dst, path, text, onLock, dgh>>
      /\ duty[c].pc = "term" /\ duty[c].pc \in OffSteps /\ duty[c].job \in {"off", "stop"}
      /\ p \in Pids /\ (IsAlive(p) => p \in Watcher)
  BY DEF Terminate, OffSteps, JobOfStep, DaemonTypes, Duties, Intents, IsAlive, Pids, Watcher
<1>2. ASSUME NoOverlap
      PROVE  /\ Starting = {} /\ Up \subseteq {p}
             /\ \A e \in Operator : e # c => duty[e].pc = "idle" /\ duty[e].job = "none"
  BY <1>1, <1>2 DEF NoOverlap, OffAlone, JobOfStep
<1>3. CASE /\ ~IsAlive(p) /\ UNCHANGED <<watcher, flock>> /\ Usual
           /\ NowAt(c, [duty[c] EXCEPT !.pc = "unlink"])
  <2>1. /\ duty' \in [Operator -> Duties]
        /\ duty'[c].pc = "unlink" /\ duty'[c].job = duty[c].job
        /\ \A e \in Operator : e # c => duty'[e] = duty[e]
        /\ JobOfStep'
    BY <1>1, <1>3, NextOffStep DEF OffSteps
  <2>2. DaemonTypes'
    BY <1>1, <1>3, <2>1, SpendsDaemon DEF DaemonTypes
  <2>3. LockNames' /\ Starting' = Starting /\ Up' = Up /\ (LocksFound => LocksFound')
    BY <1>1, <1>3, WatchersUndisturbed
  <2>4. ASSUME NoOverlap PROVE NoOverlap'
    BY <1>2, <1>3, <2>4, WatchersHavePids, <2>1, <2>3, <1>1, OffIsNoStart DEF Up, IsAlive,
           OffAlone, NoOverlap, OffSteps
  <2> QED BY <1>1, <2>1, <2>2, <2>3, <2>4
<1>4. CASE /\ IsAlive(p) /\ Becomes(p, "dead") /\ Usual
           /\ flock' = [i \in Inode |-> IF flock[i] = p THEN 0 ELSE flock[i]]
           /\ NowAt(c, [duty[c] EXCEPT !.pc = "unlink"])
  <2>1. /\ duty' \in [Operator -> Duties]
        /\ duty'[c].pc = "unlink" /\ duty'[c].job = duty[c].job
        /\ \A e \in Operator : e # c => duty'[e] = duty[e]
        /\ JobOfStep'
    BY <1>1, <1>4, NextOffStep DEF OffSteps
  <2>2. watcher[p].s # "none"
    BY <1>4 DEF IsAlive
  <2>3. /\ flock' \in [Inode -> Pids]
        /\ watcher' \in [Watcher -> [s : LifeOf, node : Inode \cup {0}]]
        /\ LockNames'
        /\ Starting' = Starting \ {p} /\ Up' = Up \ {p}
        /\ LocksFound => LocksFound'
    BY <1>1, <1>4, <2>2, GoneKeeps
  <2>4. DaemonTypes'
    BY <1>1, <1>4, <2>1, <2>3, SpendsDaemon DEF DaemonTypes
  <2>5. ASSUME NoOverlap PROVE NoOverlap'
    BY <1>2, <2>3, <2>5, <2>1, <1>1, OffIsNoStart DEF OffAlone, NoOverlap, OffSteps
  <2> QED BY <1>1, <2>1, <2>3, <2>4, <2>5
<1>5. CASE IsAlive(p) /\ Becomes(p, "ending") /\ Wreck /\ Over(c) /\ UNCHANGED flock
  <2>1. /\ duty' \in [Operator -> Duties]
        /\ duty'[c].pc = "idle" /\ duty'[c].job = "none"
        /\ \A e \in Operator : e # c => duty'[e] = duty[e]
        /\ JobOfStep'
    BY <1>5, CommandOver
  <2>2. /\ watcher' \in [Watcher -> [s : LifeOf, node : Inode \cup {0}]]
        /\ watcher'[p].s = "ending" /\ \A q \in Watcher : watcher'[q].node = watcher[q].node
        /\ \A q \in Watcher : q # p => watcher'[q] = watcher[q]
    BY <1>1, <1>5, BecomesOne DEF LifeOf
  <2>3. watcher[p].s \notin {"none", "dead"}
    BY <1>5 DEF IsAlive
  <2>4. DaemonTypes'
    BY <1>1, <1>5, <2>1, <2>2, SpendsDaemon DEF DaemonTypes
  <2>5. LockNames'
    BY <1>1, <1>5, <2>2, <2>3 DEF LockNames
  <2>6. ASSUME NoOverlap PROVE NoOverlap'
    BY <1>1, <1>5, <2>2, <2>6, <1>2, <2>1 DEF NoOverlap, LocksFound, StartsAlone, OffAlone
  <2> QED BY <1>1, <2>1, <2>4, <2>5, <2>6
<1> QED BY <1>3, <1>4, <1>5 DEF Terminate

(* The lock file is unlinked when nobody is up. *)
LEMMA UnlinkLockKeeps ==
    ASSUME DaemonInv, NEW c \in Operator, UnlinkLock(c)
    PROVE  DaemonInv'
<1> USE DEF DaemonInv
<1>1. /\ UNCHANGED <<dst, text, flock, watcher, onLock, dgh>> /\ Usual
      /\ duty[c].pc = "unlink" /\ duty[c].pc \in OffSteps /\ duty[c].job \in {"off", "stop"}
      /\ path' = 0 /\ NowAt(c, [duty[c] EXCEPT !.pc = "note"])
  BY DEF UnlinkLock, OffSteps, JobOfStep
<1>2. /\ duty' \in [Operator -> Duties]
      /\ duty'[c].pc = "note" /\ duty'[c].job = duty[c].job
      /\ \A e \in Operator : e # c => duty'[e] = duty[e]
      /\ JobOfStep'
  BY <1>1, NextOffStep DEF OffSteps
<1>3. DaemonTypes'
  BY <1>1, <1>2, SpendsDaemon DEF DaemonTypes
<1>4. LockNames' /\ Starting' = Starting /\ Up' = Up
  BY <1>1 DEF LockNames, Starting, Up
<1>5. ASSUME NoOverlap PROVE NoOverlap'
  BY <1>1, <1>5, <1>2, <1>4, OffIsNoStart DEF NoOverlap, OffAlone, LocksFound, Starting, Up,
         JobOfStep, OffSteps
<1> QED BY <1>1, <1>2, <1>3, <1>4, <1>5

(* The off ends with its copy of the record, without a pid. *)
LEMMA NoteStoppedKeeps ==
    ASSUME DaemonInv, NEW c \in Operator, NoteStopped(c)
    PROVE  DaemonInv'
<1> USE DEF DaemonInv
<1>1. /\ UNCHANGED <<path, text, flock, watcher, onLock, dgh>> /\ Usual
      /\ duty[c].pc = "note" /\ duty[c].pc \in OffSteps /\ duty[c].job \in {"off", "stop"}
      /\ dst' = [duty[c].copy EXCEPT !.pid = 0] /\ Over(c)
  BY DEF NoteStopped, runFiles, OffSteps, JobOfStep
<1>2. /\ duty' \in [Operator -> Duties]
      /\ duty'[c].pc = "idle" /\ duty'[c].job = "none"
      /\ \A e \in Operator : e # c => duty'[e] = duty[e]
      /\ JobOfStep'
  BY <1>1, CommandOver
<1>3. dst' \in Intents
  BY <1>1, WatchersHavePids DEF DaemonTypes, Duties, Intents
<1>4. DaemonTypes'
  BY <1>1, <1>2, <1>3, SpendsDaemon DEF DaemonTypes
<1>5. LockNames'
  BY <1>1, WatchersUndisturbed
<1>6. ASSUME NoOverlap PROVE NoOverlap'
  BY <1>1, <1>6, <1>2 DEF NoOverlap, OffAlone, LocksFound, Up, JobOfStep, StartsAlone
<1> QED BY <1>1, <1>2, <1>4, <1>5, <1>6

(* A command that is killed leaves its start lock behind. *)
LEMMA DutyKilledKeeps ==
    ASSUME DaemonInv, NEW c \in Operator, DutyKilled(c)
    PROVE  DaemonInv'
BY CommandOver, SpendsDaemon, WatchersUndisturbed DEF DaemonInv, DutyKilled, runFiles,
       DaemonTypes, NoOverlap, StartsAlone, OffAlone

(* Nobody is alive at first. *)
LEMMA DaemonStarts == DaemonInit => DaemonInv
<1> SUFFICES ASSUME DaemonInit PROVE DaemonInv
  OBVIOUS
<1>1. DaemonTypes
  BY DutyRecords, WatchersHavePids DEF DaemonInit, LifeOf, DaemonTypes
<1>2. /\ LockNames /\ Starting = {} /\ Up = {}
      /\ \A c \in Operator : duty[c].pc = "idle" /\ duty[c].job = "none"
  BY DEF DaemonInit, LockNames, Starting, Up, NoDuty
<1>3. JobOfStep /\ StartsAlone /\ OffAlone
  BY <1>2 DEF JobOfStep, StartsAlone, OffAlone, OnSteps, OffSteps
<1>4. LocksFound
  BY DEF DaemonInit, LocksFound
<1> QED BY <1>1, <1>2, <1>3, <1>4 DEF DaemonInv, NoOverlap

(* No step of a watcher, a command or the unit breaks the invariant. *)
LEMMA DaemonStep == DaemonInv /\ [DaemonNext]_daemonVars => DaemonInv'
<1> SUFFICES ASSUME DaemonInv, [DaemonNext]_daemonVars PROVE DaemonInv'
  OBVIOUS
<1>1. CASE UNCHANGED daemonVars
  BY <1>1 DEF DaemonInv, DaemonTypes, LockNames, JobOfStep, NoOverlap, LocksFound, StartsAlone,
              OffAlone, Starting, Up, daemonVars
<1>2. ASSUME NEW p \in Watcher,
             OpenLock(p) \/ TakeRunLock(p) \/ NotePidUp(p) \/ WatcherEnds(p) \/ WatcherKilled(p)
      PROVE  DaemonInv'
  BY <1>2, OpenLockKeeps, TakeRunLockKeeps, NotePidUpKeeps, WatcherGoesKeeps
<1>3. ASSUME NEW c \in Operator,
             \/ BeginOn(c) \/ TakeOnLock(c) \/ ClearOnLock(c) \/ LookForWatcher(c)
             \/ SpawnWatcher(c) \/ WaitForWatcher(c) \/ GiveOnLock(c)
      PROVE  DaemonInv'
  BY <1>3, BeginOnKeeps, TakeOnLockKeeps, ClearOnLockKeeps, LookForWatcherKeeps,
     SpawnWatcherKeeps, WaitForWatcherKeeps, GiveOnLockKeeps
<1>4. ASSUME NEW c \in Operator,
             \/ BeginOff(c) \/ Terminate(c) \/ UnlinkLock(c) \/ NoteStopped(c) \/ DutyKilled(c)
      PROVE  DaemonInv'
  BY <1>4, BeginOffKeeps, TerminateKeeps, UnlinkLockKeeps, NoteStoppedKeeps, DutyKilledKeeps
<1> QED BY <1>1, <1>2, <1>3, <1>4, UnitStartsKeeps DEF DaemonNext

(* As long as no start overlapped, the lock of every watcher that works is   *)
(* on the inode the path names, the record names it, and an off finds no     *)
(* other command and no watcher on its way up (daemon.py, start_daemon,      *)
(* stop_daemon, daemon_lock).                                                *)
THEOREM DaemonInvariant == DaemonSpec => []DaemonInv
<1> QED BY DaemonStarts, DaemonStep, PTL DEF DaemonSpec

(* For any commands, watchers and deaths: at most one watcher works at a     *)
(* time as long as no start overlaps an off or another start, although the   *)
(* lock file is unlinked and made anew (file_lock.py:8-9, BUG-213).          *)
THEOREM DaemonStaysSafe == DaemonSpec => []DaemonIsSafe
<1>1. DaemonInv => DaemonIsSafe
  <2> SUFFICES ASSUME DaemonInv PROVE DaemonIsSafe
    OBVIOUS
  <2>1. DaemonTypeOK
    BY DEF DaemonInv, DaemonTypes, DaemonTypeOK, Pids, LifeOf
  <2>2. ASSUME ~dgh.crossed PROVE Cardinality(Watching) <= 1
    <3>1. \A p, q \in Watching : p = q
      BY <2>2, WatchersHavePids DEF Watching, DaemonInv, NoOverlap, LocksFound
    <3>2. CASE Watching = {}
      BY <3>2, FS_EmptySet
    <3>3. ASSUME NEW p \in Watching PROVE Cardinality(Watching) <= 1
      <4>1. Watching = {p}
        BY <3>1
      <4>2. Cardinality({p}) = 1
        BY FS_Singleton
      <4> QED BY <4>1, <4>2
    <3> QED BY <3>2, <3>3
  <2> QED BY <2>1, <2>2 DEF DaemonIsSafe, OneWatcherUnlessCrossed
<1> QED BY <1>1, DaemonInvariant, PTL

(***************************************************************************)
(* Importing and updating.                                                 *)
(***************************************************************************)
TxnPcs == {"idle", "pack", "claim", "unpack", "manifest", "registered", "counted", "identity",
           "writeBack", "sameSource", "firstLook", "secondLook", "stage", "swapOut", "swapIn",
           "saveManifest", "saveZip", "row", "purge", "sizes", "tidy", "cas"}
Txns   == [op : {"none", "import", "update"}, pc : TxnPcs, src : Source, id : Id, pkg : Bits,
           sync : Bits, base : Manifest, switch : BOOLEAN, keep : BOOLEAN, beside : BOOLEAN,
           moved : BOOLEAN]

ImportTypes ==
    /\ inst \in [Id -> Instance] /\ origin \in [{"folder", "git"} -> Content] /\ txn \in Txns
    /\ igh \in [hurt : SUBSET Id, odd : [Id -> {"no", "torn", "zipped"}],
                skip : {"none", "torn", "zipped"}]
    /\ spentImport \in [imports : Nat, changes : Nat]

(* Where the instance of an import or update is as it was, and where it is  *)
(* as it will be.                                                           *)
Untouched == {"idle", "pack", "claim", "sameSource", "firstLook", "secondLook"}
Making    == {"unpack", "manifest", "registered"}
Swapped   == {"saveManifest", "saveZip", "row", "purge", "sizes", "tidy"}
Settled   == {"cas", "identity", "writeBack"}

(* What is packed is what will be recorded as the source's state. *)
PackageOk ==
    /\ txn.op = "none" => txn = NoTxn
    /\ txn.op = "none" <=> txn.pc = "idle"
    /\ txn.op = "import" => txn.pc \in {"pack", "claim", "counted", "identity", "writeBack"} \cup Making
    /\ txn.op = "update" => txn.pc \notin {"claim", "counted"} \cup Making
    /\ txn.pc \in {"pack", "sameSource", "identity", "writeBack"} => txn.src # "zip"
    /\ txn.pc \notin {"idle", "pack", "sameSource"} =>
          /\ txn.pkg \in Content
          /\ txn.src # "zip" /\ ~txn.moved => txn.sync = txn.pkg
    /\ txn.switch => txn.src # "zip"
    /\ txn.op = "update" /\ txn.src = "zip" => Mine.man.kind # "git" /\ txn.base.kind # "git"

Intact(r) ==
    /\ r.row /\ r.dir /\ r.cur # Nothing /\ r.new = Nothing /\ r.old = Nothing
    /\ r.zip = r.cur /\ r.man.zipHash = r.cur /\ r.reg = r.cur /\ r.size = r.cur
(* The identity is that of the source. *)
Names(m, c) == m.zipHash = c /\ (m.kind # "zip" => m.sync = c)
Named(i)    == igh.odd[i] = "no" => Names(inst[i].man, inst[i].cur)
WholeIf(i)  == i \notin igh.hurt => inst[i] = Absent \/ Intact(inst[i])

AtRestOk == \A i \in Id : i # txn.id \/ txn.pc \in Untouched => WholeIf(i) /\ Named(i)

(* Neither did the process of an earlier import die nor was the instance    *)
(* removed since this one began.                                            *)
Sound == txn.id \notin igh.hurt
Unbroken  == Sound \/ igh.odd[txn.id] = "no"

MakingOk ==
    /\ txn.pc \in Making =>
          /\ Sound /\ igh.odd[txn.id] = "no"
          /\ Mine.dir /\ ~Mine.row /\ Mine.new = Nothing /\ Mine.old = Nothing
    /\ txn.pc \in {"manifest", "registered"} => Mine.cur = txn.pkg /\ Mine.zip = txn.pkg
    /\ txn.pc = "registered" => Mine.man = [NoManifest EXCEPT !.zipHash = txn.pkg]
    /\ txn.pc = "counted" /\ Mine.row =>
          /\ Mine.dir /\ Mine.new = Nothing /\ Mine.old = Nothing
          /\ Mine.cur = txn.pkg /\ Mine.zip = txn.pkg /\ Mine.reg = txn.pkg
          /\ Mine.man = [NoManifest EXCEPT !.zipHash = txn.pkg]
    /\ txn.pc = "counted" /\ ~Mine.row => ~Unbroken

UpdateOk ==
    /\ txn.pc \in {"secondLook", "stage", "swapOut", "swapIn"} /\ Unbroken => txn.base = Mine.man
    /\ txn.op = "update" /\ Unbroken => Mine.dir /\ Mine.row
    /\ txn.pc \in {"stage", "swapOut"} =>
          /\ igh.odd[txn.id] = "no" => Names(Mine.man, Mine.cur)
          /\ Sound => Intact([Mine EXCEPT !.new = Nothing])
    /\ txn.pc \in {"swapOut", "swapIn"} => Mine.new = txn.pkg
    /\ txn.pc = "swapIn" /\ Sound =>
          Intact([Mine EXCEPT !.new = Nothing, !.old = Nothing, !.cur = Mine.old]) /\ Mine.bak = Mine.old
    /\ txn.pc \in {"swapIn"} \cup Swapped /\ igh.odd[txn.id] = "no" => Names(txn.base, Mine.old)

SwappedOk ==
    /\ txn.pc \in Swapped => Mine.cur = txn.pkg /\ Mine.new = Nothing
    /\ txn.pc \in Swapped /\ Sound => /\ Mine.old # Nothing /\ Mine.bak = Mine.old
                                      /\ txn.base.zipHash = Mine.old
    /\ txn.pc \in Swapped \ {"saveManifest"} => Mine.man.zipHash = txn.pkg
    /\ txn.pc \in {"row", "purge", "sizes", "tidy"} => Mine.zip = txn.pkg
    /\ txn.pc \in {"purge", "sizes", "tidy"} => Mine.reg = txn.pkg
    /\ txn.pc = "tidy" => Mine.size = txn.pkg

SettledOk ==
    txn.pc \in Settled =>
        /\ Sound => Intact(Mine)
        /\ Unbroken => Mine.cur = txn.pkg /\ Mine.dir /\ Mine.row
        /\ Mine.cur = txn.pkg => /\ Mine.man.zipHash = txn.pkg
                                 /\ (txn.pc = "writeBack" => txn.base.zipHash = txn.pkg)

ImportInv == ImportTypes /\ PackageOk /\ AtRestOk /\ MakingOk /\ UpdateOk /\ SwappedOk /\ SettledOk

-----------------------------------------------------------------------------

LEMMA IdOk == ImportTypes => txn.id \in Id /\ Mine \in Instance /\ NoTxn \in Txns /\ Absent \in Instance
BY ImportAssumption DEF ImportTypes, Txns, Mine, NoTxn, Absent, Instance, NoManifest, Manifest, Bits,
   Id, Source, TxnPcs

(* Instances besides the one worked on stay as they are. *)
LEMMA OthersRest ==
    ASSUME ImportTypes, ImportTypes', AtRestOk, NEW id \in Id, id = txn.id,
           \A i \in Id \ {id} : /\ inst'[i] = inst[i] /\ igh'.odd[i] = igh.odd[i]
                                /\ i \in igh'.hurt <=> i \in igh.hurt,
           \/ txn'.id = id /\ txn'.pc \notin Untouched
           \/ WholeIf(id)' /\ Named(id)'
    PROVE  AtRestOk'
BY DEF AtRestOk, WholeIf, Named, Intact, ImportTypes, Instance, Names

(* A step that changes the instance and goes on: what such a step does not   *)
(* disturb, whatever it does.                                                *)
LEMMA StepsOn ==
    ASSUME ImportInv, NEW r \in Instance, NEW pc \in TxnPcs \ (Untouched \cup {"identity", "writeBack"}),
           inst' = [inst EXCEPT ![txn.id] = r], txn' = [txn EXCEPT !.pc = pc],
           txn.pc \notin Untouched, UNCHANGED <<origin, igh, spentImport>>,
           pc \in Making \cup {"counted"} <=> txn.op = "import",
           txn.op = "update" /\ txn.src = "zip" => r.man.kind # "git"
    PROVE  /\ ImportTypes' /\ AtRestOk' /\ PackageOk'
           /\ Mine' = r /\ Sound' = Sound /\ Unbroken' = Unbroken
           /\ txn'.pc = pc /\ txn'.op = txn.op /\ txn'.id = txn.id /\ txn'.pkg = txn.pkg /\ txn'.base = txn.base
BY IdOk, OthersRest DEF ImportInv, ImportTypes, Txns, Mine, Sound, Unbroken, PackageOk, Untouched,
       Making

(* Importing: what a failure may leave behind until the row is there.        *)
LEMMA UnpackKeeps == ASSUME ImportInv, Unpack PROVE ImportInv'
<1> DEFINE r == [Mine EXCEPT !.zip = txn.pkg, !.cur = txn.pkg]
           pc == "manifest"
<1>1. txn.pc = "unpack" /\ txn \in Txns /\ Mine \in Instance
  BY IdOk DEF Unpack, Doing, ImportInv, ImportTypes
<1>2. /\ inst' = [inst EXCEPT ![txn.id] = r] /\ txn' = [txn EXCEPT !.pc = pc]
      /\ UNCHANGED <<origin, igh, spentImport>>
  BY DEF Unpack, Set, Then, NoChange
<1>3. r \in Instance /\ pc \in TxnPcs
  BY <1>1 DEF Instance, Txns, TxnPcs
<1>4. /\ txn.op = "import"
      /\ txn.op = "update" /\ txn.src = "zip" => r.man.kind # "git"
  BY <1>1 DEF ImportInv, PackageOk, Making, Txns, Instance, Manifest
<1>5. /\ ImportTypes' /\ AtRestOk' /\ PackageOk'
      /\ Mine' = r /\ Sound' = Sound /\ Unbroken' = Unbroken
      /\ txn'.pc = pc /\ txn'.op = txn.op /\ txn'.id = txn.id /\ txn'.pkg = txn.pkg /\ txn'.base = txn.base
  BY <1>1, <1>2, <1>3, <1>4, StepsOn DEF Untouched, Making
<1>6. MakingOk'
  BY <1>1, <1>2, <1>5 DEF ImportInv, MakingOk, Making, Instance
<1>7. UpdateOk' /\ SwappedOk' /\ SettledOk'
  BY <1>4, <1>5 DEF UpdateOk, SwappedOk, Swapped, SettledOk, Settled
<1> QED BY <1>5, <1>6, <1>7 DEF ImportInv

LEMMA NewManifestKeeps == ASSUME ImportInv, NewManifest PROVE ImportInv'
<1> DEFINE r == [Mine EXCEPT !.dir = TRUE, !.man = [NoManifest EXCEPT !.zipHash = txn.pkg]]
           pc == "registered"
<1>1. txn.pc = "manifest" /\ txn \in Txns /\ Mine \in Instance
  BY IdOk DEF NewManifest, Doing, ImportInv, ImportTypes
<1>2. /\ inst' = [inst EXCEPT ![txn.id] = r] /\ txn' = [txn EXCEPT !.pc = pc]
      /\ UNCHANGED <<origin, igh, spentImport>>
  BY DEF NewManifest, Set, Then, NoChange
<1>3. r \in Instance /\ pc \in TxnPcs
  BY ZenonT(60), <1>1 DEF Instance, Txns, TxnPcs, Manifest, NoManifest, Bits, Source
<1>4. /\ txn.op = "import"
      /\ txn.op = "update" /\ txn.src = "zip" => r.man.kind # "git"
  BY <1>1 DEF ImportInv, PackageOk, Making, Txns, Instance, Manifest
<1>5. /\ ImportTypes' /\ AtRestOk' /\ PackageOk'
      /\ Mine' = r /\ Sound' = Sound /\ Unbroken' = Unbroken
      /\ txn'.pc = pc /\ txn'.op = txn.op /\ txn'.id = txn.id /\ txn'.pkg = txn.pkg /\ txn'.base = txn.base
  BY <1>1, <1>2, <1>3, <1>4, StepsOn DEF Untouched, Making
<1>6. MakingOk'
  BY <1>1, <1>2, <1>5 DEF ImportInv, MakingOk, Making, Instance
<1>7. UpdateOk' /\ SwappedOk' /\ SettledOk'
  BY <1>4, <1>5 DEF UpdateOk, SwappedOk, Swapped, SettledOk, Settled
<1> QED BY <1>5, <1>6, <1>7 DEF ImportInv

LEMMA RegisterKeeps == ASSUME ImportInv, Register PROVE ImportInv'
<1> DEFINE r == [Mine EXCEPT !.row = TRUE, !.reg = txn.pkg]
           pc == "counted"
<1>1. txn.pc = "registered" /\ txn \in Txns /\ Mine \in Instance
  BY IdOk DEF Register, Doing, ImportInv, ImportTypes
<1>2. /\ inst' = [inst EXCEPT ![txn.id] = r] /\ txn' = [txn EXCEPT !.pc = pc]
      /\ UNCHANGED <<origin, igh, spentImport>>
  BY DEF Register, Set, Then, NoChange
<1>3. r \in Instance /\ pc \in TxnPcs
  BY <1>1 DEF Instance, Txns, TxnPcs
<1>4. /\ txn.op = "import"
      /\ txn.op = "update" /\ txn.src = "zip" => r.man.kind # "git"
  BY <1>1 DEF ImportInv, PackageOk, Making, Txns, Instance, Manifest
<1>5. /\ ImportTypes' /\ AtRestOk' /\ PackageOk'
      /\ Mine' = r /\ Sound' = Sound /\ Unbroken' = Unbroken
      /\ txn'.pc = pc /\ txn'.op = txn.op /\ txn'.id = txn.id /\ txn'.pkg = txn.pkg /\ txn'.base = txn.base
  BY <1>1, <1>2, <1>3, <1>4, StepsOn DEF Untouched, Making
<1>6. MakingOk'
  BY <1>1, <1>2, <1>5 DEF ImportInv, MakingOk, Making, Instance
<1>7. UpdateOk' /\ SwappedOk' /\ SettledOk'
  BY <1>4, <1>5 DEF UpdateOk, SwappedOk, Swapped, SettledOk, Settled
<1> QED BY <1>5, <1>6, <1>7 DEF ImportInv

(* Updating: the exchange.                                                    *)
LEMMA StageKeeps == ASSUME ImportInv, Stage PROVE ImportInv'
<1> DEFINE r == [Mine EXCEPT !.new = txn.pkg]
           pc == "swapOut"
<1>1. txn.pc = "stage" /\ txn \in Txns /\ Mine \in Instance
  BY IdOk DEF Stage, Doing, ImportInv, ImportTypes
<1>2. /\ inst' = [inst EXCEPT ![txn.id] = r] /\ txn' = [txn EXCEPT !.pc = pc]
      /\ UNCHANGED <<origin, igh, spentImport>>
  BY DEF Stage, Set, Then, NoChange
<1>3. r \in Instance /\ pc \in TxnPcs
  BY <1>1 DEF Instance, Txns, TxnPcs
<1>4. /\ txn.op = "update"
      /\ txn.op = "update" /\ txn.src = "zip" => r.man.kind # "git"
  BY <1>1 DEF ImportInv, PackageOk, Making, Txns, Instance, Manifest
<1>5. /\ ImportTypes' /\ AtRestOk' /\ PackageOk'
      /\ Mine' = r /\ Sound' = Sound /\ Unbroken' = Unbroken
      /\ txn'.pc = pc /\ txn'.op = txn.op /\ txn'.id = txn.id /\ txn'.pkg = txn.pkg /\ txn'.base = txn.base
  BY <1>1, <1>2, <1>3, <1>4, StepsOn DEF Untouched, Making
<1>6. UpdateOk'
  BY <1>1, <1>2, <1>4, <1>5 DEF ImportInv, UpdateOk, Swapped, Instance, Intact, Names
<1>7. MakingOk' /\ SwappedOk' /\ SettledOk'
  BY <1>5 DEF MakingOk, Making, SwappedOk, Swapped, SettledOk, Settled
<1> QED BY <1>5, <1>6, <1>7 DEF ImportInv

LEMMA SwapOutKeeps == ASSUME ImportInv, SwapOut PROVE ImportInv'
<1> DEFINE r == [Mine EXCEPT !.bak = Mine.zip, !.old = Mine.cur, !.cur = Nothing]
           pc == "swapIn"
<1>1. txn.pc = "swapOut" /\ txn \in Txns /\ Mine \in Instance
  BY IdOk DEF SwapOut, Doing, ImportInv, ImportTypes
<1>2. /\ inst' = [inst EXCEPT ![txn.id] = r] /\ txn' = [txn EXCEPT !.pc = pc]
      /\ UNCHANGED <<origin, igh, spentImport>>
  BY DEF SwapOut, Set, Then, NoChange
<1>3. r \in Instance /\ pc \in TxnPcs
  BY <1>1 DEF Instance, Txns, TxnPcs, Bits
<1>4. /\ txn.op = "update"
      /\ txn.op = "update" /\ txn.src = "zip" => r.man.kind # "git"
  BY <1>1 DEF ImportInv, PackageOk, Making, Txns, Instance, Manifest
<1>5. /\ ImportTypes' /\ AtRestOk' /\ PackageOk'
      /\ Mine' = r /\ Sound' = Sound /\ Unbroken' = Unbroken
      /\ txn'.pc = pc /\ txn'.op = txn.op /\ txn'.id = txn.id /\ txn'.pkg = txn.pkg /\ txn'.base = txn.base
  BY <1>1, <1>2, <1>3, <1>4, StepsOn DEF Untouched, Making
<1>6. UpdateOk'
  BY <1>1, <1>2, <1>4, <1>5 DEF ImportInv, UpdateOk, Swapped, Instance, Intact, Names, Unbroken
<1>7. MakingOk' /\ SwappedOk' /\ SettledOk'
  BY <1>5 DEF MakingOk, Making, SwappedOk, Swapped, SettledOk, Settled
<1> QED BY <1>5, <1>6, <1>7 DEF ImportInv

LEMMA SwapInKeeps == ASSUME ImportInv, SwapIn PROVE ImportInv'
<1> DEFINE r == [Mine EXCEPT !.cur = Mine.new, !.new = Nothing]
           pc == "saveManifest"
<1>1. txn.pc = "swapIn" /\ txn \in Txns /\ Mine \in Instance
  BY IdOk DEF SwapIn, Doing, ImportInv, ImportTypes
<1>2. /\ inst' = [inst EXCEPT ![txn.id] = r] /\ txn' = [txn EXCEPT !.pc = pc]
      /\ UNCHANGED <<origin, igh, spentImport>>
  BY DEF SwapIn, Set, Then, NoChange
<1>3. r \in Instance /\ pc \in TxnPcs
  BY <1>1 DEF Instance, Txns, TxnPcs, Bits
<1>4. /\ txn.op = "update"
      /\ txn.op = "update" /\ txn.src = "zip" => r.man.kind # "git"
  BY <1>1 DEF ImportInv, PackageOk, Making, Txns, Instance, Manifest
<1>5. /\ ImportTypes' /\ AtRestOk' /\ PackageOk'
      /\ Mine' = r /\ Sound' = Sound /\ Unbroken' = Unbroken
      /\ txn'.pc = pc /\ txn'.op = txn.op /\ txn'.id = txn.id /\ txn'.pkg = txn.pkg /\ txn'.base = txn.base
  BY <1>1, <1>2, <1>3, <1>4, StepsOn DEF Untouched, Making
<1>6. UpdateOk'
  BY <1>1, <1>2, <1>4, <1>5 DEF ImportInv, UpdateOk, Swapped, Instance
<1>7. SwappedOk'
  BY <1>1, <1>2, <1>4, <1>5 DEF ImportInv, SwappedOk, Swapped, Instance, UpdateOk, Intact, Unbroken
<1>8. MakingOk' /\ SettledOk'
  BY <1>5 DEF MakingOk, Making, SettledOk, Settled
<1> QED BY <1>5, <1>6, <1>7, <1>8 DEF ImportInv

LEMMA SaveManifestKeeps == ASSUME ImportInv, SaveManifest PROVE ImportInv'
<1> DEFINE r == [Mine EXCEPT !.man = [txn.base EXCEPT !.zipHash = txn.pkg]]
           pc == "saveZip"
<1>1. txn.pc = "saveManifest" /\ txn \in Txns /\ Mine \in Instance
  BY IdOk DEF SaveManifest, Doing, ImportInv, ImportTypes
<1>2. /\ inst' = [inst EXCEPT ![txn.id] = r] /\ txn' = [txn EXCEPT !.pc = pc]
      /\ UNCHANGED <<origin, igh, spentImport>>
  BY DEF SaveManifest, Set, Then, NoChange
<1>3. r \in Instance /\ pc \in TxnPcs
  BY <1>1 DEF Instance, Txns, TxnPcs, Manifest
<1>4. /\ txn.op = "update"
      /\ txn.op = "update" /\ txn.src = "zip" => r.man.kind # "git"
  BY <1>1 DEF ImportInv, PackageOk, Making, Txns, Instance, Manifest
<1>5. /\ ImportTypes' /\ AtRestOk' /\ PackageOk'
      /\ Mine' = r /\ Sound' = Sound /\ Unbroken' = Unbroken
      /\ txn'.pc = pc /\ txn'.op = txn.op /\ txn'.id = txn.id /\ txn'.pkg = txn.pkg /\ txn'.base = txn.base
  BY <1>1, <1>2, <1>3, <1>4, StepsOn DEF Untouched, Making
<1>6. UpdateOk'
  BY <1>1, <1>2, <1>4, <1>5 DEF ImportInv, UpdateOk, Swapped, Instance
<1>7. SwappedOk'
  BY <1>1, <1>2, <1>4, <1>5 DEF ImportInv, SwappedOk, Swapped, Instance, Manifest, Txns
<1>8. MakingOk' /\ SettledOk'
  BY <1>5 DEF MakingOk, Making, SettledOk, Settled
<1> QED BY <1>5, <1>6, <1>7, <1>8 DEF ImportInv

LEMMA SaveZipKeeps == ASSUME ImportInv, SaveZip PROVE ImportInv'
<1> DEFINE r == [Mine EXCEPT !.zip = txn.pkg]
           pc == "row"
<1>1. txn.pc = "saveZip" /\ txn \in Txns /\ Mine \in Instance
  BY IdOk DEF SaveZip, Doing, ImportInv, ImportTypes
<1>2. /\ inst' = [inst EXCEPT ![txn.id] = r] /\ txn' = [txn EXCEPT !.pc = pc]
      /\ UNCHANGED <<origin, igh, spentImport>>
  BY DEF SaveZip, Set, Then, NoChange
<1>3. r \in Instance /\ pc \in TxnPcs
  BY <1>1 DEF Instance, Txns, TxnPcs
<1>4. /\ txn.op = "update"
      /\ txn.op = "update" /\ txn.src = "zip" => r.man.kind # "git"
  BY <1>1 DEF ImportInv, PackageOk, Making, Txns, Instance, Manifest
<1>5. /\ ImportTypes' /\ AtRestOk' /\ PackageOk'
      /\ Mine' = r /\ Sound' = Sound /\ Unbroken' = Unbroken
      /\ txn'.pc = pc /\ txn'.op = txn.op /\ txn'.id = txn.id /\ txn'.pkg = txn.pkg /\ txn'.base = txn.base
  BY <1>1, <1>2, <1>3, <1>4, StepsOn DEF Untouched, Making
<1>6. UpdateOk'
  BY <1>1, <1>2, <1>4, <1>5 DEF ImportInv, UpdateOk, Swapped, Instance
<1>7. SwappedOk'
  BY <1>1, <1>2, <1>4, <1>5 DEF ImportInv, SwappedOk, Swapped, Instance
<1>8. MakingOk' /\ SettledOk'
  BY <1>5 DEF MakingOk, Making, SettledOk, Settled
<1> QED BY <1>5, <1>6, <1>7, <1>8 DEF ImportInv

LEMMA UpsertRowKeeps == ASSUME ImportInv, UpsertRow PROVE ImportInv'
<1> DEFINE r == [Mine EXCEPT !.row = TRUE, !.reg = txn.pkg]
           pc == IF txn.keep THEN "sizes" ELSE "purge"
<1>1. txn.pc = "row" /\ txn \in Txns /\ Mine \in Instance
  BY IdOk DEF UpsertRow, Doing, ImportInv, ImportTypes
<1>2. /\ inst' = [inst EXCEPT ![txn.id] = r] /\ txn' = [txn EXCEPT !.pc = pc]
      /\ UNCHANGED <<origin, igh, spentImport>>
  BY DEF UpsertRow, Set, Then, NoChange
<1>3. r \in Instance /\ pc \in TxnPcs
  BY <1>1 DEF Instance, Txns, TxnPcs
<1>4. /\ txn.op = "update"
      /\ txn.op = "update" /\ txn.src = "zip" => r.man.kind # "git"
  BY <1>1 DEF ImportInv, PackageOk, Making, Txns, Instance, Manifest
<1>5. /\ ImportTypes' /\ AtRestOk' /\ PackageOk'
      /\ Mine' = r /\ Sound' = Sound /\ Unbroken' = Unbroken
      /\ txn'.pc = pc /\ txn'.op = txn.op /\ txn'.id = txn.id /\ txn'.pkg = txn.pkg /\ txn'.base = txn.base
  BY <1>1, <1>2, <1>3, <1>4, StepsOn DEF Untouched, Making
<1>6. UpdateOk'
  BY <1>1, <1>2, <1>4, <1>5 DEF ImportInv, UpdateOk, Swapped, Instance
<1>7. SwappedOk'
  BY <1>1, <1>2, <1>4, <1>5 DEF ImportInv, SwappedOk, Swapped, Instance
<1>8. MakingOk' /\ SettledOk'
  BY <1>5 DEF MakingOk, Making, SettledOk, Settled
<1> QED BY <1>5, <1>6, <1>7, <1>8 DEF ImportInv

LEMMA PurgeKeeps == ASSUME ImportInv, Purge PROVE ImportInv'
<1> DEFINE r == [Mine EXCEPT !.data = "empty"]
           pc == "sizes"
<1>1. txn.pc = "purge" /\ txn \in Txns /\ Mine \in Instance
  BY IdOk DEF Purge, Doing, ImportInv, ImportTypes
<1>2. /\ inst' = [inst EXCEPT ![txn.id] = r] /\ txn' = [txn EXCEPT !.pc = pc]
      /\ UNCHANGED <<origin, igh, spentImport>>
  BY DEF Purge, Set, Then, NoChange
<1>3. r \in Instance /\ pc \in TxnPcs
  BY <1>1 DEF Instance, Txns, TxnPcs
<1>4. /\ txn.op = "update"
      /\ txn.op = "update" /\ txn.src = "zip" => r.man.kind # "git"
  BY <1>1 DEF ImportInv, PackageOk, Making, Txns, Instance, Manifest
<1>5. /\ ImportTypes' /\ AtRestOk' /\ PackageOk'
      /\ Mine' = r /\ Sound' = Sound /\ Unbroken' = Unbroken
      /\ txn'.pc = pc /\ txn'.op = txn.op /\ txn'.id = txn.id /\ txn'.pkg = txn.pkg /\ txn'.base = txn.base
  BY <1>1, <1>2, <1>3, <1>4, StepsOn DEF Untouched, Making
<1>6. UpdateOk'
  BY <1>1, <1>2, <1>4, <1>5 DEF ImportInv, UpdateOk, Swapped, Instance
<1>7. SwappedOk'
  BY <1>1, <1>2, <1>4, <1>5 DEF ImportInv, SwappedOk, Swapped, Instance
<1>8. MakingOk' /\ SettledOk'
  BY <1>5 DEF MakingOk, Making, SettledOk, Settled
<1> QED BY <1>5, <1>6, <1>7, <1>8 DEF ImportInv

LEMMA SizesKeeps == ASSUME ImportInv, Sizes PROVE ImportInv'
<1> DEFINE r == [Mine EXCEPT !.size = txn.pkg]
           pc == "tidy"
<1>1. txn.pc = "sizes" /\ txn \in Txns /\ Mine \in Instance
  BY IdOk DEF Sizes, Doing, ImportInv, ImportTypes
<1>2. /\ inst' = [inst EXCEPT ![txn.id] = r] /\ txn' = [txn EXCEPT !.pc = pc]
      /\ UNCHANGED <<origin, igh, spentImport>>
  BY DEF Sizes, Set, Then, NoChange
<1>3. r \in Instance /\ pc \in TxnPcs
  BY <1>1 DEF Instance, Txns, TxnPcs
<1>4. /\ txn.op = "update"
      /\ txn.op = "update" /\ txn.src = "zip" => r.man.kind # "git"
  BY <1>1 DEF ImportInv, PackageOk, Making, Txns, Instance, Manifest
<1>5. /\ ImportTypes' /\ AtRestOk' /\ PackageOk'
      /\ Mine' = r /\ Sound' = Sound /\ Unbroken' = Unbroken
      /\ txn'.pc = pc /\ txn'.op = txn.op /\ txn'.id = txn.id /\ txn'.pkg = txn.pkg /\ txn'.base = txn.base
  BY <1>1, <1>2, <1>3, <1>4, StepsOn DEF Untouched, Making
<1>6. UpdateOk'
  BY <1>1, <1>2, <1>4, <1>5 DEF ImportInv, UpdateOk, Swapped, Instance
<1>7. SwappedOk'
  BY <1>1, <1>2, <1>4, <1>5 DEF ImportInv, SwappedOk, Swapped, Instance
<1>8. MakingOk' /\ SettledOk'
  BY <1>5 DEF MakingOk, Making, SettledOk, Settled
<1> QED BY <1>5, <1>6, <1>7, <1>8 DEF ImportInv

LEMMA TidyKeeps == ASSUME ImportInv, Tidy PROVE ImportInv'
<1> DEFINE r == [Mine EXCEPT !.new = Nothing, !.old = Nothing]
           pc == "cas"
<1>1. txn.pc = "tidy" /\ txn \in Txns /\ Mine \in Instance
  BY IdOk DEF Tidy, Doing, ImportInv, ImportTypes
<1>2. /\ inst' = [inst EXCEPT ![txn.id] = r] /\ txn' = [txn EXCEPT !.pc = pc]
      /\ UNCHANGED <<origin, igh, spentImport>>
  BY DEF Tidy, Set, Then, NoChange
<1>3. r \in Instance /\ pc \in TxnPcs
  BY <1>1 DEF Instance, Txns, TxnPcs, Bits
<1>4. /\ txn.op = "update"
      /\ txn.op = "update" /\ txn.src = "zip" => r.man.kind # "git"
  BY <1>1 DEF ImportInv, PackageOk, Making, Txns, Instance, Manifest
<1>5. /\ ImportTypes' /\ AtRestOk' /\ PackageOk'
      /\ Mine' = r /\ Sound' = Sound /\ Unbroken' = Unbroken
      /\ txn'.pc = pc /\ txn'.op = txn.op /\ txn'.id = txn.id /\ txn'.pkg = txn.pkg /\ txn'.base = txn.base
  BY <1>1, <1>2, <1>3, <1>4, StepsOn DEF Untouched, Making
<1>6. UpdateOk'
  BY <1>1, <1>2, <1>4, <1>5 DEF ImportInv, UpdateOk, Swapped, Instance
<1>7. SettledOk'
  BY <1>1, <1>4, <1>5, ImportAssumption DEF ImportInv, PackageOk, UpdateOk, SwappedOk, Swapped, SettledOk, Intact, Unbroken, Instance
<1>8. MakingOk' /\ SwappedOk'
  BY <1>5 DEF MakingOk, Making, SwappedOk, Swapped
<1> QED BY <1>5, <1>6, <1>7, <1>8 DEF ImportInv

(* An import or update that ends leaves its instance at rest. *)
LEMMA Ends ==
    ASSUME ImportInv, ImportTypes', txn' = NoTxn, NEW id \in Id, id = txn.id,
           \A i \in Id \ {id} : /\ inst'[i] = inst[i] /\ igh'.odd[i] = igh.odd[i]
                                /\ i \in igh'.hurt <=> i \in igh.hurt,
           WholeIf(id)', Named(id)'
    PROVE  ImportInv'
BY OthersRest DEF NoTxn, PackageOk, ImportInv, MakingOk, Making, UpdateOk, SwappedOk, Swapped,
       SettledOk, Settled

(* So does one that has changed nothing. *)
LEMMA EndsUntouched ==
    ASSUME ImportInv, txn' = NoTxn, txn.pc \in Untouched, UNCHANGED <<inst, origin, igh.odd, igh.hurt>>,
           igh' \in [hurt : SUBSET Id, odd : [Id -> {"no", "torn", "zipped"}],
                     skip : {"none", "torn", "zipped"}],
           spentImport' \in [imports : Nat, changes : Nat]
    PROVE  ImportInv'
BY IdOk, Ends DEF ImportInv, ImportTypes, AtRestOk, WholeIf, Named, Intact, Names

LEMMA AbsentNamed == Absent.man.zipHash = Absent.cur /\ Absent.man.kind = "zip" /\ Names(Absent.man, Absent.cur)
BY DEF Absent, NoManifest, Names

(* And one whose instance is taken away. *)
LEMMA EndsAbsent ==
    ASSUME ImportInv, txn' = NoTxn, inst' = [inst EXCEPT ![txn.id] = Absent], UNCHANGED <<origin, igh>>,
           spentImport' \in [imports : Nat, changes : Nat]
    PROVE  ImportInv'
BY IdOk, AbsentNamed, Ends DEF ImportInv, ImportTypes, WholeIf, Named

LEMMA ImportFailsKeeps == ASSUME ImportInv, ImportFails PROVE ImportInv'
BY EndsAbsent DEF ImportFails, Finished, Set, Cleaned, Change, ImportInv, ImportTypes

LEMMA SourceChangesKeeps ==
    ASSUME ImportInv, NEW src \in {"folder", "git"}, NEW c \in Content, SourceChanges(src, c)
    PROVE  ImportInv'
<1>1. UNCHANGED <<inst, txn, igh>> /\ ImportTypes'
  BY DEF ImportInv, ImportTypes, SourceChanges, Change
<1>2. PackageOk' /\ AtRestOk' /\ MakingOk'
  BY <1>1 DEF ImportInv, PackageOk, AtRestOk, MakingOk, Mine, WholeIf, Named, Intact, Names, Sound, Unbroken
<1>3. UpdateOk' /\ SwappedOk' /\ SettledOk'
  BY <1>1 DEF ImportInv, UpdateOk, SwappedOk, SettledOk, Mine, Intact, Names, Sound, Unbroken
<1> QED BY <1>1, <1>2, <1>3 DEF ImportInv

LEMMA RemoveKeeps == ASSUME ImportInv, NEW i \in Id, Remove(i) PROVE ImportInv'
<1>1. /\ inst' = [inst EXCEPT ![i] = Absent] /\ UNCHANGED <<origin, txn>>
      /\ inst[i].row /\ ~InstanceLocked(i) /\ txn.id \in Id
      /\ igh' = IF txn.op # "none" /\ txn.id = i
                THEN [igh EXCEPT !.hurt = @ \cup {i}, !.odd[i] = "torn"] ELSE igh
  BY IdOk DEF Remove, Set, Hurt, ImportInv
<1>2. ImportTypes'
  <2>1. inst' \in [Id -> Instance] /\ txn' \in Txns /\ origin' \in [{"folder", "git"} -> Content]
    BY <1>1, IdOk DEF ImportInv, ImportTypes
  <2>2. igh' \in [hurt : SUBSET Id, odd : [Id -> {"no", "torn", "zipped"}],
                  skip : {"none", "torn", "zipped"}]
    BY <1>1 DEF ImportInv, ImportTypes
  <2>3. spentImport' \in [imports : Nat, changes : Nat]
    BY DEF Remove, Change, ImportInv, ImportTypes
  <2> QED BY <2>1, <2>2, <2>3 DEF ImportTypes
<1>3. /\ inst'[i] = Absent /\ \A j \in Id \ {i} : inst'[j] = inst[j] /\ igh'.odd[j] = igh.odd[j]
                                                 /\ (j \in igh'.hurt <=> j \in igh.hurt)
      /\ txn.op # "none" /\ txn.id = i => i \in igh'.hurt /\ igh'.odd[i] = "torn"
  BY <1>1 DEF ImportInv, ImportTypes
<1>4. AtRestOk'
  BY <1>1, <1>3, AbsentNamed DEF AtRestOk, WholeIf, Named, Intact, Names, ImportInv
<1>5. CASE txn.id # i
  BY <1>1, <1>3, <1>5, <1>2, <1>4 DEF Mine, Sound, Unbroken, ImportInv, PackageOk, MakingOk,
         UpdateOk, Intact, Names, SwappedOk, SettledOk
<1>6. CASE txn.id = i
  <2>1. Mine' = Absent /\ txn.pc \notin Making
    BY <1>1, <1>3, <1>6 DEF Mine, ImportInv, MakingOk
  <2>2. txn.pc # "idle" => ~Unbroken' /\ ~Sound' /\ igh'.odd[txn'.id] # "no"
    BY <1>1, <1>3, <1>6 DEF Sound, Unbroken, ImportInv, PackageOk
  <2>3. txn.pc \notin LockedBit
    BY <1>1, <1>6 DEF InstanceLocked, LockedBit, ImportInv, PackageOk, ImportTypes, Txns, Making
  <2>4. PackageOk'
    BY <1>1, <2>1, AbsentNamed DEF ImportInv, PackageOk
  <2>5. MakingOk' /\ UpdateOk'
    BY <1>1, <2>1, <2>2, <2>3 DEF ImportInv, PackageOk, MakingOk, UpdateOk, Making, Swapped, LockedBit, Absent
  <2>6. SwappedOk'
    BY <1>1, <2>3 DEF SwappedOk, Swapped, LockedBit
  <2>7. SettledOk'
    BY <1>1, <2>1, <2>2, ImportAssumption DEF ImportInv, PackageOk, SettledOk, Settled, Absent
  <2> QED BY <1>2, <1>4, <2>4, <2>5, <2>6, <2>7 DEF ImportInv
<1> QED BY <1>5, <1>6

LEMMA Begins ==
    ASSUME ImportInv, txn = NoTxn, NEW t \in Txns, txn' = t, t.pc \in Untouched, t.pc # "secondLook",
           UNCHANGED <<inst, origin, igh>>, spentImport' \in [imports : Nat, changes : Nat], PackageOk',
           t.op = "update" => inst[t.id].dir /\ inst[t.id].row
    PROVE  ImportInv'
<1>1. ImportTypes' /\ t.pc \notin Making \cup Swapped \cup Settled
            \cup {"counted", "secondLook", "stage", "swapOut", "swapIn"}
  BY DEF ImportInv, ImportTypes, Untouched, Making, Swapped, Settled
<1>2. txn.pc = "idle"
  BY DEF NoTxn
<1>3. AtRestOk'
  BY <1>2 DEF ImportInv, AtRestOk, Untouched, WholeIf, Named, Intact, Names
<1>4. MakingOk' /\ SwappedOk' /\ SettledOk'
  BY <1>1 DEF MakingOk, SwappedOk, SettledOk, Making, Swapped, Settled
<1>5. UpdateOk'
  BY <1>1 DEF UpdateOk, Mine
<1> QED BY <1>1, <1>3, <1>4, <1>5 DEF ImportInv

LEMMA BeginImportKeeps ==
    ASSUME ImportInv, NEW src \in Source, NEW c \in Content, BeginImport(src, c)
    PROVE  ImportInv'
<1> DEFINE t == [NoTxn EXCEPT !.op = "import", !.src = src, !.sync = Observed(src),
                              !.pkg = IF src = "zip" THEN c ELSE Nothing,
                              !.pc = IF src = "zip" THEN "claim" ELSE "pack"]
<1>1. Observed(src) \in Bits /\ c \in Bits /\ Nothing \in Bits
  BY DEF Observed, ImportInv, ImportTypes, Bits, Source
<1>2. t \in Txns
  BY <1>1, IdOk DEF Txns, TxnPcs, ImportInv
<1>3. /\ txn = NoTxn /\ txn' = t /\ UNCHANGED <<inst, origin, igh>>
      /\ spentImport' \in [imports : Nat, changes : Nat]
  BY DEF BeginImport, ImportInv, ImportTypes
<1>4. /\ t.op = "import" /\ t.src = src /\ ~t.switch /\ t.pc = IF src = "zip" THEN "claim" ELSE "pack"
      /\ src = "zip" => t.pkg = c
  BY DEF NoTxn
<1>5. PackageOk'
  BY <1>3, <1>4 DEF PackageOk, NoTxn
<1> HIDE DEF t
<1> QED BY <1>2, <1>3, <1>4, <1>5, Begins DEF Untouched

LEMMA BeginUpdateKeeps ==
    ASSUME ImportInv, NEW src \in Source, NEW i \in Id, NEW c \in Content, NEW keep \in BOOLEAN,
           BeginUpdate(src, i, c, keep)
    PROVE  ImportInv'
<1> DEFINE t == [NoTxn EXCEPT !.op = "update", !.src = src, !.id = i, !.keep = keep,
                              !.sync = Observed(src),
                              !.switch = src # "zip" /\ inst[i].man.kind # src,
                              !.pkg = IF src = "zip" THEN c ELSE Nothing,
                              !.pc = IF src = "zip" THEN "firstLook" ELSE "sameSource"]
<1>1. Observed(src) \in Bits /\ c \in Bits /\ Nothing \in Bits
  BY DEF Observed, ImportInv, ImportTypes, Bits, Source
<1>2. t \in Txns
  BY ZenonT(60), <1>1, IdOk DEF Txns, TxnPcs, ImportInv
<1>3. /\ txn = NoTxn /\ txn' = t /\ UNCHANGED <<inst, origin, igh>> /\ inst[i].row /\ inst[i].dir
      /\ spentImport' \in [imports : Nat, changes : Nat]
      /\ src = "zip" => inst[i].man.kind # "git"
  BY DEF BeginUpdate, ImportInv, ImportTypes, ZipMayReplace
<1>4. /\ t.op = "update" /\ t.src = src /\ t.id = i /\ t.pc = IF src = "zip" THEN "firstLook" ELSE "sameSource"
      /\ t.switch => src # "zip"
      /\ src = "zip" => t.pkg = c
      /\ t.base.kind = "zip"
  BY DEF NoTxn, NoManifest
<1>5. PackageOk'
  BY <1>3, <1>4 DEF PackageOk, NoTxn, Mine, Making
<1> HIDE DEF t
<1> QED BY <1>2, <1>3, <1>4, <1>5, Begins DEF Untouched

(* Nothing has been done to the instance yet. *)
LEMMA Looks ==
    ASSUME ImportInv, NEW t \in Txns, txn' = t, t.id = txn.id, t.op = txn.op, txn.pc \in Untouched,
           t.pc \in Untouched, t.pc = "secondLook" /\ Unbroken => t.base = Mine.man,
           UNCHANGED <<inst, origin, igh>>, spentImport' \in [imports : Nat, changes : Nat], PackageOk'
    PROVE  ImportInv'
<1>1. ImportTypes' /\ t.pc \notin Making \cup Swapped \cup Settled \cup {"counted", "stage", "swapOut", "swapIn"}
  BY DEF ImportInv, ImportTypes, Untouched, Making, Swapped, Settled
<1>2. AtRestOk'
  BY DEF ImportInv, AtRestOk, Untouched, WholeIf, Named, Intact, Names
<1>3. MakingOk' /\ SwappedOk' /\ SettledOk'
  BY <1>1 DEF MakingOk, SwappedOk, SettledOk, Making, Swapped, Settled
<1>4. UpdateOk'
  BY <1>1 DEF ImportInv, UpdateOk, Mine, Unbroken, Sound
<1> QED BY <1>1, <1>2, <1>3, <1>4 DEF ImportInv

LEMMA PackKeeps == ASSUME ImportInv, Pack PROVE ImportInv'
<1> DEFINE t == [txn EXCEPT !.pkg = origin[txn.src],
                            !.sync = IF txn.src = "git" THEN origin["git"] ELSE @,
                            !.moved = txn.src = "folder" /\ txn.sync # origin["folder"],
                            !.pc = IF txn.op = "import" THEN "claim" ELSE "firstLook"]
<1>1. /\ txn.pc = "pack" /\ UNCHANGED <<inst, origin, igh>> /\ spentImport' \in [imports : Nat, changes : Nat]
      /\ txn \in Txns /\ origin \in [{"folder", "git"} -> Content] /\ txn.src \in {"folder", "git"}
      /\ txn.op \in {"import", "update"}
  BY DEF Pack, Doing, Change, NoChange, ImportInv, ImportTypes, PackageOk, Txns, Source
<1>2. CASE txn' = NoTxn
  BY <1>1, <1>2, EndsUntouched DEF Untouched, ImportInv, ImportTypes
<1>3. CASE txn' = t
  <2>1. t \in Txns
    BY ZenonT(60), <1>1 DEF Txns, TxnPcs, Bits
  <2>2. /\ t.id = txn.id /\ t.op = txn.op /\ t.src = txn.src /\ t.base = txn.base /\ t.switch = txn.switch
        /\ t.pc = IF txn.op = "import" THEN "claim" ELSE "firstLook"
        /\ t.pkg \in Content /\ ~t.moved => t.sync = t.pkg
    BY <1>1 DEF Txns
  <2>3. PackageOk'
    BY <1>1, <1>3, <2>2 DEF ImportInv, PackageOk, Mine, Making, NoTxn
  <2> HIDE DEF t
  <2> QED BY <1>1, <1>3, <2>1, <2>2, <2>3, Looks DEF Untouched
<1> QED BY <1>2, <1>3 DEF Pack, Finished

(* What an answer "unchanged" may do to the ghost. *)
LEMMA SkipOk ==
    ASSUME ImportInv, NEW c, Unchanged(c), igh.odd[txn.id] = "no" => Mine.cur = c
    PROVE  /\ UNCHANGED <<igh.odd, igh.hurt>>
           /\ igh' \in [hurt : SUBSET Id, odd : [Id -> {"no", "torn", "zipped"}],
                        skip : {"none", "torn", "zipped"}]
BY IdOk DEF Unchanged, ImportInv, ImportTypes

LEMMA SameSourceKeeps == ASSUME ImportInv, SameSource PROVE ImportInv'
<1>1. /\ txn.pc = "sameSource" /\ UNCHANGED <<inst, origin, spentImport>>
      /\ spentImport' \in [imports : Nat, changes : Nat] /\ txn.id \in Id /\ txn \in Txns
      /\ txn.src # "zip"
  BY IdOk DEF SameSource, Doing, NoChange, ImportInv, ImportTypes, PackageOk
<1>2. CASE /\ Mine.man.sync = txn.sync /\ Mine.man.kind = txn.src
           /\ Unchanged(txn.sync) /\ Finished
  BY <1>1, <1>2, SkipOk, EndsUntouched DEF ImportInv, AtRestOk, Untouched, Named, Names, Mine,
         Finished
<1>3. CASE Then("pack") /\ UNCHANGED igh
  BY <1>1, <1>3, Looks DEF Then, Txns, TxnPcs, ImportInv, PackageOk, Mine, Making, NoTxn,
         Untouched
<1> QED BY <1>2, <1>3 DEF SameSource

(* To the writing of the identity without a change of current/. *)
LEMMA FirstLookKeeps == ASSUME ImportInv, FirstLook PROVE ImportInv'
<1>1. /\ txn.pc = "firstLook" /\ UNCHANGED <<inst, origin, spentImport>>
      /\ spentImport' \in [imports : Nat, changes : Nat] /\ txn.id \in Id /\ txn \in Txns
      /\ Mine \in Instance /\ Named(txn.id) /\ WholeIf(txn.id) /\ txn.pkg \in Content
      /\ txn.op = "update"
  BY IdOk DEF FirstLook, Doing, NoChange, ImportInv, ImportTypes, PackageOk, AtRestOk, Untouched, Making, Txns
<1>2. CASE Finished /\ UNCHANGED igh
  BY <1>1, <1>2, EndsUntouched DEF Untouched, Finished, ImportInv, ImportTypes
<1>3. CASE Mine.man.zipHash = txn.pkg /\ Unchanged(txn.pkg)
           /\ IF txn.src = "git" \/ txn.switch THEN Then("identity") ELSE Finished
  <2>1. igh.odd[txn.id] = "no" => Mine.cur = txn.pkg
    BY <1>1, <1>3 DEF Named, Names, Mine
  <2>2. /\ UNCHANGED <<igh.odd, igh.hurt>>
        /\ igh' \in [hurt : SUBSET Id, odd : [Id -> {"no", "torn", "zipped"}],
                     skip : {"none", "torn", "zipped"}]
    BY <2>1, <1>3, SkipOk
  <2>3. CASE Finished
    BY <1>1, <2>2, <2>3, EndsUntouched DEF Untouched, Finished
  <2>4. CASE Then("identity") /\ (txn.src = "git" \/ txn.switch)
    <3> DEFINE t == [txn EXCEPT !.pc = "identity"]
    <3>1. t \in Txns /\ txn' = t
      BY <1>1, <2>4 DEF Then, Txns, TxnPcs
    <3>2. /\ txn'.id = txn.id /\ txn'.pc = "identity" /\ txn'.op = "update" /\ txn'.src = txn.src
          /\ txn'.pkg = txn.pkg /\ txn'.switch = txn.switch /\ txn'.base = txn.base
          /\ txn'.sync = txn.sync /\ txn'.moved = txn.moved
      BY <1>1, <3>1 DEF Txns
    <3>3. Mine' = Mine /\ Sound' = Sound /\ Unbroken' = Unbroken
      BY <1>1, <2>2, <3>2 DEF Mine, Sound, Unbroken
    <3>4. ImportTypes'
      BY <1>1, <2>2, <3>1 DEF ImportInv, ImportTypes
    <3>5. AtRestOk'
      BY <1>1, <2>2, <3>2, <3>4, OthersRest DEF ImportInv, Untouched
    <3>6. PackageOk'
      BY <1>1, <2>4, <3>2, <3>3 DEF ImportInv, PackageOk, Making
    <3>7. MakingOk' /\ UpdateOk' /\ SwappedOk'
      BY <1>1, <3>2, <3>3 DEF ImportInv, MakingOk, Making, UpdateOk, Swapped, SwappedOk
    <3>8. /\ Sound => Intact(Mine)
          /\ Unbroken => Mine.cur = txn.pkg /\ Mine.dir /\ Mine.row
      BY <1>1, <1>3, <2>1, ImportAssumption DEF ImportInv, UpdateOk, WholeIf, Mine, Sound, Unbroken, Intact, Absent
    <3>9. SettledOk'
      BY <1>1, <1>3, <3>2, <3>3, <3>8 DEF SettledOk, Settled, Intact
    <3> QED BY <3>4, <3>5, <3>6, <3>7, <3>9 DEF ImportInv
  <2> QED BY <1>3, <2>3, <2>4
<1>4. CASE txn' = [txn EXCEPT !.base = Mine.man, !.pc = "secondLook"] /\ UNCHANGED igh
  <2> DEFINE t == [txn EXCEPT !.base = Mine.man, !.pc = "secondLook"]
  <2>1. t \in Txns /\ txn' = t /\ t.id = txn.id /\ t.op = txn.op /\ t.pc = "secondLook" /\ t.base = Mine.man
        /\ t.src = txn.src /\ t.pkg = txn.pkg /\ t.sync = txn.sync /\ t.moved = txn.moved /\ t.switch = txn.switch
    BY <1>1, <1>4 DEF Txns, TxnPcs, Instance
  <2> HIDE DEF t
  <2>2. PackageOk'
    BY <1>1, <1>4, <2>1 DEF ImportInv, PackageOk, Mine, Making
  <2> QED BY <1>1, <1>4, <2>1, <2>2, Looks DEF Untouched
<1> QED BY <1>2, <1>3, <1>4 DEF FirstLook

LEMMA SecondLookKeeps == ASSUME ImportInv, SecondLook PROVE ImportInv'
<1>1. /\ txn.pc = "secondLook" /\ UNCHANGED <<origin, igh, spentImport>>
      /\ spentImport' \in [imports : Nat, changes : Nat] /\ txn.id \in Id /\ txn \in Txns
      /\ Mine \in Instance /\ Named(txn.id) /\ WholeIf(txn.id)
  BY IdOk DEF SecondLook, Doing, NoChange, ImportInv, ImportTypes, AtRestOk, Untouched
<1>2. CASE UNCHANGED inst /\ Finished
  BY <1>1, <1>2, EndsUntouched DEF Untouched, Finished, ImportInv, ImportTypes
<1>3. CASE Mine.dir /\ Set(txn.id, [Mine EXCEPT !.new = Nothing, !.old = Nothing]) /\ Then("stage")
  <2> DEFINE r == [Mine EXCEPT !.new = Nothing, !.old = Nothing]
             t == [txn EXCEPT !.pc = "stage"]
  <2>1. r \in Instance /\ t \in Txns
    BY ZenonT(60), <1>1 DEF Instance, Txns, TxnPcs, Bits
  <2>2. inst' = [inst EXCEPT ![txn.id] = r] /\ txn' = t
    BY <1>3 DEF Set, Then
  <2>3. ImportTypes'
    BY <1>1, <2>1, <2>2 DEF ImportInv, ImportTypes
  <2>4. Mine' = r /\ txn'.id = txn.id /\ Sound' = Sound /\ Unbroken' = Unbroken
    BY <1>1, <2>1, <2>2 DEF Mine, ImportInv, ImportTypes, Txns, Sound, Unbroken
  <2>5. PackageOk'
    BY <1>1, <2>2, <2>4 DEF ImportInv, PackageOk, ImportTypes, Txns, Making, Instance, NoTxn
  <2>6. AtRestOk'
    BY <1>1, <2>2, <2>3, <2>4, OthersRest DEF ImportInv, ImportTypes, Txns, Untouched
  <2>7. MakingOk' /\ SwappedOk' /\ SettledOk'
    BY <1>1, <2>2 DEF MakingOk, Making, SwappedOk, Swapped, SettledOk, Settled, Txns
  <2>8. /\ igh.odd[txn.id] = "no" => Names(Mine.man, Mine.cur)
        /\ Sound => Intact(Mine)
    BY <1>1, <1>3 DEF Named, WholeIf, Mine, Sound, Absent
  <2>9. UpdateOk'
    BY <1>1, <2>2, <2>4, <2>8 DEF ImportInv, UpdateOk, Txns, Instance, Swapped, Intact, Names
  <2> QED BY <2>3, <2>5, <2>6, <2>7, <2>9 DEF ImportInv
<1> QED BY <1>2, <1>3 DEF SecondLook

LEMMA ClaimKeeps == ASSUME ImportInv, Claim PROVE ImportInv'
<1>1. /\ txn.pc = "claim" /\ UNCHANGED <<origin, spentImport>> /\ txn \in Txns /\ txn.op = "import"
      /\ spentImport' \in [imports : Nat, changes : Nat]
  BY DEF Claim, Doing, NoChange, ImportInv, ImportTypes, PackageOk, Txns
<1>2. CASE Finished /\ UNCHANGED <<inst, igh>>
  BY <1>1, <1>2, EndsUntouched DEF Untouched, Finished, ImportInv, ImportTypes
<1>3. ASSUME NEW i \in Id, Set(i, [Absent EXCEPT !.dir = TRUE]),
             txn' = [txn EXCEPT !.id = i, !.pc = "unpack"],
             igh' = [igh EXCEPT !.odd[i] = "no", !.hurt = @ \ {i}]
      PROVE  ImportInv'
  <2> DEFINE r == [Absent EXCEPT !.dir = TRUE]
             t == [txn EXCEPT !.id = i, !.pc = "unpack"]
  <2>1. r \in Instance /\ r.dir /\ ~r.row /\ r.new = Nothing /\ r.old = Nothing
    BY IdOk DEF Instance, Absent, ImportInv
  <2>2. t \in Txns /\ t.id = i /\ t.pc = "unpack" /\ t.op = "import" /\ t.src = txn.src /\ t.pkg = txn.pkg
        /\ t.sync = txn.sync /\ t.moved = txn.moved /\ t.switch = txn.switch
    BY <1>1 DEF Txns, TxnPcs
  <2>3. inst' = [inst EXCEPT ![i] = r] /\ txn' = t
    BY <1>3 DEF Set
  <2> HIDE DEF r, t
  <2>4. igh' \in [hurt : SUBSET Id, odd : [Id -> {"no", "torn", "zipped"}],
                  skip : {"none", "torn", "zipped"}]
    BY <1>3 DEF ImportInv, ImportTypes
  <2>5. ImportTypes'
    BY <1>1, <2>1, <2>2, <2>3, <2>4 DEF ImportInv, ImportTypes
  <2>6. Mine' = r
    BY <2>2, <2>3 DEF Mine, ImportInv, ImportTypes
  <2>7. /\ igh'.odd[i] = "no" /\ i \notin igh'.hurt
        /\ \A j \in Id \ {i} : /\ igh'.odd[j] = igh.odd[j] /\ (j \in igh'.hurt <=> j \in igh.hurt)
                               /\ inst'[j] = inst[j]
    BY <1>3, <2>3 DEF ImportInv, ImportTypes
  <2>8. AtRestOk'
    BY <1>1, <2>2, <2>3, <2>7 DEF ImportInv, AtRestOk, Untouched, WholeIf, Named, Intact, Names
  <2>9. PackageOk'
    BY <1>1, <2>2, <2>3 DEF ImportInv, PackageOk, Making
  <2>10. MakingOk'
    BY <2>1, <2>2, <2>3, <2>6, <2>7 DEF MakingOk, Sound
  <2>11. UpdateOk' /\ SwappedOk' /\ SettledOk'
    BY <2>2, <2>3 DEF UpdateOk, SwappedOk, SettledOk, Swapped, Settled
  <2> QED BY <2>5, <2>8, <2>9, <2>10, <2>11 DEF ImportInv
<1> QED BY <1>2, <1>3 DEF Claim

LEMMA CountKeeps == ASSUME ImportInv, Count PROVE ImportInv'
<1> DEFINE r == [Mine EXCEPT !.size = txn.pkg]
           t == [txn EXCEPT !.pc = "identity"]
<1>1. /\ txn.pc = "counted" /\ UNCHANGED <<origin, igh, spentImport>> /\ txn.id \in Id /\ txn \in Txns
      /\ spentImport' \in [imports : Nat, changes : Nat] /\ Mine \in Instance /\ txn.op = "import"
  BY IdOk DEF Count, Doing, NoChange, ImportInv, ImportTypes, PackageOk, Txns, Making
<1>2. CASE ~Mine.row
  BY <1>1, <1>2, EndsAbsent DEF Count, Set, Cleaned, Finished
<1>3. CASE Mine.row
  <2>1. /\ inst' = [inst EXCEPT ![txn.id] = r] /\ r \in Instance
        /\ IF txn.src = "zip" THEN txn' = NoTxn ELSE txn' = t
    BY <1>1, <1>3 DEF Count, Set, Finished, Then, Instance, Txns
  <2>2. /\ Mine.dir /\ Mine.new = Nothing /\ Mine.old = Nothing
        /\ Mine.cur = txn.pkg /\ Mine.zip = txn.pkg /\ Mine.reg = txn.pkg
        /\ Mine.man = [NoManifest EXCEPT !.zipHash = txn.pkg] /\ txn.pkg \in Content
    BY <1>1, <1>3 DEF ImportInv, MakingOk, PackageOk
  <2>3. Mine.man.zipHash = txn.pkg /\ Mine.man.kind = "zip"
    BY <2>2 DEF NoManifest
  <2>4. /\ r.row /\ r.dir /\ r.new = Nothing /\ r.old = Nothing /\ r.cur = txn.pkg /\ r.zip = txn.pkg
        /\ r.man = Mine.man /\ r.reg = txn.pkg /\ r.size = txn.pkg
    BY <1>1, <1>3, <2>2 DEF Instance
  <2> HIDE DEF r
  <2>5. Intact(r) /\ Names(r.man, r.cur)
    BY <2>2, <2>3, <2>4, ImportAssumption DEF Intact, Names
  <2>6. inst'[txn.id] = r /\ \A j \in Id \ {txn.id} : inst'[j] = inst[j]
    BY <1>1, <2>1 DEF ImportInv, ImportTypes
  <2>7. CASE txn' = NoTxn
    BY <1>1, <2>1, <2>7, IdOk, <2>5, <2>6, Ends DEF ImportInv, ImportTypes, WholeIf, Named
  <2>8. CASE txn.src # "zip" /\ txn' = t
    <3>1. /\ t \in Txns /\ t.id = txn.id /\ t.pc = "identity" /\ t.op = "import" /\ t.src = txn.src
          /\ t.pkg = txn.pkg /\ t.sync = txn.sync /\ t.moved = txn.moved /\ t.switch = txn.switch
      BY <1>1 DEF Txns, TxnPcs
    <3> HIDE DEF t
    <3>2. ImportTypes' /\ Mine' = r
      BY <1>1, <2>1, <2>6, <2>8, <3>1 DEF ImportInv, ImportTypes, Mine
    <3>3. AtRestOk'
      BY <1>1, <2>6, <2>8, <3>1, <3>2, OthersRest DEF ImportInv, Untouched
    <3>4. PackageOk'
      BY <1>1, <2>8, <3>1 DEF ImportInv, PackageOk, Making
    <3>5. MakingOk' /\ UpdateOk' /\ SwappedOk'
      BY <2>8, <3>1 DEF MakingOk, Making, UpdateOk, SwappedOk, Swapped
    <3>6. SettledOk'
      BY <2>3, <2>4, <2>5, <2>8, <3>1, <3>2 DEF SettledOk, Settled
    <3> QED BY <3>2, <3>3, <3>4, <3>5, <3>6 DEF ImportInv
  <2> QED BY <2>1, <2>7, <2>8
<1> QED BY <1>2, <1>3

LEMMA CasKeeps == ASSUME ImportInv, Cas PROVE ImportInv'
<1>1. /\ txn.pc = "cas" /\ UNCHANGED <<inst, origin, spentImport>> /\ txn.id \in Id /\ txn \in Txns
      /\ spentImport' \in [imports : Nat, changes : Nat] /\ Mine \in Instance /\ txn.op = "update"
      /\ txn.src \in Source
  BY IdOk DEF Cas, Doing, NoChange, ImportInv, ImportTypes, PackageOk, Txns, Making
<1>2. /\ Sound => Intact(Mine)
      /\ igh.odd[txn.id] = "no" => Mine.man.zipHash = Mine.cur
  BY <1>1 DEF ImportInv, SettledOk, Settled, Unbroken
<1>3. CASE txn.beside \/ txn.src = "zip"
  <2>1. txn' = NoTxn
    BY <1>1, <1>3 DEF Cas, Finished
  <2>2. \/ igh' = igh /\ txn.src = "zip" /\ Mine.man.kind # "folder"
        \/ \E why \in {"zipped", "torn"} :
             igh' = [igh EXCEPT !.odd[txn.id] = IF @ = "torn" THEN @ ELSE why]
    BY <1>1, <1>3 DEF Cas, Odd
  <2>3. /\ igh' \in [hurt : SUBSET Id, odd : [Id -> {"no", "torn", "zipped"}],
                     skip : {"none", "torn", "zipped"}]
        /\ igh'.hurt = igh.hurt
        /\ \A j \in Id \ {txn.id} : igh'.odd[j] = igh.odd[j]
        /\ igh'.odd[txn.id] = "no" =>
              igh.odd[txn.id] = "no" /\ txn.src = "zip" /\ Mine.man.kind # "folder"
    BY <1>1, <2>2 DEF ImportInv, ImportTypes
  <2>4. ImportTypes'
    BY <1>1, <2>1, <2>3, IdOk DEF ImportInv, ImportTypes
  <2>5. igh'.odd[txn.id] = "no" => Mine.man.kind = "zip"
    BY <1>1, <2>3 DEF ImportInv, PackageOk, Instance, Manifest, Source
  <2>6. PICK i \in Id : i = txn.id
    BY <1>1
  <2>7. WholeIf(i)' /\ Named(i)'
    BY <1>1, <1>2, <2>3, <2>5, <2>6 DEF WholeIf, Named, Names, Sound, Mine, Intact
  <2> QED BY <1>1, <2>1, <2>3, <2>4, <2>6, <2>7, Ends
<1>4. CASE ~txn.beside /\ txn.src # "zip"
  <2> DEFINE t == [txn EXCEPT !.pc = "identity"]
  <2>1. /\ txn' = t /\ igh' = igh /\ t \in Txns /\ t.id = txn.id /\ t.pc = "identity" /\ t.op = "update"
        /\ t.src = txn.src /\ t.pkg = txn.pkg /\ t.sync = txn.sync /\ t.moved = txn.moved /\ t.switch = txn.switch
    BY <1>1, <1>4 DEF Cas, Then, Txns, TxnPcs
  <2> HIDE DEF t
  <2>2. ImportTypes' /\ Mine' = Mine /\ Unbroken' = Unbroken /\ Sound' = Sound
    BY <1>1, <2>1 DEF ImportInv, ImportTypes, Mine, Unbroken, Sound
  <2>3. AtRestOk'
    BY <1>1, <2>1, <2>2, OthersRest DEF ImportInv, Untouched
  <2>4. PackageOk'
    BY <1>1, <1>4, <2>1 DEF ImportInv, PackageOk, Making
  <2>5. MakingOk' /\ UpdateOk' /\ SwappedOk'
    BY <1>1, <2>1, <2>2 DEF ImportInv, MakingOk, Making, UpdateOk, SwappedOk, Swapped
  <2>6. SettledOk'
    BY <1>1, <2>1, <2>2 DEF ImportInv, SettledOk, Settled, Intact
  <2> QED BY <2>2, <2>3, <2>4, <2>5, <2>6 DEF ImportInv
<1> QED BY <1>3, <1>4

LEMMA OtherCommandKeeps == ASSUME ImportInv, NEW i \in Id, OtherCommand(i) PROVE ImportInv'
<1> DEFINE t == [txn EXCEPT !.beside = TRUE]
<1>1. /\ txn.pc \in {"secondLook", "cas"} /\ UNCHANGED <<inst, origin, igh>> /\ txn' = t /\ txn \in Txns
      /\ spentImport' \in [imports : Nat, changes : Nat] /\ txn.op = "update"
  BY DEF OtherCommand, Change, ImportInv, ImportTypes
<1>2. /\ t \in Txns /\ t.id = txn.id /\ t.pc = txn.pc /\ t.op = txn.op /\ t.base = txn.base
      /\ t.src = txn.src /\ t.pkg = txn.pkg /\ t.sync = txn.sync /\ t.moved = txn.moved /\ t.switch = txn.switch
  BY <1>1 DEF Txns
<1> HIDE DEF t
<1>3. ImportTypes' /\ Mine' = Mine /\ Unbroken' = Unbroken /\ Sound' = Sound
  BY <1>1, <1>2 DEF ImportInv, ImportTypes, Mine, Unbroken, Sound
<1>4. AtRestOk'
  BY <1>1, <1>2 DEF ImportInv, AtRestOk, WholeIf, Named, Intact, Names
<1>5. PackageOk'
  BY <1>1, <1>2, <1>3 DEF ImportInv, PackageOk
<1>6. MakingOk' /\ SwappedOk'
  BY <1>1, <1>2 DEF MakingOk, Making, SwappedOk, Swapped
<1>7. UpdateOk' /\ SettledOk'
  BY <1>1, <1>2, <1>3 DEF ImportInv, UpdateOk, SettledOk, Intact, Swapped
<1> QED BY <1>3, <1>4, <1>5, <1>6, <1>7 DEF ImportInv

LEMMA UpdateFailsKeeps == ASSUME ImportInv, UpdateFails PROVE ImportInv'
<1> DEFINE r == CASE txn.pc \in {"stage", "swapOut"} -> Mine
                  [] txn.pc = "swapIn"               -> [Mine EXCEPT !.cur = Mine.old]
                  [] OTHER                           -> Undone
           s == [r EXCEPT !.new = Nothing, !.old = Nothing]
<1>1. /\ txn.pc \in {"stage", "swapOut", "swapIn"} \cup Swapped /\ txn.op = "update"
      /\ inst' = [inst EXCEPT ![txn.id] = s] /\ txn' = NoTxn /\ UNCHANGED <<origin, igh>>
      /\ spentImport' \in [imports : Nat, changes : Nat] /\ Mine \in Instance /\ txn \in Txns
      /\ txn.id \in Id
  BY IdOk DEF UpdateFails, Doing, Change, NoChange, Set, Finished, ImportInv, ImportTypes, Swapped
<1>2. /\ Unbroken => Mine.dir /\ Mine.row
      /\ txn.base \in Manifest
  BY <1>1 DEF ImportInv, UpdateOk, Txns
<1>3. s \in Instance /\ (Sound => Intact(s)) /\ (igh.odd[txn.id] = "no" => Names(s.man, s.cur))
  <2>1. CASE txn.pc \in {"stage", "swapOut"}
    BY <2>1, <1>1 DEF Instance, Bits, ImportInv, UpdateOk, Intact
  <2>2. CASE txn.pc = "swapIn"
    BY <2>2, <1>1 DEF Instance, Bits, ImportInv, UpdateOk, Intact, Unbroken
  <2>3. CASE txn.pc \in Swapped
    <3>1. s = [Undone EXCEPT !.new = Nothing, !.old = Nothing]
      BY <2>3 DEF Swapped
    <3>2. /\ Undone \in Instance /\ Undone.dir = Mine.dir /\ Undone.row /\ Undone.cur = Mine.old /\ Undone.zip = Mine.bak
          /\ Undone.man = txn.base /\ Undone.reg = txn.base.zipHash /\ Undone.size = txn.base.zipHash
      BY <1>1, <1>2 DEF Undone, Undone_NoZip, Instance, Manifest
    <3>3. s \in Instance
      BY <3>1, <3>2 DEF Instance, Bits
    <3>4. /\ s.dir = Mine.dir /\ s.row /\ s.cur = Mine.old /\ s.zip = Mine.bak /\ s.new = Nothing /\ s.old = Nothing
          /\ s.man = txn.base /\ s.reg = txn.base.zipHash /\ s.size = txn.base.zipHash
      BY <3>1, <3>2 DEF Instance
    <3> HIDE DEF s
    <3> QED BY <1>1, <1>2, <2>3, <3>3, <3>4 DEF ImportInv, UpdateOk, SwappedOk, Intact, Unbroken
  <2> QED BY <1>1, <2>1, <2>2, <2>3
<1> HIDE DEF s
<1>4. inst'[txn.id] = s /\ \A j \in Id \ {txn.id} : inst'[j] = inst[j]
  BY <1>1 DEF ImportInv, ImportTypes
<1>5. ImportTypes'
  BY <1>1, <1>3, IdOk DEF ImportInv, ImportTypes
<1>6. PICK i \in Id : i = txn.id
  BY <1>1
<1>7. WholeIf(i)' /\ Named(i)'
  BY <1>1, <1>3, <1>4, <1>6 DEF WholeIf, Named, Sound
<1> QED BY <1>1, <1>4, <1>5, <1>6, <1>7, Ends

LEMMA LoadIdentityKeeps == ASSUME ImportInv, LoadIdentity PROVE ImportInv'
<1>1. /\ txn.pc = "identity" /\ UNCHANGED <<origin, igh, spentImport>> /\ txn.id \in Id /\ txn \in Txns
      /\ spentImport' \in [imports : Nat, changes : Nat] /\ Mine \in Instance
  BY IdOk DEF LoadIdentity, Doing, NoChange, ImportInv, ImportTypes
<1>2. CASE Mine.dir
  <2> DEFINE t == [txn EXCEPT !.base = Mine.man, !.pc = "writeBack"]
  <2>1. /\ txn' = t /\ inst' = inst /\ t \in Txns /\ t.id = txn.id /\ t.pc = "writeBack" /\ t.op = txn.op
        /\ t.src = txn.src /\ t.pkg = txn.pkg /\ t.sync = txn.sync /\ t.moved = txn.moved
        /\ t.switch = txn.switch /\ t.base = Mine.man
    BY <1>1, <1>2 DEF LoadIdentity, Txns, TxnPcs, Instance
  <2> HIDE DEF t
  <2>2. ImportTypes' /\ Mine' = Mine /\ Unbroken' = Unbroken /\ Sound' = Sound
    BY <1>1, <2>1 DEF ImportInv, ImportTypes, Mine, Unbroken, Sound
  <2>3. AtRestOk'
    BY <1>1, <2>1, <2>2, OthersRest DEF ImportInv, Untouched
  <2>4. PackageOk'
    BY <1>1, <2>1, <2>2 DEF ImportInv, PackageOk, Making
  <2>5. MakingOk' /\ UpdateOk' /\ SwappedOk'
    BY <1>1, <2>1, <2>2 DEF ImportInv, MakingOk, Making, UpdateOk, SwappedOk, Swapped
  <2>6. SettledOk'
    BY <1>1, <2>1, <2>2 DEF ImportInv, SettledOk, Settled, Intact
  <2> QED BY <2>2, <2>3, <2>4, <2>5, <2>6 DEF ImportInv
<1>3. CASE ~Mine.dir
  BY <1>1, <1>3, IdOk, Ends, EndsAbsent DEF LoadIdentity, Finished, Set, Cleaned, ImportInv,
         SettledOk, Settled, Unbroken, ImportTypes, WholeIf, Named, Sound
<1> QED BY <1>2, <1>3

LEMMA WriteBackKeeps == ASSUME ImportInv, WriteBack PROVE ImportInv'
<1> DEFINE m == [txn.base EXCEPT !.kind = txn.src, !.sync = txn.sync]
           r == [Mine EXCEPT !.dir = TRUE, !.man = m]
           o == IF txn.moved \/ txn.beside THEN "torn" ELSE IF Mine.cur = txn.pkg THEN "no" ELSE igh.odd[txn.id]
<1>1. /\ txn.pc = "writeBack" /\ txn' = NoTxn /\ UNCHANGED <<origin, spentImport>> /\ txn.id \in Id
      /\ inst' = [inst EXCEPT ![txn.id] = r] /\ igh' = [igh EXCEPT !.odd[txn.id] = o]
      /\ spentImport' \in [imports : Nat, changes : Nat] /\ Mine \in Instance /\ txn \in Txns
      /\ igh.odd[txn.id] \in {"no", "torn", "zipped"}
  BY IdOk DEF WriteBack, Doing, Set, Finished, NoChange, ImportInv, ImportTypes
<1>2. m \in Manifest /\ m.zipHash = txn.base.zipHash /\ m.kind = txn.src /\ m.sync = txn.sync
  BY <1>1 DEF Txns, Manifest
<1>3. o \in {"no", "torn", "zipped"}
  BY <1>1
<1> HIDE DEF m
<1>4. /\ r \in Instance /\ r.dir /\ r.man = m /\ r.row = Mine.row /\ r.cur = Mine.cur /\ r.new = Mine.new
      /\ r.old = Mine.old /\ r.zip = Mine.zip /\ r.reg = Mine.reg /\ r.size = Mine.size
  BY <1>1, <1>2 DEF Instance
<1>5. /\ Mine.cur = txn.pkg => txn.base.zipHash = txn.pkg
      /\ Sound => Intact(Mine) /\ Mine.cur = txn.pkg
      /\ igh.odd[txn.id] = "no" => Mine.cur = txn.pkg
      /\ txn.src # "zip" /\ (~txn.moved => txn.sync = txn.pkg)
  BY <1>1 DEF ImportInv, SettledOk, Settled, Unbroken, PackageOk
<1>6. Sound => Intact(r)
  BY <1>2, <1>4, <1>5 DEF Intact
<1>7. o = "no" => Names(r.man, r.cur)
  BY <1>2, <1>4, <1>5 DEF Names
<1> HIDE DEF r, o
<1>8. /\ igh' \in [hurt : SUBSET Id, odd : [Id -> {"no", "torn", "zipped"}],
                   skip : {"none", "torn", "zipped"}]
      /\ igh'.hurt = igh.hurt /\ igh'.odd[txn.id] = o /\ inst'[txn.id] = r
      /\ \A j \in Id \ {txn.id} : igh'.odd[j] = igh.odd[j] /\ inst'[j] = inst[j]
  BY <1>1, <1>3 DEF ImportInv, ImportTypes
<1>9. ImportTypes'
  BY <1>1, <1>4, <1>8, IdOk DEF ImportInv, ImportTypes
<1>10. PICK i \in Id : i = txn.id
  BY <1>1
<1>11. WholeIf(i)' /\ Named(i)'
  BY <1>6, <1>7, <1>8, <1>10 DEF WholeIf, Named, Sound
<1> QED BY <1>1, <1>8, <1>9, <1>10, <1>11, Ends

LEMMA WriteBackFailsKeeps == ASSUME ImportInv, WriteBackFails PROVE ImportInv'
<1>1. /\ txn.pc \in {"identity", "writeBack"} /\ txn' = NoTxn /\ UNCHANGED origin /\ txn.id \in Id
      /\ spentImport' \in [imports : Nat, changes : Nat]
      /\ \/ inst' = [inst EXCEPT ![txn.id] = Absent] /\ UNCHANGED igh
         \/ inst' = inst /\ igh' = [igh EXCEPT !.odd[txn.id] = IF @ = "torn" THEN @ ELSE "torn"]
  BY IdOk DEF WriteBackFails, Doing, Change, Finished, Set, Cleaned, Odd, ImportInv, ImportTypes
<1>2. CASE inst' = inst /\ igh' = [igh EXCEPT !.odd[txn.id] = IF @ = "torn" THEN @ ELSE "torn"]
  BY <1>1, <1>2, IdOk, Ends DEF ImportInv, ImportTypes, SettledOk, Settled, WholeIf, Named, Sound,
         Mine, Intact
<1> QED BY <1>1, <1>2, EndsAbsent

LEMMA ImportDiesKeeps == ASSUME ImportInv, ImportDies PROVE ImportInv'
<1>1. /\ txn # NoTxn /\ txn' = NoTxn /\ UNCHANGED <<inst, origin>> /\ txn.id \in Id /\ txn \in Txns
      /\ spentImport' \in [imports : Nat, changes : Nat]
      /\ txn.op \in {"import", "update"}
      /\ IF Mine.dir /\ (txn.op = "update" \/ txn.pc \notin {"pack", "claim"})
         THEN igh' = [igh EXCEPT !.hurt = @ \cup {txn.id}, !.odd[txn.id] = "torn"] ELSE igh' = igh
  BY IdOk DEF ImportDies, Change, Finished, Hurt, ImportInv, ImportTypes, PackageOk, Txns
<1>2. CASE igh' = [igh EXCEPT !.hurt = @ \cup {txn.id}, !.odd[txn.id] = "torn"]
  BY <1>1, <1>2, IdOk, Ends DEF ImportInv, ImportTypes, WholeIf, Named
<1>3. CASE igh' = igh /\ txn.pc \in Untouched
  BY <1>1, <1>3, EndsUntouched DEF ImportInv, ImportTypes
<1>4. CASE igh' = igh /\ txn.pc \notin Untouched /\ ~Mine.dir
  BY <1>1, <1>4, IdOk, Ends DEF ImportInv, PackageOk, MakingOk, UpdateOk, SettledOk, Settled,
         Untouched, Unbroken, Sound, ImportTypes, WholeIf, Named
<1> QED BY <1>1, <1>2, <1>3, <1>4 DEF Untouched

LEMMA ImportInitInv == ImportInit => ImportInv
<1> SUFFICES ASSUME ImportInit PROVE ImportInv
    OBVIOUS
<1>1. 1 \in Id /\ NoTxn.pc = "idle" /\ NoTxn.op = "none" /\ ~NoTxn.switch
  BY ImportAssumption DEF Id, NoTxn
<1>2. NoTxn \in Txns /\ Absent \in Instance
  BY <1>1 DEF Txns, TxnPcs, NoTxn, Absent, Instance, NoManifest, Manifest, Bits, Source
<1>3. ImportTypes
  BY <1>2 DEF ImportInit, ImportTypes
<1>4. PackageOk /\ MakingOk /\ UpdateOk /\ SwappedOk /\ SettledOk
  BY <1>1 DEF ImportInit, PackageOk, MakingOk, Making, UpdateOk, SwappedOk, Swapped, SettledOk, Settled
<1>5. AtRestOk
  BY AbsentNamed DEF ImportInit, AtRestOk, WholeIf, Named
<1> QED BY <1>3, <1>4, <1>5 DEF ImportInv

LEMMA ImportNextKeeps == ImportInv /\ [ImportNext]_importVars => ImportInv'
<1> SUFFICES ASSUME ImportInv, [ImportNext]_importVars PROVE ImportInv'
    OBVIOUS
<1>1. CASE UNCHANGED importVars
  <2>1. ImportTypes' /\ Mine' = Mine /\ Sound' = Sound /\ Unbroken' = Unbroken
    BY <1>1 DEF ImportInv, ImportTypes, importVars, Mine, Sound, Unbroken
  <2>2. PackageOk' /\ AtRestOk' /\ MakingOk'
    BY <1>1, <2>1 DEF ImportInv, PackageOk, AtRestOk, MakingOk, importVars, WholeIf, Named, Intact, Names
  <2>3. UpdateOk' /\ SwappedOk' /\ SettledOk'
    BY <1>1, <2>1 DEF ImportInv, UpdateOk, SwappedOk, SettledOk, importVars, Intact, Names
  <2> QED BY <2>1, <2>2, <2>3 DEF ImportInv
<1>2. ASSUME NEW src \in Source, NEW c \in Content, BeginImport(src, c) PROVE ImportInv'
  BY <1>2, BeginImportKeeps
<1>3. ASSUME NEW src \in Source, NEW c \in Content, NEW i \in Id, NEW k \in BOOLEAN, BeginUpdate(src, i, c, k)
      PROVE  ImportInv'
  BY <1>3, BeginUpdateKeeps
<1>4. ASSUME NEW src \in {"folder", "git"}, NEW c \in Content, SourceChanges(src, c) PROVE ImportInv'
  BY <1>4, SourceChangesKeeps
<1>5. ASSUME NEW i \in Id, OtherCommand(i) \/ Remove(i) PROVE ImportInv'
  BY <1>5, OtherCommandKeeps, RemoveKeeps
<1>6. CASE Pack \/ Claim \/ Unpack \/ NewManifest \/ Register \/ Count \/ ImportFails
  BY <1>6, PackKeeps, ClaimKeeps, UnpackKeeps, NewManifestKeeps, RegisterKeeps, CountKeeps, ImportFailsKeeps
<1>7. CASE SameSource \/ FirstLook \/ SecondLook \/ Stage \/ SwapOut \/ SwapIn \/ SaveManifest
  BY <1>7, SameSourceKeeps, FirstLookKeeps, SecondLookKeeps, StageKeeps, SwapOutKeeps, SwapInKeeps, SaveManifestKeeps
<1>8. CASE SaveZip \/ UpsertRow \/ Purge \/ Sizes \/ Tidy \/ Cas \/ UpdateFails
  BY <1>8, SaveZipKeeps, UpsertRowKeeps, PurgeKeeps, SizesKeeps, TidyKeeps, CasKeeps, UpdateFailsKeeps
<1>9. CASE LoadIdentity \/ WriteBack \/ WriteBackFails \/ ImportDies
  BY <1>9, LoadIdentityKeeps, WriteBackKeeps, WriteBackFailsKeeps, ImportDiesKeeps
<1> QED BY <1>1, <1>2, <1>3, <1>4, <1>5, <1>6, <1>7, <1>8, <1>9 DEF ImportNext

(* The inductive invariant of importing and updating (importer.py): at every *)
(* step of an exchange, which of source, package, manifest and registry are  *)
(* of the old version and which of the new, so that a failure at that step   *)
(* can put back what is missing; and that a recorded identity is that of     *)
(* what is in current/.                                                      *)
THEOREM ImportInvariant == ImportSpec => []ImportInv
<1>1. ImportInit => ImportInv
  BY ImportInitInv
<1>2. ImportInv /\ [ImportNext]_importVars => ImportInv'
  BY ImportNextKeeps
<1> QED BY <1>1, <1>2, PTL DEF ImportSpec

(* A failed import leaves neither directory nor row and a failed update the  *)
(* version of before (_cleanup_failed, _rollback_swapped_current), and an    *)
(* update that answers "unchanged" is right, whatever other commands and the *)
(* sources do meanwhile.                                                     *)
THEOREM ImportStaysSafe == ImportSpec => []ImportIsSafe
<1>1. ImportInv => ImportIsSafe
  BY NoTxn.pc = "idle" DEF ImportInv, ImportTypes, ImportTypeOK, Txns, WholeOrAbsent, AtRestOk,
         Untouched, NoTxn, Intact, WholeIf, UnchangedIsTrue, ImportIsSafe
<1> QED BY <1>1, ImportInvariant, PTL

(***************************************************************************)
(* What a round of sync_status takes back.                                 *)
(***************************************************************************)

BuildRows  == [st : {"running", "success", "failed"}, old : BOOLEAN]
InstStates == {"running", "stopped", "building", "failed"}

(* What a round has to do. *)
GlanceKind == [pc : {"idle", "recover", "orphans", "building", "observe"}, stale : BOOLEAN, row : Nat]

SyncTyped ==
    /\ srow2 \in [st : InstStates, trusted : {"running", "stopped"}, old : BOOLEAN]
    /\ mstat \in {"running", "stopped", "failed"} /\ runs \in Seq(BuildRows)
    /\ world \in [up : BOOLEAN, sight : {"ok", "denied", "blind"}]
    /\ worker \in [pc : {"idle", "begun", "working", "ended"}, kind : Kinds]
    /\ syncer \in GlanceKind
    /\ syncer.row \in 0..Latest /\ sygh \in [crossed : BOOLEAN]

(* Only what was judged stale is taken back. *)
RecoversStale == syncer.pc = "recover" => syncer.stale

(* The builder has told that it builds: by the status of the instance, by a  *)
(* row that runs, by both.                                                   *)
SaysBuilding == srow2.st = "building"
HasRow       == Latest > 0 /\ runs[Latest].st = "running" /\ ~runs[Latest].old
Told(pc) ==
    /\ worker.kind # "container" \/ pc = "working" => SaysBuilding
    /\ worker.kind = "container" \/ (worker.kind = "frontend" /\ pc = "working") => HasRow
(* A build the judgement did not cross is not judged stale by anybody. *)
UncrossedIsTold ==
    worker.pc \in {"begun", "working"} /\ ~sygh.crossed => ~syncer.stale /\ Told(worker.pc)
SyncInv == SyncTyped /\ RecoversStale /\ UncrossedIsTold

LEMMA GlanceKinds ==
    \A pc \in {"idle", "recover", "orphans", "building", "observe"}, b \in BOOLEAN, n \in Nat :
        LET g == [pc |-> pc, stale |-> b, row |-> n]
        IN g \in GlanceKind /\ g.pc = pc /\ g.stale = b /\ g.row = n
BY DEF GlanceKind

(* The invariant holds the promise. *)
LEMMA SyncInvTells == SyncInv => SyncTypeOK /\ LiveBuildSparedUnlessCrossed
<1> SUFFICES ASSUME SyncInv PROVE SyncTypeOK /\ LiveBuildSparedUnlessCrossed
  OBVIOUS
<1>1. SyncTypeOK
  <2>1. \A i \in DOMAIN runs : runs[i] \in BuildRows
    BY DEF SyncInv, SyncTyped
  <2> QED BY <2>1 DEF SyncInv, SyncTyped, SyncTypeOK, InstStates, BuildRows
<1>2. worker.kind \in {"static", "frontend", "container"}
  BY SyncAssumption DEF SyncInv, SyncTyped
<1>3. LiveBuildSparedUnlessCrossed
  BY <1>2 DEF SyncInv, UncrossedIsTold, Told, SaysBuilding, HasRow, LiveBuildSparedUnlessCrossed
<1> QED BY <1>1, <1>3

(* What rewrites rows leaves a sequence of as many. *)
LEMMA RewritesRows ==
    ASSUME runs \in Seq(BuildRows), NEW f, f = [i \in DOMAIN runs |-> f[i]],
           \A i \in DOMAIN runs : f[i] \in BuildRows
    PROVE  f \in Seq(BuildRows) /\ Len(f) = Len(runs)
OBVIOUS

LEMMA PutsRow ==
    ASSUME runs \in Seq(BuildRows), NEW j, NEW r \in BuildRows
    PROVE  /\ [runs EXCEPT ![j] = r] \in Seq(BuildRows)
           /\ Len([runs EXCEPT ![j] = r]) = Len(runs)
<1> DEFINE f == [runs EXCEPT ![j] = r]
<1>1. \A i \in DOMAIN runs : runs[i] \in BuildRows
  OBVIOUS
<1>2. f = [i \in DOMAIN runs |-> f[i]] /\ \A i \in DOMAIN runs : f[i] \in BuildRows
  BY <1>1
<1> HIDE DEF f
<1>3. f \in Seq(BuildRows) /\ Len(f) = Len(runs)
  BY <1>2, RewritesRows
<1> QED BY <1>3 DEF f

LEMMA RowsAreCounted == \A s \in Seq(BuildRows) : Len(s) \in Nat
OBVIOUS

LEMMA OneMore == \A m, n \in Nat : m = n + 1 => m > 0 /\ m >= n
OBVIOUS

(* The row of a build comes after rows none of which runs. *)
LEMMA NewRunIsLast ==
    ASSUME SyncTyped, runs' = NewRun(FALSE)
    PROVE  runs' \in Seq(BuildRows) /\ Len(runs') \in Nat /\ Len(runs') >= Len(runs) /\ HasRow'
<1> DEFINE f == [i \in DOMAIN runs |-> IF runs[i].st = "running"
                                      
                                           THEN [runs[i] EXCEPT !.st = "failed", !.old = FALSE] ELSE runs[i]]
           e == [st |-> "running", old |-> FALSE]
<1>1. \A i \in DOMAIN runs : runs[i] \in BuildRows
  BY DEF SyncTyped
<1>2. \A i \in DOMAIN runs : f[i] \in BuildRows
  BY <1>1 DEF BuildRows
<1>3. f \in Seq(BuildRows) /\ Len(f) = Len(runs)
  <2>1. f = [i \in DOMAIN runs |-> f[i]]
    OBVIOUS
  <2>2. runs \in Seq(BuildRows)
    BY DEF SyncTyped
  <2> HIDE DEF f
  <2> QED BY <1>2, <2>1, <2>2, RewritesRows
<1>4. runs' = Append(f, e) /\ e \in BuildRows
  BY DEF NewRun, BuildRows
<1> HIDE DEF f
<1>5. Append(f, e) \in Seq(BuildRows) /\ Len(Append(f, e)) = Len(f) + 1 /\ Append(f, e)[Len(f) + 1] = e
  <2> HIDE DEF e
  <2> QED BY <1>3, <1>4
<1>6. Len(runs) \in Nat
  BY DEF SyncTyped
<1>7. runs' \in Seq(BuildRows) /\ Len(runs') = Len(runs) + 1 /\ runs'[Len(runs')] = e
  BY <1>3, <1>4, <1>5
<1>8. /\ runs'[Len(runs')].st = "running" /\ runs'[Len(runs')].old = FALSE
      /\ Len(runs') \in Nat /\ Len(runs') > 0 /\ Len(runs') >= Len(runs)
  <2>1. e.st = "running" /\ e.old = FALSE
    OBVIOUS
  <2> HIDE DEF e
  <2>2. Len(runs') \in Nat
    BY <1>7, RowsAreCounted
  <2>3. Len(runs') > 0 /\ Len(runs') >= Len(runs)
    BY <1>6, <1>7, <2>2, OneMore
  <2>4. runs'[Len(runs')] = e
    BY <1>7
  <2> QED BY <2>1, <2>2, <2>3, <2>4
<1>9. HasRow'
  BY <1>8 DEF HasRow, Latest
<1> QED BY <1>7, <1>8, <1>9

LEMMA SyncBegins == SyncInit => SyncInv
<1> SUFFICES ASSUME SyncInit PROVE SyncInv
  OBVIOUS
<1>1. runs \in Seq(BuildRows)
  <2>1. [st |-> "success", old |-> TRUE] \in BuildRows
    BY DEF BuildRows
  <2>2. ASSUME NEW r \in BuildRows PROVE <<r>> \in Seq(BuildRows) /\ <<>> \in Seq(BuildRows)
    OBVIOUS
  <2>3. runs = <<>> \/ runs = <<[st |-> "success", old |-> TRUE]>>
    BY DEF SyncInit
  <2> QED BY <2>1, <2>2, <2>3
<1>2. Len(runs) \in Nat
  BY <1>1
<1>3. syncer \in GlanceKind /\ syncer.row = 0 /\ syncer.stale = FALSE /\ syncer.pc = "idle"
  BY GlanceKinds DEF SyncInit, NoGlance
<1>4. SyncTyped
  BY <1>1, <1>2, <1>3 DEF SyncInit, SyncTyped, InstStates, Latest
<1> QED BY <1>4 DEF SyncInit, SyncInv, RecoversStale, UncrossedIsTold, NoGlance

LEMMA BeginBuildKeeps ==
    ASSUME SyncInv, BeginBuild PROVE SyncInv'
<1>1. SyncTyped /\ Len(runs) \in Nat
  BY DEF SyncInv, SyncTyped
<1>2. worker' = [worker EXCEPT !.pc = "begun"] /\ worker'.pc = "begun" /\ worker'.kind = worker.kind
  BY <1>1 DEF SyncTyped, BeginBuild, Work
<1>3. sygh' \in [crossed : BOOLEAN] /\ (~sygh'.crossed => ~syncer.stale)
  BY <1>1 DEF SyncTyped, BeginBuild
<1>4. /\ srow2' \in [st : InstStates, trusted : {"running", "stopped"}, old : BOOLEAN]
      /\ worker.kind # "container" => srow2'.st = "building"
  BY <1>1 DEF SyncTyped, BeginBuild, MarkBuilding, InstStates
<1>5. /\ runs' \in Seq(BuildRows) /\ Len(runs') \in Nat /\ Len(runs') >= Len(runs)
      /\ worker.kind = "container" => HasRow'
  <2>1. CASE runs' = NewRun(FALSE)
    BY <1>1, <2>1, NewRunIsLast
  <2>2. CASE worker.kind # "container" /\ runs' = runs
    BY <1>1, <2>2 DEF SyncTyped
  <2> QED BY <2>1, <2>2 DEF BeginBuild
<1>6. UNCHANGED <<mstat, world, syncer>>
  BY DEF BeginBuild
<1>7. SyncTyped'
  BY <1>1, <1>5, <1>6, <1>2, <1>3, <1>4 DEF SyncTyped, Latest
<1>8. RecoversStale'
  BY <1>6 DEF SyncInv, RecoversStale
<1>9. UncrossedIsTold'
  BY <1>2, <1>3, <1>4, <1>5, <1>6 DEF UncrossedIsTold, Told, SaysBuilding
<1> QED BY <1>7, <1>8, <1>9 DEF SyncInv

LEMMA SecondMarkKeeps ==
    ASSUME SyncInv, SecondMark PROVE SyncInv'
<1>1. SyncTyped /\ Len(runs) \in Nat /\ UNCHANGED <<mstat, world, syncer, sygh>>
  BY DEF SyncInv, SyncTyped, SecondMark
<1>2. worker' = [worker EXCEPT !.pc = "working"] /\ worker'.pc = "working" /\ worker'.kind = worker.kind
  BY <1>1 DEF SyncTyped, SecondMark, Work
<1>3. worker.pc = "begun"
  BY DEF SecondMark
<1>4. /\ srow2' \in [st : InstStates, trusted : {"running", "stopped"}, old : BOOLEAN]
      /\ IF worker.kind = "container" THEN srow2'.st = "building" ELSE srow2' = srow2
  BY <1>1 DEF SyncTyped, SecondMark, MarkBuilding, InstStates
<1>5. /\ runs' \in Seq(BuildRows) /\ Len(runs') \in Nat /\ Len(runs') >= Len(runs)
      /\ IF worker.kind = "frontend" THEN HasRow' ELSE runs' = runs
  <2>1. CASE worker.kind = "frontend" /\ runs' = NewRun(FALSE)
    BY <1>1, <2>1, NewRunIsLast
  <2>2. CASE worker.kind # "frontend" /\ runs' = runs
    BY <1>1, <2>2 DEF SyncTyped
  <2> QED BY <2>1, <2>2 DEF SecondMark
<1>6. SyncTyped'
  BY <1>1, <1>5, <1>2, <1>4 DEF SyncTyped, Latest
<1>7. RecoversStale'
  BY <1>1 DEF SyncInv, RecoversStale
<1>8. UncrossedIsTold'
  BY <1>1, <1>2, <1>3, <1>4, <1>5 DEF SyncInv, UncrossedIsTold, Told, SaysBuilding, HasRow, Latest
<1> QED BY <1>6, <1>7, <1>8 DEF SyncInv

(* A step that leaves nobody building, the rows as many and nobody taking    *)
(* back.                                                                     *)
LEMMA NotBuildingKeeps ==
    ASSUME SyncInv, UNCHANGED <<world, syncer, sygh>>, runs' \in Seq(BuildRows), Len(runs') = Len(runs),
           srow2' \in [st : InstStates, trusted : {"running", "stopped"}, old : BOOLEAN],
           mstat' \in {"running", "stopped", "failed"},
           NEW pc \in {"idle", "ended"}, worker' = [worker EXCEPT !.pc = pc]
    PROVE  SyncInv'
BY DEF SyncInv, SyncTyped, Latest, RecoversStale, UncrossedIsTold

LEMMA FinishRunKeeps ==
    ASSUME SyncInv, FinishRun PROVE SyncInv'
<1>1. SyncTyped /\ UNCHANGED <<world, syncer, sygh, srow2, mstat>>
  BY DEF SyncInv, FinishRun
<1>2. runs' \in Seq(BuildRows) /\ Len(runs') = Len(runs)
  <2>1. CASE runs' = runs
    BY <1>1, <2>1 DEF SyncTyped
  <2>2. ASSUME NEW s \in {"success", "failed"}, runs' = [runs EXCEPT ![Latest] = [st |-> s, old |-> FALSE]]
        PROVE  runs' \in Seq(BuildRows) /\ Len(runs') = Len(runs)
    BY <1>1, <2>2, PutsRow DEF BuildRows, SyncTyped
  <2> QED BY <2>1, <2>2 DEF FinishRun
<1>3. worker' = [worker EXCEPT !.pc = "ended"]
  BY DEF FinishRun, Work
<1> QED BY <1>1, <1>2, <1>3, NotBuildingKeeps DEF SyncTyped

LEMMA EndBuildKeeps ==
    ASSUME SyncInv, EndBuild PROVE SyncInv'
BY DEF SyncInv, EndBuild, SetDown, SyncTyped, Latest, InstStates, RecoversStale, UncrossedIsTold

LEMMA BuilderDiesKeeps ==
    ASSUME SyncInv, BuilderDies PROVE SyncInv'
BY DEF SyncInv, BuilderDies, SetDown, obsVars, SyncTyped, Latest, RecoversStale, UncrossedIsTold

(* Time does not age the row of a build that runs. *)
LEMMA GrowsOldKeeps ==
    ASSUME SyncInv, GrowsOld PROVE SyncInv'
<1>1. SyncTyped /\ UNCHANGED <<mstat, world, worker, syncer, sygh>> /\ srow2' = [srow2 EXCEPT !.old = ~Busy]
  BY DEF SyncInv, GrowsOld
<1> DEFINE spared(i) == Busy /\ i = Latest /\ worker.kind # "static"
                        /\ (worker.kind = "container" \/ worker.pc # "begun")
           f == [i \in DOMAIN runs |-> IF spared(i)
               THEN runs[i] ELSE [runs[i] EXCEPT !.old = TRUE]]
<1>2. runs' = f
  BY DEF GrowsOld
<1>3. \A i \in DOMAIN runs : runs[i] \in BuildRows
  BY <1>1 DEF SyncTyped
<1>4. \A i \in DOMAIN runs : f[i] \in BuildRows /\ (spared(i) => f[i] = runs[i])
  BY <1>3 DEF BuildRows
<1>5. f = [i \in DOMAIN runs |-> f[i]] /\ runs \in Seq(BuildRows)
  BY <1>1 DEF SyncTyped
<1>6. runs' \in Seq(BuildRows) /\ Len(runs') = Len(runs)
  BY <1>2, <1>4, <1>5, RewritesRows
<1>7. /\ srow2' \in [st : InstStates, trusted : {"running", "stopped"}, old : BOOLEAN]
      /\ srow2'.st = srow2.st
  BY <1>1 DEF SyncTyped, Busy
<1>8. SyncTyped'
  BY <1>1, <1>6, <1>7 DEF SyncTyped, Latest
<1>9. ASSUME HasRow, spared(Latest)
      PROVE  HasRow'
  BY <1>5, <1>6, <1>9, <1>2, <1>4 DEF HasRow, Latest
<1>10. UncrossedIsTold'
  BY <1>1, <1>9, <1>7 DEF UncrossedIsTold, SyncInv, Busy, Told, SaysBuilding
<1>11. RecoversStale'
  BY <1>1 DEF SyncInv, RecoversStale
<1> QED BY <1>8, <1>10, <1>11 DEF SyncInv

(* A round that begins while a build runs judges it stale only if it crosses *)
(* the build's beginning.                                                    *)
LEMMA BeginSyncKeeps ==
    ASSUME SyncInv, BeginSync PROVE SyncInv'
<1>1. SyncTyped /\ Len(runs) \in Nat /\ UNCHANGED <<srow2, mstat, runs, world, worker>>
  BY DEF SyncInv, SyncTyped, BeginSync, obsVars
<1>2. /\ Stale \in BOOLEAN
      /\ sygh' = [sygh EXCEPT !.crossed = @ \/ (srow2.st = "building" /\ Stale /\ Busy /\ worker.pc = "begun")
                                          \/ (Stale /\ Busy /\ worker.kind = "static")]
  BY <1>1 DEF SyncTyped, Stale, StaleRun, BuildRows, Latest, BeginSync
<1>3. \/ /\ srow2.st = "building" /\ syncer'.stale = Stale /\ syncer'.row = Latest
         /\ syncer'.pc = (IF Stale THEN "recover" ELSE "building")
      \/ syncer'.pc = "orphans" /\ syncer'.stale = FALSE /\ syncer'.row = 0
  BY <1>1, <1>2 DEF BeginSync, Latest
<1>4. SyncTyped'
  <2>1. ASSUME NEW pc \in {"recover", "orphans", "building"}, NEW b \in BOOLEAN, NEW n \in {0, Latest},
               syncer' = [pc |-> pc, stale |-> b, row |-> n]
        PROVE  syncer' \in GlanceKind /\ syncer'.row \in 0..Latest
    BY <1>1, <2>1, GlanceKinds DEF Latest
  <2>2. \E pc \in {"recover", "orphans", "building"}, b \in BOOLEAN, n \in {0, Latest} :
           syncer' = [pc |-> pc, stale |-> b, row |-> n]
    BY <1>2 DEF BeginSync
  <2>3. syncer' \in GlanceKind /\ syncer'.row \in 0..Latest
    BY <2>1, <2>2
  <2> QED BY <1>1, <1>2, <2>3 DEF SyncTyped, Latest
<1>5. RecoversStale'
  BY <1>2, <1>3 DEF RecoversStale
<1>6. UncrossedIsTold'
  BY <1>1, <1>2, SyncAssumption, <1>3 DEF UncrossedIsTold, Told, SaysBuilding, HasRow, Latest,
         SyncTyped, Busy, SyncInv, Stale, StaleRun
<1> QED BY <1>4, <1>5, <1>6 DEF SyncInv

LEMMA RecoverKeeps ==
    ASSUME SyncInv, Recover PROVE SyncInv'
<1>1. /\ SyncTyped /\ Len(runs) \in Nat /\ UNCHANGED <<mstat, world, worker, sygh>>
      /\ syncer' = [syncer EXCEPT !.pc = "orphans"] /\ syncer.pc = "recover"
  BY DEF SyncInv, SyncTyped, Recover
<1>2. runs' \in Seq(BuildRows) /\ Len(runs') = Len(runs)
  <2>1. [st |-> "failed", old |-> FALSE] \in BuildRows
    BY DEF BuildRows
  <2>2. runs \in Seq(BuildRows)
    BY <1>1 DEF SyncTyped
  <2>3. runs' = runs \/ runs' = [runs EXCEPT ![syncer.row] = [st |-> "failed", old |-> FALSE]]
    BY DEF Recover
  <2>4. [runs EXCEPT ![syncer.row] = [st |-> "failed", old |-> FALSE]] \in Seq(BuildRows)
        /\ Len([runs EXCEPT ![syncer.row] = [st |-> "failed", old |-> FALSE]]) = Len(runs)
    BY <2>1, <2>2, PutsRow
  <2> QED BY <2>2, <2>3, <2>4
<1>3. SyncTyped'
  BY <1>1, <1>2 DEF SyncTyped, Recover, InstStates, GlanceKind, Latest
<1>4. syncer.stale /\ syncer'.stale = syncer.stale /\ syncer'.pc = "orphans"
  BY <1>1 DEF SyncInv, RecoversStale, SyncTyped
<1>5. RecoversStale' /\ UncrossedIsTold'
  BY <1>1, <1>4 DEF SyncInv, RecoversStale, UncrossedIsTold
<1> QED BY <1>3, <1>5 DEF SyncInv

(* What closes the rows without a worker passes over a fresh one. *)
LEMMA OrphansKeeps ==
    ASSUME SyncInv, Orphans PROVE SyncInv'
<1>1. /\ SyncTyped /\ Len(runs) \in Nat /\ UNCHANGED <<srow2, mstat, world, worker, sygh>>
      /\ \/ syncer' = [pc |-> "idle", stale |-> FALSE, row |-> 0]
         \/ syncer' = [pc |-> "observe", stale |-> FALSE, row |-> 0]
  <2>1. SyncTyped /\ UNCHANGED <<srow2, mstat, world, worker, sygh>>
    BY DEF SyncInv, Orphans
  <2>2. Len(runs) \in Nat
    BY <2>1 DEF SyncTyped
  <2>3. syncer' = NoGlance \/ syncer' = [NoGlance EXCEPT !.pc = "observe"]
    BY Zenon DEF Orphans
  <2> QED BY <2>1, <2>2, <2>3 DEF NoGlance
<1> DEFINE f == [i \in DOMAIN runs |-> IF runs[i].st = "running" /\ runs[i].old
                                       THEN [st |-> "failed", old |-> FALSE] ELSE runs[i]]
<1>2. runs' = f /\ f = [i \in DOMAIN runs |-> f[i]] /\ runs \in Seq(BuildRows)
  BY <1>1 DEF Orphans, SyncTyped
<1>3. \A i \in DOMAIN runs : f[i] \in BuildRows /\ (~runs[i].old => f[i] = runs[i])
  <2>1. \A i \in DOMAIN runs : runs[i] \in BuildRows
    BY <1>1 DEF SyncTyped
  <2> QED BY <2>1 DEF BuildRows
<1> HIDE DEF f
<1>4. runs' \in Seq(BuildRows) /\ Len(runs') = Len(runs)
  BY <1>2, <1>3, RewritesRows
<1>5. SyncTyped' /\ syncer'.pc # "recover" /\ ~syncer'.stale
  <2>1. /\ syncer' \in GlanceKind /\ syncer'.row = 0
        /\ syncer'.pc # "recover" /\ syncer'.stale = FALSE
    <3>1. 0 \in Nat /\ FALSE \in BOOLEAN
      OBVIOUS
    <3>2. PICK pc \in {"idle", "observe"} : syncer' = [pc |-> pc, stale |-> FALSE, row |-> 0]
      BY <1>1, Zenon DEF NoGlance
    <3>3. pc \in {"idle", "recover", "orphans", "building", "observe"} /\ pc # "recover"
      OBVIOUS
    <3> QED BY <3>1, <3>2, <3>3, GlanceKinds, Zenon
  <2> QED BY <1>1, <1>4, <2>1 DEF SyncTyped, Latest
<1>6. HasRow => HasRow'
  BY <1>2, <1>4, <1>3 DEF HasRow, Latest
<1>7. UncrossedIsTold'
  BY <1>1, <1>5, <1>6 DEF SyncInv, UncrossedIsTold, Told, SaysBuilding
<1> QED BY <1>5, <1>7 DEF SyncInv, RecoversStale

LEMMA ObserveKeeps ==
    ASSUME SyncInv, Observe \/ Passes PROVE SyncInv'
<1>1. /\ SyncTyped /\ Len(runs) \in Nat /\ UNCHANGED <<world, worker, sygh, runs>> /\ syncer' = NoGlance
      /\ srow2' \in [st : InstStates, trusted : {"running", "stopped"}, old : BOOLEAN]
      /\ mstat' \in {"running", "stopped", "failed"}
      /\ worker.pc = "idle" \/ srow2' = srow2
  <2>1. SyncTyped /\ Seen \in {"running", "stopped"}
    BY DEF SyncInv, Seen
  <2>2. UNCHANGED <<world, worker, sygh, runs>> /\ syncer' = NoGlance
    BY DEF Observe, Passes, obsVars
  <2>3. ASSUME Observe
        PROVE  /\ srow2' \in [st : InstStates, trusted : {"running", "stopped"}, old : BOOLEAN]
               /\ mstat' \in {"running", "stopped", "failed"} /\ worker.pc = "idle"
    <3>1. worker.pc = "idle"
      BY <2>3 DEF Observe, Free, Busy
    <3>2. \/ srow2' = [st |-> Seen, trusted |-> Seen, old |-> FALSE] /\ mstat' \in {Seen, mstat}
          \/ srow2' = [srow2 EXCEPT !.old = FALSE] /\ mstat' = mstat
      BY <2>3 DEF Observe
    <3>3. mstat' \in {"running", "stopped", "failed"}
      BY <2>1, <3>2 DEF SyncTyped
    <3>4. srow2' \in [st : InstStates, trusted : {"running", "stopped"}, old : BOOLEAN]
      <4>1. ASSUME NEW s \in {"running", "stopped"}, srow2' = [st |-> s, trusted |-> s, old |-> FALSE]
            PROVE  srow2' \in [st : InstStates, trusted : {"running", "stopped"}, old : BOOLEAN]
        BY <4>1 DEF InstStates
      <4>2. CASE srow2' = [srow2 EXCEPT !.old = FALSE]
        BY <2>1, <4>2 DEF SyncTyped
      <4> QED BY <2>1, <3>2, <4>1, <4>2, Zenon
    <3> QED BY <3>1, <3>3, <3>4
  <2>4. ASSUME Passes PROVE srow2' = srow2 /\ mstat' = mstat
    BY <2>4 DEF Passes, obsVars
  <2> QED BY <2>1, <2>2, <2>3, <2>4 DEF SyncTyped
<1>2. SyncTyped' /\ syncer'.pc # "recover" /\ ~syncer'.stale
  <2>1. /\ syncer' \in GlanceKind /\ syncer'.row = 0
        /\ syncer'.pc # "recover" /\ syncer'.stale = FALSE
    BY <1>1, GlanceKinds DEF NoGlance
  <2> QED BY <1>1, <2>1 DEF SyncTyped, Latest
<1>3. UncrossedIsTold'
  BY <1>1, <1>2 DEF SyncInv, UncrossedIsTold, Told, SaysBuilding, HasRow, Latest
<1> QED BY <1>2, <1>3 DEF SyncInv, RecoversStale

LEMMA WorldShiftsKeeps ==
    ASSUME SyncInv, WorldShifts PROVE SyncInv'
BY DEF SyncInv, WorldShifts, obsVars, SyncTyped, Latest, RecoversStale, UncrossedIsTold, Told,
       SaysBuilding, HasRow

LEMMA SyncNextKeeps == SyncInv /\ [SyncNext]_syncVars => SyncInv'
BY BeginBuildKeeps, SecondMarkKeeps, FinishRunKeeps, EndBuildKeeps, BuilderDiesKeeps,
   GrowsOldKeeps, BeginSyncKeeps, RecoverKeeps, OrphansKeeps, ObserveKeeps, WorldShiftsKeeps
   DEF SyncNext, WorkStep, SyncStep, syncVars, obsVars, SyncInv, SyncTyped, RecoversStale,
       UncrossedIsTold, Told, SaysBuilding, HasRow, Latest

(* sync_status (status.py): however rounds and builds interleave, a build    *)
(* has told that it runs - by the status, by a row in builds, by both - and  *)
(* nobody judges it stale unless the judgement crossed its beginning.        *)
THEOREM SyncInvariant == SyncSpec => []SyncInv
<1>1. SyncInit => SyncInv
  BY SyncBegins
<1>2. SyncInv /\ [SyncNext]_syncVars => SyncInv'
  BY SyncNextKeeps
<1> QED BY <1>1, <1>2, PTL DEF SyncSpec

(* For any kinds and bounds (BUG-048): a build that runs is not declared     *)
(* dead nor its instance failed, unless it began while it was being judged.  *)
THEOREM BuildStaysSpared == SyncSpec => []BuildIsSpared
<1>1. SyncInv => BuildIsSpared
  BY SyncInvTells DEF BuildIsSpared
<1> QED BY <1>1, SyncInvariant, PTL

(***************************************************************************)
(* The inbox.                                                              *)
(***************************************************************************)

Zips == 1..MaxDrop

WatchTyped ==
    /\ inbox \in [ZipName -> File \cup {NoFile}]
    /\ apps \subseteq ZipName /\ dead \subseteq Zips /\ filed \subseteq Zips
    /\ tries \in [ZipName -> [key : File \cup {NoFile}, count : 0..MaxAttempts]]
    /\ watch \in [pc : {"rest", "round", "import", "count", "file"}, todo : SUBSET ZipName,
                  name : ZipName \cup {"none"}, key : File \cup {NoFile},
                  verdict : {"none", "conflict", "imported", "failed"}]
    /\ watch.pc \in {"import", "count", "file"} => watch.name \in ZipName /\ watch.key \in File
    /\ igh2 \in [seen : SUBSET Nat, swapped : SUBSET Nat]
    /\ spentInbox \in [drops : 0..MaxDrop, hitches : Nat]

(* What was imported or reported, or put over a zip that was at work. *)
Dealt == igh2.seen \cup igh2.swapped
(* A zip is of a drop that has been. *)
ZipsWereDropped ==
    /\ \A n \in ZipName : inbox[n].zip <= spentInbox.drops
    /\ watch.pc \in {"import", "count", "file"} => watch.key.zip <= spentInbox.drops
    /\ \A n \in ZipName, f \in File : <<n, f>> \in doneKeys => f.zip <= spentInbox.drops
(* A noted key is of a zip that was dealt with, or that lies there no more. *)
KeysAreDealt ==
    /\ \A n \in ZipName, f \in File :
          <<n, f>> \in doneKeys /\ inbox[n].zip = f.zip => f.zip \in Dealt
    /\ watch.pc = "file" => inbox[watch.name].zip \in Dealt \cup {0}
InboxInv == WatchTyped /\ ZipsWereDropped /\ KeysAreDealt /\ filed \subseteq Dealt

LEMMA FileFields ==
    /\ NoFile.zip = 0 /\ NoFile \notin File
    /\ \A f \in File : f.zip \in Zips /\ f.whole \in BOOLEAN /\ f # NoFile
    /\ \A f \in File \cup {NoFile} : f.zip \in Nat /\ (f.zip = 0 <=> f = NoFile) /\ (f # NoFile => f.zip \in Zips)
BY InboxAssumption DEF File, NoFile, Zips

LEMMA InboxInvHolds == InboxInv => ZipsAreSeen
BY DEF InboxInv, WatchTyped, InboxTypeOK, Zips, Dealt, FiledWasSeen, ZipsAreSeen

LEMMA InboxBegins == InboxInit => InboxInv
BY InboxAssumption, FileFields DEF InboxInit, Rest, WatchTyped, ZipsWereDropped, KeysAreDealt,
       Dealt, InboxInv

LEMMA DropZipKeeps ==
    ASSUME InboxInv, NEW n \in ZipName, DropZip(n) PROVE InboxInv'
<1> DEFINE z == spentInbox.drops + 1
           more == IF watch.name = n THEN {z} ELSE {}
<1>1. /\ WatchTyped /\ UNCHANGED <<apps, tries, doneKeys, dead, filed, watch>>
      /\ inbox' = [inbox EXCEPT ![n] = [zip |-> z, whole |-> FALSE]]
      /\ igh2' = [igh2 EXCEPT !.swapped = @ \cup more]
      /\ spentInbox' = [spentInbox EXCEPT !.drops = @ + 1] /\ spentInbox.drops < MaxDrop
  BY DEF InboxInv, DropZip, counts, moved
<1>2. spentInbox.drops \in Nat /\ z \in Zips /\ z \in Nat /\ z > spentInbox.drops
  BY <1>1, InboxAssumption DEF WatchTyped, Zips
<1>3. spentInbox' \in [drops : 0..MaxDrop, hitches : Nat] /\ spentInbox'.drops = z
  BY <1>1, <1>2, InboxAssumption DEF WatchTyped
<1>4. [zip |-> z, whole |-> FALSE] \in File
  BY <1>2 DEF File, Zips
<1>5. inbox' \in [ZipName -> File \cup {NoFile}]
  BY <1>1, <1>4 DEF WatchTyped
<1>6. \A m \in ZipName : inbox'[m].zip = (IF m = n THEN z ELSE inbox[m].zip)
  BY <1>1 DEF WatchTyped
<1>7. /\ igh2' \in [seen : SUBSET Nat, swapped : SUBSET Nat] /\ Dealt' = Dealt \cup more
  BY <1>1, <1>2 DEF WatchTyped, Dealt
<1> HIDE DEF z, more
<1>8. WatchTyped'
  BY <1>1, <1>3, <1>5, <1>7 DEF WatchTyped
<1>9. \A f \in File : f.zip \in Nat
  BY FileFields
<1>10. \A m \in ZipName : inbox[m].zip \in Nat
  BY <1>1, FileFields DEF WatchTyped
<1>11. ZipsWereDropped'
  BY <1>2, <1>1, FileFields, <1>3, <1>6, <1>9, <1>10 DEF WatchTyped, InboxInv, ZipsWereDropped
<1>12. KeysAreDealt'
  BY <1>9, <1>2, <1>6, <1>7, <1>1 DEF InboxInv, ZipsWereDropped, KeysAreDealt, WatchTyped, more
<1> QED BY <1>1, <1>7, <1>8, <1>11, <1>12 DEF InboxInv

LEMMA CopyEndsKeeps ==
    ASSUME InboxInv, NEW n \in ZipName, CopyEnds(n) PROVE InboxInv'
<1>1. /\ WatchTyped /\ UNCHANGED <<apps, tries, doneKeys, dead, filed, watch, igh2, spentInbox>>
      /\ inbox' = [inbox EXCEPT ![n].whole = TRUE] /\ inbox[n] # NoFile
  BY DEF InboxInv, CopyEnds, counts, moved, NoHitch
<1>2. [inbox[n] EXCEPT !.whole = TRUE] \in File /\ [inbox[n] EXCEPT !.whole = TRUE].zip = inbox[n].zip
  BY <1>1 DEF WatchTyped, File, NoFile
<1>3. inbox' \in [ZipName -> File \cup {NoFile}] /\ \A m \in ZipName : inbox'[m].zip = inbox[m].zip
  BY <1>1, <1>2 DEF WatchTyped
<1>4. WatchTyped'
  BY <1>1, <1>3 DEF WatchTyped
<1>5. ZipsWereDropped' /\ KeysAreDealt'
  BY <1>1, <1>3 DEF InboxInv, WatchTyped, ZipsWereDropped, KeysAreDealt, Dealt
<1> QED BY <1>1, <1>4, <1>5 DEF InboxInv, Dealt

(* A step after which files may be gone, more is dealt with, and a noted key *)
(* is an old one or of a zip that is gone or dealt with.                     *)
LEMMA InboxStepKeeps ==
    ASSUME InboxInv, WatchTyped', spentInbox'.drops = spentInbox.drops,
           \A m \in ZipName : inbox'[m].zip \in {inbox[m].zip, 0},
           Dealt \subseteq Dealt', filed' \subseteq Dealt',
           watch'.pc \in {"import", "count", "file"} => watch'.key.zip <= spentInbox.drops,
           watch'.pc = "file" => inbox'[watch'.name].zip \in Dealt' \cup {0},
           \A m \in ZipName, f \in File :
              <<m, f>> \in doneKeys' => \/ <<m, f>> \in doneKeys
                                        \/ /\ f.zip <= spentInbox.drops
                                           /\ inbox'[m].zip = f.zip => f.zip \in Dealt'
    PROVE  InboxInv'
<1>1. WatchTyped /\ spentInbox.drops \in Nat
  BY InboxAssumption DEF InboxInv, WatchTyped
<1>2. \A m \in ZipName : inbox'[m].zip <= spentInbox'.drops
  BY <1>1 DEF InboxInv, ZipsWereDropped
<1>3. ZipsWereDropped'
  BY <1>2 DEF InboxInv, ZipsWereDropped
<1>4. \A m \in ZipName, f \in File : <<m, f>> \in doneKeys' /\ inbox'[m].zip = f.zip => f.zip \in Dealt'
  BY FileFields, InboxAssumption DEF Zips, InboxInv, KeysAreDealt
<1>5. KeysAreDealt'
  BY <1>4 DEF KeysAreDealt
<1> QED BY <1>3, <1>5 DEF InboxInv

(* What the watcher remembers of its round. *)
LEMMA Next1Types ==
    ASSUME WatchTyped, NEW n, Next1(n)
    PROVE  /\ watch' \in [pc : {"rest", "round", "import", "count", "file"}, todo : SUBSET ZipName,
                          name : ZipName \cup {"none"}, key : File \cup {NoFile},
                          verdict : {"none", "conflict", "imported", "failed"}]
           /\ watch'.pc = "round"
BY DEF WatchTyped, Next1

LEMMA HitchTypes ==
    ASSUME WatchTyped, Hitch \/ NoHitch
    PROVE  spentInbox' \in [drops : 0..MaxDrop, hitches : Nat] /\ spentInbox'.drops = spentInbox.drops
BY DEF WatchTyped, Hitch, NoHitch

(* A file that is moved away. *)
LEMMA AwayTypes ==
    ASSUME WatchTyped, NEW n \in ZipName, Away(n) \/ UNCHANGED inbox
    PROVE  /\ inbox' \in [ZipName -> File \cup {NoFile}]
           /\ \A m \in ZipName : inbox'[m].zip \in {inbox[m].zip, 0}
           /\ inbox[n].zip \in Zips \cup {0}
BY FileFields DEF WatchTyped, Away

LEMMA RemoveAppKeeps ==
    ASSUME InboxInv, NEW n \in ZipName, RemoveApp(n) PROVE InboxInv'
BY HitchTypes DEF InboxInv, RemoveApp, userVars, counts, moved, WatchTyped, ZipsWereDropped,
       KeysAreDealt, Dealt

(* A round begins, ends, or is lost with the daemon. *)
LEMMA RoundKeeps ==
    ASSUME InboxInv, BeginRound \/ EndRound \/ DaemonRestarts PROVE InboxInv'
<1>1. /\ WatchTyped /\ UNCHANGED <<inbox, apps, doneKeys, dead, filed, igh2>> /\ (Hitch \/ NoHitch)
      /\ watch' = Rest \/ watch' = [Rest EXCEPT !.pc = "round", !.todo = Present]
      /\ tries' = tries \/ tries' = [n \in ZipName |-> [key |-> NoFile, count |-> 0]]
  BY DEF InboxInv, BeginRound, EndRound, DaemonRestarts, userVars, counts, moved
<1>2. spentInbox' \in [drops : 0..MaxDrop, hitches : Nat] /\ spentInbox'.drops = spentInbox.drops
  BY <1>1, HitchTypes
<1>3. /\ watch' \in [pc : {"rest", "round", "import", "count", "file"}, todo : SUBSET ZipName,
                     name : ZipName \cup {"none"}, key : File \cup {NoFile},
                     verdict : {"none", "conflict", "imported", "failed"}]
      /\ watch'.pc \in {"rest", "round"}
  <2>1. Present \subseteq ZipName
    BY DEF Present
  <2>2. CASE watch' = Rest
    BY <2>2 DEF Rest
  <2>3. CASE watch' = [Rest EXCEPT !.pc = "round", !.todo = Present]
    BY <2>1, <2>3 DEF Rest
  <2> QED BY <1>1, <2>2, <2>3
<1>4. tries' \in [ZipName -> [key : File \cup {NoFile}, count : 0..MaxAttempts]]
  BY <1>1, InboxAssumption DEF WatchTyped
<1>5. WatchTyped'
  BY <1>1, <1>2, <1>3, <1>4 DEF WatchTyped
<1> QED BY <1>1, <1>2, <1>3, <1>5 DEF InboxInv, ZipsWereDropped, KeysAreDealt, Dealt

(* A zip whose key was noted is put away: it was dealt with. *)
LEMMA GlanceKeeps ==
    ASSUME InboxInv, NEW n \in ZipName, Glance(n) PROVE InboxInv'
<1>1. /\ WatchTyped /\ UNCHANGED <<apps, tries, doneKeys, dead, igh2>> /\ n \in watch.todo
      /\ Dealt' = Dealt
  BY DEF InboxInv, Glance, Dealt
<1>2. ASSUME Next1(n), Hitch \/ NoHitch, Away(n) \/ UNCHANGED inbox,
             filed' = filed \/ (inbox[n] # NoFile /\ Keyed(n) \in doneKeys /\ filed' = filed \cup {inbox[n].zip})
      PROVE  InboxInv'
  BY <1>1, <1>2, Next1Types, HitchTypes, FileFields, AwayTypes, InboxStepKeeps DEF InboxInv,
         WatchTyped, KeysAreDealt, Keyed, KeyOf
<1>3. ASSUME inbox[n] # NoFile, NoHitch, UNCHANGED <<inbox, filed>>,
             watch' = [watch EXCEPT !.pc = "import", !.name = n, !.key = KeyOf(n)]
      PROVE  InboxInv'
  BY <1>1, <1>3, HitchTypes, InboxStepKeeps DEF WatchTyped, KeyOf, InboxInv, ZipsWereDropped
<1>4. \/ /\ Next1(n) /\ (Hitch \/ NoHitch) /\ (Away(n) \/ UNCHANGED inbox)
         /\ \/ filed' = filed
            \/ inbox[n] # NoFile /\ Keyed(n) \in doneKeys /\ filed' = filed \cup {inbox[n].zip}
      \/ /\ inbox[n] # NoFile /\ NoHitch /\ UNCHANGED <<inbox, filed>>
         /\ watch' = [watch EXCEPT !.pc = "import", !.name = n, !.key = KeyOf(n)]
  BY DEF Glance
<1> QED BY <1>2, <1>3, <1>4

(* What is imported or reported is what lies there at that time. *)
LEMMA ImportZipKeeps ==
    ASSUME InboxInv, ImportZip PROVE InboxInv'
<1>1. /\ WatchTyped /\ UNCHANGED <<inbox, tries, doneKeys, dead, filed>> /\ watch.pc = "import"
      /\ watch.name \in ZipName /\ watch.key \in File /\ (Hitch \/ NoHitch)
  BY DEF InboxInv, WatchTyped, ImportZip, userVars, counts, moved
<1> DEFINE n == watch.name
<1>2. /\ inbox[n] \in File \cup {NoFile} /\ inbox[n].zip \in Nat
  BY <1>1, FileFields DEF WatchTyped
<1>3. PICK v \in {"none", "conflict", "imported", "failed"}, pc \in {"file", "count"} :
         /\ watch' = [watch EXCEPT !.pc = pc, !.verdict = v]
         /\ \/ pc = "file" /\ apps' = apps \cup {n} /\ igh2' = [igh2 EXCEPT !.seen = @ \cup {inbox[n].zip}]
            \/ pc = "count" /\ UNCHANGED <<apps, igh2>>
  BY DEF ImportZip
<1>4. /\ watch' \in [pc : {"rest", "round", "import", "count", "file"}, todo : SUBSET ZipName,
                     name : ZipName \cup {"none"}, key : File \cup {NoFile},
                     verdict : {"none", "conflict", "imported", "failed"}]
      /\ watch'.pc = pc /\ watch'.name = n /\ watch'.key = watch.key
  BY <1>1, <1>3 DEF WatchTyped
<1>5. /\ igh2' \in [seen : SUBSET Nat, swapped : SUBSET Nat] /\ Dealt \subseteq Dealt'
      /\ pc = "file" => inbox[n].zip \in Dealt'
  BY <1>1, <1>2, <1>3 DEF WatchTyped, Dealt
<1>6. spentInbox' \in [drops : 0..MaxDrop, hitches : Nat] /\ spentInbox'.drops = spentInbox.drops
  BY <1>1, HitchTypes
<1>7. apps' \subseteq ZipName
  BY <1>1, <1>3 DEF WatchTyped
<1>8. WatchTyped'
  BY <1>1, <1>4, <1>5, <1>6, <1>7 DEF WatchTyped
<1>9. watch'.key.zip <= spentInbox.drops
  BY <1>1, <1>4 DEF InboxInv, ZipsWereDropped
<1>10. filed' \subseteq Dealt'
  BY <1>1, <1>5 DEF InboxInv
<1> HIDE DEF n
<1> QED BY <1>1, <1>3, <1>4, <1>5, <1>6, <1>8, <1>9, <1>10, InboxStepKeeps

LEMMA CountFailureKeeps ==
    ASSUME InboxInv, CountFailure PROVE InboxInv'
<1>1. /\ WatchTyped /\ UNCHANGED <<apps, doneKeys, filed, igh2>> /\ watch.pc = "count"
      /\ watch.name \in ZipName /\ watch.key \in File /\ Dealt' = Dealt
  BY DEF InboxInv, WatchTyped, CountFailure, Dealt
<1> DEFINE n == watch.name
           c == IF tries[n].key = watch.key THEN tries[n].count + 1 ELSE 1
<1>2. tries[n] \in [key : File \cup {NoFile}, count : 0..MaxAttempts] /\ c \in Nat
  BY <1>1 DEF WatchTyped
<1>3. PICK t \in [key : File \cup {NoFile}, count : 0..MaxAttempts] : tries' = [tries EXCEPT ![n] = t]
  BY <1>1, InboxAssumption, <1>2 DEF CountFailure
<1>4. Next1(n) /\ (Hitch \/ NoHitch) /\ (Away(n) \/ UNCHANGED inbox)
      /\ (dead' = dead \/ dead' = dead \cup ({inbox[n].zip} \ {0}))
  BY DEF CountFailure
<1> HIDE DEF c, n
<1>5. n \in ZipName
  BY <1>1 DEF n
<1>6. watch'.pc = "round" /\ spentInbox'.drops = spentInbox.drops
      /\ \A m \in ZipName : inbox'[m].zip \in {inbox[m].zip, 0}
  BY <1>1, <1>4, <1>5, Next1Types, HitchTypes, AwayTypes
<1>7. dead' \subseteq Zips
  BY <1>1, <1>4, <1>5, AwayTypes DEF WatchTyped
<1>8. tries' \in [ZipName -> [key : File \cup {NoFile}, count : 0..MaxAttempts]]
  BY <1>1, <1>3 DEF WatchTyped
<1>9. WatchTyped'
  BY <1>1, <1>4, <1>5, <1>6, <1>7, <1>8, Next1Types, HitchTypes, AwayTypes DEF WatchTyped
<1> QED BY <1>1, <1>6, <1>9, InboxStepKeeps DEF InboxInv

(* What is filed was dealt with, and so is the zip of the key that is noted. *)
LEMMA FileZipKeeps ==
    ASSUME InboxInv, FileZip PROVE InboxInv'
<1>1. /\ WatchTyped /\ UNCHANGED <<apps, dead, igh2>> /\ watch.pc = "file"
      /\ watch.name \in ZipName /\ watch.key \in File /\ Dealt' = Dealt
  BY DEF InboxInv, WatchTyped, FileZip, Dealt
<1> DEFINE n == watch.name
<1>2. /\ tries' = [tries EXCEPT ![n] = [key |-> NoFile, count |-> 0]] /\ Next1(n)
      /\ \/ Away(n) /\ NoHitch /\ filed' = filed \cup ({inbox[n].zip} \ {0}) /\ doneKeys' = doneKeys \cup {<<n, watch.key>>}
         \/ Hitch /\ UNCHANGED <<inbox, filed, doneKeys>>
  BY DEF FileZip
<1>3. n \in ZipName /\ inbox[n].zip \in Dealt \cup {0}
  BY <1>1 DEF InboxInv, KeysAreDealt
<1> HIDE DEF n
<1>4. (Hitch \/ NoHitch) /\ (Away(n) \/ UNCHANGED inbox)
  BY <1>2
<1>5. watch'.pc = "round" /\ spentInbox'.drops = spentInbox.drops
      /\ \A m \in ZipName : inbox'[m].zip \in {inbox[m].zip, 0}
  BY <1>1, <1>2, <1>3, <1>4, Next1Types, HitchTypes, AwayTypes
<1>6. filed' \subseteq Dealt' /\ filed' \subseteq Zips
  BY <1>1, <1>2, <1>3, <1>4, AwayTypes DEF InboxInv, WatchTyped
<1>7. tries' \in [ZipName -> [key : File \cup {NoFile}, count : 0..MaxAttempts]]
  <2>1. [key |-> NoFile, count |-> 0] \in [key : File \cup {NoFile}, count : 0..MaxAttempts]
    BY InboxAssumption
  <2> QED BY <1>1, <1>2, <2>1 DEF WatchTyped
<1>8. WatchTyped'
  BY <1>1, <1>2, <1>3, <1>4, <1>5, <1>6, <1>7, Next1Types, HitchTypes, AwayTypes DEF WatchTyped
<1>9. ASSUME NEW m \in ZipName, NEW f \in File, <<m, f>> \in doneKeys', <<m, f>> \notin doneKeys
      PROVE  f.zip <= spentInbox.drops /\ (inbox'[m].zip = f.zip => f.zip \in Dealt')
  BY <1>2, <1>9, <1>1, <1>3, FileFields, InboxAssumption DEF Away, WatchTyped, Zips, InboxInv,
         ZipsWereDropped
<1> QED BY <1>1, <1>5, <1>6, <1>8, <1>9, InboxStepKeeps

LEMMA InboxNextKeeps == InboxInv /\ [InboxNext]_inboxVars => InboxInv'
BY DropZipKeeps, CopyEndsKeeps, RemoveAppKeeps, RoundKeeps, GlanceKeeps, ImportZipKeeps,
   CountFailureKeeps, FileZipKeeps DEF InboxNext, WatchStep, inboxVars, userVars, counts, moved,
       InboxInv, WatchTyped, ZipsWereDropped, KeysAreDealt, Dealt

(* The watcher (daemon.py:718): whatever is dropped, replaced or fails, a    *)
(* key it noted is of a zip that was imported, reported or put over one at   *)
(* work, or that lies in the inbox no more.                                  *)
THEOREM InboxInvariant == InboxSpec => []InboxInv
<1>1. InboxInit => InboxInv
  BY InboxBegins
<1>2. InboxInv /\ [InboxNext]_inboxVars => InboxInv'
  BY InboxNextKeeps
<1> QED BY <1>1, <1>2, PTL DEF InboxSpec

(* For any names, drops, attempts and restarts: a zip filed as processed was *)
(* imported or reported, unless it was put over one the watcher worked on.   *)
THEOREM ZipsStaySeen == InboxSpec => []ZipsAreSeen
<1>1. InboxInv => ZipsAreSeen
  BY InboxInvHolds
<1> QED BY <1>1, InboxInvariant, PTL

(***************************************************************************)
(* The full setup.                                                         *)
(***************************************************************************)

Accesses == {"unknown", "denied", "ready", "pending"}
Services == [up : BOOLEAN, allowed : BOOLEAN, id : Nat]
Reports  == [access : Accesses, by : Nat]
SetupPcs == {"idle", "install", "recheck", "start", "collect", "refresh", "decide"}
Runs     == [pc : SetupPcs, tried : SUBSET Role, cli : Accesses, got : [Role -> Reports],
             seen : [Role -> Accesses \cup {"unread"}], again : BOOLEAN]

(* A report of a service s: it is not newer than the process, and one that   *)
(* says Docker was reached is by the process that runs, which then has the   *)
(* access, or by one before it.                                              *)
Fits(rep, s) ==
    /\ rep.by <= s.id
    /\ rep.access = "ready" => rep.by > 0 /\ (s.allowed \/ s.id > rep.by)

(* What the run relies on when it counts the reports.                        *)
Counted(run, in) ==
    /\ run.cli = "ready" => in
    /\ \A r \in Role : run.seen[r] = "ready" => run.got[r].access = "ready"

SetupInv ==
    /\ docker \in [state : {"missing", "down", "up"}, member : BOOLEAN] /\ login \in BOOLEAN
    /\ profile \in {"default", "full"}
    /\ service \in [Role -> Services] /\ report \in [Role -> Reports] /\ setup \in Runs
    /\ progress.session \in BOOLEAN
    /\ login => docker.member
    /\ \A r \in Role : /\ service[r].up => service[r].id > 0
                       /\ Fits(report[r], service[r]) /\ Fits(setup.got[r], service[r])
    /\ Counted(setup, login)

LEMMA QuietKind ==
    /\ Quiet \in Runs /\ NoReport \in Reports
    /\ \A r \in Role : Quiet.got[r] = NoReport /\ Quiet.seen[r] = "unread"
    /\ Quiet.cli = "unknown"
BY DEF NoReport, Reports, Accesses, Unread, Quiet, Runs, SetupPcs

LEMMA NoReportFits == \A s \in Services : Fits(NoReport, s)
BY DEF Fits, NoReport, Services

(* A process that follows another one, whatever access it has.               *)
LEMMA FollowsKeeps ==
    ASSUME SetupInv, NEW r \in Role, NEW a \in BOOLEAN,
           service' = [service EXCEPT ![r] = [up |-> TRUE, allowed |-> a, id |-> @.id + 1]]
    PROVE  /\ service' \in [Role -> Services]
           /\ \A q \in Role : /\ service'[q].up => service'[q].id > 0
                              /\ Fits(report[q], service'[q]) /\ Fits(setup.got[q], service'[q])
BY DEF SetupInv, Services, Fits, Reports, Runs

(* A report is written by the process that lives.                            *)
LEMMA WritesKeeps ==
    ASSUME SetupInv, NEW r \in Role, service[r].up, Writes(r)
    PROVE  report' \in [Role -> Reports] /\ \A q \in Role : Fits(report'[q], service[q])
BY DEF SetupInv, Access, Accesses, Reports, Services, Fits, Writes

LEMMA AccessKind == \A in \in BOOLEAN : Access(in) \in Accesses /\ (Access(in) = "ready" => in)
BY DEF Access, Accesses

(* A step of the command that leaves the services and their reports alone.   *)
LEMMA RunMoves ==
    ASSUME SetupInv, UNCHANGED <<docker, login, service, report>>, setup' \in Runs,
           profile' \in {"default", "full"}, progress'.session \in BOOLEAN, Counted(setup', login),
           \A r \in Role : Fits(setup'.got[r], service[r])
    PROVE  SetupInv'
BY DEF SetupInv

LEMMA QuietFits ==
    SetupInv => Counted(Quiet, login) /\ \A r \in Role : Fits(Quiet.got[r], service[r])
BY QuietKind, NoReportFits DEF SetupInv, Counted

(* Another step of the run begins: what it holds stays.                      *)
LEMMA GoesOn ==
    ASSUME SetupInv, NEW pc \in SetupPcs, Goes(pc)
    PROVE  setup' \in Runs /\ Counted(setup', login) /\ \A r \in Role : Fits(setup'.got[r], service[r])
BY DEF SetupInv, Goes, Runs, Counted

(* The run ends.                                                             *)
LEMMA SavesKeeps ==
    ASSUME SetupInv, NEW o, NEW b \in BOOLEAN, NEW s, Saves(o, b, s),
           UNCHANGED <<docker, login, service, report>>, profile' \in {"default", "full"}
    PROVE  SetupInv'
BY QuietKind, QuietFits, RunMoves DEF Saves

LEMMA BeginsSetupKeeps == ASSUME SetupInv, BeginsSetup PROVE SetupInv'
BY GoesOn, RunMoves DEF BeginsSetup, SetupPcs, SetupInv

LEMMA RunsScriptsKeeps == ASSUME SetupInv, RunsScripts PROVE SetupInv'
<1>1. CASE /\ docker' = [state |-> "up", member |-> TRUE] /\ Goes("recheck")
           /\ UNCHANGED <<login, service, report, progress, profile>>
  BY <1>1, GoesOn DEF SetupPcs, SetupInv
<1>2. CASE Saves("unready", FALSE, progress.steps) /\ UNCHANGED <<docker, login, service, report, profile>>
  BY <1>2, SavesKeeps DEF SetupInv
<1> QED BY <1>1, <1>2 DEF RunsScripts

LEMMA RechecksKeeps == ASSUME SetupInv, Rechecks PROVE SetupInv'
BY SavesKeeps, GoesOn, RunMoves DEF Rechecks, SetupInv, SetupPcs

LEMMA StartsServiceKeeps == ASSUME SetupInv, NEW r \in Role, StartsService(r) PROVE SetupInv'
BY FollowsKeeps DEF StartsService, SetupInv, Runs, Counted, Started

(* What is collected: the own access, a report, a judgement.                 *)
LEMMA CollectsAccessKeeps == ASSUME SetupInv, CollectsAccess PROVE SetupInv'
BY AccessKind, RunMoves DEF CollectsAccess, SetupInv, Runs, SetupPcs, Counted

LEMMA ReadsReportKeeps == ASSUME SetupInv, NEW r \in Role, ReadsReport(r) PROVE SetupInv'
BY RunMoves DEF ReadsReport, SetupInv, Runs, Accesses, Counted

LEMMA JudgesReportKeeps == ASSUME SetupInv, NEW r \in Role, JudgesReport(r) PROVE SetupInv'
BY RunMoves DEF JudgesReport, SetupInv, Runs, Accesses, Reports, Counted

LEMMA WeighsKeeps == ASSUME SetupInv, Weighs PROVE SetupInv'
BY GoesOn, RunMoves DEF Weighs, SetupPcs, SetupInv

LEMMA AsksManagerKeeps == ASSUME SetupInv, AsksManager PROVE SetupInv'
<1> DEFINE now ==
    [Quiet EXCEPT !.pc = "collect", !.tried = Role, !.cli = Access(login), !.again = TRUE]
<1>1. UNCHANGED <<docker, login, service, progress, profile>>
  BY DEF AsksManager
<1>2. CASE service["manager"].up /\ Writes("manager") /\ setup' = now
  BY <1>2, WritesKeeps, AccessKind, QuietKind, <1>1, QuietFits DEF Role, SetupInv, Runs, SetupPcs,
         Counted
<1>3. CASE Goes("decide") /\ UNCHANGED report
  BY <1>1, <1>3, GoesOn, RunMoves DEF SetupPcs, SetupInv
<1> QED BY <1>2, <1>3 DEF AsksManager

(* The profile is raised on reports that were ready.                         *)
LEMMA DecidesKeeps ==
    ASSUME SetupInv, Decides
    PROVE  /\ SetupInv'
           /\ profile' # profile => setup.cli = "ready" /\ \A r \in Role : setup.seen[r] = "ready"
BY SavesKeeps DEF Decides, Overall, SetupInv

LEMMA SetupNextKeeps ==
    ASSUME SetupInv, [SetupNext]_setupVars
    PROVE  /\ SetupInv'
           /\ profile' # profile => setup.cli = "ready" /\ \A r \in Role : setup.seen[r] = "ready"
<1>1. CASE SetupStep
  <2>1. ASSUME BeginsSetup \/ RunsScripts \/ Rechecks \/ CollectsAccess \/ Weighs \/ AsksManager
               \/ \E r \in Role : StartsService(r) \/ ReadsReport(r) \/ JudgesReport(r)
        PROVE  profile' = profile
    BY <2>1 DEF BeginsSetup, RunsScripts, Rechecks, CollectsAccess, Weighs, AsksManager,
       StartsService,
                ReadsReport, JudgesReport
  <2> QED BY <1>1, <2>1, BeginsSetupKeeps, RunsScriptsKeeps, RechecksKeeps, CollectsAccessKeeps, WeighsKeeps,
             AsksManagerKeeps, StartsServiceKeeps, ReadsReportKeeps, JudgesReportKeeps, DecidesKeeps
          DEF SetupStep
<1>2. ASSUME NEW r \in Role, Probes(r) PROVE SetupInv' /\ UNCHANGED profile
  BY <1>2, WritesKeeps DEF Probes, SetupInv
<1>3. ASSUME NEW r \in Role, ServiceDies(r) PROVE SetupInv' /\ UNCHANGED profile
  <2>1. /\ UNCHANGED <<docker, login, setup, progress, profile>> /\ service' = [service EXCEPT ![r].up = FALSE]
        /\ report' = report \/ report' = [report EXCEPT ![r] = NoReport]
    BY <1>3 DEF ServiceDies
  <2>2. /\ service' \in [Role -> Services]
        /\ \A q \in Role : /\ service'[q].id = service[q].id /\ service'[q].allowed = service[q].allowed
                           /\ service'[q].up => service[q].up
    BY <2>1 DEF SetupInv, Services
  <2>3. \A q \in Role : report'[q] = report[q] \/ report'[q] = NoReport
    BY <2>1 DEF SetupInv
  <2>4. report' \in [Role -> Reports]
    BY <2>1, QuietKind DEF SetupInv
  <2>5. \A q \in Role, rep \in Reports : Fits(rep, service[q]) => Fits(rep, service'[q])
    BY <2>2 DEF Fits
  <2>6. \A q \in Role : setup.got[q] \in Reports /\ report[q] \in Reports
    BY DEF SetupInv, Runs
  <2> QED BY <2>1, <2>2, <2>3, <2>4, <2>5, <2>6, NoReportFits DEF SetupInv
<1>4. ASSUME NEW r \in Role, OldSessionStarts(r) PROVE SetupInv' /\ UNCHANGED profile
  BY <1>4, FollowsKeeps DEF OldSessionStarts, SetupInv
<1>5. ASSUME NEW r \in Role, ServiceRestarted(r) PROVE SetupInv' /\ UNCHANGED profile
  BY <1>5, FollowsKeeps DEF ServiceRestarted, SetupInv, Started
<1>6. CASE LogsIn
  BY <1>6 DEF LogsIn, SetupInv, Counted
<1>7. CASE DockerComes \/ DockerGoes \/ UNCHANGED setupVars
  BY <1>7 DEF DockerComes, DockerGoes, setupVars, SetupInv
<1> QED BY <1>1, <1>2, <1>3, <1>4, <1>5, <1>6, <1>7 DEF SetupNext

(* The full setup (host_bootstrap.py, capability.py 583-637 and 840-912): no *)
(* report runs ahead of its process, and the profile is raised only on       *)
(* reports of processes that themselves reached Docker, for any bounds.      *)
THEOREM SetupStaysTrue == SetupSpec => SetupIsTrue
<1>1. SetupInit => SetupInv
  <2> SUFFICES ASSUME SetupInit PROVE SetupInv
    OBVIOUS
  <2>1. /\ docker \in [state : {"missing", "down", "up"}, member : BOOLEAN]
        /\ login \in BOOLEAN /\ (login => docker.member)
    <3>1. \/ docker = [state |-> "missing", member |-> FALSE]
          \/ docker = [state |-> "down", member |-> TRUE]
          \/ docker = [state |-> "up", member |-> TRUE]
      BY DEF SetupInit
    <3>2. docker.member = TRUE \/ docker.member = FALSE
      BY <3>1
    <3>3. login = FALSE \/ login = docker.member
      BY DEF SetupInit
    <3>4. docker \in [state : {"missing", "down", "up"}, member : BOOLEAN]
      <4>1. /\ [state |-> "missing", member |-> FALSE] \in [state : {"missing", "down", "up"}, member : BOOLEAN]
            /\ [state |-> "down", member |-> TRUE] \in [state : {"missing", "down", "up"}, member : BOOLEAN]
            /\ [state |-> "up", member |-> TRUE] \in [state : {"missing", "down", "up"}, member : BOOLEAN]
        OBVIOUS
      <4> QED BY <3>1, <4>1, Zenon
    <3>5. login \in BOOLEAN
      BY <3>2, <3>3, Zenon
    <3>6. login => docker.member
      BY <3>3, Zenon
    <3> QED BY <3>4, <3>5, <3>6
  <2>2. service \in [Role -> Services] /\ \A r \in Role : service[r].up => service[r].id > 0
    <3>1. [up |-> FALSE, allowed |-> FALSE, id |-> 0] \in Services
      BY DEF Services
    <3>2. [up |-> TRUE, allowed |-> login, id |-> 1] \in Services
      BY <2>1 DEF Services
    <3>3. service \in [Role -> {[up |-> FALSE, allowed |-> FALSE, id |-> 0],
                              [up |-> TRUE, allowed |-> login, id |-> 1]}]
      BY DEF SetupInit
    <3>4. service \in [Role -> Services]
      BY <3>1, <3>2, <3>3
    <3> QED BY <3>3, <3>4
  <2>3. report \in [Role -> Reports] /\ \A r \in Role : report[r] = NoReport
    BY QuietKind DEF SetupInit
  <2> QED BY <2>1, <2>2, <2>3, QuietKind, NoReportFits DEF SetupInit, SetupInv, Counted
<1>2. SetupInv /\ [SetupNext]_setupVars => SetupInv'
  BY SetupNextKeeps
<1>3. SetupInv => SetupTypeOK
  BY DEF SetupInv, SetupTypeOK, Fits
<1>4. SetupInv /\ [SetupNext]_setupVars =>
        [profile' # profile =>
           /\ docker.member /\ login
           /\ \A r \in Role : LET by == setup.got[r].by IN
                by > 0 /\ (service[r].allowed \/ service[r].id > by)]_setupVars
  BY SetupNextKeeps DEF SetupInv, Fits, Counted
<1> QED BY <1>1, <1>2, <1>3, <1>4, PTL DEF SetupSpec, SetupIsTrue, FullIsEarned

============================================================================
