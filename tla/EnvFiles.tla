------------------------------- MODULE EnvFiles -------------------------------
(* The settings of a container instance: docker/.env, which is rendered on   *)
(* every deployment, docker/.env.local, which belongs to the user, the       *)
(* SQLite files of data/ and the fingerprints that tell a later start        *)
(* whether the running container still has the settings of the files         *)
(* (compose.py, generated_convergence.py, lifecycle.py).                     *)
EXTENDS Integers, Sequences

CONSTANTS Value,       \* values a user writes for a key
          DbFile,      \* names of SQLite files in data/
          NoSetting,
          MaxLine,     \* bound: lines a user writes for one key of .env
          MaxAmend,    \* bound: edits of the files by the user
          MaxRender,   \* bound: operations
          MaxSnap      \* bound: failures and crashes

ASSUME EnvAssumption ==
    /\ NoSetting \notin Value \cup DbFile /\ Value \cap DbFile = {}
    /\ MaxLine \in Nat \ {0} /\ {MaxAmend, MaxRender, MaxSnap} \subseteq Nat

(* "reads": SQLite, and there is evidence that DATABASE_URL is read; "silent": *)
(* SQLite without; seed: the source has a SQLite file with data.             *)
Apps == [db : {"reads", "silent", "other"}, file : DbFile, seed : BOOLEAN, example : BOOLEAN]

Business == {"biz", "jwt"}
Key == Business \cup {"db"}
Generated == <<"generated">>     \* the JWT_SECRET written by the program

VARIABLES
    dotenv,    \* docker/.env: the lines of each key, and whether one cannot be parsed
    envLocal,  \* docker/.env.local
    saved,     \* a .env with an unparseable line was set aside
    dbs,       \* data/: each file is missing, empty or full
    app,       \* the manifest and the source: database, file, asks for a secret
    served,    \* the settings the container runs with, and the stored fingerprint
    op,        \* the operation that holds the instance lock
    wish,      \* history: the settings as the user, or the generated secret, left them
    odds       \* edits, operations and failures so far, and edits in an open window

envVars == <<dotenv, envLocal, saved, dbs, app, served, op, wish, odds>>

BlankEnv == [bad |-> FALSE, lines |-> [k \in Key |-> <<>>]]
IdleOp == [pc |-> "idle", kind |-> "none", old |-> BlankEnv, db |-> NoSetting]

LastOf(s) == IF s = <<>> THEN NoSetting ELSE s[Len(s)]
(* env_file lists .env, then .env.local: the later line of a key holds.      *)
Effective(e, l) == [k \in Key |-> IF l[k] # NoSetting THEN l[k] ELSE LastOf(e.lines[k])]
InForce == Effective(dotenv, envLocal)

BudgetOf(w) == CASE w = "amend" -> MaxAmend [] w = "render" -> MaxRender [] w = "snap" -> MaxSnap
Uses(w) == odds[w] < BudgetOf(w) /\ odds' = [odds EXCEPT ![w] = @ + 1]

Steps(pc) == op.pc = pc
Moves(pc) == op' = [op EXCEPT !.pc = pc]
Gives == op' = IdleOp

----------------------------------------------------------------------------
(* Which SQLite file is used                                                 *)

Full == {f \in DbFile : dbs[f] = "full"}

(* _resolve_db_filename_from_data_dir: a file with data stays; of a missing  *)
(* or empty one it is the only other file with data; two are refused.        *)
(* Mutant: the data directory is not looked at.                              *)
Resolutions_Blind(f) == {f}
Resolutions(f) ==
    IF f \in Full \/ Full = {} THEN {f}
    ELSE IF \E g \in Full : Full = {g} THEN Full ELSE {}

(* parse_sqlite_url: the form the program writes, sqlite:////app/data/<file>.  *)
Canonical(url) == url \in DbFile

----------------------------------------------------------------------------
(* generate_env, under the lock of the instance                              *)

(* start, restart: render, then decide; rebuild: render, then replace.       *)
BeginsOp ==
    /\ Steps("idle") /\ Uses("render")
    /\ \E k \in {"start", "rebuild"} :
         op' = [pc |-> "read", kind |-> k, old |-> BlankEnv, db |-> NoSetting]
    /\ UNCHANGED <<dotenv, envLocal, saved, dbs, app, served, wish>>

(* _parse_existing_env, and what DATABASE_URL becomes.  Without one the file *)
(* of the source is copied unless data/ has one of that name.  A url in      *)
(* another form is the user's own.  Nothing is written without evidence that *)
(* the application reads it.                                                 *)
ReadsOldEnv ==
    /\ Steps("read")
    /\ LET url == LastOf(dotenv.lines["db"])
           seeded == [dbs EXCEPT ![app.file] = IF app.seed /\ @ = "none" THEN "full" ELSE @]
       IN \/ /\ app.db # "reads"
             /\ op' = [op EXCEPT !.pc = "backup", !.old = dotenv] /\ UNCHANGED dbs
          \/ /\ app.db = "reads" /\ url \in Value
             /\ op' = [op EXCEPT !.pc = "backup", !.old = dotenv, !.db = url] /\ UNCHANGED dbs
          \/ /\ app.db = "reads" /\ Canonical(url)
             /\ \E f \in Resolutions(url) : op' = [op EXCEPT !.pc = "backup", !.old = dotenv, !.db = f]
             /\ UNCHANGED dbs
          \/ /\ app.db = "reads" /\ url = NoSetting
             /\ dbs' = seeded
             /\ \E f \in (IF seeded[app.file] = "full" THEN {app.file} ELSE Resolutions(app.file)) :
                  op' = [op EXCEPT !.pc = "backup", !.old = dotenv, !.db = f]
          \/ /\ app.db = "reads" /\ url \notin Value
             /\ Resolutions(IF Canonical(url) THEN url ELSE app.file) = {} /\ Gives /\ UNCHANGED dbs
    /\ UNCHANGED <<dotenv, envLocal, saved, app, served, wish, odds>>

(* _backup_unparseable_env: the whole file, or the operation ends.           *)
BacksUpBad ==
    /\ Steps("backup")
    /\ saved' = (saved \/ op.old.bad) /\ Moves("migrate")
    /\ UNCHANGED <<dotenv, envLocal, dbs, app, served, wish, odds>>

(* Keys that are not the program's go to .env.local, which is left alone     *)
(* where it has the key; of several lines of a key the first is taken.       *)
(* DATABASE_URL is the program's only for SQLite.                            *)
(* Mutant: DATABASE_URL and the secret count as the program's own.           *)
Migrates_Fewer(k) == k = "biz"
Migrates(k) == k # "db" \/ app.db = "other"
Migrated(l) ==
    [k \in Key |-> IF l[k] = NoSetting /\ Migrates(k) /\ op.old.lines[k] # <<>>
                   THEN Head(op.old.lines[k]) ELSE l[k]]

MigratesKeys ==
    /\ Steps("migrate")
    /\ envLocal' = Migrated(envLocal) /\ Moves("write")
    /\ UNCHANGED <<dotenv, saved, dbs, app, served, wish, odds>>

WritesEnv ==
    /\ Steps("write")
    /\ dotenv' = [bad |-> FALSE,
                  lines |-> [k \in Key |-> IF k = "db" /\ op.db # NoSetting THEN <<op.db>> ELSE <<>>]]
    /\ Moves("secret")
    /\ UNCHANGED <<envLocal, saved, dbs, app, served, wish, odds>>

(* ensure_env_local_secrets: only when .env.example asks for a secret and    *)
(* .env.local has none.                                                      *)
EnsuresSecret ==
    /\ Steps("secret")
    /\ LET asks == app.example /\ envLocal["jwt"] = NoSetting
       IN /\ envLocal' = IF asks THEN [envLocal EXCEPT !["jwt"] = Generated] ELSE envLocal
          /\ wish' = IF asks /\ wish["jwt"] = NoSetting THEN [wish EXCEPT !["jwt"] = Generated] ELSE wish
    /\ Moves(IF op.kind = "start" THEN "decide" ELSE "up")
    /\ UNCHANGED <<dotenv, saved, dbs, app, served, odds>>

----------------------------------------------------------------------------
(* _fingerprint_change_action and the deployment                             *)

(* _compute_runtime_config_fingerprint, version 3: .env and .env.local.      *)
(* Mutant: version 2, without .env.local (BUG-992).                          *)
PrintOf_V2(e, l) == <<e>>
PrintOf(e, l) == <<e, l>>

Decides ==
    /\ Steps("decide")
    /\ IF served.fp \in {<<>>, PrintOf(dotenv, envLocal)} /\ served.known
       THEN Gives ELSE Moves("up")
    /\ UNCHANGED <<dotenv, envLocal, saved, dbs, app, served, wish, odds>>

(* compose up reads both files.  The identity of the container was cleared   *)
(* before, so that a start after a crash does not go by the old fingerprint. *)
GoesUp ==
    /\ Steps("up")
    /\ served' = [served EXCEPT !.on = TRUE, !.known = FALSE, !.env = InForce] /\ Moves("record")
    /\ dbs' = [f \in DbFile |-> IF f = InForce["db"] /\ dbs[f] = "none" THEN "empty" ELSE dbs[f]]
    /\ UNCHANGED <<dotenv, envLocal, saved, app, wish, odds>>

(* The files are read again when the deployment is recorded.                 *)
Records ==
    /\ Steps("record")
    /\ served' = [served EXCEPT !.known = TRUE, !.fp = PrintOf(dotenv, envLocal)] /\ Gives
    /\ UNCHANGED <<dotenv, envLocal, saved, dbs, app, wish, odds>>

(* A deployment that fails puts the rendered files back as they were.        *)
UpFails ==
    /\ Steps("up") /\ Uses("snap")
    /\ dotenv' = op.old /\ Gives /\ UNCHANGED <<envLocal, saved, dbs, app, served, wish>>

(* Files that cannot be read or written, or a crash: nothing is put back.    *)
Breaks ==
    /\ op.pc # "idle" /\ Uses("snap") /\ Gives
    /\ UNCHANGED <<dotenv, envLocal, saved, dbs, app, served, wish>>

----------------------------------------------------------------------------
(* Around it                                                                 *)

(* odds.crossed: an edit while .env is being rendered; odds.late: one        *)
(* between the start of the container and its fingerprint; odds.twice: the   *)
(* keys that were given several lines of which the first is not the last.    *)
Window == op.pc \notin {"idle", "record"}
Marks(w, two) ==
    /\ odds.amend < MaxAmend
    /\ odds' = [odds EXCEPT !.amend = @ + 1, !.crossed = @ \/ Window, !.late = @ \/ Steps("record"),
                            !.twice = @ \cup two]
    /\ wish' = w

Written == UNION {[1..n -> Value] : n \in 0..MaxLine}

EditsEnv ==
    /\ \/ \E k \in Key, s \in Written :
            /\ dotenv' = [dotenv EXCEPT !.lines[k] = s]
            /\ Marks(Effective(dotenv', envLocal), {j \in {k} : s # <<>> /\ Head(s) # LastOf(s)})
       \/ dotenv' = [dotenv EXCEPT !.bad = TRUE] /\ Marks(Effective(dotenv', envLocal), {})
    /\ UNCHANGED <<envLocal, saved, dbs, app, served, op>>

EditsLocal ==
    /\ \E k \in Key, v \in Value \cup {NoSetting} : envLocal' = [envLocal EXCEPT ![k] = v]
    /\ Marks(Effective(dotenv, envLocal'), {})
    /\ UNCHANGED <<dotenv, saved, dbs, app, served, op>>

(* An update, under the same lock, brings another source and manifest; a     *)
(* DATABASE_URL of the old start command goes to .env if that has none.      *)
Updated ==
    /\ Steps("idle") /\ Uses("render")
    /\ app' \in Apps
    /\ \/ UNCHANGED dotenv
       \/ \E f \in DbFile : dotenv.lines["db"] = <<>> /\ dotenv' = [dotenv EXCEPT !.lines["db"] = <<f>>]
    /\ wish' = Effective(dotenv', envLocal)
    /\ UNCHANGED <<envLocal, saved, dbs, served, op>>

(* The application fills the file it was told, or one of its own choice.     *)
AppWrites ==
    /\ served.on
    /\ \E f \in DbFile :
         /\ served.env["db"] \in {f} \cup (IF served.env["db"] \in DbFile THEN {} ELSE {NoSetting} \cup Value)
         /\ dbs[f] # "full" /\ dbs' = [dbs EXCEPT ![f] = "full"]
    /\ odds' = [odds EXCEPT !.crossed = @ \/ Window]
    /\ UNCHANGED <<dotenv, envLocal, saved, app, served, op, wish>>

EnvInit ==
    /\ dotenv = BlankEnv
    /\ envLocal = [k \in Key |-> NoSetting] /\ saved = FALSE
    /\ dbs \in [DbFile -> {"none", "empty", "full"}]   \* as earlier deployments left it
    /\ app \in Apps
    /\ served = [on |-> FALSE, known |-> FALSE, env |-> [k \in Key |-> NoSetting], fp |-> <<>>]
    /\ op = IdleOp /\ wish = [k \in Key |-> NoSetting]
    /\ odds = [amend |-> 0, render |-> 0, snap |-> 0, crossed |-> FALSE, late |-> FALSE, twice |-> {}]

RendersStep ==
    \/ BeginsOp \/ ReadsOldEnv \/ BacksUpBad \/ MigratesKeys \/ WritesEnv \/ EnsuresSecret
    \/ Decides \/ GoesUp \/ Records \/ UpFails \/ Breaks
EnvNext == RendersStep \/ EditsEnv \/ EditsLocal \/ Updated \/ AppWrites
EnvSpec == EnvInit /\ [][EnvNext]_envVars

----------------------------------------------------------------------------
EnvTypeOK ==
    /\ \A k \in Key : dotenv.lines[k] \in Seq(Value \cup DbFile)
    /\ \A k \in Key : envLocal[k] \in Value \cup DbFile \cup {NoSetting, Generated}
    /\ dbs \in [DbFile -> {"none", "empty", "full"}]

(* Rendering, failing and crashing at any point never change a setting of    *)
(* the user or a secret that was generated, or drop a line that cannot be    *)
(* parsed (compose.py generate_env, issue #11, BUG-585).  A key with several *)
(* lines is excepted: the last line holds, the first one is migrated.        *)
SettingsSurviveUnlessTwice ==
    ~odds.crossed => \A k \in Business \ odds.twice : InForce[k] = wish[k]
(* What the migration says of itself, for every key (compose.py 971).       *)
SettingsSurvive ==
    ~odds.crossed => \A k \in Business : InForce[k] = wish[k]

(* An application that reads DATABASE_URL is not started on a missing or     *)
(* empty file while data/ has one with data (issue #15, BUG-599).            *)
DataFound ==
    [][GoesUp /\ app.db = "reads" /\ envLocal["db"] = NoSetting
         /\ InForce["db"] \in DbFile /\ ~odds.crossed
       => Full = {} \/ InForce["db"] \in Full]_envVars

(* A start that leaves the container as it is leaves it with the settings of *)
(* the files (lifecycle.py 1106-1112, BUG-992).                              *)
NothingSwallowedUnlessLate ==
    [][Decides /\ op'.pc = "idle" /\ served.fp # <<>> /\ ~odds.late => served.env = InForce]_envVars
NothingSwallowed ==
    [][Decides /\ op'.pc = "idle" /\ served.fp # <<>> => served.env = InForce]_envVars

(* Without evidence that the application reads DATABASE_URL the              *)
(* configuration is kept (compose.py 697-698).                               *)
UrlKept ==
    [][WritesEnv /\ app.db # "other" /\ ~odds.crossed /\ LastOf(dotenv.lines["db"]) \in Value
         => InForce'["db"] = InForce["db"]]_envVars

(* The environment files in one statement: settings survive, the data is     *)
(* found, no change is swallowed.                                            *)
EnvIsSafe == []EnvTypeOK /\ []SettingsSurviveUnlessTwice /\ DataFound /\ NothingSwallowedUnlessLate
=============================================================================
