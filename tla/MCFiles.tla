------------------------------ MODULE MCFiles ------------------------------
(* Instances, for TLC, of the modules about files, the registry and the      *)
(* records that survive a process.  The modules share no state; one run      *)
(* checks them side by side, each behaviour in one of them.                  *)
EXTENDS WorkspaceMove, ImportTxn, Fallback, VersionStore, EnvFiles,
        Redundant, SchemaMigrate, LogPages, TLC

CONSTANTS i1, v1, v2, z1, p1, p2, o1, o2, f1, f2, g1, g2, g3

VARIABLE part   \* the module this behaviour is about

Part == {"move", "import", "fallback", "versions", "env", "prune", "schema", "logs"}

(* The second version of the schema alters tables in two statements.        *)
Alt == <<2, 1, 1>>

(* EnvFiles: two writers of docker/.env at once are not followed further.    *)
Uncrossed == ~odds.crossed

(* The variables of the other modules keep one initial value.               *)
Init ==
    /\ part \in Part
    /\ MoveInit /\ (part # "move" => up = {} /\ ~autostart /\ dflt = root)
    /\ ImportInit /\ (part # "import" => origin.folder = CHOOSE c \in Content : TRUE)
    /\ FallbackInit /\ (part # "fallback" => port = "none" /\ ~needs)
    /\ VersionInit
    /\ EnvInit /\ (part = "env" => app.file = f1)   \* the names of the files are alike
    /\ (part # "env" => app = (CHOOSE a \in Apps : TRUE) /\ Full = {} /\ {dbs[f] : f \in DbFile} = {"none"})
    /\ RedundantInit
    /\ SchemaInit
    /\ PagesInit

Still ==
    /\ UNCHANGED part
    /\ part # "move" => UNCHANGED moveVars
    /\ part # "import" => UNCHANGED importVars
    /\ part # "fallback" => UNCHANGED fallVars
    /\ part # "versions" => UNCHANGED versionVars
    /\ part # "env" => UNCHANGED envVars
    /\ part # "prune" => UNCHANGED pruneVars
    /\ part # "schema" => UNCHANGED schemaVars
    /\ part # "logs" => UNCHANGED pagesVars

Next ==
    \/ part = "move" /\ MoveNext /\ Still
    \/ part = "import" /\ ImportNext /\ Still
    \/ part = "fallback" /\ FallbackNext /\ Still
    \/ part = "versions" /\ VersionNext /\ Still
    \/ part = "env" /\ EnvNext /\ Still
    \/ part = "prune" /\ RedundantNext /\ Still
    \/ part = "schema" /\ SchemaNext /\ Still
    \/ part = "logs" /\ PagesNext /\ Still

allVars == <<part, moveVars, importVars, fallVars, versionVars, envVars, pruneVars, schemaVars, pagesVars>>

Spec == Init /\ [][Next]_allVars
=============================================================================
