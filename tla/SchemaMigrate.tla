----------------------------- MODULE SchemaMigrate -----------------------------
(* Opening the registry database: several processes, some of an older        *)
(* release, bring its schema up to date at the same time and die while they  *)
(* do it (registry/connection.py init_db, migrate).                          *)
EXTENDS Integers, Sequences

CONSTANTS Opener,      \* processes that open the database
          Nobody,
          NewestSchema, \* the schema version of the newest release
          Altering,    \* how many statements of a version cannot be run twice
          MaxDeath     \* bound: processes that die

ASSUME SchemaAssumption ==
    /\ Nobody \notin Opener /\ NewestSchema \in Nat \ {0} /\ MaxDeath \in Nat
    /\ Altering \in [1..NewestSchema -> Nat]

VARIABLES
    db,        \* the committed database: version, and how often each version's statements ran
    writer,    \* who is in BEGIN IMMEDIATE, with its uncommitted copy
    opening,   \* each process: its release, what it does, the version it read
    deaths

schemaVars == <<db, writer, opening, deaths>>

(* _SCHEMAS: the statements of a version that fail when they are run again.  *)
Statements(v) == Altering[v]

Idle == [who |-> Nobody, copy |-> db]

(* BEGIN IMMEDIATE waits for the writer; after busy_timeout it gives up.     *)
MayBegin == writer.who = Nobody
BeginsMigration(p) ==
    /\ opening[p].pc = "loop" /\ MayBegin
    /\ writer' = [who |-> p, copy |-> db]
    /\ opening' = [opening EXCEPT ![p].pc = "read"] /\ UNCHANGED <<db, deaths>>
TooBusy(p) ==
    /\ opening[p].pc = "loop" /\ ~MayBegin
    /\ opening' = [opening EXCEPT ![p].pc = "busy"] /\ UNCHANGED <<db, writer, deaths>>

(* get_schema_version, inside the transaction.                               *)
(* Mutant: the version this process has read before (BUG-294).               *)
VersionSeen_Before(p) == opening[p].seen
VersionSeen(p) == writer.copy.version

ReadsVersion(p) ==
    /\ opening[p].pc = "read"
    /\ IF VersionSeen(p) >= opening[p].release
       THEN /\ opening' = [opening EXCEPT ![p].pc = "open"] /\ writer' = Idle
       ELSE /\ opening' = [opening EXCEPT ![p].pc = "alter", ![p].seen = VersionSeen(p) + 1, ![p].next = 1]
            /\ UNCHANGED writer
    /\ UNCHANGED <<db, deaths>>

(* One statement of the version; a column that exists already is an error.   *)
(* The error rolls back and closes the connection.                           *)
Alters(p) ==
    LET v == opening[p].seen
    IN /\ opening[p].pc = "alter" /\ opening[p].next <= Statements(v)
       /\ IF opening[p].next <= writer.copy.ran[v]
          THEN /\ opening' = [opening EXCEPT ![p].pc = "failed"] /\ writer' = Idle
          ELSE /\ opening' = [opening EXCEPT ![p].next = @ + 1]
               /\ writer' = [writer EXCEPT !.copy.ran[v] = @ + 1]
       /\ UNCHANGED <<db, deaths>>

(* Mutant: the statements are committed before the version is written.       *)
Committed_Early(p) == [writer.copy EXCEPT !.version = db.version]
(* The version is written in the same transaction.                           *)
Committed(p) == [writer.copy EXCEPT !.version = opening[p].seen]

CommitsVersion(p) ==
    /\ opening[p].pc = "alter" /\ opening[p].next > Statements(opening[p].seen)
    /\ db' = Committed(p)
    /\ writer' = [who |-> Nobody, copy |-> db']
    /\ opening' = [opening EXCEPT ![p].pc = "loop"] /\ UNCHANGED deaths

(* The disk fills, or the process dies; what was not committed is gone.      *)
DiesMigrating(p) ==
    /\ opening[p].pc \in {"loop", "read", "alter"} /\ deaths < MaxDeath /\ deaths' = deaths + 1
    /\ opening' = [opening EXCEPT ![p].pc = "away"]
    /\ writer' = IF writer.who = p THEN Idle ELSE writer
    /\ UNCHANGED db

(* A process is started, of any release from the first.                      *)
OpensDb(p) ==
    /\ opening[p].pc \in {"away", "busy"}
    /\ \E r \in 1..NewestSchema : opening' = [opening EXCEPT ![p] = [pc |-> "loop", release |-> r,
                                                              seen |-> db.version, next |-> 1]]
    /\ UNCHANGED <<db, writer, deaths>>

SchemaInit ==
    /\ db = [version |-> 0, ran |-> [v \in 1..NewestSchema |-> 0]]
    /\ writer = Idle
    /\ opening = [p \in Opener |-> [pc |-> "away", release |-> 1, seen |-> 0, next |-> 1]]
    /\ deaths = 0

SchemaNext ==
    \E p \in Opener :
        \/ OpensDb(p) \/ BeginsMigration(p) \/ TooBusy(p) \/ ReadsVersion(p)
        \/ Alters(p) \/ CommitsVersion(p) \/ DiesMigrating(p)
SchemaSpec == SchemaInit /\ [][SchemaNext]_schemaVars

----------------------------------------------------------------------------
(* The committed database is that of its version, whoever migrated it and    *)
(* died in it, and no process fails on a migration that another one has run  *)
(* (BUG-294): each version is applied once, whole, in order.                 *)
SchemaIsItsVersion ==
    /\ \A v \in 1..NewestSchema : db.ran[v] = IF v <= db.version THEN Statements(v) ELSE 0
    /\ \A p \in Opener :
         /\ opening[p].pc # "failed"
         /\ opening[p].pc = "open" => opening[p].release <= db.version

SchemaTypeOK ==
    /\ db.version \in 0..NewestSchema /\ deaths \in 0..MaxDeath
    /\ writer.who \in Opener \cup {Nobody}

(* The schema in one statement: its types, and that it is its version.       *)
SchemaIsSafe == SchemaTypeOK /\ SchemaIsItsVersion
=============================================================================
