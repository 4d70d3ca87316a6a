---------------------------- MODULE InboxWatch ----------------------------
(* The inbox of the daemon (daemon.py, run_watcher and process_zip): zips   *)
(* that have stopped growing are imported, at most once each, and moved     *)
(* away; a zip that keeps failing goes to the dead letters.  Users copy and *)
(* replace files at any time.                                               *)
EXTENDS Integers, FiniteSets

CONSTANTS ZipName,     \* names of files in the inbox; an instance is named after its zip
          MaxAttempts, \* DEFAULT_FAILED_ZIP_MAX_ATTEMPTS
          MaxDrop,     \* bound: zips put in the inbox
          MaxHitch     \* bound: daemon restarts, failing moves and imports

ASSUME InboxAssumption == MaxAttempts \in Nat \ {0} /\ MaxDrop \in Nat /\ MaxHitch \in Nat

VARIABLES
    inbox,      \* the file under each name
    kinds,      \* ghost: what each zip put there is worth
    apps,       \* the names instances have
    prints,     \* fingerprints: the file last seen and how often
    tries,      \* fail_counts
    doneKeys,   \* run/daemon-processed.json
    dead, filed,\* inbox/failed and inbox/processed: the zips moved there
    watch,      \* the watcher's round
    igh2,       \* ghost: zips imported or reported; zips put over another one that was at work
    spentInbox

inboxVars == <<inbox, kinds, apps, prints, tries, doneKeys, dead, filed, watch, igh2, spentInbox>>
userVars  == <<inbox, kinds>>
counts    == <<prints, tries>>
moved     == <<dead, filed>>

(* A file: which zip it is, and whether it has been copied to the end.      *)
File   == [zip : 1..MaxDrop, whole : BOOLEAN]
NoFile == [zip |-> 0, whole |-> FALSE]
Rest   == [pc |-> "rest", todo |-> {}, name |-> "none", key |-> NoFile, verdict |-> "none"]
Present == {n \in ZipName : inbox[n] # NoFile}

Hitch   == spentInbox.hitches < MaxHitch
           /\ spentInbox' = [spentInbox EXCEPT !.hitches = @ + 1]
NoHitch == UNCHANGED spentInbox

InboxInit ==
    /\ inbox = [n \in ZipName |-> NoFile] /\ kinds = [z \in 1..MaxDrop |-> "none"]
    /\ apps = {} /\ prints = [n \in ZipName |-> [file |-> NoFile, times |-> 0]]
    /\ tries = [n \in ZipName |-> [key |-> NoFile, count |-> 0]]
    /\ doneKeys = {} /\ dead = {} /\ filed = {} /\ watch = Rest
    /\ igh2 = [seen |-> {}, swapped |-> {}]
    /\ spentInbox = [drops |-> 0, hitches |-> 0]

----------------------------------------------------------------------------
(* A user copies a zip, perhaps over another one, and the copy ends.        *)
DropZip(n) ==
    /\ spentInbox.drops < MaxDrop
    /\ spentInbox' = [spentInbox EXCEPT !.drops = @ + 1]
    /\ LET z == spentInbox.drops + 1 IN
         /\ inbox' = [inbox EXCEPT ![n] = [zip |-> z, whole |-> FALSE]]
         /\ \E k \in {"good", "broken"} : kinds' = [kinds EXCEPT ![z] = k]
         /\ igh2' = [igh2 EXCEPT !.swapped = @ \cup (IF watch.name = n THEN {z} ELSE {})]
    /\ UNCHANGED <<apps, counts, doneKeys, moved, watch>>

CopyEnds(n) ==
    /\ inbox[n] # NoFile /\ ~inbox[n].whole
    /\ inbox' = [inbox EXCEPT ![n].whole = TRUE]
    /\ UNCHANGED <<kinds, apps, counts, doneKeys, moved, watch, igh2>> /\ NoHitch

RemoveApp(n) ==
    /\ n \in apps /\ Hitch /\ apps' = apps \ {n}
    /\ UNCHANGED <<userVars, counts, doneKeys, moved, watch, igh2>>

----------------------------------------------------------------------------
(* processed_key: the path with the size and the time of the file.          *)
(* Mutant: the path alone.                                                  *)
KeyOf_Path(n) == [zip |-> 1, whole |-> TRUE]
KeyOf(n) == inbox[n]
Keyed(n) == <<n, KeyOf(n)>>

BeginRound ==
    /\ watch.pc = "rest" /\ Present # {}
    /\ watch' = [Rest EXCEPT !.pc = "round", !.todo = Present]
    /\ UNCHANGED <<userVars, apps, counts, doneKeys, moved, igh2>> /\ NoHitch

(* The file is moved, or it is not. *)
Away(n) == inbox' = [inbox EXCEPT ![n] = NoFile]
Next1(n) == watch' = [watch EXCEPT !.pc = "round", !.todo = @ \ {n}, !.name = "none"]

(* is_file_stable: the file looks as it did the last time, and is old       *)
(* enough; it is after two more looks at the latest.                        *)
SeenBefore(n) == prints[n].file = inbox[n]
Times(n) == IF SeenBefore(n) THEN prints[n].times ELSE 0

Glance(n) ==
    /\ watch.pc = "round" /\ n \in watch.todo
    /\ \/ inbox[n] = NoFile /\ Next1(n) /\ NoHitch /\ UNCHANGED <<inbox, prints, filed>>
       \/ /\ inbox[n] # NoFile /\ Keyed(n) \in doneKeys /\ Next1(n) /\ UNCHANGED prints
          /\ \/ Away(n) /\ NoHitch /\ filed' = filed \cup {inbox[n].zip}
             \/ Hitch /\ UNCHANGED <<inbox, filed>>
       \/ /\ inbox[n] # NoFile /\ Keyed(n) \notin doneKeys
          /\ prints' = [prints EXCEPT ![n] = [file |-> inbox[n],
                                              times |-> IF Times(n) < 2 THEN Times(n) + 1 ELSE 2]]
          /\ \/ Times(n) < 2 /\ Next1(n)
             \/ /\ Times(n) >= 1
                /\ watch' = [watch EXCEPT !.pc = "import", !.name = n, !.key = KeyOf(n)]
          /\ NoHitch /\ UNCHANGED <<inbox, filed>>
    /\ UNCHANGED <<kinds, apps, tries, doneKeys, dead, igh2>>

(* process_zip reads the file as it is now; half a zip fails its checks.  A *)
(* zip whose instance exists is reported, never imported beside it.         *)
ImportZip ==
    /\ watch.pc = "import"
    /\ LET n == watch.name IN
         \/ /\ inbox[n] # NoFile /\ inbox[n].whole /\ kinds[inbox[n].zip] = "good" /\ NoHitch
            /\ watch' = [watch EXCEPT !.pc = "file",
                                      !.verdict = IF n \in apps THEN "conflict" ELSE "imported"]
            /\ apps' = apps \cup {n}
            /\ igh2' = [igh2 EXCEPT !.seen = @ \cup {inbox[n].zip}]
         \/ /\ IF inbox[n] # NoFile /\ inbox[n].whole /\ kinds[inbox[n].zip] = "good"
               THEN Hitch ELSE NoHitch
            /\ watch' = [watch EXCEPT !.pc = "count", !.verdict = "failed"]
            /\ UNCHANGED <<apps, igh2>>
    /\ UNCHANGED <<userVars, counts, doneKeys, moved>>

TriedEnough(c) == c >= MaxAttempts

CountFailure ==
    /\ watch.pc = "count"
    /\ LET n == watch.name
           c == IF tries[n].key = watch.key THEN tries[n].count + 1 ELSE 1
       IN  /\ \/ /\ TriedEnough(c)
                 /\ \/ /\ Away(n) /\ NoHitch
                       /\ dead' = dead \cup ({inbox[n].zip} \ {0})
                       /\ tries' = [tries EXCEPT ![n] = [key |-> NoFile, count |-> 0]]
                    \/ /\ Hitch /\ UNCHANGED <<inbox, dead>>
                       /\ tries' = [tries EXCEPT ![n] = [key |-> watch.key, count |-> MaxAttempts]]
              \/ /\ ~TriedEnough(c) /\ NoHitch /\ UNCHANGED <<inbox, dead>>
                 /\ tries' = [tries EXCEPT ![n] = [key |-> watch.key,
                                  count |-> IF c < MaxAttempts THEN c ELSE MaxAttempts]]
           /\ prints' = [prints EXCEPT ![n] = [file |-> NoFile, times |-> 0]]
           /\ Next1(n)
    /\ UNCHANGED <<kinds, apps, doneKeys, filed, igh2>>

(* The zip is moved first and noted afterwards: one that could not be moved *)
(* is looked at again.  What is moved is what lies there now.               *)
FileZip ==
    /\ watch.pc = "file"
    /\ LET n == watch.name IN
         /\ tries' = [tries EXCEPT ![n] = [key |-> NoFile, count |-> 0]]
         /\ \/ /\ Away(n) /\ NoHitch /\ filed' = filed \cup ({inbox[n].zip} \ {0})
               /\ doneKeys' = doneKeys \cup {<<n, watch.key>>}
            \/ Hitch /\ UNCHANGED <<inbox, filed, doneKeys>>
         /\ prints' = [prints EXCEPT ![n] = [file |-> NoFile, times |-> 0]]
         /\ Next1(n)
    /\ UNCHANGED <<kinds, apps, dead, igh2>>

EndRound ==
    /\ watch.pc = "round" /\ watch.todo = {} /\ watch' = Rest
    /\ UNCHANGED <<userVars, apps, counts, doneKeys, moved, igh2>> /\ NoHitch

(* The daemon is killed and started again: what it remembered is lost.      *)
DaemonRestarts ==
    /\ watch.pc # "rest" /\ Hitch /\ watch' = Rest
    /\ prints' = [n \in ZipName |-> [file |-> NoFile, times |-> 0]]
    /\ tries' = [n \in ZipName |-> [key |-> NoFile, count |-> 0]]
    /\ UNCHANGED <<userVars, apps, doneKeys, moved, igh2>>

WatchStep == BeginRound \/ (\E n \in ZipName : Glance(n)) \/ ImportZip \/ CountFailure
             \/ FileZip \/ EndRound

InboxNext ==
    \/ \E n \in ZipName : DropZip(n) \/ CopyEnds(n) \/ RemoveApp(n)
    \/ WatchStep \/ DaemonRestarts

(* The watcher goes on; a move or an import that fails is the environment's *)
(* doing and is not owed.                                                   *)
InboxSpec == InboxInit /\ [][InboxNext]_inboxVars /\ WF_inboxVars(WatchStep)

----------------------------------------------------------------------------
(* Properties                                                               *)

InboxTypeOK ==
    /\ inbox \in [ZipName -> File \cup {NoFile}]
    /\ apps \subseteq ZipName /\ dead \subseteq 1..MaxDrop /\ filed \subseteq 1..MaxDrop
    /\ \A n \in ZipName : tries[n].count \in 0..MaxAttempts
    /\ watch.pc \in {"rest", "round", "import", "count", "file"}

(* Every zip filed as processed was imported or reported (daemon.py:718),   *)
(* whatever was in the inbox under its name before and whatever crashed,    *)
(* unless it was put over a zip the watcher was working on.                 *)
FiledWasSeen == filed \ igh2.swapped \subseteq igh2.seen

(* What happens to a zip in one statement, for one invariant.                *)
ZipsAreSeen == InboxTypeOK /\ FiledWasSeen

(* Nothing stays in the inbox: a zip is imported, reported or, when it      *)
(* keeps failing, given up (daemon.py:1404, BUG-297), whatever fails on the *)
(* way.                                                                     *)
InboxEmpties == \A n \in ZipName : (inbox[n] # NoFile) ~> (inbox[n] = NoFile)
=============================================================================
