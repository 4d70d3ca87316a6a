------------------------------- MODULE LogPages -------------------------------
(* Reading the log of an instance in pages, from the newest line towards the *)
(* oldest (agent/service.py get_logs), while processes append to it and      *)
(* rotate it (logs.py).                                                      *)
EXTENDS Integers, FiniteSets

CONSTANTS Category,
          Writer,      \* processes that write logs
          Limit,       \* lines of one page
          KeepLogs,    \* rotated files that are kept
          MaxAppend,   \* bound: lines written
          MaxTurnover  \* bound: rotations

ASSUME PagesAssumption ==
    /\ Limit \in Nat \ {0} /\ KeepLogs \in Nat \ {0}
    /\ MaxAppend \in Nat \ {0} /\ MaxTurnover \in Nat

VARIABLES
    logs,      \* each log: its lines are numbered as they were written
    newest,    \* the log with the latest mtime
    pager,     \* who reads a log page by page
    turns      \* rotations so far

pagesVars == <<logs, newest, pager, turns>>

Greatest(S) == CHOOSE x \in S : \A y \in S : y <= x

----------------------------------------------------------------------------
(* The files: the lines of <category>.log are cur, those of .log.i old[i].   *)
(* A process writes through the handle it opened last; lines that go with a  *)
(* file that was renamed under the handle are not followed.                  *)
NoTurn == KeepLogs + 1

(* open_append: a line more, in a new file when the log was rotated.         *)
Appends(c) ==
    /\ logs[c].last < MaxAppend
    /\ logs' = [logs EXCEPT ![c].cur = @ \cup {logs[c].last + 1}, ![c].last = @ + 1]
    /\ newest' = c /\ UNCHANGED <<pager, turns>>

(* Mutant: the rotation lock is not there.                                   *)
RotateLockFree_No(c) == TRUE
RotateLockFree(c) == \A w \in Writer : logs[c].rot[w] = NoTurn

(* .log.i takes the name of .log.i+1; what had that name is gone.            *)
Renamed(g, i) ==
    IF g.old[i] = {} THEN g
    ELSE [g EXCEPT !.old = [j \in 1..KeepLogs |->
             CASE j = i -> {} [] j = i + 1 -> g.old[i] [] OTHER -> g.old[j]]]

(* rotate_path: a log that is too long is rotated; the oldest file goes.     *)
RotateBegins(c, w) ==
    /\ logs[c].rot[w] = NoTurn /\ RotateLockFree(c) /\ logs[c].cur # {} /\ turns < MaxTurnover
    /\ logs' = [logs EXCEPT ![c].rot[w] = KeepLogs - 1, ![c].old[KeepLogs] = {}]
    /\ turns' = turns + 1 /\ UNCHANGED <<newest, pager>>

(* The older ones are renamed first; rot[w] is the next to be renamed.       *)
RotateShifts(c, w) ==
    /\ logs[c].rot[w] \in 1..KeepLogs - 1
    /\ LET i == logs[c].rot[w]
       IN logs' = [logs EXCEPT ![c] = [Renamed(logs[c], i) EXCEPT !.rot[w] = i - 1]]
    /\ UNCHANGED <<newest, pager, turns>>

(* The log itself becomes .log.1; if it is not there any more, that fails.   *)
RotateEnds(c, w) ==
    /\ logs[c].rot[w] = 0
    /\ logs' = [logs EXCEPT ![c].rot[w] = NoTurn, ![c].cur = {},
                           ![c].old[1] = IF logs[c].cur = {} THEN @ ELSE logs[c].cur]
    /\ pager' = [pager EXCEPT !.turned = @ \/ pager.on]
    /\ UNCHANGED <<newest, turns>>

(* The process dies between two renames.                                     *)
RotateDies(c, w) ==
    /\ logs[c].rot[w] # NoTurn /\ logs' = [logs EXCEPT ![c].rot[w] = NoTurn]
    /\ UNCHANGED <<newest, pager, turns>>

----------------------------------------------------------------------------
(* get_logs                                                                  *)

(* tail_text_file: the last n lines.                                         *)
LastLines(S, n) == {x \in S : Cardinality({y \in S : y > x}) < n}
FirstLines(S, n) == {x \in S : Cardinality({y \in S : y < x}) < n}

(* lines[: len(lines) - skip], where a negative end counts from the end.     *)
Older(S, skip) ==
    LET n == Cardinality(S) - skip
    IN IF n >= 0 THEN FirstLines(S, n) ELSE FirstLines(S, Cardinality(S) + n)

(* Mutant: the page after the first leaves one line out.                     *)
NextSkip_Over(skip) == skip + Limit + 1
(* The cursor of the next page only says how many lines were read.           *)
NextSkip(skip) == skip + Limit

Page(c, skip) == LastLines(Older(LastLines(logs[c].cur, skip + Limit + 1), skip), Limit)
More(c, skip) == Cardinality(LastLines(logs[c].cur, skip + Limit + 1)) > skip + Limit

(* Without a category the log that was written last is read.  A log that is  *)
(* empty, or was just rotated away, is an empty last page.                   *)
ReadsPage ==
    /\ pager.on
    /\ LET c == IF pager.wish = "any" THEN newest ELSE pager.wish
           page == Page(c, pager.skip)
           more == More(c, pager.skip)
       IN pager' = [pager EXCEPT
             !.skip = NextSkip(@), !.on = more, !.done = ~more,
             !.got = @ \cup {<<c, x>> : x \in page},
             !.first = IF pager.got = {} /\ page # {} THEN Greatest(page) ELSE @]
    /\ UNCHANGED <<logs, newest, turns>>

BeginsReading ==
    /\ ~pager.on /\ ~pager.done
    /\ \E w \in Category \cup {"any"} : pager' = [pager EXCEPT !.on = TRUE, !.wish = w]
    /\ UNCHANGED <<logs, newest, turns>>

PagesInit ==
    /\ newest \in Category
    /\ logs = [c \in Category |-> [cur |-> {1}, last |-> 1, rot |-> [w \in Writer |-> NoTurn],
                                   old |-> [i \in 1..KeepLogs |-> {}]]]
    /\ pager = [on |-> FALSE, done |-> FALSE, wish |-> "any", skip |-> 0, got |-> {},
                 first |-> 0, turned |-> FALSE]
    /\ turns = 0

PagesNext ==
    \/ \E c \in Category : Appends(c)
    \/ \E c \in Category, w \in Writer :
          RotateBegins(c, w) \/ RotateShifts(c, w) \/ RotateEnds(c, w) \/ RotateDies(c, w)
    \/ ReadsPage \/ BeginsReading
PagesSpec == PagesInit /\ [][PagesNext]_pagesVars

----------------------------------------------------------------------------
PagesTypeOK ==
    /\ newest \in Category /\ turns \in 0..MaxTurnover
    /\ \A c \in Category : logs[c].cur \subseteq 1..MaxAppend

Kept(c) == logs[c].cur \cup UNION {logs[c].old[i] : i \in 1..KeepLogs}

(* Rotation, however many processes rotate and whoever dies in it, loses     *)
(* only the oldest lines of a log (rotate_path, logs.py 158-163, BUG-355).   *)
OldestGoFirst ==
    \A c \in Category : \A y \in Kept(c) : y..logs[c].last \subseteq Kept(c)

(* Who reads a log to its end while others append to it has every line       *)
(* between the first of the file and the newest when he began.               *)
NothingLeftOut ==
    pager.done /\ pager.wish # "any" /\ ~pager.turned
      => \A x \in logs[pager.wish].cur : x <= pager.first => <<pager.wish, x>> \in pager.got

(* Who reads one log only goes towards the earlier: no page has a line newer *)
(* than the first page had (service.py 282).                                 *)
PagesGoBack ==
    pager.wish # "any" => \A l \in pager.got : l[2] <= pager.first

(* Logs and their pages in one statement: rotation drops the oldest, a       *)
(* reader misses nothing.                                                    *)
LogsAreWhole == PagesTypeOK /\ OldestGoFirst /\ NothingLeftOut
=============================================================================
