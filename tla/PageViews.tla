----------------------------- MODULE PageViews -----------------------------
(* Counting page views (pageviews.py): a reader takes the lines of an       *)
(* access log that are new since a cursor, over rotations of the log, and   *)
(* writes hits and cursor in one transaction.  Between the reading and the  *)
(* transaction the log goes on; each process reads under a lock of its own. *)
EXTENDS Integers, SequencesExt

CONSTANTS Reader,      \* processes that count: the manager, the command line
          RollKeep,    \* archives the log keeps (roll_keep)
          MaxLine,     \* bound: lines that are written
          MaxRotate,   \* bound: rotations
          MaxTrouble   \* bound: archives that are incomplete when they are first seen

ASSUME ViewsAssumption == /\ RollKeep \in Nat /\ MaxLine \in Nat /\ MaxRotate \in Nat
                          /\ MaxTrouble \in Nat /\ Reader # {}

VARIABLES
    log,      \* the lines of the current file
    arcs,     \* the archives, oldest first
    cursor,   \* the row of ingest_cursor
    reader,   \* what each reader has read and not yet committed
    hits,     \* how often each line has been counted
    vgh,      \* ghost: a rotation fell between a reading and its commit; a round was put off
              \*        before any archive was known; an archive was dropped before a
              \*        reading took it
    spentViews

viewsVars == <<log, arcs, cursor, reader, hits, vgh, spentViews>>

Line    == 1 .. MaxLine
Archive == [id : 1 .. MaxRotate, lines : Seq(Line), whole : BOOLEAN]

(* Name, time and size: an archive that is completed is another one. *)
Fingerprint(a) == <<a.id, a.whole>>
(* marked: last_ts holds fingerprints.  seen: the archives that are older   *)
(* than the last commit (updated_at); known: there was one.                 *)
NoCursor == [off |-> 0, consumed |-> {}, marked |-> FALSE, seen |-> {}, known |-> FALSE]
NoBatch  == [pc |-> "idle", lines |-> <<>>, off |-> 0, consumed |-> {}, marked |-> FALSE]

----------------------------------------------------------------------------
(* _read_new_lines                                                          *)

Unconsumed == SelectSeq(arcs, LAMBDA a : Fingerprint(a) \notin cursor.consumed)

(* A cursor that knows no archive takes those that are older than itself    *)
(* for counted.  Mutant: it does not look at their age.                     *)
Historical_None == {}
Historical ==
    IF cursor.off > 0 /\ Len(log) >= cursor.off /\ ~cursor.marked /\ cursor.known
    THEN {a \in ToSet(Unconsumed) : Fingerprint(a) \in cursor.seen} ELSE {}
Recent    == SelectSeq(Unconsumed, LAMBDA a : a \notin Historical)
Marked(s) == [consumed |-> cursor.consumed \cup {Fingerprint(a) : a \in s},
              marked |-> cursor.marked \/ s # {}]

(* The oldest readable archive that is long enough to be the file the       *)
(* cursor points into.                                                      *)
Pivots == {k \in 1 .. Len(Recent) :
             cursor.off > 0 /\ Recent[k].whole /\ Len(Recent[k].lines) >= cursor.off}
Pivot  == CHOOSE k \in Pivots : \A j \in Pivots : k <= j

NeedsArchives ==
    /\ Recent # <<>>
    /\ \/ cursor.off = 0 \/ Len(log) < cursor.off
       \/ Pivots # {} /\ Recent[Pivot].lines[1] # log[1]

(* Nothing is taken as long as one archive cannot be read.  Mutant: what    *)
(* can be read is taken.                                                    *)
PutOff_Never == FALSE
PutOff == /\ \E a \in ToSet(Recent) : ~a.whole
          /\ NeedsArchives \/ (cursor.off > 0 /\ Pivots = {})

Unread(k) == IF Pivots # {} /\ k = Pivot /\ cursor.off > 0
             THEN SubSeq(Recent[k].lines, cursor.off + 1, Len(Recent[k].lines))
             ELSE IF Recent[k].whole THEN Recent[k].lines ELSE <<>>
FromArchives == FlattenSeq([k \in 1 .. Len(Recent) |-> Unread(k)])

Batch ==
    IF PutOff
    THEN [pc |-> "read", lines |-> <<>>, off |-> cursor.off,
          consumed |-> cursor.consumed, marked |-> cursor.marked]
    ELSE LET fresh == NeedsArchives \/ Len(log) < cursor.off
             from  == IF fresh THEN 0 ELSE cursor.off
             known == IF NeedsArchives \/ Pivots = {} THEN ToSet(Unconsumed) ELSE Historical
             m     == Marked({a \in known : a.whole \/ a \in Historical})
         IN  [pc |-> "read",
              lines |-> (IF NeedsArchives THEN FromArchives ELSE <<>>)
                        \o SubSeq(log, from + 1, Len(log)),
              off |-> Len(log), consumed |-> m.consumed, marked |-> m.marked]

Read(r) ==
    /\ reader[r].pc = "idle"
    /\ reader' = [reader EXCEPT ![r] = Batch]
    /\ vgh' = [vgh EXCEPT !.putOff = @ \/ (PutOff /\ ~cursor.marked)]
    /\ UNCHANGED <<log, arcs, cursor, hits, spentViews>>

(* record_file_batch: hits and cursor in one transaction, which may fail.   *)
(* Mutant: the cursor is moved although the hits were rolled back.          *)
AfterFailure_Moved(b) == [cursor EXCEPT !.off = b.off]
AfterFailure(b) == cursor

(* record_hits adds to the counts of each instance and day. *)
Counted(b) == [l \in Line |-> hits[l] + Cardinality({k \in 1 .. Len(b.lines) : b.lines[k] = l})]
CommitBatch(r) ==
    /\ reader[r].pc = "read"
    /\ LET b == reader[r] IN
       \/ /\ hits' = Counted(b)
          /\ cursor' = [off |-> b.off, consumed |-> b.consumed, marked |-> b.marked,
                        seen |-> {Fingerprint(a) : a \in ToSet(arcs)}, known |-> TRUE]
       \/ cursor' = AfterFailure(b) /\ UNCHANGED hits
    /\ reader' = [reader EXCEPT ![r] = NoBatch]
    /\ UNCHANGED <<log, arcs, vgh, spentViews>>

----------------------------------------------------------------------------
(* The server that writes the log.                                          *)

WriteLine ==
    /\ spentViews.lines < MaxLine
    /\ spentViews' = [spentViews EXCEPT !.lines = @ + 1]
    /\ log' = Append(log, spentViews.lines + 1)
    /\ UNCHANGED <<arcs, cursor, reader, hits, vgh>>

NotTaken(a) == Fingerprint(a) \notin cursor.consumed
Rotate ==
    /\ log # <<>> /\ spentViews.rotates < MaxRotate
    /\ \E whole \in BOOLEAN :
         /\ whole \/ spentViews.trouble < MaxTrouble
         /\ LET a    == [id |-> spentViews.rotates + 1, lines |-> log, whole |-> whole]
                all  == Append(arcs, a)
                drop == Len(all) > RollKeep IN
            /\ arcs' = IF drop THEN Tail(all) ELSE all
            /\ vgh' = [vgh EXCEPT !.raced = @ \/ (~cursor.marked /\ \E r \in Reader : reader[r].pc = "read"),
                                  !.upgrade = @ \/ (cursor.known /\ ~cursor.marked /\ arcs # <<>>),
                                  !.dropped = @ \/ (drop /\ NotTaken(Head(all)))]
         /\ spentViews' = [spentViews EXCEPT !.rotates = @ + 1,
                                             !.trouble = IF whole THEN @ ELSE @ + 1]
    /\ log' = <<>>
    /\ UNCHANGED <<cursor, reader, hits>>

Compressed ==
    /\ \E k \in 1 .. Len(arcs) : ~arcs[k].whole /\ arcs' = [arcs EXCEPT ![k].whole = TRUE]
    /\ UNCHANGED <<log, cursor, reader, hits, vgh, spentViews>>

----------------------------------------------------------------------------
(* A database of its first use, or one of a version that knew no archives:  *)
(* its cursor has no fingerprints and the archive on disk was counted while *)
(* it was the current file.                                                 *)
ViewsInit ==
    /\ reader = [r \in Reader |-> NoBatch]
    /\ vgh = [raced |-> FALSE, putOff |-> FALSE, upgrade |-> FALSE, dropped |-> FALSE]
    /\ \/ /\ log = <<>> /\ arcs = <<>> /\ cursor = NoCursor
          /\ hits = [l \in Line |-> 0]
          /\ spentViews = [lines |-> 0, rotates |-> 0, trouble |-> 0]
       \/ /\ arcs = <<[id |-> 1, lines |-> <<1>>, whole |-> TRUE]>>
          /\ log = <<2>>
          /\ cursor = [NoCursor EXCEPT !.off = 1, !.seen = {<<1, TRUE>>}, !.known = TRUE]
          /\ hits = [l \in Line |-> IF l <= 2 THEN 1 ELSE 0]
          /\ spentViews = [lines |-> 2, rotates |-> 1, trouble |-> 0]

ViewsNext == WriteLine \/ Rotate \/ Compressed \/ \E r \in Reader : Read(r) \/ CommitBatch(r)
ViewsSpec == ViewsInit /\ [][ViewsNext]_viewsVars

----------------------------------------------------------------------------
ViewsTypeOK ==
    /\ log \in Seq(Line) /\ Len(arcs) <= RollKeep
    /\ cursor.off \in 0 .. MaxLine /\ hits \in [Line -> 0 .. 2 * MaxRotate]

(* What defeats the comparison of ages that a cursor without fingerprints   *)
(* makes: a rotation between a reading and its commit, a round that was put *)
(* off, a rotation before the first reading after an upgrade.               *)
AgesHold == ~vgh.raced /\ ~vgh.putOff /\ ~vgh.upgrade

(* No visit is counted twice, whatever the log does between and during the  *)
(* readings.                                                                *)
CountedOnce == AgesHold => \A l \in Line : hits[l] <= 1

(* When a further reading would find nothing, every visit has been counted, *)
(* unless an archive was dropped before a reading took it.                  *)
CaughtUp == ~PutOff /\ Batch.lines = <<>> /\ \A r \in Reader : reader[r].pc = "idle"
AllCounted == \A l \in 1 .. spentViews.lines : hits[l] = 1
NothingMissed == CaughtUp /\ AgesHold /\ ~vgh.dropped => AllCounted

(* What the description of _read_new_lines says of an archive that cannot   *)
(* be read: the round is put off and retried, nothing is marked by mistake. *)
PutOffIsRetried == CaughtUp /\ ~vgh.raced /\ ~vgh.upgrade /\ ~vgh.dropped => AllCounted

(* The counting of visits in one statement: no visit twice, none missed.     *)
ViewsAreExact == ViewsTypeOK /\ CountedOnce /\ NothingMissed
=============================================================================
