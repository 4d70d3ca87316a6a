----------------------------- MODULE LifeProofs -----------------------------
(* Proofs about InstanceLife: the life of an instance between its users and *)
(* the daemon, for any number of users, any threshold of the circuit        *)
(* breaker and any bound on the events.                                     *)
EXTENDS InstanceLife, TLAPS

----------------------------------------------------------------------------
(* The invariant, part by part                                              *)

(* What the variables and the deed of an actor range over. *)
Status  == {"stopped", "building", "running", "failed"}
Desired == {"stopped", "running"}
LifePc  == {"idle", "want", "work", "light", "build", "stopped", "down", "tree",
            "reread", "wantSwap", "cas", "done", "observe", "recheck", "record", "persist", "clear"}
HeldCopy == [status : Status, desired : Desired, id : BOOLEAN,
             count : 0 .. MANUAL_THRESHOLD, wait : BOOLEAN, failed : BOOLEAN]
Deed == [pc : LifePc, kind : Kind \cup {"none"}, exp : Nat \cup {NoRev}, seen : Nat \cup {NoRev},
         txn : BOOLEAN, out : {"none", "ok", "error"}, was : Status \cup {"none"},
         load : 0 .. MANUAL_THRESHOLD, old : {"no", "yes", "void"}, held : HeldCopy]
Rows == [there : BOOLEAN, status : Status, desired : Desired, rev : Nat \ {0}]
Mans == [there : BOOLEAN, id : BOOLEAN, count : 0 .. MANUAL_THRESHOLD, wait : BOOLEAN]
Notes == [wish : {"none", "run", "stop", "gone"}, late : BOOLEAN, tries : Nat, lost : Nat,
          crossed : BOOLEAN, purged : BOOLEAN]
Histories == [failed : BOOLEAN, archive : BOOLEAN, active : BOOLEAN]
WorldFits ==
    /\ row \in Rows /\ man \in Mans /\ box \in {"none", "stopped", "running"}
    /\ code \in [stale : BOOLEAN, broken : BOOLEAN] /\ history \in Histories
    /\ owner \in {"none", "live", "dead"} /\ mem \in {"none", "holding", "expired"}
    /\ gh \in Notes /\ left \in Nat
LifeTypes == WorldFits /\ lock \in Actor \cup {NoOne} /\ act \in [Actor -> Deed]

(* Where the users and the daemon can be, and with which operation. *)
Inside   == {"work", "light", "build", "stopped", "down", "tree"}
UserPc   == {"idle", "want", "reread", "wantSwap", "cas"} \cup Inside
DaemonPc == {"idle", "want", "work", "build", "done", "observe", "recheck", "record", "persist", "clear"}
DeedFits(d) ==
    /\ d.pc = "idle" => d.kind = "none"
    /\ d.pc = "want" => d.kind \in Kind
    /\ d.pc = "work" => d.kind \in Kind \ {"update"}
    /\ d.pc = "light" => d.kind = "restart"
    /\ d.pc = "build" => d.kind \in {"start", "restart", "rebuild"}
    /\ d.pc = "stopped" => d.kind = "stop"
    /\ d.pc = "down" => d.kind \in Removals
    /\ d.pc = "tree" => d.kind = "purge"
    /\ d.pc \in {"reread", "wantSwap", "cas"} => d.kind = "update"
DeedsFit ==
    /\ \A a \in Actor : DeedFits(act[a])
    /\ \A u \in User : act[u].pc \in UserPc
    /\ act[Daemon].pc \in DaemonPc /\ act[Daemon].kind \in {"none", "start", "rollback"}

(* The lock is with whom is inside an operation, and with nobody else. *)
LockFits == \A a \in Actor : lock = a <=> act[a].pc \in Inside

(* Once the users have stopped or removed the instance nothing is left that *)
(* would start it: neither the row, nor a manifest an update holds, nor     *)
(* anybody inside an operation, nor the daemon past its last look.          *)
Settled == gh.wish \in {"stop", "gone"} /\ ~gh.late
Starts  == {"start", "restart", "rebuild", "rollback"}
Holding(d) == d.pc \in {"reread", "wantSwap"}
NothingStarts ==
    /\ box # "running"
    /\ row.there => row.desired = "stopped"
    /\ gh.wish = "stop" => row.desired = "stopped"
    /\ gh.wish = "stop" => \A u \in User : Holding(act[u]) => act[u].held.desired = "stopped"
    /\ act[Daemon].pc # "want"
    /\ act[Daemon].pc = "done" /\ act[Daemon].kind = "rollback" => act[Daemon].out = "ok"
    /\ \A a \in Actor : act[a].pc \in Inside => act[a].kind \notin Starts
WishStands == Settled => NothingStarts

(* Only a removal is inside an operation on an instance without manifest,   *)
(* and who removes the tree has removed the row.                            *)
PurgeStands ==
    /\ gh.purged => ~man.there /\ ~row.there
    /\ \A a \in Actor : act[a].pc \in Inside /\ act[a].kind \notin Removals => man.there
    /\ \A a \in Actor : act[a].pc = "tree" => ~row.there

(* Every try is counted in the manifest, was lost, or is about to be         *)
(* counted; and the daemon only begins one below the threshold.             *)
TriesFit ==
    LET d == act[Daemon] IN
    /\ gh.tries <= MANUAL_THRESHOLD + gh.lost
    /\ man.there /\ d.pc # "persist" => gh.tries <= man.count + gh.lost
    /\ man.there /\ d.pc = "persist" =>
          gh.tries <= man.count + gh.lost + 1 /\ gh.tries <= d.load + gh.lost + 1
    /\ man.there /\ d.pc \notin {"idle", "persist", "clear"} =>
          gh.tries + 1 <= MANUAL_THRESHOLD + gh.lost

(* No count, neither in the manifest nor in a copy on the way to it, is      *)
(* higher than the tries since it was last cleared.                         *)
FuseFits ==
    ~gh.crossed =>
      /\ man.count <= gh.tries
      /\ act[Daemon].pc = "persist" => act[Daemon].load + 1 <= gh.tries
      /\ \A u \in User : Holding(act[u]) => act[u].held.count <= gh.tries

(* Nobody goes by a revision the row has not reached, and who was overtaken *)
(* goes by one the row has left behind.                                     *)
Behind(d, rev, r) == r.there /\ rev <= r.rev /\ (d.old = "yes" => rev < r.rev)
Rises(d) == d.kind \in {"rebuild", "update"}
OldFit(d, r) ==
    /\ d.old = "yes" => r.there
    /\ d.kind \in Removals => d.exp = NoRev /\ d.old # "yes"
    /\ d.exp # NoRev /\ d.pc \in {"want", "reread", "wantSwap"} /\ d.old # "void" =>
          Behind(d, d.exp, r)
    /\ Rises(d) /\ d.seen # NoRev /\ d.pc \in {"want", "work", "build", "wantSwap", "cas"}
       /\ d.old # "void" => Behind(d, d.seen, r)
OldFits == \A a \in Actor : OldFit(act[a], row)

LifeInv ==
    /\ LifeTypes /\ DeedsFit /\ LockFits
    /\ WishStands /\ PurgeStands /\ TriesFit /\ FuseFits /\ OldFits

----------------------------------------------------------------------------
(* Types                                                                    *)

(* The records and their updates. *)
LEMMA IdleFits ==
    /\ Idle \in Deed /\ Idle.pc = "idle" /\ Idle.kind = "none" /\ Idle.old = "no"
    /\ Idle.exp = NoRev /\ Idle.seen = NoRev /\ Idle.load = 0 /\ Idle.out = "none"
    /\ Idle.held \in HeldCopy
BY LifeAssumption DEF Deed, Idle, HeldCopy, LifePc, Status, Desired

(* Users and daemon are different processes, and nobody is none of them. *)
LEMMA ActorFits == Daemon \in Actor /\ Daemon \notin User /\ NoOne \notin Actor
                   /\ \A a \in Actor : a \in User \/ a = Daemon
BY LifeAssumption DEF Actor

(* A record update keeps its type, and the fields it does not name. *)
LEMMA DeedGoes ==
    ASSUME NEW d \in Deed, NEW p \in LifePc, NEW e, e = [d EXCEPT !.pc = p]
    PROVE  /\ e \in Deed /\ e.pc = p /\ e.kind = d.kind /\ e.exp = d.exp /\ e.seen = d.seen
           /\ e.out = d.out /\ e.load = d.load /\ e.old = d.old /\ e.held = d.held
BY DEF Deed

LEMMA DeedOlder ==
    ASSUME NEW d \in Deed, NEW o \in {"no", "yes", "void"}, NEW e, e = [d EXCEPT !.old = o]
    PROVE  /\ e \in Deed /\ e.pc = d.pc /\ e.kind = d.kind /\ e.exp = d.exp /\ e.seen = d.seen
           /\ e.out = d.out /\ e.load = d.load /\ e.old = o /\ e.held = d.held
BY DEF Deed

(* upsert_from_manifest and update_status leave the revision of a row that  *)
(* is there alone (registry/dao.py).                                        *)
LEMMA RegisteredFits ==
    ASSUME row \in Rows, NEW s \in Status, NEW d \in Desired, NEW r, r = Registered(s, d)
    PROVE  r \in Rows /\ r.there /\ r.desired = d /\ (row.there => r.rev = row.rev)
BY DEF Registered, Rows

LEMMA MarkedFits ==
    ASSUME row \in Rows, NEW s \in Status, NEW r, r = Marked(s)
    PROVE  r \in Rows /\ r.there = row.there /\ r.desired = row.desired /\ r.rev = row.rev
BY DEF Marked, Rows

(* cas_increment_revision, and delete_instance. *)
LEMMA RaisedFits ==
    ASSUME NEW o \in Rows, NEW r, r = [o EXCEPT !.rev = @ + 1]
    PROVE  r \in Rows /\ r.there = o.there /\ r.desired = o.desired /\ r.rev = o.rev + 1
BY DEF Rows

LEMMA GoneFits ==
    ASSUME NEW o \in Rows, NEW r, r = [o EXCEPT !.there = FALSE]
    PROVE  r \in Rows /\ ~r.there /\ r.desired = o.desired /\ r.rev = o.rev
BY DEF Rows

(* What clear_circuit, remove_instance, record_failure and import --update  *)
(* make of the manifest.                                                    *)
LEMMA ClearedFits ==
    ASSUME NEW m \in Mans, NEW n, n = Cleared(m)
    PROVE  n \in Mans /\ n.there = m.there /\ n.id = m.id /\ n.count = 0
<1>1. 0 \in 0 .. MANUAL_THRESHOLD /\ FALSE \in BOOLEAN
  BY LifeAssumption
<1> QED BY <1>1 DEF Mans, Cleared

LEMMA NoManifestFits ==
    ASSUME man \in Mans, NEW n, n = NoManifest PROVE n \in Mans /\ ~n.there /\ n.count = 0
BY ClearedFits DEF NoManifest, Mans

LEMMA MarkedIdFits ==
    ASSUME NEW m \in Mans, NEW v \in BOOLEAN, NEW n, n = [m EXCEPT !.id = v]
    PROVE  n \in Mans /\ n.there = m.there /\ n.id = v /\ n.count = m.count
BY DEF Mans

LEMMA RecordedFits ==
    ASSUME NEW m \in Mans, NEW k \in 0 .. MANUAL_THRESHOLD, NEW n, n = Recorded(m, k)
    PROVE  /\ n \in Mans /\ n.there = m.there
           /\ n.count = IF k + 1 < MANUAL_THRESHOLD THEN k + 1 ELSE MANUAL_THRESHOLD
<1> DEFINE c == IF k + 1 < MANUAL_THRESHOLD THEN k + 1 ELSE MANUAL_THRESHOLD
           w == k + 1 < MANUAL_THRESHOLD
<1>1. c \in 0 .. MANUAL_THRESHOLD /\ w \in BOOLEAN
  BY LifeAssumption
<1>2. n = [m EXCEPT !.count = c, !.wait = w]
  BY DEF Recorded, Counted
<1> HIDE DEF c, w
<1>3. n \in Mans /\ n.there = m.there /\ n.count = c
  BY <1>1, <1>2 DEF Mans
<1> QED BY <1>3 DEF c

LEMMA RestoredFits ==
    ASSUME NEW m \in Mans, NEW h \in HeldCopy, NEW n,
           n = [m EXCEPT !.id = h.id, !.count = h.count, !.wait = h.wait]
    PROVE  n \in Mans /\ n.there = m.there /\ n.count = h.count
BY DEF Mans, HeldCopy

(* ... and what the ghosts make of it. *)
LEMMA NoteClearedFits ==
    ASSUME NEW g \in Notes, NEW n, n = NoteCleared(g)
    PROVE  /\ n \in Notes /\ n.tries = 0 /\ n.lost = 0 /\ n.wish = g.wish /\ n.late = g.late
           /\ n.purged = g.purged
           /\ n.crossed <=> (act[Daemon].pc = "persist" \/ \E u \in User : Holding(act[u]))
BY DEF Notes, NoteCleared, At, HoldsManifest, Holding

LEMMA NotePurgedFits ==
    ASSUME NEW g \in Notes, NEW n, n = [g EXCEPT !.purged = TRUE]
    PROVE  /\ n \in Notes /\ n.tries = g.tries /\ n.lost = g.lost /\ n.wish = g.wish
           /\ n.late = g.late /\ n.purged /\ n.crossed = g.crossed
BY DEF Notes

----------------------------------------------------------------------------
(* What a step of one actor leaves alone                                    *)

(* An operation that has answered: a user is idle again, the daemon goes on *)
(* with the answer.                                                         *)
LEMMA EndedFits ==
    ASSUME act \in [Actor -> Deed], NEW a \in Actor, NEW out \in {"ok", "error"},
           NEW e, e = Ended(a, out)
    PROVE  /\ e \in Deed /\ e.exp = NoRev /\ e.seen = NoRev /\ e.old = "no"
           /\ a \in User => e.pc = "idle" /\ e.kind = "none"
           /\ a = Daemon => e.pc = "done" /\ e.kind = act[a].kind /\ e.out = out
           /\ e.pc \in {"idle", "done"}
<1>1. CASE a \in User
  BY <1>1, IdleFits, ActorFits DEF Ended
<1>2. CASE a = Daemon
  <2>1. act[a].kind \in Kind \cup {"none"} /\ "done" \in LifePc
    BY DEF Deed, LifePc
  <2>2. e = [Idle EXCEPT !.pc = "done", !.kind = act[a].kind, !.out = out]
    BY <1>2, ActorFits DEF Ended
  <2>3. /\ e \in Deed /\ e.pc = "done" /\ e.kind = act[a].kind /\ e.exp = Idle.exp
        /\ e.seen = Idle.seen /\ e.out = out /\ e.old = Idle.old
    BY <2>1, IdleFits, <2>2 DEF Deed
  <2> QED BY <1>2, <2>3, IdleFits, ActorFits
<1> QED BY <1>1, <1>2, ActorFits

(* One actor moves, as far as the others are concerned. *)
Alike(d, e) ==
    /\ d.pc = e.pc /\ d.kind = e.kind /\ d.exp = e.exp /\ d.seen = e.seen
    /\ d.out = e.out /\ d.load = e.load /\ d.held = e.held
Others(a) == act' \in [Actor -> Deed] /\ \A b \in Actor \ {a} : Alike(act'[b], act[b])
Moves(a, d) ==
    d \in Deed /\ Others(a) /\ act'[a] = d /\ \A b \in Actor \ {a} : act'[b] = act[b]

(* One deed is replaced: the others stay as they are. *)
LEMMA MoveIsSet ==
    ASSUME act \in [Actor -> Deed], NEW a \in Actor, NEW d \in Deed, act' = [act EXCEPT ![a] = d]
    PROVE  Moves(a, d)
BY DEF Moves, Others, Alike

LEMMA AnswerMoves ==
    ASSUME act \in [Actor -> Deed], NEW a \in Actor, NEW out \in {"ok", "error"}, Answer(a, out)
    PROVE  Moves(a, Ended(a, out)) /\ lock' = IF lock = a THEN NoOne ELSE lock
BY EndedFits, MoveIsSet DEF Answer, Release

LEMMA GotoMoves ==
    ASSUME act \in [Actor -> Deed], NEW a \in Actor, NEW p \in LifePc, Goto(a, p)
    PROVE  /\ Moves(a, act'[a])
           /\ act'[a].pc = p /\ act'[a].kind = act[a].kind /\ act'[a].exp = act[a].exp
           /\ act'[a].seen = act[a].seen /\ act'[a].out = act[a].out
           /\ act'[a].load = act[a].load /\ act'[a].old = act[a].old /\ act'[a].held = act[a].held
<1> DEFINE e == [act[a] EXCEPT !.pc = p]
<1>0. act[a] \in Deed
  OBVIOUS
<1>1. /\ e \in Deed /\ e.pc = p /\ e.kind = act[a].kind /\ e.exp = act[a].exp
      /\ e.seen = act[a].seen /\ e.out = act[a].out /\ e.load = act[a].load
      /\ e.old = act[a].old /\ e.held = act[a].held
  BY <1>0, DeedGoes
<1>2. act' = [act EXCEPT ![a] = e]
  BY DEF Goto
<1> HIDE DEF e
<1>3. Moves(a, e)
  BY <1>1, <1>2, MoveIsSet
<1>4. act'[a] = e
  BY <1>3 DEF Moves
<1> QED BY <1>1, <1>3, <1>4

(* A step of one actor keeps each part of the invariant that looks at the   *)
(* deeds, under what that part needs of the step.                           *)
LEMMA DeedsKept ==
    ASSUME DeedsFit, NEW a \in Actor, Others(a), DeedFits(act'[a]),
           a \in User => act'[a].pc \in UserPc,
           a = Daemon => act'[a].pc \in DaemonPc /\ act'[a].kind \in {"none", "start", "rollback"}
    PROVE  DeedsFit'
BY ActorFits DEF Others, Alike, DeedsFit, DeedFits, Actor

(* The lock is taken, kept or given back. *)
LEMMA LockKept ==
    ASSUME LockFits, NEW a \in Actor, Others(a), lock \in Actor \cup {NoOne},
           \/ lock' = lock /\ (act'[a].pc \in Inside <=> act[a].pc \in Inside)
           \/ lock = NoOne /\ lock' = a /\ act'[a].pc \in Inside
           \/ lock' = (IF lock = a THEN NoOne ELSE lock) /\ act'[a].pc \notin Inside
    PROVE  LockFits' /\ lock' \in Actor \cup {NoOne}
BY ActorFits DEF Others, Alike, LockFits

(* The instance lock (instance_lock): whoever is inside an operation is     *)
(* alone in it.                                                             *)
LEMMA NobodyElse ==
    ASSUME LockFits, NEW a \in Actor, act[a].pc \in Inside
    PROVE  lock = a /\ \A b \in Actor \ {a} : act[b].pc \notin Inside
BY DEF LockFits

LEMMA NobodyInside ==
    ASSUME LockFits, lock = NoOne
    PROVE  \A b \in Actor : act[b].pc \notin Inside
BY ActorFits DEF LockFits

(* What leaves the wish alone. *)
LEMMA WishKept ==
    ASSUME WishStands, NEW a \in Actor, Others(a),
           gh'.wish = gh.wish, gh'.late = gh.late,
           Settled => box' # "running",
           \/ row'.desired = row.desired /\ (row'.there => row.there)
           \/ row'.desired = "stopped"
           \/ ~Settled,
           Settled /\ a \in User /\ Holding(act'[a]) /\ gh.wish = "stop" => act'[a].held.desired = "stopped",
           Settled /\ a = Daemon => /\ act'[a].pc # "want"
                                    /\ act'[a].pc = "done" /\ act'[a].kind = "rollback" => act'[a].out = "ok",
           Settled /\ act'[a].pc \in Inside => act'[a].kind \notin Starts
    PROVE  WishStands'
BY ActorFits DEF WishStands, Settled, Others, Alike, Actor, NothingStarts, Holding

(* Neither row nor manifest comes back after a purge: who would write one   *)
(* needs the lock, and the manifest as he gets it.                          *)
LEMMA PurgeKept ==
    ASSUME PurgeStands, NEW a \in Actor, Others(a),
           gh'.purged = gh.purged, man'.there = man.there,
           row'.there => row.there \/ (man.there /\ \A b \in Actor \ {a} : act[b].pc \notin Inside),
           act'[a].pc \in Inside /\ act'[a].kind \notin Removals => man.there,
           act'[a].pc = "tree" => ~row'.there
    PROVE  PurgeStands'
BY DEF Others, Alike, PurgeStands, Inside

(* The counts are left alone, or cleared with the ghosts. *)
LEMMA TriesKept ==
    ASSUME TriesFit, WorldFits, WorldFits', NEW a \in Actor, Others(a),
           gh'.tries = gh.tries, gh'.lost = gh.lost, man'.there = man.there, man'.count = man.count,
           a = Daemon => act[a].pc # "persist" /\ act'[a].pc # "persist",
           a = Daemon /\ man.there /\ act'[a].pc \notin {"idle", "persist", "clear"} =>
              gh.tries + 1 <= MANUAL_THRESHOLD + gh.lost
    PROVE  TriesFit'
BY ActorFits DEF Others, Alike, TriesFit

(* ... nor does a count rise. *)
LEMMA FuseKept ==
    ASSUME FuseFits, NEW a \in Actor, Others(a),
           gh'.tries = gh.tries, gh'.crossed = gh.crossed, man'.count = man.count,
           a = Daemon => act'[a].pc # "persist",
           ~gh.crossed /\ a \in User /\ Holding(act'[a]) => act'[a].held.count <= gh.tries
    PROVE  FuseFits'
BY ActorFits DEF Others, Alike, Actor, FuseFits, Holding

LEMMA ClearingKeeps ==
    ASSUME WorldFits, act \in [Actor -> Deed], NEW a \in Actor, Others(a),
           gh'.tries = 0, gh'.lost = 0, man'.count = 0, man'.there = man.there,
           gh'.crossed <=> (act[Daemon].pc = "persist" \/ \E u \in User : Holding(act[u])),
           a = Daemon => act'[a].pc # "persist",
           a \in User => ~Holding(act'[a])
    PROVE  TriesFit' /\ FuseFits'
BY ActorFits, LifeAssumption DEF Others, Alike, Deed, TriesFit, Actor, Holding, FuseFits

(* The row stays what it was for those who go by its revision. *)
LEMMA OldKept ==
    ASSUME OldFits, NEW a \in Actor, NEW d, Moves(a, d),
           row.there => row'.there /\ row'.rev = row.rev,
           OldFit(d, row')
    PROVE  OldFits'
BY DEF OldFits, Moves, OldFit, Behind

(* Who has answered goes by no revision. *)
LEMMA EndedIsOld ==
    ASSUME act \in [Actor -> Deed], NEW a \in Actor, NEW out \in {"ok", "error"}, NEW r
    PROVE  OldFit(Ended(a, out), r)
BY EndedFits DEF OldFit

----------------------------------------------------------------------------
(* The steps                                                                *)

(* An operation of a user or the daemon ends, or its process dies. *)
Rested(a, e) ==
    /\ e.exp = NoRev /\ e.seen = NoRev /\ e.old = "no"
    /\ \/ e.pc = "idle" /\ e.kind = "none"
       \/ a = Daemon /\ e.pc = "done" /\ e.kind = act[a].kind

LEMMA EndedRests ==
    ASSUME act \in [Actor -> Deed], NEW a \in Actor, NEW out \in {"ok", "error"}
    PROVE  Rested(a, Ended(a, out))
BY EndedFits, ActorFits DEF Rested

(* Who is inside a start, or about to be, has seen that it is wanted. *)
LEMMA DaemonIsWanted ==
    ASSUME WishStands, DeedsFit, act[Daemon].pc \in {"want", "work", "build"}
    PROVE  ~Settled
BY ActorFits DEF WishStands, NothingStarts, DeedsFit, DeedFits, Starts, Inside, Kind, Removals

LEMMA StartIsWanted ==
    ASSUME WishStands, NEW a \in Actor, act[a].pc \in Inside, act[a].kind \in Starts
    PROVE  ~Settled
BY DEF WishStands, NothingStarts

(* An operation that ends, whatever it wrote, keeps the invariant if it     *)
(* respects the revision, the purge and the wish of the users.              *)
LEMMA EndKeeps ==
    ASSUME LifeInv, NEW a \in Actor, Others(a), Rested(a, act'[a]),
           lock' = (IF lock = a THEN NoOne ELSE lock), WorldFits', OldFits',
           a = Daemon => act[a].pc \in {"want", "work", "build"},
           row'.there => row.there \/ (man.there /\ \A b \in Actor \ {a} : act[b].pc \notin Inside),
           man'.there = man.there,
           Settled => box' # "running",
           \/ row'.desired = row.desired /\ (row'.there => row.there)
           \/ row'.desired = "stopped"
           \/ ~Settled,
           gh'.wish = gh.wish, gh'.late = gh.late, gh'.purged = gh.purged,
           \/ /\ gh'.tries = gh.tries /\ gh'.lost = gh.lost /\ gh'.crossed = gh.crossed
              /\ man'.count = man.count
           \/ /\ gh'.tries = 0 /\ gh'.lost = 0 /\ man'.count = 0
              /\ gh'.crossed <=> (act[Daemon].pc = "persist" \/ \E u \in User : Holding(act[u]))
    PROVE  LifeInv'
BY ActorFits, DeedsKept, LockKept, DaemonIsWanted, WishKept, PurgeKept, TriesKept, FuseKept,
   ClearingKeeps DEF LifeInv, LifeTypes, Rested, Inside, Holding, DeedFits, UserPc, DaemonPc,
       DeedsFit, TriesFit, Others

(* ... with an answer. *)
LEMMA AnswerKeeps ==
    ASSUME LifeInv, NEW a \in Actor, NEW out \in {"ok", "error"}, Answer(a, out), WorldFits',
           a = Daemon => act[a].pc \in {"want", "work", "build"},
           row.there => row'.there /\ row'.rev = row.rev,
           row'.there => row.there \/ (man.there /\ \A b \in Actor \ {a} : act[b].pc \notin Inside),
           man'.there = man.there,
           Settled => box' # "running",
           \/ row'.desired = row.desired /\ (row'.there => row.there)
           \/ row'.desired = "stopped"
           \/ ~Settled,
           gh'.wish = gh.wish, gh'.late = gh.late, gh'.purged = gh.purged,
           \/ /\ gh'.tries = gh.tries /\ gh'.lost = gh.lost /\ gh'.crossed = gh.crossed
              /\ man'.count = man.count
           \/ /\ gh'.tries = 0 /\ gh'.lost = 0 /\ man'.count = 0
              /\ gh'.crossed <=> (act[Daemon].pc = "persist" \/ \E u \in User : Holding(act[u]))
    PROVE  LifeInv'
BY AnswerMoves, EndedRests, EndedIsOld, OldKept, EndKeeps DEF LifeInv, LifeTypes, Moves

(* A daemon inside an operation, or about to be, is where it can be. *)
LEMMA DaemonIsAt ==
    ASSUME DeedsFit, act[Daemon].pc \in {"want", "wantSwap"} \cup Inside
    PROVE  act[Daemon].pc \in {"want", "work", "build"}
BY DEF DeedsFit, DaemonPc, Inside

(* A stale expected revision, a manifest that is gone and a lock that is    *)
(* not got in time (_ensure_revision_locked, instance_lock).                *)
LEMMA RefuseKeeps == ASSUME LifeInv, NEW a \in Actor, Refuse(a) \/ LockTimeout(a) PROVE LifeInv'
BY DaemonIsAt, AnswerKeeps DEF Refuse, LockTimeout, Waiting, LifeInv, At, LifeTypes, WorldFits,
       world, WishStands, NothingStarts

(* Who is inside an operation holds the lock alone; a start has a manifest  *)
(* and is still wanted.                                                     *)
LEMMA InsideIs ==
    ASSUME LifeInv, NEW a \in Actor, act[a].pc \in Inside
    PROVE  /\ lock = a /\ \A b \in Actor \ {a} : act[b].pc \notin Inside
           /\ act[a].kind \notin Removals => man.there
           /\ act[a].kind \in Starts => ~Settled
           /\ a = Daemon => act[a].pc \in {"want", "work", "build"}
           /\ act[a].pc \in {"work", "light", "build"} /\ act[a].kind \notin Removals \cup {"stop"}
              => act[a].kind \in Starts
BY NobodyElse, StartIsWanted, DaemonIsAt DEF LifeInv, PurgeStands, DeedsFit, DeedFits, Starts,
       Removals, Kind

(* start_container without a build. *)
LEMMA LightStartKeeps == ASSUME LifeInv, NEW a \in Actor, LightStart(a) PROVE LifeInv'
<1>1. /\ act[a].pc \in {"work", "light"}
      /\ act[a].pc = "work" => act[a].kind = "start"
      /\ LifeTypes /\ DeedsFit
  BY DEF LightStart, At, Doing, LifeInv
<1>2. act[a].kind \in {"start", "restart"}
  BY <1>1 DEF DeedsFit, DeedFits
<1>3. /\ lock = a /\ \A b \in Actor \ {a} : act[b].pc \notin Inside
      /\ man.there /\ ~Settled
      /\ a = Daemon => act[a].pc \in {"want", "work", "build"}
  BY <1>1, <1>2, InsideIs DEF Inside, Starts, Removals
<1>4. UNCHANGED <<code, history, owner, mem>>
  BY DEF LightStart
<1>5. CASE /\ box' = "running"
           /\ \/ row' = Registered("running", "running") /\ UNCHANGED left
              \/ row' = Registered("failed", "running") /\ Fault
           /\ IF Doing(a, {"start"}) THEN man' = Cleared(man) /\ gh' = NoteCleared(gh)
                                     ELSE UNCHANGED <<man, gh>>
           /\ Answer(a, "ok")
  <2>1. row' \in Rows /\ row'.there /\ (row.there => row'.rev = row.rev) /\ left' \in Nat
    BY <1>1, <1>5, RegisteredFits DEF LifeTypes, WorldFits, Status, Desired, Fault, Event
  <2>2. CASE UNCHANGED <<man, gh>>
    BY <1>1, <1>4, <1>5, <2>1, <2>2, <1>3, AnswerKeeps DEF LifeTypes, WorldFits
  <2>3. CASE man' = Cleared(man) /\ gh' = NoteCleared(gh)
    BY <1>1, <2>3, ClearedFits, NoteClearedFits, <1>4, <1>5, <2>1, <1>3, AnswerKeeps
       DEF LifeTypes, WorldFits
  <2> QED BY <1>5, <2>2, <2>3
<1>6. CASE Fault /\ Answer(a, "error") /\ UNCHANGED <<row, man, box, gh>>
  BY <1>1, <1>4, <1>6, <1>3, AnswerKeeps DEF LifeTypes, WorldFits, Fault, Event
<1> QED BY <1>5, <1>6 DEF LightStart

(* A step inside an operation that only moves on. *)
LEMMA GoesOn ==
    ASSUME LifeInv, NEW a \in Actor, act[a].pc \in Inside, NEW p \in {"light", "stopped", "down"},
           Goto(a, p), DeedFits(act'[a]), a \in User, UNCHANGED <<man, lock, gh>>, WorldFits',
           Settled => box' # "running",
           \/ row'.desired = row.desired /\ (row'.there => row.there)
           \/ row'.desired = "stopped"
           \/ ~Settled,
           row'.there => row.there \/ man.there,
           row.there => row'.there /\ row'.rev = row.rev
    PROVE  LifeInv'
BY GotoMoves, ActorFits, DeedsKept, LockKept, StartIsWanted, WishKept, NobodyElse, PurgeKept,
   TriesKept, FuseKept, OldKept DEF LifeInv, LifeTypes, LifePc, Moves, Others, Inside, UserPc,
       Holding, PurgeStands, OldFits, OldFit, Behind

(* The stop that _restart_instance_locked begins with. *)
LEMMA RestartStopKeeps == ASSUME LifeInv, NEW a \in Actor, RestartStop(a) PROVE LifeInv'
BY ActorFits, InsideIs, GotoMoves, GoesOn, AnswerKeeps DEF RestartStop, At, Doing, LifeInv,
       DeedsFit, Inside, Starts, LifeTypes, WorldFits, LifePc, DeedFits, Fault, Event

(* stop_container. *)
LEMMA StopBoxKeeps == ASSUME LifeInv, NEW a \in Actor, StopBox(a) PROVE LifeInv'
<1>1. /\ act[a].pc = "work" /\ act[a].kind = "stop" /\ act[a].pc \in Inside
      /\ LifeTypes /\ DeedsFit /\ WishStands /\ UNCHANGED <<row, man, code, history, owner, mem, gh>>
  BY DEF StopBox, At, Doing, LifeInv, Inside
<1>2. a \in User
  BY <1>1, ActorFits DEF DeedsFit
<1>3. Settled => box # "running"
  BY <1>1 DEF WishStands, NothingStarts
<1>4. CASE /\ box' = IF box = "running" THEN "stopped" ELSE box
           /\ Goto(a, "stopped") /\ UNCHANGED <<lock, left>>
  BY <1>1, <1>4, GotoMoves, <1>2, <1>3, GoesOn DEF LifeTypes, WorldFits, LifePc, DeedFits
<1>5. CASE Fault /\ Answer(a, "error") /\ UNCHANGED box
  BY <1>1, <1>5, <1>2, <1>3, ActorFits, AnswerKeeps DEF LifeTypes, WorldFits, Fault, Event
<1> QED BY <1>4, <1>5 DEF StopBox

(* The compose down of remove_instance. *)
LEMMA RemoveDownKeeps == ASSUME LifeInv, NEW a \in Actor, RemoveDown(a) PROVE LifeInv'
<1>1. /\ act[a].pc = "work" /\ act[a].kind \in Removals /\ act[a].pc \in Inside
      /\ LifeTypes /\ DeedsFit /\ WishStands /\ Goto(a, "down")
      /\ UNCHANGED <<man, code, history, owner, lock, mem, gh>>
  BY DEF RemoveDown, At, Doing, LifeInv, Inside
<1>2. a \in User
  BY <1>1, ActorFits DEF DeedsFit, Removals
<1>3. Settled => box # "running"
  BY <1>1 DEF WishStands, NothingStarts
<1>4. /\ row' = row \/ (man.there /\ row' = Registered("stopped", "stopped"))
      /\ box' \in {box, "none"} /\ (left' = left \/ (left > 0 /\ left' = left - 1))
  BY DEF RemoveDown, Fault, Event
<1>5. /\ row' \in Rows /\ (row.there => row'.there /\ row'.rev = row.rev)
      /\ row'.there => row.there \/ man.there
      /\ \/ row'.desired = row.desired /\ (row'.there => row.there)
         \/ row'.desired = "stopped"
  BY <1>1, <1>4, RegisteredFits DEF LifeTypes, WorldFits, Status, Desired
<1>6. WorldFits'
  BY <1>1, <1>4, <1>5 DEF LifeTypes, WorldFits
<1>7. DeedFits(act'[a])
  BY <1>1, GotoMoves DEF LifePc, LifeTypes, DeedFits
<1> QED BY <1>1, <1>2, <1>3, <1>4, <1>5, <1>6, <1>7, GoesOn

(* The revision is raised, and who still goes by the old one is overtaken;  *)
(* or it is not.                                                            *)
LEMMA CasEnds ==
    ASSUME LifeTypes, OldFits, NEW a \in Actor, NEW base, NEW r \in Rows, r.there,
           row.there => r.rev = row.rev, CasAnswer(a, base, r)
    PROVE  /\ Others(a) /\ Rested(a, act'[a]) /\ lock' = (IF lock = a THEN NoOne ELSE lock)
           /\ OldFits' /\ row' \in Rows /\ row'.there /\ row'.desired = r.desired
<1>0. act \in [Actor -> Deed] /\ row \in Rows
  BY DEF LifeTypes, WorldFits
<1>1. CASE r.rev # base /\ row' = r /\ Answer(a, "error")
  BY <1>0, <1>1, AnswerMoves, EndedIsOld, OldKept, EndedRests DEF Moves
<1>2. CASE /\ r.rev = base
           /\ row' = [r EXCEPT !.rev = @ + 1]
           /\ act' = [Overtaken(a) EXCEPT ![a] = Ended(a, "ok")]
           /\ Release(a)
  <2>1. row' \in Rows /\ row'.there /\ row'.desired = r.desired /\ row'.rev = r.rev + 1
    BY <1>2, RaisedFits
  <2>2. Ended(a, "ok") \in Deed
    BY <1>0, EndedFits
  <2>3. \A b \in Actor : Overtaken(a)[b] = IF b # a /\ GoesBy(b) /\ act[b].old = "no"
                                          THEN [act[b] EXCEPT !.old = "yes"] ELSE act[b]
    BY DEF Overtaken
  <2>4. /\ DOMAIN Overtaken(a) = Actor
        /\ act' = [b \in Actor |-> IF b = a THEN Ended(a, "ok") ELSE Overtaken(a)[b]]
    BY <1>2 DEF Overtaken
  <2>5. act'[a] = Ended(a, "ok")
    BY <2>4
  <2>6. ASSUME NEW b \in Actor \ {a}
        PROVE  act'[b] \in Deed /\ Alike(act'[b], act[b]) /\ OldFit(act'[b], row')
    BY <1>0, <2>3, <2>4, DeedOlder, <2>1 DEF OldFits, Alike, GoesBy, Raising, Doing, OldFit,
           Removals, Deed, Behind, Rows, Rises
  <2>7. act' \in [Actor -> Deed]
    BY <2>2, <2>5, <2>6, <2>4
  <2>8. OldFits'
    BY <1>0, <2>5, EndedIsOld, <2>6 DEF OldFits
  <2>9. lock' = IF lock = a THEN NoOne ELSE lock
    BY <1>2 DEF Release
  <2> QED BY <1>0, <2>1, <2>5, <2>6, <2>7, <2>8, <2>9, EndedRests DEF Others
<1> QED BY <1>1, <1>2 DEF CasAnswer

(* host_container up to the build. *)
LEMMA FullBeginKeeps == ASSUME LifeInv, NEW a \in Actor, FullBegin(a) PROVE LifeInv'
<1>0. /\ LifeTypes /\ WorldFits /\ DeedsFit /\ LockFits /\ WishStands /\ PurgeStands /\ TriesFit
      /\ FuseFits /\ OldFits /\ act \in [Actor -> Deed] /\ lock \in Actor \cup {NoOne}
      /\ row \in Rows /\ man \in Mans
  BY DEF LifeInv, LifeTypes, WorldFits
<1>1. /\ act[a].pc = "work" /\ act[a].kind \in {"start", "restart", "rebuild"}
      /\ act[a].pc \in Inside /\ UNCHANGED <<mem, gh, left>>
  BY DEF FullBegin, At, Doing, Inside
<1>2. /\ lock = a /\ \A b \in Actor \ {a} : act[b].pc \notin Inside
      /\ man.there /\ ~Settled
      /\ a = Daemon => act[a].pc \in {"want", "work", "build"}
  BY <1>1, InsideIs DEF Starts, Removals
<1>3. CASE Answer(a, "error") /\ UNCHANGED world
  BY <1>0, <1>1, <1>3, <1>2, AnswerKeeps DEF WorldFits, world
<1>4. CASE /\ act' = [act EXCEPT ![a].pc = "build", ![a].txn = box = "running" /\ man.id]
           /\ owner' = IF Doing(a, {"restart"}) THEN owner ELSE "live"
           /\ history' = [history EXCEPT !.active = TRUE]
           /\ IF box = "running" /\ man.id
              THEN UNCHANGED <<row, man>>
              ELSE row' = Marked("building") /\ man' = [man EXCEPT !.id = FALSE]
           /\ UNCHANGED <<box, code, lock>>
  <2>1. /\ row' \in Rows /\ row'.there = row.there /\ row'.desired = row.desired /\ row'.rev = row.rev
        /\ man' \in Mans /\ man'.there = man.there /\ man'.count = man.count
    BY <1>0, <1>4, MarkedFits, MarkedIdFits DEF Status
  <2>2. history' \in Histories
    BY <1>0, <1>4 DEF WorldFits, Histories
  <2>3. WorldFits'
    BY <1>0, <1>1, <1>4, <2>1, <2>2 DEF WorldFits
  <2>4. /\ Moves(a, act'[a])
        /\ act'[a].pc = "build" /\ act'[a].kind = act[a].kind /\ act'[a].exp = act[a].exp
        /\ act'[a].seen = act[a].seen /\ act'[a].old = act[a].old
    <3> DEFINE t == box = "running" /\ man.id
               e == [act[a] EXCEPT !.pc = "build", !.txn = t]
    <3>1. t \in BOOLEAN /\ "build" \in LifePc /\ act[a] \in Deed
      BY <1>0 DEF Mans, LifePc
    <3>2. act' = [act EXCEPT ![a] = e]
      BY <1>4
    <3> HIDE DEF t
    <3>3. /\ e \in Deed /\ e.pc = "build" /\ e.kind = act[a].kind /\ e.exp = act[a].exp
          /\ e.seen = act[a].seen /\ e.old = act[a].old
      BY <3>1 DEF Deed
    <3> HIDE DEF e
    <3>4. Moves(a, e)
      BY <1>0, <3>2, <3>3, MoveIsSet
    <3> QED BY <3>3, <3>4 DEF Moves
  <2>5. Others(a) /\ act' \in [Actor -> Deed] /\ ~Holding(act'[a]) /\ "build" \in Inside
    BY <2>4 DEF Moves, Others, Holding, Inside
  <2>6. DeedsFit'
    BY <1>1, <2>4, <1>0, <2>5, DeedsKept DEF DeedFits, UserPc, Inside, DaemonPc, DeedsFit
  <2>7. LockFits'
    BY <1>0, <1>1, <1>4, <2>4, <2>5, LockKept
  <2>8. WishStands'
    BY <1>0, <1>1, <1>2, <2>1, <2>4, <2>5, WishKept
  <2>9. PurgeStands'
    BY <1>0, <1>1, <1>2, <2>1, <2>4, <2>5, PurgeKept
  <2>10. TriesFit'
    BY <1>0, <1>1, <1>2, <2>1, <2>3, <2>4, <2>5, TriesKept DEF TriesFit
  <2>11. FuseFits'
    BY <1>0, <1>1, <2>1, <2>4, <2>5, FuseKept
  <2>12. OldFits'
    BY <1>0, <1>1, <2>1, <2>4, OldKept DEF OldFits, OldFit, Behind, Rises
  <2>13. lock' \in Actor \cup {NoOne}
    BY <1>0, <1>4
  <2> QED BY <2>3, <2>5, <2>6, <2>7, <2>8, <2>9, <2>10, <2>11, <2>12, <2>13 DEF LifeInv, LifeTypes
<1> QED BY <1>3, <1>4 DEF FullBegin

(* A new version that is verified, with the revision of a rebuild. *)
LEMMA FullOkKeeps == ASSUME LifeInv, NEW a \in Actor, FullOk(a) PROVE LifeInv'
<1>0. /\ LifeTypes /\ WorldFits /\ DeedsFit /\ OldFits /\ row \in Rows /\ man \in Mans /\ gh \in Notes
      /\ act \in [Actor -> Deed]
  BY DEF LifeInv, LifeTypes, WorldFits
<1>1. /\ act[a].pc = "build" /\ act[a].pc \in Inside
      /\ UNCHANGED <<mem, left>> /\ owner' \in {owner, "none"} /\ box' = "running"
      /\ history' = [failed |-> FALSE, archive |-> TRUE, active |-> FALSE]
      /\ code' = [code EXCEPT !.stale = FALSE]
  BY DEF FullOk, BuildEnds, At, Doing, Inside
<1>2. act[a].kind \in {"start", "restart", "rebuild"}
  BY <1>0, <1>1 DEF DeedsFit, DeedFits
<1>3. /\ lock = a /\ \A b \in Actor \ {a} : act[b].pc \notin Inside
      /\ man.there /\ ~Settled
      /\ a = Daemon => act[a].pc \in {"want", "work", "build"}
  BY <1>1, <1>2, InsideIs DEF Starts, Removals
<1>4. /\ gh' \in Notes /\ gh'.wish = gh.wish /\ gh'.late = gh.late /\ gh'.purged = gh.purged
      /\ man' \in Mans /\ man'.there = man.there
      /\ \/ /\ gh'.tries = gh.tries /\ gh'.lost = gh.lost /\ gh'.crossed = gh.crossed
            /\ man'.count = man.count
         \/ /\ gh'.tries = 0 /\ gh'.lost = 0 /\ man'.count = 0
            /\ gh'.crossed <=> (act[Daemon].pc = "persist" \/ \E u \in User : Holding(act[u]))
  <2>1. CASE man' = [man EXCEPT !.id = TRUE] /\ UNCHANGED gh
    BY <1>0, <2>1, MarkedIdFits
  <2>2. CASE man' = [Cleared(man) EXCEPT !.id = TRUE] /\ gh' = NoteCleared(gh)
    <3>1. Cleared(man) \in Mans /\ Cleared(man).there = man.there /\ Cleared(man).count = 0
      BY <1>0, ClearedFits
    <3>2. man' \in Mans /\ man'.there = man.there /\ man'.count = 0
      BY <2>2, <3>1, MarkedIdFits
    <3> QED BY <1>0, <2>2, <3>2, NoteClearedFits
  <2> QED BY <2>1, <2>2 DEF FullOk
<1> DEFINE r == Registered("running", "running")
<1>5. r \in Rows /\ r.there /\ (row.there => r.rev = row.rev) /\ r.desired = "running"
  BY <1>0, RegisteredFits DEF Status, Desired
<1>6. /\ history' \in Histories /\ code' \in [stale : BOOLEAN, broken : BOOLEAN]
      /\ owner' \in {"none", "live", "dead"}
  BY <1>0, <1>1 DEF WorldFits, Histories
<1>7. row' \in Rows => WorldFits'
  BY <1>0, <1>1, <1>4, <1>6 DEF WorldFits
<1> HIDE DEF r
<1>8. CASE CasAnswer(a, act[a].seen, r)
  BY <1>0, <1>5, <1>8, CasEnds, <1>1, <1>3, <1>4, <1>7, EndKeeps
<1>9. CASE row' = r /\ Answer(a, "ok")
  BY <1>1, <1>3, <1>4, <1>5, <1>7, <1>9, AnswerKeeps
<1> QED BY <1>8, <1>9 DEF FullOk, r

(* A build, a swap or a verification that fails. *)
LEMMA FullFailsKeeps == ASSUME LifeInv, NEW a \in Actor, FullFails(a) PROVE LifeInv'
<1>0. /\ LifeTypes /\ WorldFits /\ DeedsFit /\ OldFits /\ row \in Rows
  BY DEF LifeInv, LifeTypes, WorldFits
<1>1. /\ act[a].pc = "build" /\ act[a].pc \in Inside /\ Answer(a, "error")
      /\ UNCHANGED <<mem, man, code, gh>> /\ owner' \in {owner, "none"}
      /\ box' \in {box, "none"} /\ (left' = left \/ (left > 0 /\ left' = left - 1))
      /\ history' = [history EXCEPT !.failed = TRUE, !.active = FALSE]
  BY DEF FullFails, BuildEnds, At, Doing, Inside, Fault, Event
<1>2. act[a].kind \in {"start", "restart", "rebuild"}
  BY <1>0, <1>1 DEF DeedsFit, DeedFits
<1>3. /\ lock = a /\ \A b \in Actor \ {a} : act[b].pc \notin Inside
      /\ man.there /\ ~Settled
      /\ a = Daemon => act[a].pc \in {"want", "work", "build"}
  BY <1>1, <1>2, InsideIs DEF Starts, Removals
<1>4. row' \in Rows /\ (row.there => row'.there /\ row'.rev = row.rev)
  BY <1>0, RegisteredFits DEF Status, Desired, Rows, FullFails
<1>5. WorldFits'
  <2>1. history' \in Histories
    BY <1>0, <1>1 DEF WorldFits, Histories
  <2> QED BY <1>0, <1>1, <1>4, <2>1 DEF WorldFits
<1> QED BY <1>1, <1>3, <1>4, <1>5, AnswerKeeps

(* rollback_instance with its compensation. *)
LEMMA RollbackKeeps == ASSUME LifeInv, NEW a \in Actor, Rollback(a) PROVE LifeInv'
<1>0. /\ LifeTypes /\ WorldFits /\ DeedsFit /\ OldFits /\ row \in Rows /\ man \in Mans
  BY DEF LifeInv, LifeTypes, WorldFits
<1>1. /\ act[a].pc = "work" /\ act[a].kind = "rollback" /\ act[a].pc \in Inside
      /\ UNCHANGED <<owner, mem, gh>>
  BY DEF Rollback, At, Doing, Inside
<1>3. /\ lock = a /\ \A b \in Actor \ {a} : act[b].pc \notin Inside
      /\ man.there /\ ~Settled
      /\ a = Daemon => act[a].pc \in {"want", "work", "build"}
  BY <1>1, InsideIs DEF Starts, Removals
<1>4. CASE Answer(a, "error") /\ UNCHANGED <<row, man, box, code, history, left>>
  BY <1>0, <1>1, <1>4, <1>3, AnswerKeeps DEF WorldFits
<1>5. CASE /\ row.there /\ history.archive
           /\ box' = "running"
           /\ CasAnswer(a, act[a].seen, Registered("running", "running"))
           /\ man' = [man EXCEPT !.id = TRUE]
           /\ code' = [code EXCEPT !.stale = FALSE]
           /\ history' = [history EXCEPT !.failed = FALSE]
           /\ UNCHANGED left
  <2> DEFINE r == Registered("running", "running")
  <2>1. r \in Rows /\ r.there /\ (row.there => r.rev = row.rev) /\ r.desired = "running"
    BY <1>0, RegisteredFits DEF Status, Desired
  <2>2. CasAnswer(a, act[a].seen, r)
    BY <1>5
  <2> HIDE DEF r
  <2>3. /\ Others(a) /\ Rested(a, act'[a]) /\ lock' = (IF lock = a THEN NoOne ELSE lock)
        /\ OldFits' /\ row' \in Rows /\ row'.there
    BY <1>0, <2>1, <2>2, CasEnds
  <2>4. man' \in Mans /\ man'.there = man.there /\ man'.count = man.count
    BY <1>0, <1>5, MarkedIdFits
  <2>5. history' \in Histories /\ code' \in [stale : BOOLEAN, broken : BOOLEAN]
    BY <1>0, <1>5 DEF WorldFits, Histories
  <2>6. WorldFits'
    BY <1>0, <1>1, <1>5, <2>3, <2>4, <2>5 DEF WorldFits
  <2> QED BY <1>1, <1>3, <2>3, <2>4, <2>6, EndKeeps
<1>6. CASE /\ row.there /\ history.archive
           /\ Fault
           /\ history' = [history EXCEPT !.failed = TRUE]
           /\ \/ UNCHANGED <<row, man, box>>
              \/ box' = "running" /\ row' = Registered("running", "running") /\ UNCHANGED man
              \/ /\ box' \in {"none", "running"}
                 /\ row' = Registered("failed", "running")
                 /\ man' = [man EXCEPT !.id = FALSE]
           /\ Answer(a, "error")
           /\ UNCHANGED code
  <2>1. row' \in Rows /\ row'.there /\ row'.rev = row.rev
    BY <1>0, <1>6, RegisteredFits DEF Status, Desired
  <2>2. man' \in Mans /\ man'.there = man.there /\ man'.count = man.count
    BY <1>0, <1>6, MarkedIdFits
  <2>3. history' \in Histories
    BY <1>0, <1>6 DEF WorldFits, Histories
  <2>4. box' \in {"none", "stopped", "running"} /\ left' \in Nat
    BY <1>0, <1>6 DEF WorldFits, Fault, Event
  <2>5. WorldFits'
    BY <1>0, <1>1, <1>6, <2>1, <2>2, <2>3, <2>4 DEF WorldFits
  <2> QED BY <1>1, <1>3, <1>6, <2>1, <2>2, <2>5, AnswerKeeps
<1> QED BY <1>4, <1>5, <1>6 DEF Rollback

(* One actor moves on and the row stays as it was but for its status. *)
LEMMA MoveKeeps ==
    ASSUME LifeInv, NEW a \in Actor, NEW d, Moves(a, d), WorldFits',
           DeedFits(d), a \in User => d.pc \in UserPc,
           a = Daemon => d.pc \in DaemonPc /\ d.kind \in {"none", "start", "rollback"},
           \/ lock' = lock /\ (d.pc \in Inside <=> act[a].pc \in Inside)
           \/ lock = NoOne /\ lock' = a /\ d.pc \in Inside
           \/ lock' = (IF lock = a THEN NoOne ELSE lock) /\ d.pc \notin Inside,
           row'.there = row.there, row'.rev = row.rev, row'.desired = row.desired,
           man'.there = man.there, gh'.purged = gh.purged,
           \/ ~Settled'
           \/ /\ gh'.wish = gh.wish /\ gh'.late = gh.late /\ (Settled => box' # "running")
              /\ Settled /\ a \in User /\ Holding(d) /\ gh.wish = "stop" => d.held.desired = "stopped"
              /\ Settled /\ a = Daemon =>
                    d.pc # "want" /\ (d.pc = "done" /\ d.kind = "rollback" => d.out = "ok")
              /\ Settled /\ d.pc \in Inside => d.kind \notin Starts,
           d.pc \in Inside /\ d.kind \notin Removals => man.there,
           d.pc # "tree",
           \/ TriesFit' /\ FuseFits'
           \/ /\ gh'.tries = 0 /\ gh'.lost = 0 /\ man'.count = 0
              /\ gh'.crossed <=> (act[Daemon].pc = "persist" \/ \E u \in User : Holding(act[u]))
              /\ a = Daemon => d.pc # "persist"
              /\ a \in User => ~Holding(d)
           \/ /\ gh'.tries = gh.tries /\ gh'.lost = gh.lost /\ gh'.crossed = gh.crossed
              /\ man'.count = man.count
              /\ a = Daemon => act[a].pc # "persist" /\ d.pc # "persist"
              /\ a = Daemon /\ man.there /\ d.pc \notin {"idle", "persist", "clear"} =>
                    gh.tries + 1 <= MANUAL_THRESHOLD + gh.lost
              /\ ~gh.crossed /\ a \in User /\ Holding(d) => d.held.count <= gh.tries,
           OldFit(d, row)
    PROVE  LifeInv'
BY DeedsKept, LockKept, WishKept, PurgeKept, TriesKept, FuseKept, ClearingKeeps, OldKept
   DEF LifeInv, LifeTypes, Moves, Others, WishStands, OldFit, Behind

(* What is known of an actor that waits for the lock, and gets it. *)
LEMMA EnterKeeps == ASSUME LifeInv, NEW a \in Actor, Enter(a) PROVE LifeInv'
<1>0. /\ LifeTypes /\ WorldFits /\ DeedsFit /\ LockFits /\ WishStands /\ TriesFit /\ FuseFits /\ OldFits
      /\ row \in Rows /\ man \in Mans /\ gh \in Notes /\ act \in [Actor -> Deed] /\ act[a] \in Deed
  BY DEF LifeInv, LifeTypes, WorldFits
<1>1. /\ act[a].pc \in {"want", "wantSwap"} /\ lock = NoOne /\ lock' = a
      /\ act[a].kind # "update" /\ (act[a].kind \notin Removals => man.there)
      /\ UNCHANGED <<row, box, code, history, owner, mem, left>>
  BY DEF Enter, MayBegin, Waiting, Doing
<1>2. /\ act[a].pc = "want" /\ act[a].kind \in Kind \ {"update"}
      /\ a = Daemon => act[a].kind \in {"start", "rollback"}
  BY <1>0, <1>1 DEF DeedsFit, DeedFits, Kind, Removals
<1> DEFINE s == IF Doing(a, {"rollback"}) THEN Rev ELSE act[a].seen
           d == [act[a] EXCEPT !.pc = "work", !.seen = s]
<1>3. s \in Nat \cup {NoRev} /\ "work" \in LifePc
  BY <1>0 DEF Rev, Deed, Rows, LifePc
<1>4. act' = [act EXCEPT ![a] = d]
  BY <1>0 DEF Enter
<1> HIDE DEF s
<1>5. /\ d \in Deed /\ d.pc = "work" /\ d.kind = act[a].kind /\ d.exp = act[a].exp /\ d.seen = s
      /\ d.old = act[a].old
  BY <1>0, <1>3 DEF Deed
<1> HIDE DEF d
<1>6. Moves(a, d) /\ ~Holding(d) /\ d.pc # "persist" /\ d.pc \in Inside /\ d.pc # "tree"
  BY <1>0, <1>4, <1>5, MoveIsSet DEF Holding, Inside
<1>7. /\ DeedFits(d) /\ d.pc \in UserPc /\ d.pc \in DaemonPc
      /\ a = Daemon => d.kind \in {"none", "start", "rollback"}
  BY <1>2, <1>5 DEF DeedFits, UserPc, DaemonPc, Inside
<1>8. OldFit(d, row)
  BY <1>0, <1>5, <1>2 DEF OldFits, s, Rises, Doing, OldFit, Behind
<1>9. CASE /\ a \in User /\ Doing(a, {"start", "restart", "rebuild"})
           /\ man' = Cleared(man) /\ gh' = [NoteCleared(gh) EXCEPT !.wish = "run", !.late = FALSE]
  <2>1. man' \in Mans /\ man'.there = man.there /\ man'.count = 0
    BY <1>0, <1>9, ClearedFits
  <2> DEFINE g == NoteCleared(gh)
  <2>2. /\ g \in Notes /\ g.tries = 0 /\ g.lost = 0 /\ g.purged = gh.purged
        /\ g.crossed <=> (act[Daemon].pc = "persist" \/ \E u \in User : Holding(act[u]))
    BY <1>0, NoteClearedFits
  <2>3. gh' = [g EXCEPT !.wish = "run", !.late = FALSE]
    BY <1>9
  <2> HIDE DEF g
  <2>4. /\ gh' \in Notes /\ gh'.tries = g.tries /\ gh'.lost = g.lost /\ gh'.wish = "run"
        /\ gh'.purged = g.purged /\ gh'.crossed = g.crossed
    BY <2>2, <2>3 DEF Notes
  <2>5. WorldFits' /\ ~Settled'
    BY <1>0, <1>1, <2>1, <2>4 DEF WorldFits, Settled
  <2> QED BY <1>1, <1>5, <1>6, <1>7, <1>8, <1>9, <2>1, <2>2, <2>4, <2>5, ActorFits, MoveKeeps
<1>10. CASE /\ a \in User /\ Doing(a, {"rollback"}) /\ UNCHANGED man
            /\ gh' = [gh EXCEPT !.wish = "run", !.late = FALSE]
  <2>1. /\ gh' \in Notes /\ gh'.tries = gh.tries /\ gh'.lost = gh.lost /\ gh'.wish = "run"
        /\ gh'.purged = gh.purged /\ gh'.crossed = gh.crossed
    BY <1>0, <1>10 DEF Notes
  <2>2. WorldFits' /\ ~Settled'
    BY <1>0, <1>1, <1>10, <2>1 DEF WorldFits, Settled
  <2> QED BY <1>1, <1>5, <1>6, <1>7, <1>8, <1>10, <2>1, <2>2, ActorFits, MoveKeeps
<1>11. CASE /\ ~(a \in User /\ Doing(a, {"start", "restart", "rebuild", "rollback"}))
            /\ UNCHANGED <<man, gh>>
  BY <1>0, <1>1, <1>11, <1>2, DaemonIsWanted, <1>5, ActorFits, <1>6, <1>7, <1>8, MoveKeeps
     DEF WorldFits, WishStands, NothingStarts, Starts, Doing, TriesFit
<1> QED BY <1>9, <1>10, <1>11 DEF Enter, Doing

(* A user asks, and may say which revision he expects. *)
LEMMA CallKeeps ==
    ASSUME LifeInv, NEW u \in User, NEW kind \in Kind, Call(u, kind) PROVE LifeInv'
<1>0. /\ LifeTypes /\ WorldFits /\ row \in Rows /\ act \in [Actor -> Deed] /\ WishStands
      /\ u \in Actor /\ u # Daemon
  BY ActorFits DEF LifeInv, LifeTypes, WorldFits, Actor
<1>1. /\ act[u].pc = "idle" /\ row.there /\ left > 0 /\ left' = left - 1
      /\ UNCHANGED <<row, man, box, code, history, owner, lock, mem, gh>>
  BY DEF Call, At, Event, world
<1>2. PICK x \in {NoRev, row.rev} :
        /\ kind \in Removals => x = NoRev
        /\ act' = [act EXCEPT ![u] = [Idle EXCEPT !.pc = "want", !.kind = kind, !.exp = x,
                                           !.seen = IF kind = "rebuild" THEN row.rev ELSE NoRev]]
  BY DEF Call
<1> DEFINE s == IF kind = "rebuild" THEN row.rev ELSE NoRev
           d == [Idle EXCEPT !.pc = "want", !.kind = kind, !.exp = x, !.seen = s]
<1>3. s \in Nat \cup {NoRev} /\ x \in Nat \cup {NoRev} /\ "want" \in LifePc
  BY <1>0 DEF Rows, LifePc
<1>4. act' = [act EXCEPT ![u] = d]
  BY <1>2
<1> HIDE DEF s
<1>5. d \in Deed /\ d.pc = "want" /\ d.kind = kind /\ d.exp = x /\ d.seen = s /\ d.old = "no"
  BY <1>3, IdleFits DEF Deed
<1> HIDE DEF d
<1>6. Moves(u, d) /\ ~Holding(d) /\ d.pc \notin Inside /\ d.pc # "tree"
  BY <1>0, <1>4, <1>5, MoveIsSet DEF Holding, Inside
<1>7. DeedFits(d) /\ d.pc \in UserPc
  BY <1>5 DEF DeedFits, UserPc
<1>8. OldFit(d, row)
  BY <1>0, <1>1, <1>2, <1>5 DEF OldFit, Behind, s, Rows
<1>9. WorldFits' /\ (Settled => box' # "running")
  BY <1>0, <1>1 DEF WorldFits, WishStands, NothingStarts
<1>10. act[u].pc \notin Inside
  BY <1>1 DEF Inside
<1> QED BY <1>0, <1>1, <1>6, <1>7, <1>8, <1>9, <1>10, MoveKeeps

(* import --update loads the manifest under its first lock ... *)
LEMMA UpdateLoadKeeps == ASSUME LifeInv, NEW a \in Actor, UpdateLoad(a) PROVE LifeInv'
<1>0. /\ LifeTypes /\ WorldFits /\ DeedsFit /\ LockFits /\ WishStands /\ FuseFits /\ OldFits
      /\ row \in Rows /\ man \in Mans /\ act \in [Actor -> Deed] /\ act[a] \in Deed
      /\ history \in Histories
  BY DEF LifeInv, LifeTypes, WorldFits
<1>1. /\ act[a].pc = "want" /\ act[a].kind = "update" /\ lock = NoOne
      /\ UNCHANGED <<row, man, box, code, history, owner, mem, gh, left>>
  BY DEF UpdateLoad, MayBegin, At, Doing, world
<1>2. a \in User /\ a # Daemon
  BY <1>0, <1>1, ActorFits DEF DeedsFit
<1>3. WorldFits' /\ (Settled => box' # "running")
  BY <1>0, <1>1 DEF WorldFits, WishStands, NothingStarts
<1>4. CASE Answer(a, "ok")
  BY <1>1, <1>2, <1>3, <1>4, AnswerKeeps
<1>5. CASE /\ UNCHANGED lock
           /\ act' = [act EXCEPT ![a].pc = "reread",
                        ![a].held = [status |-> row.status, desired |-> row.desired, id |-> man.id,
                                     count |-> man.count, wait |-> man.wait,
                                     failed |-> history.failed]]
  <2> DEFINE h == [status |-> row.status, desired |-> row.desired, id |-> man.id,
                   count |-> man.count, wait |-> man.wait, failed |-> history.failed]
             d == [act[a] EXCEPT !.pc = "reread", !.held = h]
  <2>1. h \in HeldCopy /\ h.desired = row.desired /\ h.count = man.count
    BY <1>0 DEF HeldCopy, Rows, Mans, Histories
  <2>2. act' = [act EXCEPT ![a] = d]
    BY <1>0, <1>5
  <2> HIDE DEF h
  <2>3. /\ d \in Deed /\ d.pc = "reread" /\ d.kind = "update" /\ d.exp = act[a].exp
        /\ d.seen = act[a].seen /\ d.old = act[a].old /\ d.held = h
    BY <1>0, <1>1, <2>1 DEF LifePc, Deed
  <2> HIDE DEF d
  <2>4. Moves(a, d) /\ d.pc \notin Inside /\ d.pc # "tree" /\ act[a].pc \notin Inside
    BY <1>0, <1>1, <2>2, <2>3, MoveIsSet DEF Inside
  <2>5. DeedFits(d) /\ d.pc \in UserPc
    BY <2>3 DEF DeedFits, UserPc
  <2>6. OldFit(d, row)
    BY <1>0, <1>1, <2>3 DEF OldFits, OldFit, Behind, Removals
  <2>7. Settled /\ gh.wish = "stop" => d.held.desired = "stopped"
    BY <1>0, <2>1, <2>3 DEF WishStands, NothingStarts
  <2>8. ~gh.crossed => d.held.count <= gh.tries
    BY <1>0, <2>1, <2>3 DEF FuseFits
  <2> QED BY <1>1, <1>2, <1>3, <1>5, <2>4, <2>5, <2>6, <2>7, <2>8, MoveKeeps
<1> QED BY <1>4, <1>5 DEF UpdateLoad

(* ... reads the revision to raise without a lock ... *)
LEMMA UpdateRereadKeeps == ASSUME LifeInv, NEW a \in Actor, UpdateReread(a) PROVE LifeInv'
<1>0. /\ LifeTypes /\ WorldFits /\ DeedsFit /\ LockFits /\ WishStands /\ FuseFits /\ OldFits
      /\ row \in Rows /\ act \in [Actor -> Deed] /\ act[a] \in Deed
  BY DEF LifeInv, LifeTypes, WorldFits
<1>1. /\ act[a].pc = "reread" /\ UNCHANGED <<row, man, box, code, history, owner, lock, mem, gh, left>>
  BY DEF UpdateReread, At, world
<1>2. a \in User /\ a # Daemon /\ act[a].kind = "update"
  BY <1>0, <1>1, ActorFits DEF DeedsFit, DeedFits, DaemonPc
<1>3. WorldFits' /\ (Settled => box' # "running")
  BY <1>0, <1>1 DEF WorldFits, WishStands, NothingStarts
<1> DEFINE s == IF act[a].exp = NoRev THEN Rev ELSE act[a].exp
           o == IF act[a].exp = NoRev THEN "no" ELSE act[a].old
           d == [act[a] EXCEPT !.pc = "wantSwap", !.seen = s, !.old = o]
<1>4. s \in Nat \cup {NoRev} /\ o \in {"no", "yes", "void"} /\ "wantSwap" \in LifePc
  BY <1>0 DEF Rev, Deed, Rows, LifePc
<1>5. act' = [act EXCEPT ![a] = d]
  BY <1>0 DEF UpdateReread
<1> HIDE DEF s, o
<1>6. /\ d \in Deed /\ d.pc = "wantSwap" /\ d.kind = "update" /\ d.exp = act[a].exp
      /\ d.seen = s /\ d.old = o /\ d.held = act[a].held
  BY <1>0, <1>2, <1>4 DEF Deed
<1> HIDE DEF d
<1>7. Moves(a, d) /\ d.pc \notin Inside /\ d.pc # "tree" /\ act[a].pc \notin Inside
  BY <1>0, <1>1, <1>5, <1>6, MoveIsSet DEF Inside
<1>8. DeedFits(d) /\ d.pc \in UserPc
  BY <1>6 DEF DeedFits, UserPc
<1>9. OldFit(d, row)
  BY <1>0, <1>6, <1>1 DEF OldFits, OldFit, Behind, Removals, s, o, Rev, Rows
<1>10. Settled /\ gh.wish = "stop" => d.held.desired = "stopped"
  BY <1>0, <1>1, <1>2, <1>6 DEF WishStands, NothingStarts, Holding
<1>11. ~gh.crossed => d.held.count <= gh.tries
  BY <1>0, <1>1, <1>2, <1>6 DEF FuseFits, Holding
<1> QED BY <1>1, <1>2, <1>3, <1>7, <1>8, <1>9, <1>10, <1>11, MoveKeeps

(* ... writes manifest and row back under its second ... *)
LEMMA UpdateSwapKeeps == ASSUME LifeInv, NEW a \in Actor, UpdateSwap(a) PROVE LifeInv'
<1>0. /\ LifeTypes /\ WorldFits /\ DeedsFit /\ LockFits /\ WishStands /\ PurgeStands /\ TriesFit
      /\ FuseFits /\ OldFits /\ row \in Rows /\ man \in Mans /\ gh \in Notes
      /\ act \in [Actor -> Deed] /\ act[a] \in Deed /\ lock \in Actor \cup {NoOne}
  BY DEF LifeInv, LifeTypes, WorldFits
<1> DEFINE h == act[a].held
<1>1. /\ act[a].pc = "wantSwap" /\ lock = NoOne /\ UNCHANGED <<box, owner, lock, mem>>
      /\ RevisionStands(a) /\ (man.there \/ act[a].kind \in Removals)
  BY DEF UpdateSwap, MayBegin, At, Doing
<1>2. a \in User /\ a # Daemon /\ act[a].kind = "update" /\ man.there
  BY <1>0, <1>1, ActorFits DEF DeedsFit, DeedFits, DaemonPc, Removals
<1>3. Settled => box' # "running"
  BY <1>0, <1>1 DEF WishStands, NothingStarts
<1>4. CASE Fault /\ Answer(a, "error") /\ UNCHANGED <<row, man, code, history, gh>>
  BY <1>0, <1>1, <1>4, <1>2, <1>3, AnswerKeeps DEF WorldFits, Fault, Event
<1>5. CASE /\ \E broken \in BOOLEAN : code' = [stale |-> TRUE, broken |-> broken]
           /\ man' = [man EXCEPT !.id = h.id, !.count = h.count, !.wait = h.wait]
           /\ row' = Registered(h.status, h.desired)
           /\ history' = [history EXCEPT !.failed = h.failed]
           /\ gh' = [gh EXCEPT !.lost = IF h.count < man.count
                                       THEN @ + man.count - h.count ELSE @,
                               !.wish = IF @ = "gone" THEN "none" ELSE @]
           /\ act' = [act EXCEPT ![a] = IF act[a].seen = NoRev THEN Idle
                                             ELSE [@ EXCEPT !.pc = "cas", !.held = Idle.held]]
           /\ UNCHANGED left
  <2>1. h \in HeldCopy /\ h.status \in Status /\ h.desired \in Desired /\ h.count \in 0 .. MANUAL_THRESHOLD
        /\ h.failed \in BOOLEAN
    BY <1>0 DEF Deed, HeldCopy
  <2>2. row' \in Rows /\ row'.there /\ row'.desired = h.desired /\ (row.there => row'.rev = row.rev)
    BY <1>0, <1>5, <2>1, RegisteredFits
  <2>3. man' \in Mans /\ man'.there = man.there /\ man'.count = h.count
    <3>1. man' = [man EXCEPT !.id = h.id, !.count = h.count, !.wait = h.wait]
      BY <1>5
    <3> HIDE DEF h
    <3> QED BY <1>0, <2>1, <3>1, RestoredFits
  <2> DEFINE l == IF h.count < man.count THEN gh.lost + man.count - h.count ELSE gh.lost
             w == IF gh.wish = "gone" THEN "none" ELSE gh.wish
  <2>4. l \in Nat /\ w \in {"none", "run", "stop", "gone"} /\ l + h.count >= gh.lost + man.count
        /\ w # "gone" /\ l >= gh.lost /\ (w = gh.wish \/ w = "none")
    BY <1>0, <2>1, LifeAssumption DEF Notes, Mans
  <2>5. gh' = [gh EXCEPT !.lost = l, !.wish = w]
    BY <1>5
  <2> HIDE DEF l, w
  <2>6. /\ gh' \in Notes /\ gh'.lost = l /\ gh'.wish = w /\ gh'.tries = gh.tries /\ gh'.late = gh.late
        /\ gh'.crossed = gh.crossed /\ gh'.purged = gh.purged
    BY <1>0, <2>4, <2>5 DEF Notes
  <2>7. history' \in Histories /\ code' \in [stale : BOOLEAN, broken : BOOLEAN]
    BY <1>0, <1>5, <2>1 DEF WorldFits, Histories
  <2>8. WorldFits'
    BY <1>0, <1>1, <1>5, <2>2, <2>3, <2>6, <2>7 DEF WorldFits
  <2> DEFINE d == IF act[a].seen = NoRev THEN Idle
                  ELSE [act[a] EXCEPT !.pc = "cas", !.held = Idle.held]
  <2>9. d \in Deed /\ d.pc \in {"idle", "cas"} /\ DeedFits(d) /\ OldFit(d, row')
    <3>1. CASE act[a].seen = NoRev
      BY <3>1, IdleFits DEF DeedFits, OldFit
    <3>2. CASE act[a].seen # NoRev
      <4> DEFINE i == Idle.held
                 e == [act[a] EXCEPT !.pc = "cas", !.held = i]
      <4>1. i \in HeldCopy /\ "cas" \in LifePc
        BY IdleFits DEF LifePc
      <4> HIDE DEF i
      <4>2. /\ e \in Deed /\ e.pc = "cas" /\ e.kind = act[a].kind /\ e.exp = act[a].exp
            /\ e.seen = act[a].seen /\ e.old = act[a].old
        BY <1>0, <4>1 DEF Deed
      <4>3. d = e
        BY <3>2 DEF i
      <4> HIDE DEF d, e
      <4>4. OldFit(act[a], row)
        BY <1>0 DEF OldFits
      <4>5. DeedFits(e)
        BY <1>2, <4>2 DEF DeedFits
      <4>6. OldFit(e, row')
        BY <1>1, <1>2, <2>2, <4>2, <4>4 DEF OldFit, Behind, Rises, Removals
      <4> QED BY <4>2, <4>3, <4>5, <4>6
    <3> QED BY <3>1, <3>2
  <2>10. act' = [act EXCEPT ![a] = d]
    BY <1>0, <1>5
  <2> HIDE DEF d
  <2>11. /\ Moves(a, d) /\ Others(a) /\ act' \in [Actor -> Deed] /\ act'[a] = d /\ ~Holding(d)
         /\ d.pc \notin Inside /\ act[a].pc \notin Inside /\ d.pc \in UserPc
    BY <1>0, <1>1, <2>9, <2>10, MoveIsSet DEF Moves, Others, Holding, Inside, UserPc
  <2>12. DeedsFit' /\ LockFits' /\ lock' \in Actor \cup {NoOne}
    BY <1>0, <1>1, <1>2, <2>9, <2>11, DeedsKept, LockKept
  <2>13. WishStands'
    BY <2>4, <2>6, <1>0, <1>1, <1>2, <2>2, <1>3, <2>11, WishKept DEF WishStands, Settled,
           NothingStarts, Holding
  <2>14. PurgeStands'
    BY <1>0, <1>1, NobodyInside, <2>9, <1>2, <2>3, <2>6, <2>11, PurgeKept
  <2>15. act'[Daemon].pc = act[Daemon].pc /\ act'[Daemon].load = act[Daemon].load
         /\ act[Daemon].load \in Nat
    BY <1>0, <1>2, <2>11, ActorFits DEF Others, Alike, Deed
  <2>16. TriesFit'
    BY <1>0, <2>1, <2>3, <2>4, <2>6, <2>15, LifeAssumption DEF TriesFit, Notes, Mans
  <2>17. FuseFits'
    BY <2>11, <1>0, <1>1, <1>2, <2>3, <2>6, <2>15 DEF Others, Alike, Actor, FuseFits, Holding
  <2>18. OldFits'
    BY <1>0, <2>2, <2>9, <2>11, OldKept
  <2> QED BY <2>8, <2>11, <2>12, <2>13, <2>14, <2>16, <2>17, <2>18 DEF LifeInv, LifeTypes
<1> QED BY <1>4, <1>5 DEF UpdateSwap

(* ... and raises the revision without one. *)
LEMMA UpdateCasKeeps == ASSUME LifeInv, NEW a \in Actor, UpdateCas(a) PROVE LifeInv'
BY CasEnds, EndKeeps, AnswerKeeps DEF LifeInv, LifeTypes, WorldFits, UpdateCas, At, DeedsFit,
       DaemonPc, WishStands, NothingStarts

(* The users have what they asked for, and nothing is left that undoes it.  *)
LEMMA CommittedIs ==
    Committed <=> \/ \E u \in User : Holding(act[u]) /\ act[u].held.desired = "running"
                  \/ act[Daemon].pc = "want"
                  \/ act[Daemon].pc = "done" /\ act[Daemon].kind = "rollback" /\ act[Daemon].out # "ok"
BY DEF Committed, HoldsManifest, Holding, At, Doing

(* The users have stopped or removed the instance; late says whether        *)
(* somebody is past his last look.                                          *)
LEMMA AchievedFits ==
    ASSUME gh \in Notes, NEW w \in {"stop", "gone"}, NEW g, g = Achieved(gh, w)
    PROVE  /\ g \in Notes /\ g.wish = w /\ (g.late <=> Committed) /\ g.tries = gh.tries
           /\ g.lost = gh.lost /\ g.crossed = gh.crossed /\ g.purged = gh.purged
BY DEF Committed, Achieved, Notes

(* The stop is recorded. *)
LEMMA StopRecordKeeps == ASSUME LifeInv, NEW a \in Actor, StopRecord(a) PROVE LifeInv'
<1>0. /\ LifeTypes /\ WorldFits /\ DeedsFit /\ LockFits /\ WishStands /\ PurgeStands /\ TriesFit
      /\ FuseFits /\ OldFits /\ row \in Rows /\ gh \in Notes /\ act \in [Actor -> Deed]
      /\ lock \in Actor \cup {NoOne}
  BY DEF LifeInv, LifeTypes, WorldFits
<1>1. /\ act[a].pc = "stopped" /\ act[a].pc \in Inside /\ row' = Registered("stopped", "stopped")
      /\ Answer(a, "ok") /\ UNCHANGED <<man, box, code, history, owner, mem, left>>
  BY DEF StopRecord, At, Inside
<1>2. a \in User /\ a # Daemon /\ act[a].kind = "stop"
  BY <1>0, <1>1, ActorFits DEF DeedsFit, DeedFits, DaemonPc
<1>3. row' \in Rows /\ row'.there /\ row'.desired = "stopped" /\ (row.there => row'.rev = row.rev)
  BY <1>0, <1>1, RegisteredFits DEF Status, Desired
<1>4. lock = a /\ (\A b \in Actor \ {a} : act[b].pc \notin Inside) /\ man.there
  BY <1>1, <1>2, InsideIs DEF Removals
<1>5. CASE gh' = gh
  BY <1>0, <1>1, <1>3, <1>5, <1>2, <1>4, AnswerKeeps DEF WorldFits, WishStands, NothingStarts
<1>6. CASE box # "running" /\ gh' = Achieved(gh, "stop")
  <2>1. /\ gh' \in Notes /\ gh'.wish = "stop" /\ (gh'.late <=> Committed) /\ gh'.tries = gh.tries
        /\ gh'.lost = gh.lost /\ gh'.crossed = gh.crossed /\ gh'.purged = gh.purged
    BY <1>0, <1>6, AchievedFits
  <2>2. WorldFits'
    BY <1>0, <1>1, <1>3, <2>1 DEF WorldFits
  <2> DEFINE d == Ended(a, "ok")
  <2>3. d \in Deed /\ d.pc = "idle" /\ d.kind = "none" /\ OldFit(d, row')
    BY <1>0, <1>2, EndedFits, EndedIsOld
  <2>4. Moves(a, d) /\ lock' = IF lock = a THEN NoOne ELSE lock
    BY <1>0, <1>1, AnswerMoves
  <2> HIDE DEF d
  <2>5. /\ Others(a) /\ act' \in [Actor -> Deed] /\ act'[a] = d /\ d.pc \notin Inside /\ ~Holding(d)
        /\ d.pc \in UserPc /\ DeedFits(d) /\ d.pc # "tree"
    BY <2>3, <2>4 DEF Moves, Others, Inside, Holding, UserPc, DeedFits
  <2>6. DeedsFit' /\ LockFits' /\ lock' \in Actor \cup {NoOne}
    BY <1>0, <1>2, <2>4, <2>5, DeedsKept, LockKept
  <2>7. WishStands'
    BY <2>1, <2>5, <1>0, CommittedIs, <1>2, ActorFits, <1>4, <1>1, <1>3, <1>6 DEF WishStands,
           Settled, Others, Alike, Actor, Holding, Deed, HeldCopy, Desired, NothingStarts
  <2>8. PurgeStands'
    BY <1>0, <1>1, <1>4, <2>1, <2>5, PurgeKept
  <2>9. TriesFit' /\ FuseFits'
    BY <1>0, <1>1, <1>2, <2>1, <2>2, <2>5, TriesKept, FuseKept
  <2>10. OldFits'
    BY <1>0, <1>3, <2>3, <2>4, OldKept
  <2> QED BY <2>2, <2>5, <2>6, <2>7, <2>8, <2>9, <2>10 DEF LifeInv, LifeTypes
<1> QED BY <1>5, <1>6 DEF StopRecord

(* delete_instance: all revisions anybody goes by are void. *)
LEMMA RemoveRowKeeps == ASSUME LifeInv, NEW a \in Actor, RemoveRow(a) PROVE LifeInv'
<1>0. /\ LifeTypes /\ WorldFits /\ DeedsFit /\ LockFits /\ WishStands /\ PurgeStands /\ TriesFit
      /\ FuseFits /\ OldFits /\ row \in Rows /\ gh \in Notes /\ act \in [Actor -> Deed]
      /\ act[a] \in Deed /\ lock \in Actor \cup {NoOne}
  BY DEF LifeInv, LifeTypes, WorldFits
<1>1. /\ act[a].pc = "down" /\ act[a].pc \in Inside /\ row' = [row EXCEPT !.there = FALSE]
      /\ history' = [failed |-> FALSE, archive |-> FALSE, active |-> FALSE]
      /\ UNCHANGED <<man, box, code, owner, mem, left>>
  BY DEF RemoveRow, At, Inside
<1>2. a \in User /\ a # Daemon /\ act[a].kind \in Removals
  BY <1>0, <1>1, ActorFits DEF DeedsFit, DeedFits, DaemonPc
<1>3. row' \in Rows /\ ~row'.there
  BY <1>0, <1>1, GoneFits
<1>4. lock = a /\ (\A b \in Actor \ {a} : act[b].pc \notin Inside)
  BY <1>0, <1>1, NobodyElse
<1>5. /\ gh' \in Notes /\ gh'.tries = gh.tries /\ gh'.lost = gh.lost
      /\ gh'.crossed = gh.crossed /\ gh'.purged = gh.purged
      /\ Settled' => box = "none" /\ gh'.wish = "gone" /\ ~Committed
  BY <1>0, AchievedFits DEF Settled, Notes, RemoveRow
<1>6. WorldFits'
  BY <1>0, <1>1, <1>3, <1>5 DEF WorldFits, Histories
<1> DEFINE d == IF Doing(a, {"purge"}) THEN [act[a] EXCEPT !.pc = "tree"] ELSE Ended(a, "ok")
<1>7. act' = [b \in Actor |-> IF b # a THEN [act[b] EXCEPT !.old = "void"] ELSE d]
  BY DEF RemoveRow
<1>8. /\ d \in Deed /\ DeedFits(d) /\ d.pc \in UserPc /\ OldFit(d, row') /\ ~Holding(d)
      /\ d.pc \in Inside => d.kind \in Removals
      /\ IF Doing(a, {"purge"}) THEN d.pc \in Inside ELSE d.pc \notin Inside
  BY <1>0, DeedGoes, <1>2, EndedFits, EndedIsOld DEF LifePc, OldFits, Doing, OldFit, Removals,
         DeedFits, UserPc, Inside, Holding
<1>9. lock' = IF d.pc \in Inside THEN lock ELSE NoOne
  BY <1>4, <1>8 DEF RemoveRow, Release
<1> HIDE DEF d
<1>10. /\ act' \in [Actor -> Deed] /\ act'[a] = d /\ Others(a)
       /\ \A b \in Actor \ {a} : act'[b].old = "void" /\ act'[b].kind = act[b].kind
                                 /\ act'[b].exp = act[b].exp /\ Alike(act'[b], act[b])
  BY <1>0, <1>7, DeedOlder, <1>8 DEF Alike, Others
<1>11. DeedsFit'
  BY <1>0, <1>2, <1>8, <1>10, DeedsKept
<1>12. LockFits' /\ lock' \in Actor \cup {NoOne}
  BY <1>0, <1>1, <1>4, <1>9, <1>10, LockKept
<1>13. WishStands'
  BY <1>2, <1>10, ActorFits, <1>5, CommittedIs, <1>4, <1>8, <1>1, <1>3 DEF WishStands, Alike,
         Starts, Removals, NothingStarts
<1>14. PurgeStands'
  BY <1>0, <1>1, <1>3, <1>5, <1>8, <1>10, PurgeKept
<1>15. TriesFit' /\ FuseFits'
  BY <1>0, <1>1, <1>2, <1>5, <1>6, <1>8, <1>10, TriesKept, FuseKept
<1>16. OldFits'
  BY <1>8, <1>10, <1>0 DEF OldFits, OldFit
<1> QED BY <1>6, <1>10, <1>11, <1>12, <1>13, <1>14, <1>15, <1>16 DEF LifeInv, LifeTypes

(* A purge removes the tree, and with it the manifest. *)
LEMMA RemoveTreeKeeps == ASSUME LifeInv, NEW a \in Actor, RemoveTree(a) PROVE LifeInv'
<1>0. /\ LifeTypes /\ WorldFits /\ DeedsFit /\ LockFits /\ WishStands /\ PurgeStands /\ TriesFit
      /\ FuseFits /\ OldFits /\ row \in Rows /\ man \in Mans /\ gh \in Notes /\ act \in [Actor -> Deed]
      /\ act[a] \in Deed /\ lock \in Actor \cup {NoOne}
  BY DEF LifeInv, LifeTypes, WorldFits
<1>1. /\ act[a].pc = "tree" /\ act[a].pc \in Inside /\ Answer(a, "ok")
      /\ UNCHANGED <<row, box, code, history, owner, mem>>
      /\ \/ man' = NoManifest /\ gh' = [gh EXCEPT !.purged = TRUE] /\ UNCHANGED left
         \/ Fault /\ man' \in {man, NoManifest} /\ UNCHANGED gh
  BY DEF RemoveTree, At, Inside
<1>2. a \in User /\ a # Daemon
  BY <1>0, <1>1, ActorFits DEF DeedsFit, DaemonPc
<1>3. lock = a /\ (\A b \in Actor \ {a} : act[b].pc \notin Inside) /\ ~row.there
  BY <1>0, <1>1, NobodyElse DEF PurgeStands
<1>4. man' \in Mans /\ (man' = man \/ (~man'.there /\ man'.count = 0))
  BY <1>0, NoManifestFits, <1>1
<1>5. /\ gh' \in Notes /\ gh'.tries = gh.tries /\ gh'.lost = gh.lost /\ gh'.wish = gh.wish
      /\ gh'.late = gh.late /\ gh'.crossed = gh.crossed
      /\ gh'.purged => gh.purged \/ ~man'.there
  BY <1>0, <1>1, NotePurgedFits, NoManifestFits
<1>6. left' \in Nat
  BY <1>0, <1>1 DEF WorldFits, Fault, Event
<1>7. WorldFits'
  BY <1>0, <1>1, <1>4, <1>5, <1>6 DEF WorldFits
<1> DEFINE d == Ended(a, "ok")
<1>8. d \in Deed /\ d.pc = "idle" /\ d.kind = "none" /\ OldFit(d, row')
  BY <1>0, <1>2, EndedFits, EndedIsOld
<1>9. Moves(a, d) /\ lock' = IF lock = a THEN NoOne ELSE lock
  BY <1>0, <1>1, AnswerMoves
<1> HIDE DEF d
<1>10. /\ Others(a) /\ act' \in [Actor -> Deed] /\ act'[a] = d /\ d.pc \notin Inside /\ ~Holding(d)
       /\ d.pc \in UserPc /\ DeedFits(d)
  BY <1>8, <1>9 DEF Moves, Others, Inside, Holding, UserPc, DeedFits
<1>11. DeedsFit' /\ LockFits' /\ lock' \in Actor \cup {NoOne}
  BY <1>0, <1>2, <1>9, <1>10, DeedsKept, LockKept
<1>12. WishStands'
  BY <1>0, <1>1, <1>2, <1>5, <1>10, WishKept DEF WishStands, NothingStarts
<1>13. \A b \in Actor : act'[b].pc \notin Inside
  BY <1>3, <1>10 DEF Others, Alike
<1>14. PurgeStands'
  BY <1>0, <1>1, <1>3, <1>4, <1>5, <1>13 DEF PurgeStands, Inside
<1>15. act'[Daemon].pc = act[Daemon].pc /\ act'[Daemon].load = act[Daemon].load
  BY <1>2, <1>10, ActorFits DEF Others, Alike
<1>16. TriesFit'
  BY <1>0, <1>4, <1>5, <1>15 DEF TriesFit
<1>17. FuseFits'
  BY <1>10, <1>0, <1>4, LifeAssumption, <1>5, <1>15 DEF Others, Alike, Actor, FuseFits, Holding,
         Notes
<1>18. OldFits'
  BY <1>0, <1>1, <1>8, <1>9, OldKept
<1> QED BY <1>7, <1>10, <1>11, <1>12, <1>14, <1>16, <1>17, <1>18 DEF LifeInv, LifeTypes

(* The daemon looks on: it moves, outside an operation and away from no     *)
(* count.                                                                   *)
LEMMA DaemonKeeps ==
    ASSUME LifeInv, NEW d, Moves(Daemon, d), WorldFits', lock' = lock,
           act[Daemon].pc \notin Inside, act[Daemon].pc # "persist",
           d.pc \in {"idle", "want", "observe", "recheck", "record", "clear"},
           d.kind \in {"none", "start", "rollback"}, d.pc = "idle" => d.kind = "none",
           d.pc = "want" => d.kind # "none",
           d.exp = NoRev, d.old = "no",
           row'.there = row.there, row'.rev = row.rev, row'.desired = row.desired,
           box' = box, man' = man, gh' = gh,
           d.pc = "want" => ~Settled,
           man.there /\ d.pc \notin {"idle", "clear"} => gh.tries + 1 <= MANUAL_THRESHOLD + gh.lost
    PROVE  LifeInv'
BY ActorFits, MoveKeeps DEF LifeInv, WishStands, NothingStarts, Inside, DaemonPc, DeedFits, Kind,
       Removals, OldFit, Rises

(* reconcile: the list of instances and the circuit breaker. *)
LEMMA LookKeeps == ASSUME LifeInv, Look PROVE LifeInv'
<1>0. /\ LifeTypes /\ WorldFits /\ TriesFit /\ row \in Rows /\ man \in Mans /\ gh \in Notes
      /\ act \in [Actor -> Deed] /\ Daemon \in Actor
  BY ActorFits DEF LifeInv, LifeTypes, WorldFits
<1>1. /\ act[Daemon].pc = "idle" /\ (man.there => man.count < MANUAL_THRESHOLD)
      /\ UNCHANGED <<row, man, box, code, history, owner, lock, mem, gh, left>>
  BY <1>0, LifeAssumption DEF Look, At, Blocked, Fused, world, Mans
<1> DEFINE s == row.status
           d == [Idle EXCEPT !.pc = "observe", !.was = s]
<1>2. s \in Status \cup {"none"} /\ "observe" \in LifePc
  BY <1>0 DEF Rows, LifePc
<1>3. act' = [act EXCEPT ![Daemon] = d]
  BY DEF Look
<1> HIDE DEF s
<1>4. d \in Deed /\ d.pc = "observe" /\ d.kind = "none" /\ d.exp = NoRev /\ d.old = "no"
  BY <1>2, IdleFits DEF Deed
<1> HIDE DEF d
<1>5. Moves(Daemon, d)
  BY <1>0, <1>3, <1>4, MoveIsSet
<1>6. WorldFits' /\ act[Daemon].pc \notin Inside
  BY <1>0, <1>1 DEF WorldFits, Inside
<1>7. man.there => gh.tries + 1 <= MANUAL_THRESHOLD + gh.lost
  BY <1>0, <1>1, LifeAssumption DEF TriesFit, Notes, Mans
<1> QED BY <1>1, <1>4, <1>5, <1>6, <1>7, DaemonKeeps

(* The round of the daemon is over. *)
LEMMA RestMoves ==
    ASSUME act \in [Actor -> Deed], act' = [act EXCEPT ![Daemon] = Idle]
    PROVE  Moves(Daemon, Idle)
BY IdleFits, ActorFits, MoveIsSet

(* observe_status. *)
LEMMA ObserveKeeps == ASSUME LifeInv, Observe PROVE LifeInv'
<1>0. /\ LifeTypes /\ WorldFits /\ TriesFit /\ row \in Rows /\ act \in [Actor -> Deed]
      /\ act[Daemon] \in Deed /\ Daemon \in Actor /\ OldFits /\ DeedsFit
  BY ActorFits DEF LifeInv, LifeTypes, WorldFits
<1>1. /\ act[Daemon].pc = "observe"
      /\ UNCHANGED <<man, box, code, history, owner, lock, gh>>
      /\ \/ Rest \/ Goto(Daemon, "recheck")
      /\ \/ row' = row \/ row' = Marked(IF box = "running" THEN "running" ELSE "stopped")
      /\ \/ left' = left \/ Fault
      /\ mem' \in {mem, "none", "holding"}
  BY DEF Observe, At
<1>2. row' \in Rows /\ row'.there = row.there /\ row'.rev = row.rev /\ row'.desired = row.desired
  BY <1>0, <1>1, MarkedFits DEF Status
<1>3. WorldFits' /\ act[Daemon].pc \notin Inside
  BY <1>0, <1>1, <1>2 DEF WorldFits, Fault, Event, Inside
<1>4. man.there => gh.tries + 1 <= MANUAL_THRESHOLD + gh.lost
  BY <1>0, <1>1 DEF TriesFit
<1>5. CASE Rest
  BY <1>0, <1>5, RestMoves, <1>1, <1>2, <1>3, IdleFits, DaemonKeeps DEF Rest
<1>6. CASE Goto(Daemon, "recheck")
  BY <1>0, <1>6, GotoMoves, <1>1, ActorFits, <1>2, <1>3, <1>4, MoveKeeps DEF LifePc, OldFits,
         DeedsFit, DeedFits, OldFit, Inside, DaemonPc, LifeInv, WishStands, NothingStarts
<1> QED BY <1>1, <1>5, <1>6

(* The last look before the lock: who finds the instance still wanted knows *)
(* that the users have not settled otherwise.                               *)
LEMMA RecheckKeeps == ASSUME LifeInv, Recheck PROVE LifeInv'
<1>0. /\ LifeTypes /\ WorldFits /\ TriesFit /\ WishStands /\ act \in [Actor -> Deed]
      /\ Daemon \in Actor
  BY ActorFits DEF LifeInv, LifeTypes, WorldFits
<1>1. /\ act[Daemon].pc = "recheck" /\ owner' \in {owner, "none"}
      /\ UNCHANGED <<row, man, box, code, history, lock, mem, gh, left>>
  BY DEF Recheck, At
<1>2. WorldFits' /\ act[Daemon].pc \notin Inside
  BY <1>0, <1>1 DEF WorldFits, Inside
<1>3. CASE Rest
  BY <1>0, <1>3, RestMoves, <1>1, <1>2, IdleFits, DaemonKeeps DEF Rest
<1> DEFINE k == IF PrefersRollback THEN "rollback" ELSE "start"
           d == [Idle EXCEPT !.pc = "want", !.kind = k]
<1>4. CASE StillWanted /\ act' = [act EXCEPT ![Daemon] = d]
  <2>1. ~Settled
    BY <1>0, <1>4 DEF StillWanted, WishStands, NothingStarts
  <2>2. k \in {"rollback", "start"} /\ "want" \in LifePc
    BY DEF LifePc
  <2> HIDE DEF k
  <2>3. d \in Deed /\ d.pc = "want" /\ d.kind = k /\ d.exp = NoRev /\ d.old = "no"
    BY <2>2, IdleFits DEF Deed, Kind
  <2>4. Moves(Daemon, d)
    BY <1>0, <1>4, <2>3, MoveIsSet
  <2> HIDE DEF d
  <2>5. man.there => gh.tries + 1 <= MANUAL_THRESHOLD + gh.lost
    BY <1>0, <1>1 DEF TriesFit
  <2> QED BY <1>1, <1>2, <2>1, <2>2, <2>3, <2>4, <2>5, DaemonKeeps
<1> QED BY <1>3, <1>4 DEF Recheck

(* A failed rollback goes on to a start without another look; so only as    *)
(* long as it is wanted.                                                    *)
LEMMA DoneKeeps == ASSUME LifeInv, Done PROVE LifeInv'
<1>0. /\ LifeTypes /\ WorldFits /\ TriesFit /\ WishStands /\ act \in [Actor -> Deed]
      /\ Daemon \in Actor
  BY ActorFits DEF LifeInv, LifeTypes, WorldFits
<1>1. /\ act[Daemon].pc = "done" /\ mem' \in {mem, "none", "holding"}
      /\ UNCHANGED <<row, man, box, code, history, owner, lock, gh, left>>
  BY DEF Done, At, world
<1>2. WorldFits' /\ act[Daemon].pc \notin Inside
  BY <1>0, <1>1 DEF WorldFits, Inside
<1>3. man.there => gh.tries + 1 <= MANUAL_THRESHOLD + gh.lost
  BY <1>0, <1>1 DEF TriesFit
<1>4. PICK p \in {"clear", "want", "record"}, k \in {"none", "start"} :
         /\ act' = [act EXCEPT ![Daemon] = [Idle EXCEPT !.pc = p, !.kind = k]]
         /\ p = "want" => k = "start" /\ act[Daemon].kind = "rollback" /\ act[Daemon].out # "ok"
  <2>1. CASE act[Daemon].out = "ok"
    <3>1. act' = [act EXCEPT ![Daemon] = [Idle EXCEPT !.pc = "clear"]]
      BY <2>1 DEF Done
    <3>2. [Idle EXCEPT !.pc = "clear"] = [Idle EXCEPT !.pc = "clear", !.kind = "none"]
      BY IdleFits DEF Deed
    <3> QED BY <3>1, <3>2
  <2>2. CASE act[Daemon].out # "ok" /\ act[Daemon].kind = "rollback"
    BY <2>2 DEF Done, Doing
  <2>3. CASE act[Daemon].out # "ok" /\ act[Daemon].kind # "rollback"
    <3>1. act' = [act EXCEPT ![Daemon] = [Idle EXCEPT !.pc = "record"]]
      BY <2>3 DEF Done, Doing
    <3>2. [Idle EXCEPT !.pc = "record"] = [Idle EXCEPT !.pc = "record", !.kind = "none"]
      BY IdleFits DEF Deed
    <3> QED BY <3>1, <3>2
  <2> QED BY <2>1, <2>2, <2>3
<1> DEFINE d == [Idle EXCEPT !.pc = p, !.kind = k]
<1>5. p \in LifePc /\ k \in Kind \cup {"none"}
  BY DEF LifePc, Kind
<1>6. d \in Deed /\ d.pc = p /\ d.kind = k /\ d.exp = NoRev /\ d.old = "no"
  BY <1>5, IdleFits DEF Deed
<1>7. Moves(Daemon, d)
  BY <1>0, <1>4, <1>6, MoveIsSet
<1> HIDE DEF d
<1>8. d.pc = "want" => ~Settled
  BY <1>0, <1>1, <1>4, <1>6 DEF WishStands, NothingStarts
<1> QED BY <1>1, <1>2, <1>3, <1>4, <1>6, <1>7, <1>8, DaemonKeeps

(* _reconcile_circuit_record: the try is counted before it is written. *)
LEMMA RecordKeeps == ASSUME LifeInv, Record PROVE LifeInv'
<1>0. /\ LifeTypes /\ WorldFits /\ TriesFit /\ FuseFits /\ WishStands /\ OldFits /\ DeedsFit
      /\ act \in [Actor -> Deed] /\ act[Daemon] \in Deed /\ man \in Mans /\ gh \in Notes
      /\ Daemon \in Actor
  BY ActorFits DEF LifeInv, LifeTypes, WorldFits
<1>1. /\ act[Daemon].pc = "record" /\ act[Daemon].pc \notin Inside
      /\ UNCHANGED <<row, man, box, code, history, owner, lock, mem, left>>
  BY DEF Record, At, world, Inside
<1>2. CASE Rest /\ UNCHANGED gh
  BY <1>0, <1>2, RestMoves, <1>1, IdleFits, DaemonKeeps DEF Rest, WorldFits
<1>3. CASE /\ man.there
           /\ act' = [act EXCEPT ![Daemon].pc = "persist", ![Daemon].load = man.count]
           /\ gh' = [gh EXCEPT !.tries = @ + 1]
  <2> DEFINE c == man.count
             d == [act[Daemon] EXCEPT !.pc = "persist", !.load = c]
  <2>1. c \in 0 .. MANUAL_THRESHOLD /\ "persist" \in LifePc
    BY <1>0 DEF Mans, LifePc
  <2>2. act' = [act EXCEPT ![Daemon] = d]
    BY <1>0, <1>3
  <2> HIDE DEF c
  <2>3. /\ d \in Deed /\ d.pc = "persist" /\ d.kind = act[Daemon].kind /\ d.exp = act[Daemon].exp
        /\ d.seen = act[Daemon].seen /\ d.old = act[Daemon].old /\ d.load = c
    BY <1>0, <2>1 DEF Deed
  <2> HIDE DEF d
  <2>4. Moves(Daemon, d)
    BY <1>0, <2>2, <2>3, MoveIsSet
  <2>5. /\ gh' \in Notes /\ gh'.tries = gh.tries + 1 /\ gh'.lost = gh.lost /\ gh'.wish = gh.wish
        /\ gh'.late = gh.late /\ gh'.purged = gh.purged /\ gh'.crossed = gh.crossed
    BY <1>0, <1>3 DEF Notes
  <2>6. WorldFits'
    BY <1>0, <1>1, <2>5 DEF WorldFits
  <2>7. act'[Daemon] = d /\ \A u \in User : act'[u] = act[u]
    BY <2>4, ActorFits DEF Moves, Actor
  <2>8. TriesFit'
    BY <1>0, <1>1, <1>3, <2>1, <2>3, <2>5, <2>7, LifeAssumption DEF TriesFit, Notes, c
  <2>9. FuseFits'
    BY <2>5, <2>7, <1>0, LifeAssumption, <1>1, <2>1, <2>3 DEF FuseFits, Deed, HeldCopy, Actor,
           Notes, c, Mans
  <2>10. DeedFits(d) /\ OldFit(d, row) /\ d.kind \in {"none", "start", "rollback"}
    BY <1>0, <2>3 DEF OldFits, DeedsFit, DeedFits, OldFit
  <2>11. d.pc \notin Inside /\ d.pc \in DaemonPc /\ Daemon \notin User
    BY <2>3, ActorFits DEF Inside, DaemonPc
  <2>12. Settled => box' # "running"
    BY <1>0, <1>1 DEF WishStands, NothingStarts
  <2> QED BY <1>0, <1>1, <2>3, <2>4, <2>5, <2>6, <2>8, <2>9, <2>10, <2>11, <2>12, MoveKeeps
<1> QED BY <1>2, <1>3 DEF Record

(* A try is written down, or lost. *)
LEMMA TryEnds ==
    ASSUME LifeInv, act[Daemon].pc = "persist", act' = [act EXCEPT ![Daemon] = Idle],
           lock' = lock, UNCHANGED <<row, box>>, WorldFits',
           man'.there = man.there,
           gh'.tries = gh.tries, gh'.wish = gh.wish, gh'.late = gh.late,
           gh'.purged = gh.purged, gh'.crossed = gh.crossed,
           \/ gh'.lost = gh.lost + 1 /\ man'.count = man.count
           \/ /\ gh'.lost = gh.lost
              /\ man'.count = IF act[Daemon].load + 1 < MANUAL_THRESHOLD
                              THEN act[Daemon].load + 1 ELSE MANUAL_THRESHOLD
           \/ gh'.lost = gh.lost /\ man'.count = man.count /\ ~man.there
    PROVE  LifeInv'
<1>0. /\ LifeTypes /\ WorldFits /\ TriesFit /\ FuseFits /\ WishStands /\ act \in [Actor -> Deed]
      /\ act[Daemon] \in Deed /\ man \in Mans /\ gh \in Notes /\ man' \in Mans /\ gh' \in Notes
  BY ActorFits DEF LifeInv, LifeTypes, WorldFits
<1>1. Moves(Daemon, Idle) /\ Daemon \in Actor /\ Daemon \notin User
  BY <1>0, RestMoves, ActorFits
<1>2. act'[Daemon] = Idle /\ \A u \in User : act'[u] = act[u]
  BY <1>1, ActorFits DEF Moves, Actor
<1>3. act[Daemon].load \in Nat /\ act'[Daemon].pc = "idle"
  BY <1>0, <1>2, IdleFits, LifeAssumption DEF Deed
<1>4. TriesFit'
  BY <1>0, <1>3, LifeAssumption DEF TriesFit, Notes, Mans
<1>5. FuseFits'
  BY <1>0, <1>2, <1>3, LifeAssumption DEF FuseFits, Notes, Mans
<1>6. /\ DeedFits(Idle) /\ OldFit(Idle, row) /\ Idle.pc \in DaemonPc /\ Idle.pc \notin Inside
      /\ act[Daemon].pc \notin Inside
  BY IdleFits DEF DeedFits, OldFit, DaemonPc, Inside
<1>7. Settled => box' # "running"
  BY <1>0 DEF WishStands, NothingStarts
<1> QED BY <1>0, <1>1, <1>4, <1>5, <1>6, <1>7, IdleFits, MoveKeeps

(* persist_circuit: written under the lock, found without a manifest, or    *)
(* dropped.                                                                 *)
LEMMA PersistKeeps == ASSUME LifeInv, Persist PROVE LifeInv'
<1>0. /\ LifeTypes /\ WorldFits /\ act \in [Actor -> Deed] /\ act[Daemon] \in Deed /\ man \in Mans
      /\ gh \in Notes
  BY ActorFits DEF LifeInv, LifeTypes, WorldFits
<1>1. /\ act[Daemon].pc = "persist" /\ act' = [act EXCEPT ![Daemon] = Idle]
      /\ UNCHANGED <<row, box, code, history, owner, lock, mem, left>>
  BY DEF Persist, At, Rest
<1>2. CASE lock = NoOne /\ man.there /\ man' = Recorded(man, act[Daemon].load) /\ UNCHANGED gh
  <2>1. act[Daemon].load \in 0 .. MANUAL_THRESHOLD
    BY <1>0 DEF Deed
  <2>2. /\ man' \in Mans /\ man'.there = man.there
        /\ man'.count = IF act[Daemon].load + 1 < MANUAL_THRESHOLD
                        THEN act[Daemon].load + 1 ELSE MANUAL_THRESHOLD
    BY <1>0, <1>2, <2>1, RecordedFits
  <2>3. WorldFits'
    BY <1>0, <1>1, <1>2, <2>2 DEF WorldFits
  <2> QED BY <1>1, <1>2, <2>2, <2>3, TryEnds
<1>3. CASE ~man.there /\ UNCHANGED <<man, gh>>
  BY <1>0, <1>1, <1>3, TryEnds DEF WorldFits
<1>4. CASE gh' = [gh EXCEPT !.lost = @ + 1] /\ UNCHANGED man
  BY <1>0, <1>4, <1>1, TryEnds DEF Notes, WorldFits
<1> QED BY <1>2, <1>3, <1>4 DEF Persist

(* _reconcile_circuit_clear. *)
LEMMA ClearKeeps == ASSUME LifeInv, Clear PROVE LifeInv'
BY RestMoves, ActorFits, IdleFits, DaemonKeeps, ClearedFits, NoteClearedFits, MoveKeeps
   DEF LifeInv, LifeTypes, WorldFits, Clear, At, Inside, Rest, WishStands, NothingStarts,
       DeedFits, OldFit, DaemonPc

(* A process dies; a try it had not written is lost. *)
LEMMA CrashKeeps == ASSUME LifeInv, NEW a \in Actor, Crash(a) PROVE LifeInv'
<1>0. /\ LifeTypes /\ WorldFits /\ WishStands /\ TriesFit /\ FuseFits /\ act \in [Actor -> Deed]
      /\ act[a] \in Deed /\ man \in Mans /\ gh \in Notes
  BY DEF LifeInv, LifeTypes, WorldFits
<1>1. /\ act' = [act EXCEPT ![a] = Idle] /\ lock' = IF lock = a THEN NoOne ELSE lock
      /\ UNCHANGED <<row, man, code, history>>
      /\ box' \in {box, "none"} /\ owner' \in {owner, "dead"} /\ mem' \in {mem, "none"}
      /\ left > 0 /\ left' = left - 1
      /\ gh' = IF a = Daemon /\ act[a].pc = "persist" THEN [gh EXCEPT !.lost = @ + 1] ELSE gh
  BY DEF Crash, At, Event
<1>2. Moves(a, Idle) /\ act'[a] = Idle /\ \A b \in Actor \ {a} : act'[b] = act[b]
  BY <1>0, <1>1, IdleFits, MoveIsSet DEF Moves
<1>3. /\ gh' \in Notes /\ gh'.tries = gh.tries /\ gh'.wish = gh.wish /\ gh'.late = gh.late
      /\ gh'.purged = gh.purged /\ gh'.crossed = gh.crossed
      /\ gh'.lost = IF a = Daemon /\ act[a].pc = "persist" THEN gh.lost + 1 ELSE gh.lost
  BY <1>0, <1>1 DEF Notes
<1>4. WorldFits'
  BY <1>0, <1>1, <1>3 DEF WorldFits
<1>5. /\ DeedFits(Idle) /\ OldFit(Idle, row) /\ Idle.pc \in DaemonPc /\ Idle.pc \in UserPc
      /\ Idle.pc \notin Inside /\ ~Holding(Idle)
  BY IdleFits DEF DeedFits, OldFit, DaemonPc, UserPc, Inside, Holding
<1>6. Settled => box' # "running"
  BY <1>0, <1>1 DEF WishStands, NothingStarts
<1>7. CASE a = Daemon /\ act[a].pc = "persist"
  BY <1>2, <1>7, IdleFits, ActorFits, <1>0, LifeAssumption, <1>1, <1>3, <1>4, <1>5, <1>6,
     MoveKeeps DEF Actor, Deed, TriesFit, Notes, Mans, FuseFits
<1>8. CASE ~(a = Daemon /\ act[a].pc = "persist")
  BY <1>1, <1>2, <1>3, <1>4, <1>5, <1>6, <1>8, ActorFits, IdleFits, MoveKeeps
<1> QED BY <1>7, <1>8

(* Time passes, a container dies, or nothing happens at all. *)
LEMMA QuietKeeps ==
    ASSUME LifeInv, act' = act, lock' = lock, row' = row, gh' = gh,
           man'.there = man.there, man'.count = man.count, WorldFits',
           box' = box \/ box' # "running"
    PROVE  LifeInv'
BY DEF LifeInv, LifeTypes, DeedsFit, LockFits, OldFits, WishStands, Settled, NothingStarts,
       PurgeStands, TriesFit, FuseFits

(* A backoff that ends, a retry that is due, a builds row an hour old, a    *)
(* container that dies.                                                     *)
LEMMA TimeKeeps ==
    ASSUME LifeInv, BackoffOver \/ RetryDue \/ BuildStale \/ ContainerDies \/ UNCHANGED vars
    PROVE  LifeInv'
<1>0. WorldFits /\ man \in Mans /\ history \in Histories
  BY DEF LifeInv, LifeTypes, WorldFits
<1>1. CASE BackoffOver
  BY <1>0, <1>1, QuietKeeps DEF BackoffOver, world, WorldFits
<1>2. CASE RetryDue
  BY <1>0, <1>2, QuietKeeps DEF RetryDue, Mans, WorldFits
<1>3. CASE BuildStale
  BY <1>0, <1>3, QuietKeeps DEF BuildStale, Histories, WorldFits
<1>4. CASE ContainerDies
  BY <1>0, <1>4, QuietKeeps DEF ContainerDies, Event, WorldFits
<1>5. CASE UNCHANGED vars
  BY <1>0, <1>5, QuietKeeps DEF vars, world, WorldFits
<1> QED BY <1>1, <1>2, <1>3, <1>4, <1>5

----------------------------------------------------------------------------
(* The specification                                                        *)

(* The invariant holds in the beginning ... *)
LEMMA LifeInvBegins == Init => LifeInv
<1> SUFFICES ASSUME Init PROVE LifeInv
    OBVIOUS
<1>1. /\ row \in Rows /\ row.there /\ man \in Mans /\ man.there /\ man.count = 0
      /\ box \in {"none", "stopped", "running"} /\ code \in [stale : BOOLEAN, broken : BOOLEAN]
      /\ history \in Histories /\ gh \in Notes /\ gh.wish \in {"none", "run"} /\ gh.tries = 0
      /\ gh.lost = 0 /\ ~gh.purged
  <2>1. PICK up \in BOOLEAN :
          LET state == IF up THEN "running" ELSE "stopped" IN
          /\ row = [there |-> TRUE, status |-> state, desired |-> state, rev |-> 1]
          /\ man = [there |-> TRUE, id |-> up, count |-> 0, wait |-> FALSE]
          /\ box \in IF up THEN {"running", "stopped", "none"} ELSE {"none"}
          /\ code \in [stale : IF up THEN BOOLEAN ELSE {FALSE}, broken : BOOLEAN]
          /\ history = [failed |-> FALSE, archive |-> up, active |-> FALSE]
          /\ gh = [wish |-> IF up THEN "run" ELSE "none", late |-> FALSE, tries |-> 0,
                   lost |-> 0, crossed |-> FALSE, purged |-> FALSE]
    BY DEF Init
  <2>2. row \in Rows /\ row.there /\ box \in {"none", "stopped", "running"}
    BY <2>1 DEF Rows, Status, Desired
  <2>3. man \in Mans /\ man.there /\ man.count = 0
    BY <2>1, LifeAssumption DEF Mans
  <2>4. code \in [stale : BOOLEAN, broken : BOOLEAN] /\ history \in Histories
    BY <2>1 DEF Histories
  <2>5. gh \in Notes /\ gh.wish \in {"none", "run"} /\ gh.tries = 0 /\ gh.lost = 0 /\ ~gh.purged
    BY <2>1 DEF Notes
  <2> QED BY <2>2, <2>3, <2>4, <2>5
<1>2. /\ owner = "none" /\ lock = NoOne /\ mem = "none" /\ act = [a \in Actor |-> Idle] /\ left = MaxEvent
  BY DEF Init
<1>3. \A a \in Actor : act[a] = Idle
  BY <1>2
<1>4. act \in [Actor -> Deed] /\ act[Daemon] = Idle /\ \A u \in User : act[u] = Idle
  BY <1>2, <1>3, IdleFits, ActorFits DEF Actor
<1>5. LifeTypes
  BY <1>1, <1>2, <1>4, LifeAssumption DEF LifeTypes, WorldFits
<1>6. DeedsFit
  BY <1>3, <1>4, IdleFits DEF DeedsFit, DeedFits, UserPc, DaemonPc
<1>7. LockFits /\ WishStands /\ PurgeStands
  BY <1>1, <1>2, <1>3, IdleFits, ActorFits DEF LockFits, WishStands, Settled, PurgeStands, Inside
<1>8. TriesFit /\ FuseFits
  BY <1>1, <1>4, IdleFits, LifeAssumption DEF TriesFit, FuseFits, Holding
<1>9. OldFits
  BY <1>3, IdleFits DEF OldFits, OldFit
<1> QED BY <1>5, <1>6, <1>7, <1>8, <1>9 DEF LifeInv

(* ... and after every step. *)
LEMMA LifeInvKept == ASSUME LifeInv, [Next]_vars PROVE LifeInv'
<1>1. ASSUME NEW u \in User, NEW kind \in Kind, Call(u, kind) PROVE LifeInv'
  BY <1>1, CallKeeps
<1>2. ASSUME NEW a \in Actor, Step(a) PROVE LifeInv'
  BY <1>2, RefuseKeeps, EnterKeeps, LightStartKeeps, RestartStopKeeps, FullBeginKeeps,
     FullOkKeeps, FullFailsKeeps, StopBoxKeeps, StopRecordKeeps, RollbackKeeps,
     UpdateLoadKeeps, UpdateRereadKeeps, UpdateSwapKeeps, UpdateCasKeeps,
     RemoveDownKeeps, RemoveRowKeeps, RemoveTreeKeeps DEF Step
<1>3. ASSUME NEW a \in Actor, Crash(a) PROVE LifeInv'
  BY <1>3, CrashKeeps
<1>4. CASE Reconcile
  BY <1>4, LookKeeps, ObserveKeeps, RecheckKeeps, DoneKeeps, RecordKeeps, PersistKeeps, ClearKeeps
     DEF Reconcile
<1>5. CASE BackoffOver \/ RetryDue \/ BuildStale \/ ContainerDies \/ UNCHANGED vars
  BY <1>5, TimeKeeps
<1> QED BY <1>1, <1>2, <1>3, <1>4, <1>5 DEF Next

(* For any number of users, any threshold and any number of events: the     *)
(* types, the lock, and that what the users settled stands, that a purge is *)
(* final, that every try is counted or known to be lost, and that revisions *)
(* only rise.                                                               *)
THEOREM LifeInvariant == Spec => []LifeInv
<1>1. Init => LifeInv
  BY LifeInvBegins
<1>2. LifeInv /\ [Next]_vars => LifeInv'
  BY LifeInvKept
<1> QED BY <1>1, <1>2, PTL DEF Spec

(* The invariant is strong enough for the state properties of the promise. *)
LEMMA LifeInvSafe ==
    LifeInv => TypeOK /\ StopStays /\ NoGhostFile /\ TriesBounded /\ FuseEarned
<1> SUFFICES ASSUME LifeInv PROVE TypeOK /\ StopStays /\ NoGhostFile /\ TriesBounded /\ FuseEarned
    OBVIOUS
<1>1. TypeOK
  BY DEF LifeInv, LifeTypes, WorldFits, Rows, Mans, Histories, Status, Desired, Deed, LifePc, TypeOK
<1>2. StopStays /\ NoGhostFile /\ TriesBounded
  BY DEF LifeInv, WishStands, Settled, NothingStarts, PurgeStands, TriesFit,
         StopStays, NoGhostFile, TriesBounded
<1>3. FuseEarned
  BY LifeAssumption DEF LifeInv, LifeTypes, WorldFits, Mans, Notes, FuseFits, Fused, FuseEarned
<1> QED BY <1>1, <1>2, <1>3

(* Everybody but one stays where he is. *)
Still(a) == \A b \in Actor \ {a} : act'[b].pc = act[b].pc

(* A step moves one actor only. *)
LEMMA AnswerStill ==
    ASSUME act \in [Actor -> Deed], NEW a \in Actor, NEW out, Answer(a, out) PROVE Still(a)
BY DEF Answer, Still

LEMMA GotoStill ==
    ASSUME act \in [Actor -> Deed], NEW a \in Actor, NEW p, Goto(a, p) PROVE Still(a)
BY DEF Goto, Still

LEMMA CasStill ==
    ASSUME act \in [Actor -> Deed], NEW a \in Actor, NEW base, NEW r, CasAnswer(a, base, r)
    PROVE  Still(a)
<1>1. CASE act' = [Overtaken(a) EXCEPT ![a] = Ended(a, "ok")]
  BY <1>1, DeedOlder DEF Still, Overtaken
<1>2. CASE Answer(a, "error")
  BY <1>2, AnswerStill
<1> QED BY <1>1, <1>2 DEF CasAnswer

(* ... each step of an operation, a crash ... *)
LEMMA StepStill ==
    ASSUME act \in [Actor -> Deed], NEW a \in Actor, Step(a) \/ Crash(a) PROVE Still(a)
<1>1. ASSUME NEW d, act' = [act EXCEPT ![a] = d] PROVE Still(a)
  BY <1>1 DEF Still
<1>2. CASE Refuse(a) \/ LockTimeout(a) \/ LightStart(a) \/ FullFails(a) \/ StopRecord(a) \/ RemoveTree(a)
  BY <1>2, AnswerStill DEF Refuse, LockTimeout, LightStart, FullFails, StopRecord, RemoveTree
<1>3. CASE RestartStop(a) \/ StopBox(a) \/ RemoveDown(a)
  BY <1>3, AnswerStill, GotoStill DEF RestartStop, StopBox, RemoveDown
<1>4. CASE FullOk(a) \/ UpdateCas(a) \/ Rollback(a)
  BY <1>4, AnswerStill, CasStill DEF FullOk, UpdateCas, Rollback
<1>5. CASE Enter(a)
  BY <1>5, <1>1 DEF Enter
<1>6. CASE FullBegin(a)
  BY <1>6, <1>1, AnswerStill DEF FullBegin
<1>7. CASE UpdateLoad(a) \/ UpdateReread(a)
  BY <1>7, <1>1, AnswerStill DEF UpdateLoad, UpdateReread
<1>8. CASE UpdateSwap(a)
  BY <1>8, <1>1, AnswerStill DEF UpdateSwap
<1>9. CASE RemoveRow(a)
  BY <1>9, DeedOlder DEF Still, RemoveRow
<1>10. CASE Crash(a)
  BY <1>10, <1>1 DEF Crash
<1> QED BY <1>2, <1>3, <1>4, <1>5, <1>6, <1>7, <1>8, <1>9, <1>10 DEF Step

(* ... and each of reconcile. *)
LEMMA ReconcileStill == ASSUME act \in [Actor -> Deed], Reconcile PROVE Still(Daemon)
BY GotoStill, ActorFits DEF Still, Look, Observe, Clear, Persist, Rest, Recheck, Done, Record,
       Reconcile

(* What the promise asks of the step for one user. *)
Noticed(u) ==
    /\ act[u].exp # NoRev /\ At(u, "want") => act'[u].pc \in {"want", "idle"}
    /\ Raising(u) /\ act'[u].pc = "idle" => row'.rev = row.rev

(* Who was overtaken raises nothing: the revision he goes by is not the     *)
(* row's.                                                                   *)
LEMMA CasIsLate ==
    ASSUME row \in Rows, NEW u, NEW r, r.rev = row.rev, CasAnswer(u, act[u].seen, r),
           act[u].seen = NoRev \/ act[u].seen < row.rev, act[u].seen \in Nat \cup {NoRev}
    PROVE  row'.rev = row.rev
BY LifeAssumption DEF Rows, CasAnswer

(* An operation that was overtaken neither begins on the revision it        *)
(* expects nor raises the one it read, whatever it does next.               *)
LEMMA OwnStepNoticed ==
    ASSUME LifeInv, NEW u \in User, act[u].old = "yes", Step(u)
    PROVE  Noticed(u)
<1>0. /\ row \in Rows /\ act \in [Actor -> Deed] /\ u \in Actor /\ u # Daemon /\ act[u] \in Deed
      /\ DeedFits(act[u]) /\ OldFit(act[u], row) /\ act[u].pc \in UserPc
  BY ActorFits DEF LifeInv, LifeTypes, WorldFits, DeedsFit, OldFits, Actor
<1>1. row.there /\ act[u].kind \notin Removals
  BY <1>0 DEF OldFit
<1>2. ASSUME act[u].exp # NoRev, act[u].pc = "want", RevisionStands(u) PROVE FALSE
  BY <1>0, <1>1, <1>2 DEF OldFit, Behind, RevisionStands, Rev, Rows, Deed
<1>3. ASSUME act[u].kind \in {"rebuild", "update"}, act[u].pc \in {"build", "cas"}
      PROVE  act[u].seen = NoRev \/ act[u].seen < row.rev
  BY <1>0, <1>3 DEF OldFit, Behind, Rises
<1>4. \A s \in Status, d \in Desired : Registered(s, d).rev = row.rev
  BY <1>0, <1>1, RegisteredFits
<1>5. CASE Refuse(u) \/ LockTimeout(u)
  BY <1>5, <1>0, IdleFits DEF Refuse, LockTimeout, Answer, Ended, world, Noticed
<1>6. CASE Enter(u)
  BY <1>6, <1>0, <1>2 DEF Enter, MayBegin, Deed, Noticed, At
<1>7. CASE UpdateLoad(u)
  BY <1>7, <1>2 DEF UpdateLoad, MayBegin, world, Noticed, At
<1>8. CASE UpdateReread(u)
  BY <1>8 DEF UpdateReread, At, world, Noticed
<1>9. CASE UpdateSwap(u)
  BY <1>0, <1>9, <1>4 DEF UpdateSwap, At, Deed, HeldCopy, Noticed
<1>10. CASE UpdateCas(u)
  BY <1>0, <1>1, <1>10, <1>3, CasIsLate DEF UpdateCas, At, DeedFits, Deed, Noticed
<1>11. CASE FullOk(u)
  BY <1>11, <1>4, <1>0, <1>3, CasIsLate DEF FullOk, BuildEnds, At, Doing, Status, Desired, Deed,
         Noticed, Raising, DeedFits
<1>12. CASE FullFails(u)
  BY <1>12, <1>0, <1>4 DEF FullFails, BuildEnds, At, Rows, Status, Desired, Noticed
<1>13. CASE FullBegin(u)
  BY <1>13, <1>0, MarkedFits DEF FullBegin, At, world, Status, Noticed
<1>14. CASE LightStart(u) \/ RestartStop(u) \/ StopBox(u) \/ StopRecord(u) \/ Rollback(u)
  BY <1>0, <1>14 DEF LightStart, RestartStop, StopBox, StopRecord, Rollback, At, Doing, DeedFits,
         Noticed, Raising
<1>15. CASE RemoveDown(u) \/ RemoveRow(u) \/ RemoveTree(u)
  BY <1>0, <1>15, <1>1 DEF RemoveDown, RemoveRow, RemoveTree, At, Doing, DeedFits, Removals
<1> QED BY <1>5, <1>6, <1>7, <1>8, <1>9, <1>10, <1>11, <1>12, <1>13, <1>14, <1>15 DEF Step

(* ... and nobody else does it for him. *)
LEMMA OvertakingNoticed ==
    ASSUME LifeInv, Next, NEW u \in User, act[u].old = "yes" PROVE Noticed(u)
<1>0. /\ act \in [Actor -> Deed] /\ u \in Actor /\ u # Daemon /\ DeedFits(act[u])
      /\ Daemon \in Actor
  BY ActorFits DEF LifeInv, LifeTypes, DeedsFit, Actor
<1>1. ASSUME act'[u].pc = act[u].pc PROVE Noticed(u)
  BY <1>0, <1>1 DEF Noticed, At, Raising, DeedFits
<1>2. ASSUME NEW a \in Actor, a # u, Still(a) PROVE Noticed(u)
  BY <1>0, <1>1, <1>2 DEF Still
<1>3. ASSUME NEW v \in User, NEW kind \in Kind, Call(v, kind) PROVE Noticed(u)
  BY <1>0, <1>3, <1>1 DEF Call, Noticed, At, Raising, DeedFits
<1>4. ASSUME NEW a \in Actor, Step(a) \/ Crash(a) PROVE Noticed(u)
  BY <1>0, <1>2, <1>4, StepStill, OwnStepNoticed, IdleFits DEF Crash, Noticed
<1>5. CASE Reconcile
  BY <1>0, <1>2, <1>5, ReconcileStill
<1>6. CASE BackoffOver \/ RetryDue \/ BuildStale \/ ContainerDies
  BY <1>1, <1>6 DEF BackoffOver, RetryDue, BuildStale, ContainerDies
<1> QED BY <1>3, <1>4, <1>5, <1>6 DEF Next

(* The life of an instance is safe: the daemon does not start what the      *)
(* users stopped or removed (reconcile, stop_instance, remove_instance),    *)
(* nothing writes a purged instance back (persist_circuit), the circuit     *)
(* breaker neither gives up early nor tries for ever                        *)
(* (reconcile_circuit.py), and no operation goes on as if it had not been   *)
(* overtaken (_ensure_revision_locked, cas_increment_revision).             *)
THEOREM LifeStaysSafe == Spec => LifeIsSafe
<1> DEFINE Overtaking ==
      \A u \in User : act[u].old = "yes" =>
          /\ act[u].exp # NoRev /\ At(u, "want") => act'[u].pc \in {"want", "idle"}
          /\ Raising(u) /\ act'[u].pc = "idle" => row'.rev = row.rev
<1>1. LifeInv => TypeOK /\ StopStays /\ NoGhostFile /\ TriesBounded /\ FuseEarned
  BY LifeInvSafe
<1>2. LifeInv /\ [Next]_vars => [Overtaking]_vars
  BY OvertakingNoticed DEF Noticed
<1>3. Spec => [][Overtaking]_vars
  BY <1>2, LifeInvariant, PTL DEF Spec
<1>4. NotOvertaken <=> [][Overtaking]_vars
  BY DEF NotOvertaken
<1> QED BY <1>1, <1>3, <1>4, LifeInvariant, PTL DEF LifeIsSafe
=============================================================================
