--------------------------- MODULE ContainerProofs ---------------------------
(* Proofs about the operations on one container instance, for any versions,  *)
(* any strategies and any number of failing steps, edits, losses and crashes *)
EXTENDS ContainerStart, TLAPS

Kinds == {"none", "rebuild", "start", "restart", "stop"}
Outs  == {"none", "stopped", "failed", "started", "refused", "recreated", "error", "deployed",
          "kept", "cancelled", "restored"}
OldRow == [box : Container \cup {NoBox}, gen : Render, man : Manifest, row : Status,
           good : Record, latest : Image]
OpRow == [pc : HostPc \cup CompPc \cup StartPc \cup {"idle", "ended"}, kind : Kinds, out : Outs,
          queued : BOOLEAN, txn : BOOLEAN, oldStopped : BOOLEAN, stopAborted : BOOLEAN,
          upDone : BOOLEAN, swapCut : BOOLEAN, recreate : BOOLEAN, fellBack : BOOLEAN,
          light : BOOLEAN, first : BOOLEAN, calm : BOOLEAN, quiet : BOOLEAN, old : OldRow]

Types == TypeOK /\ op \in OpRow /\ spent \in [op : Nat, edit : Nat, upset : Nat]

Old == op.old

(* What has an identity was built and rendered. *)
Rooted(m) == m.id => m.img # NoImg /\ gen # NoGen /\ latest # NoImg

Roots ==
    /\ Rooted(man) /\ Rooted(mem) /\ Rooted(Old.man)
    /\ op.first => ~Old.man.id
    /\ Old.man.id => Old.gen # NoGen
    /\ op.txn \/ op.recreate \/ op.light \/ op.pc \in StartPc \ {"stop"} => Old.man.id
    /\ op.pc \in {"build", "swapStop", "clearNew", "up", "observe", "commit", "verify", "finalize"} => gen # NoGen
    /\ op.pc \in {"swapStop", "clearNew", "up", "observe", "commit", "verify", "finalize"} => latest # NoImg

Flags ==
    /\ op.recreate => ~op.txn /\ ~op.fellBack /\ ~op.light
    /\ op.light /\ op.txn => op.fellBack
    /\ op.pc = "stop" => ~op.txn /\ ~op.recreate /\ ~op.light
    /\ op.pc = "idle" => op = NoOp /\ mem = man

(* Nothing has happened to the records.                                     *)
Untouched == man = Old.man /\ mem = Old.man /\ row = Old.row /\ latest = Old.latest
(* Nothing has happened to the container.                                   *)
SameBox == (op.calm => box = Old.box) /\ (op.quiet /\ "running" \in {Old.row, Old.man.status} => Running)
(* The files of the old version can be put back.                            *)
Kept(g) == g = Old.gen \/ op.fellBack

Early == {"preflight", "decide", "converge", "rReady", "lStop", "light"}
EarlyOk == op.pc \in Early =>
    /\ ~op.txn /\ ~op.recreate /\ ~op.oldStopped /\ ~op.stopAborted /\ ~op.swapCut
    /\ Untouched
    /\ op.pc # "light" => SameBox
    /\ ~op.fellBack => goodEnv = Old.good
    /\ op.pc \in {"preflight", "decide"} => Kept(gen)
    /\ op.pc \in {"decide", "converge", "rReady"} => ~op.fellBack
    /\ op.pc \in {"converge", "rReady"} => snap = Old.gen
    /\ op.pc = "converge" => gen = Old.gen
    /\ op.pc \in {"lStop", "light"} <=> (op.light /\ ~op.fellBack)
    /\ op.pc = "light" => /\ op.calm => box \in {Old.box, [Old.box EXCEPT !.st = "stopped"]}
                          /\ op.quiet /\ "running" \in {Old.row, Old.man.status} => box.st # "none"

(* A transactional rebuild before the old container goes down.              *)
TxnPc == {"snapshot", "tag", "render", "build", "swapStop"}
TxnOk == op.pc \in TxnPc /\ op.txn =>
    /\ ~op.oldStopped /\ ~op.stopAborted /\ ~op.swapCut
    /\ man = Old.man /\ mem = Old.man /\ row = Old.row /\ SameBox
    /\ goodEnv # NoEnv /\ (~op.fellBack /\ Old.good # NoEnv => goodEnv = Old.good)
    /\ op.pc \in {"snapshot", "tag"} => Kept(gen)
    /\ op.pc # "snapshot" => Kept(snap)
    /\ op.pc \in {"render", "build", "swapStop"} => prev = Old.man.img

(* The way back, and that it leads to a version that works.                 *)
ServedSoFar == Served /\ op.calm /\ ~op.swapCut
Way == /\ Kept(snap) /\ goodEnv # NoEnv /\ (op.txn => prev = Old.man.img)
       /\ op.recreate => latest = Old.latest
       /\ ServedSoFar => goodEnv \notin Bad
SwapPc == {"clearNew", "up", "observe", "commit", "verify", "finalize"}
NewOk ==
    /\ op.pc \in {"observe", "commit", "verify", "finalize"} /\ op.calm => box.st = "running" /\ box.env = env
    /\ op.pc = "finalize" /\ op.quiet => Running
    /\ op.pc = "finalize" /\ op.calm => Works(box)
SwapOk ==
    /\ op.pc \in SwapPc /\ op.txn => op.oldStopped /\ ~op.stopAborted /\ ~op.swapCut /\ Way
    /\ op.pc \in SwapPc => NewOk

(* The old order.                                                           *)
PlainPc == {"stopOld", "clearOld", "render", "build", "up", "observe", "commit", "verify", "finalize"}
PlainOk == op.pc \in PlainPc /\ ~op.txn =>
    /\ ~op.recreate /\ ~op.stopAborted /\ (op.light => op.fellBack)
    /\ row \in {"building", "verifying"}
    /\ op.pc = "stopOld" => man = Old.man /\ mem = Old.man /\ Kept(gen) /\ SameBox
TxnOnly == op.pc \in {"snapshot", "tag", "swapStop", "clearNew"} => op.txn
PlainOnly == op.pc \in {"stopOld", "clearOld"} => ~op.txn

HostOk == TxnOk /\ SwapOk /\ PlainOk /\ TxnOnly /\ PlainOnly

FailedOk == op.pc = "failed" =>
    /\ op.txn \/ (~op.recreate /\ (op.light => op.fellBack))
    /\ op.txn => ~op.swapCut
    /\ op.stopAborted \/ (op.txn /\ ~op.oldStopped) =>
          man = Old.man /\ mem = Old.man /\ SameBox /\ Kept(IF op.txn THEN Restored ELSE gen)
    /\ op.txn /\ op.oldStopped => ~op.stopAborted /\ Way
CancelledOk == op.pc = "cancelled" =>
    /\ op.txn \/ (~op.recreate /\ (op.light => op.fellBack))
    /\ op.txn /\ ~op.oldStopped => man = Old.man /\ mem = Old.man /\ row = Old.row /\ Kept(Restored)
    /\ op.txn /\ ~op.swapCut => ~op.oldStopped /\ SameBox

RecreatePc == {"rStop", "rClear", "rUp", "rVerify"}
RecreateOk == op.pc \in RecreatePc => op.recreate /\ ~op.swapCut /\ Way

LightPc == {"lClear", "lUp", "lObserve", "lCommit", "lVerify"}
LightOk ==
    /\ op.pc \in {"lClear", "lUp", "lObserve"} => ~ServedSoFar
    /\ op.pc \in {"lCommit", "lVerify"} /\ ServedSoFar => Works(box)
    /\ op.pc \in LightPc => op.light /\ ~op.txn /\ ~op.recreate

CompOk == op.pc \in CompPc =>
    /\ op.txn \/ op.recreate
    /\ ~op.swapCut /\ Way
    /\ op.pc \in {"cTag", "cUp", "cCheck"} => gen = snap /\ snap # NoGen /\ (op.calm => env = goodEnv)
    /\ op.pc = "cTag" => op.txn
    /\ op.pc \in {"cUp", "cCheck"} /\ Served => latest = Old.box.img
    /\ op.pc = "cCheck" => /\ box.st # "none" => box.img = latest /\ box.gen = gen
                           /\ op.calm => box.st = "running" /\ box.env = env
    /\ op.pc = "cFailed" => ~ServedSoFar

EndedOk == ServiceSurvives /\ KeptWhole /\ RestoredWhole /\ NoSplit

ContainerInv ==
    /\ Types /\ Roots /\ Flags /\ EarlyOk /\ HostOk
    /\ FailedOk /\ CancelledOk /\ RecreateOk /\ LightOk /\ CompOk /\ EndedOk

----------------------------------------------------------------------------
(* What the moves of an operation leave as it is.                           *)
SameCase == /\ op'.old = op.old /\ op'.kind = op.kind /\ op'.queued = op.queued /\ op'.first = op.first
            /\ op'.recreate = op.recreate
SamePath == op'.txn = op.txn /\ op'.light = op.light /\ op'.fellBack = op.fellBack
SameStops == op'.oldStopped = op.oldStopped /\ op'.stopAborted = op.stopAborted
SameCut  == op'.swapCut = op.swapCut
SameLuck == op'.calm = op.calm /\ op'.quiet = op.quiet
Moved == op' \in OpRow /\ SameCase

Pcs == HostPc \cup CompPc \cup StartPc \cup {"idle", "ended"}

LEMMA Goes ==
    ASSUME op \in OpRow, NEW p \in Pcs, Goto(p)
    PROVE  Moved /\ op'.pc = p /\ SamePath /\ SameStops /\ SameCut /\ SameLuck /\ op'.out = op.out
  BY DEF OpRow, Goto, Moved, SameCase, SamePath, SameStops, SameCut, SameLuck, Pcs

LEMMA Ends ==
    ASSUME op \in OpRow, NEW out \in Outs, End(out)
    PROVE  /\ Moved /\ op'.pc = "ended" /\ op'.out = out
           /\ SamePath /\ SameStops /\ SameCut /\ SameLuck
  BY DEF OpRow, End, Moved, SameCase, SamePath, SameStops, SameCut, SameLuck, Outs

LEMMA Abandons ==
    ASSUME op \in OpRow, Abandon
    PROVE  /\ Moved /\ op'.pc = "ended" /\ op'.out = "error" /\ ~op'.calm /\ ~op'.quiet
           /\ SamePath /\ SameStops /\ SameCut
  BY DEF OpRow, Abandon, Moved, SameCase, SamePath, SameStops, SameCut, Outs

LEMMA Cuts ==
    ASSUME op \in OpRow, NEW p \in Pcs, Cut(p) \/ Worse(p)
    PROVE  /\ Moved /\ op'.pc = p /\ ~op'.calm /\ op'.quiet = op.quiet /\ op'.out = op.out
           /\ SamePath /\ SameStops /\ SameCut
  BY ZenonT(60) DEF OpRow, Cut, Worse, Moved, SameCase, SamePath, SameStops, SameCut, Pcs

Box == Container \cup {NoBox}

LEMMA Boxes ==
    ASSUME Types
    PROVE  /\ NoBox \in Box /\ HalfDown \subseteq Box /\ Halted \in Box
           /\ latest # NoImg /\ gen # NoGen => Upped \in Container /\ HalfUp \subseteq Box
           /\ box.st # "none" => [box EXCEPT !.st = "running"] \in Container
BY DEF Types, TypeOK, Box, Container, NoBox, HalfDown, Halted, Running, Image, Render, Upped,
       HalfUp

LEMMA Faulty == ASSUME Types, UNCHANGED faults \/ Fail PROVE faults' \in 0 .. MaxFault
  BY DeployAssumption DEF Types, TypeOK, Fail

(* An operation is in one phase at a time.                                  *)
LEMMA Elsewhere ==
    /\ op'.pc \notin Early => EarlyOk'
    /\ op'.pc \notin TxnPc \cup SwapPc \cup PlainPc => HostOk'
    /\ op'.pc # "failed" => FailedOk'
    /\ op'.pc # "cancelled" => CancelledOk'
    /\ op'.pc \notin RecreatePc => RecreateOk'
    /\ op'.pc \notin LightPc => LightOk'
    /\ op'.pc \notin CompPc => CompOk'
    /\ op'.pc # "ended" => EndedOk'
<1>1. op'.pc \notin TxnPc \cup SwapPc \cup PlainPc => HostOk'
  BY DEF HostOk, TxnOk, SwapOk, PlainOk, TxnOnly, PlainOnly, TxnPc, SwapPc, PlainPc, NewOk
<1>2. op'.pc # "ended" => EndedOk'
  BY DEF EndedOk, ServiceSurvives, KeptWhole, RestoredWhole, NoSplit, At
<1> QED BY <1>1, <1>2 DEF EarlyOk, FailedOk, CancelledOk, RecreateOk, LightOk, LightPc, CompOk

LEMMA Phases ==
    /\ op'.pc \in Early =>
          HostOk' /\ FailedOk' /\ CancelledOk' /\ RecreateOk' /\ LightOk' /\ CompOk' /\ EndedOk'
    /\ op'.pc \in TxnPc \cup SwapPc \cup PlainPc =>
          EarlyOk' /\ FailedOk' /\ CancelledOk' /\ RecreateOk' /\ LightOk' /\ CompOk' /\ EndedOk'
    /\ op'.pc = "failed" =>
          EarlyOk' /\ HostOk' /\ CancelledOk' /\ RecreateOk' /\ LightOk' /\ CompOk' /\ EndedOk'
    /\ op'.pc = "cancelled" =>
          EarlyOk' /\ HostOk' /\ FailedOk' /\ RecreateOk' /\ LightOk' /\ CompOk' /\ EndedOk'
    /\ op'.pc \in RecreatePc =>
          EarlyOk' /\ HostOk' /\ FailedOk' /\ CancelledOk' /\ LightOk' /\ CompOk' /\ EndedOk'
    /\ op'.pc \in LightPc =>
          EarlyOk' /\ HostOk' /\ FailedOk' /\ CancelledOk' /\ RecreateOk' /\ CompOk' /\ EndedOk'
    /\ op'.pc \in CompPc =>
          EarlyOk' /\ HostOk' /\ FailedOk' /\ CancelledOk' /\ RecreateOk' /\ LightOk' /\ EndedOk'
    /\ op'.pc = "ended" =>
          EarlyOk' /\ HostOk' /\ FailedOk' /\ CancelledOk' /\ RecreateOk' /\ LightOk' /\ CompOk'
    /\ op'.pc \in {"idle", "stop"} =>
          EarlyOk' /\ HostOk' /\ FailedOk' /\ CancelledOk' /\ RecreateOk' /\ LightOk' /\ CompOk' /\ EndedOk'
  BY Elsewhere DEF Early, TxnPc, SwapPc, PlainPc, RecreatePc, LightPc, CompPc

(* The manifests that the steps write.                                      *)
LEMMA Clears ==
    ASSUME NEW m \in Manifest, NEW n, n = [m EXCEPT !.id = FALSE, !.img = NoImg]
    PROVE  n \in Manifest /\ ~n.id
  BY DEF Manifest, Image

LEMMA Says ==
    ASSUME NEW m \in Manifest, NEW s \in Status, NEW n, n = [m EXCEPT !.status = s]
    PROVE  n \in Manifest /\ n.id = m.id /\ n.img = m.img /\ n.status = s
  BY DEF Manifest

(* The manifest, the files and the images are left as they are.             *)
LEMMA RootsStay ==
    ASSUME ContainerInv, Moved, man' = man, mem' = mem, gen' = gen, latest' = latest,
           op'.txn \/ op'.light => op.txn \/ op.light \/ op.recreate \/ Old.man.id,
           op'.pc \in StartPc \ {"stop"} => Old.man.id,
           op'.pc \in {"build", "swapStop", "clearNew", "up", "observe", "commit", "verify", "finalize"} => gen # NoGen,
           op'.pc \in {"swapStop", "clearNew", "up", "observe", "commit", "verify", "finalize"} => latest # NoImg
    PROVE  Roots'
  BY DEF ContainerInv, Roots, Rooted, Old, Moved, SameCase

LEMMA CompDownInv == ASSUME ContainerInv, CompDown, UNCHANGED spent PROVE ContainerInv'
<1>1. op.pc = "cDown" /\ UNCHANGED <<inputs, disk, images, man, row, mem, cancel, spent>> /\ (UNCHANGED faults \/ Fail)
  BY DEF CompDown, At, Worse
<1>2. /\ Moved /\ op'.pc = "cRestore" /\ op'.quiet = op.quiet /\ (op'.calm => op.calm)
      /\ SamePath /\ SameStops /\ SameCut
  BY Goes, Cuts DEF CompDown, ContainerInv, Types, Pcs, CompPc, SameLuck
<1>3. box' \in Box
  BY Boxes DEF CompDown, ContainerInv
<1>4. Types'
  BY <1>1, <1>2, <1>3, Faulty DEF ContainerInv, Types, TypeOK, Moved, CompPc, inputs, disk, images, Box
<1>5. Roots' /\ Flags'
  BY <1>1, <1>2, RootsStay DEF ContainerInv, Flags, Moved, SameCase, SamePath, disk, images, StartPc
<1>6. CompOk'
  BY <1>1, <1>2 DEF ContainerInv, CompOk, CompPc, Way, Kept, ServedSoFar, Served, Old, Moved, SameCase, SamePath, SameCut, disk, images
<1> QED BY <1>2, <1>4, <1>5, <1>6, Phases DEF ContainerInv, CompPc

LEMMA CompRestoreInv == ASSUME ContainerInv, CompRestore, UNCHANGED spent PROVE ContainerInv'
<1>1. /\ op.pc = "cRestore" /\ UNCHANGED <<src, cfg, snap, goodEnv, images, box, man, row, mem, cancel, spent>>
      /\ UNCHANGED faults \/ Fail
  BY DEF CompRestore, At, Worse, Abandon
<1>2. gen' \in {gen, snap} /\ (snap = NoGen => gen' = gen)
  BY DEF CompRestore, Restored
<1>3. env' \in Env
  BY DEF CompRestore, ContainerInv, Types, TypeOK, Record
<1>4. /\ Moved /\ SamePath /\ SameStops /\ SameCut
      /\ \/ /\ op'.pc \in {"cTag", "cUp", "cFailed"} /\ gen' = Restored /\ op'.quiet = op.quiet /\ (op'.calm => op.calm)
            /\ op'.pc = "cFailed" <=> snap = NoGen
            /\ op'.pc # "cFailed" => (op'.pc = "cUp" <=> op.recreate)
            /\ op'.calm => env' = IF snap = NoGen \/ goodEnv = NoEnv THEN env ELSE goodEnv
         \/ op'.pc = "ended" /\ op'.out = "error" /\ ~op'.calm /\ ~op'.quiet
  BY Goes, Cuts, Abandons DEF Pcs, CompPc, ContainerInv, Types, CompRestore, SameLuck
<1>5. Types'
  BY <1>1, <1>2, <1>3, <1>4, Faulty DEF ContainerInv, Types, TypeOK, Moved, CompPc, images
<1>6. Roots' /\ Flags'
  BY <1>1, <1>2, <1>4 DEF ContainerInv, Roots, Rooted, Flags, Old, Moved, SameCase, SamePath, images, StartPc
<1>7. CASE op'.pc # "ended"
  <2>1. CompOk'
    <3>1. /\ CompOk /\ op.pc \in CompPc /\ op'.pc \in {"cTag", "cUp", "cFailed"}
          /\ op.recreate \/ op.txn
      BY <1>1, <1>4, <1>7 DEF ContainerInv, CompOk, CompPc
    <3>2. ServedSoFar' => ServedSoFar
      BY <1>4, <1>7 DEF ServedSoFar, Served, Old, Moved, SameCase, SamePath, SameCut
    <3>3. Way'
      BY <1>1, <1>4, <3>1, <3>2 DEF CompOk, Way, Kept, Old, Moved, SameCase, SamePath, images
    <3>4. op'.pc = "cFailed" => ~ServedSoFar'
      BY <3>1, DeployAssumption, <1>4, <1>7, <3>2 DEF ServedSoFar, Served, CompOk, Way, Kept,
             Works, Old, ContainerInv, Types, OpRow, OldRow, Container, NoBox
    <3>5. op'.pc \in {"cTag", "cUp"} => gen' = snap' /\ snap' # NoGen /\ (op'.calm => env' = goodEnv')
      BY <1>1, <1>4, <3>1 DEF CompOk, Way, Restored
    <3>6. op'.pc = "cUp" /\ Served' => latest' = (Old.box.img)'
      BY <1>1, <1>4, <3>1 DEF CompOk, Way, Served, Old, Moved, SameCase, SamePath, images
    <3> QED BY <1>1, <1>4, <3>1, <3>3, <3>4, <3>5, <3>6 DEF CompOk, Moved, SameCase, SamePath, SameCut, Old
  <2> QED BY <1>4, <1>5, <1>6, <1>7, <2>1, Phases DEF ContainerInv, CompPc
<1>8. CASE op'.pc = "ended"
  BY <1>4, <1>8, <1>5, <1>6, Phases DEF EndedOk, ServiceSurvives, KeptWhole, RestoredWhole,
         NoSplit, ContainerInv
<1> QED BY <1>7, <1>8

LEMMA CompTagInv == ASSUME ContainerInv, CompTag, UNCHANGED spent PROVE ContainerInv'
<1>1. /\ op.pc = "cTag" /\ UNCHANGED <<inputs, disk, prev, box, man, row, mem, cancel, spent>>
      /\ UNCHANGED faults \/ Fail
  BY DEF CompTag, At, Worse
<1>2. /\ Moved /\ SamePath /\ SameStops /\ SameCut /\ op'.quiet = op.quiet /\ (op'.calm => op.calm)
      /\ \/ latest' = prev /\ op'.pc = "cUp"
         \/ latest' = latest /\ op'.pc = "cFailed" /\ ~op'.calm
  BY Goes, Cuts DEF CompTag, ContainerInv, Types, Pcs, CompPc, SameLuck
<1>3. CompOk /\ Way /\ op.txn /\ ~op.recreate /\ prev = Old.man.img /\ op'.pc \in CompPc
  BY <1>1, <1>2 DEF ContainerInv, CompOk, CompPc, Way, Flags
<1>4. Types'
  BY <1>1, <1>2, Faulty DEF ContainerInv, Types, TypeOK, Moved, CompPc, inputs, disk
<1>5. Roots' /\ Flags'
  BY <1>1, <1>2, <1>3 DEF ContainerInv, Roots, Rooted, Flags, Old, Moved, SameCase, SamePath, disk, StartPc
<1>6. CompOk'
  BY <1>2, <1>1, <1>3 DEF ServedSoFar, Served, Old, Moved, SameCase, SamePath, SameCut, Way, Kept,
         disk, inputs, CompOk, CompPc
<1> QED BY <1>2, <1>3, <1>4, <1>5, <1>6, Phases DEF ContainerInv

LEMMA CompUpInv == ASSUME ContainerInv, CompUp, UNCHANGED spent PROVE ContainerInv'
<1>1. /\ op.pc = "cUp" /\ UNCHANGED <<inputs, disk, images, man, row, mem, cancel, spent>>
      /\ UNCHANGED faults \/ Fail
  BY DEF CompUp, At, Worse
<1>2. /\ Moved /\ SamePath /\ SameStops /\ SameCut /\ op'.quiet = op.quiet /\ (op'.calm => op.calm)
      /\ \/ box' = Upped /\ op'.pc = "cCheck"
         \/ box' \in HalfUp /\ op'.pc = "cFailed" /\ ~op'.calm
  BY Goes, Cuts DEF CompUp, ContainerInv, Types, Pcs, CompPc, SameLuck
<1>3. CompOk /\ Way /\ (op.txn \/ op.recreate) /\ op'.pc \in CompPc
  BY <1>1, <1>2 DEF ContainerInv, CompOk, CompPc
<1>4. box' \in Box
  BY <1>3, <1>2, Boxes DEF ContainerInv, Roots, Rooted, Box
<1>5. Types'
  BY <1>1, <1>2, <1>4, Faulty DEF ContainerInv, Types, TypeOK, Moved, CompPc, inputs, disk, images, Box
<1>6. Roots' /\ Flags'
  BY <1>1, <1>2, <1>3, RootsStay DEF ContainerInv, Flags, Moved, SameCase, SamePath, disk, images, CompPc, StartPc
<1>7. CompOk'
  <2>1. ServedSoFar' => ServedSoFar
    BY <1>2 DEF ServedSoFar, Served, Old, Moved, SameCase, SamePath, SameCut
  <2>2. Way'
    BY <1>1, <1>2, <1>3, <2>1 DEF Way, Kept, Old, Moved, SameCase, SamePath, disk, images
  <2>3. op'.pc = "cCheck" => box'.img = latest' /\ box'.gen = gen' /\ box'.st = "running" /\ box'.env = env'
    BY <1>1, <1>2 DEF Upped, disk, images, inputs
  <2>4. op'.pc = "cFailed" => ~ServedSoFar'
    BY <1>2 DEF ServedSoFar
  <2>5. /\ op'.pc \in {"cCheck", "cFailed"}
        /\ gen' = gen /\ snap' = snap /\ env' = env /\ goodEnv' = goodEnv /\ latest' = latest
    BY <1>1, <1>2 DEF disk, inputs, images
  <2>6. op'.pc = "cCheck" /\ Served' => latest' = (Old.box.img)'
    BY <1>1, <1>2, <1>3, <2>5 DEF CompOk, CompPc, Served, Old, Moved, SameCase, SamePath
  <2> QED BY <1>1, <1>2, <1>3, <2>2, <2>3, <2>4, <2>5, <2>6 DEF CompOk, CompPc, Moved, SameCase, SamePath, SameCut
<1> QED BY <1>2, <1>3, <1>5, <1>6, <1>7, Phases DEF ContainerInv

(* The old image, the old files and an environment on record: if the way    *)
(* back was followed without an incident, what came up works.               *)
LEMMA BroughtBack ==
    ASSUME ContainerInv, op.pc = "cCheck", Served
    PROVE  /\ box.st # "none" => box.img = Old.box.img /\ box.gen = Old.box.gen
           /\ latest = Old.box.img /\ gen = Old.box.gen
           /\ ServedSoFar => Works(box)
BY DEF ContainerInv, CompPc, CompOk, Way, Kept, Served, Old, ServedSoFar, Works

LEMMA CompSettleInv == ASSUME ContainerInv, CompSettle, UNCHANGED spent PROVE ContainerInv'
<1>1. /\ op.pc = "cCheck" /\ UNCHANGED <<inputs, disk, images, box, cancel, spent>>
      /\ UNCHANGED faults \/ Fail
  BY DEF CompSettle, At, Worse
<1>2. CASE /\ Works(box) /\ End("restored") /\ UNCHANGED faults
           /\ mem' = [mem EXCEPT !.id = TRUE, !.img = box.img, !.status = "running"]
           /\ man' = mem' /\ row' = "running"
  <2>1. /\ Moved /\ SamePath /\ SameStops /\ SameCut /\ SameLuck /\ op'.pc = "ended" /\ op'.out = "restored"
    BY <1>2, Ends DEF ContainerInv, Types, Outs
  <2>2. box.st # "none" /\ box.img \in Src
    BY <1>2 DEF Works, ContainerInv, Types, TypeOK, Container, NoBox
  <2>3. CompOk /\ op.pc \in CompPc /\ (op.txn \/ op.recreate) /\ box.img = latest /\ box.gen = gen /\ gen # NoGen /\ ~op.swapCut
    BY <1>1, <2>2 DEF ContainerInv, CompOk, CompPc
  <2>4. mem' \in Manifest /\ mem'.id /\ mem'.img = box.img /\ mem'.status = "running"
    BY <2>2, <1>2 DEF ContainerInv, Types, TypeOK, Image, Status, Manifest
  <2>5. latest # NoImg
    BY <2>2, <2>3, DeployAssumption
  <2>6. Types'
    BY <1>1, <1>2, <2>1, <2>4 DEF ContainerInv, Types, TypeOK, Moved, inputs, disk, images, Status
  <2>7. Roots' /\ Flags'
    BY <1>1, <1>2, <2>1, <2>3, <2>4, <2>5 DEF ContainerInv, Roots, Rooted, Flags, Old, Moved, SameCase, SamePath, disk, images, StartPc
  <2>8. EndedOk'
    <3>1. Served' => Served
      BY <2>1 DEF Served, Old, Moved, SameCase, SamePath
    <3>2. ServiceSurvives' /\ NoSplit'
      BY <1>1, <1>2 DEF ServiceSurvives, NoSplit, Works, Running
    <3>3. RestoredWhole'
      BY <1>1, <1>2, <2>1, <2>2, <2>3, <2>4, <3>1, BroughtBack DEF RestoredWhole, Old, Moved, SameCase, disk, images
    <3> QED BY <2>1, <3>2, <3>3 DEF EndedOk, KeptWhole
  <2> QED BY <2>1, <2>6, <2>7, <2>8, Phases DEF ContainerInv
<1>3. CASE /\ IF Works(box) THEN Worse("cFailed") ELSE Goto("cFailed") /\ UNCHANGED faults
           /\ UNCHANGED <<man, row, mem>>
  <2>1. /\ Moved /\ SamePath /\ SameStops /\ SameCut /\ op'.pc = "cFailed" /\ op'.quiet = op.quiet
        /\ (op'.calm => op.calm) /\ (Works(box) => ~op'.calm)
    BY <1>3, Goes, Cuts DEF ContainerInv, Types, Pcs, CompPc, SameLuck
  <2>2. CompOk /\ Way /\ (op.txn \/ op.recreate) /\ op.pc \in CompPc /\ op'.pc \in CompPc
    BY <1>1, <2>1 DEF ContainerInv, CompOk, CompPc
  <2>3. Types'
    BY <1>1, <1>3, <2>1, Faulty DEF ContainerInv, Types, TypeOK, Moved, CompPc, inputs, disk, images
  <2>4. Roots' /\ Flags'
    BY <1>1, <1>3, <2>1, RootsStay DEF ContainerInv, Flags, Moved, SameCase, SamePath, disk, images, StartPc
  <2>5. CompOk'
    BY <2>1, <1>1, <2>2, BroughtBack DEF ServedSoFar, Served, Old, Moved, SameCase, SamePath,
           SameCut, Way, Kept, disk, images, CompOk
  <2> QED BY <2>1, <2>2, <2>3, <2>4, <2>5, Phases DEF ContainerInv
<1> QED BY <1>2, <1>3 DEF CompSettle

LEMMA CompGiveUpInv == ASSUME ContainerInv, CompGiveUp, UNCHANGED spent PROVE ContainerInv'
<1>1. /\ op.pc = "cFailed" /\ UNCHANGED <<inputs, disk, images, cancel, faults, spent>>
      /\ man' = [mem' EXCEPT !.status = "failed"] /\ row' = "failed"
  BY DEF CompGiveUp, At, MarkFailed
<1>2. /\ Moved /\ SamePath /\ SameStops /\ SameCut /\ SameLuck /\ op'.pc = "ended" /\ op'.out = "failed"
  BY Ends DEF CompGiveUp, ContainerInv, Types, Outs
<1>3. CompOk /\ op.pc \in CompPc /\ ~ServedSoFar
  BY <1>1 DEF ContainerInv, CompOk, CompPc
<1>4. /\ box' \in Box /\ mem' \in Manifest /\ (mem'.id => mem' = mem)
  BY Clears DEF ContainerInv, Types, TypeOK, Box, CompGiveUp
<1>5. man' \in Manifest /\ man'.id = mem'.id /\ man'.img = mem'.img
  BY <1>1, <1>4, Says DEF Status
<1>6. Types'
  BY <1>1, <1>2, <1>4, <1>5 DEF ContainerInv, Types, TypeOK, Moved, inputs, disk, images, Status, Box
<1>7. Roots' /\ Flags'
  BY <1>1, <1>2, <1>3, <1>4, <1>5 DEF ContainerInv, Roots, Rooted, Flags, Old, Moved, SameCase, SamePath, disk, images, StartPc
<1>8. EndedOk'
  BY <1>2, <1>1, <1>3 DEF ServedSoFar, Served, Old, Moved, SameCase, SamePath, SameCut, SameLuck,
         EndedOk, ServiceSurvives, KeptWhole, RestoredWhole, NoSplit
<1> QED BY <1>2, <1>6, <1>7, <1>8, Phases DEF ContainerInv

----------------------------------------------------------------------------
(* host_container                                                           *)

LEMMA RefuseInv == ASSUME ContainerInv, Refuse, UNCHANGED spent PROVE ContainerInv'
<1>1. op.pc = "preflight" /\ UNCHANGED <<inputs, disk, images, box, man, row, mem, cancel, faults, spent>>
  BY DEF Refuse, At
<1>2. Moved /\ SamePath /\ SameStops /\ SameCut /\ SameLuck /\ op'.pc = "ended" /\ op'.out = "refused"
  BY Ends DEF Refuse, ContainerInv, Types, Outs
<1>3. Types'
  BY <1>1, <1>2 DEF ContainerInv, Types, TypeOK, Moved, inputs, disk, images
<1>4. Roots' /\ Flags'
  BY <1>1, <1>2, RootsStay DEF ContainerInv, Flags, Moved, SameCase, SamePath, disk, images, StartPc
<1>5. EndedOk'
  <2>1. ~op.txn /\ ~op.recreate /\ Untouched /\ SameBox /\ (op.light => op.fellBack)
    BY <1>1 DEF ContainerInv, EarlyOk, Early
  <2>2. ~Served' \/ ~op'.light
    BY <1>2, <2>1 DEF Served, SamePath
  <2>3. NoSplit'
    BY <1>1, <1>2, <2>1 DEF NoSplit, Untouched, SameBox, Running, SameLuck
  <2> QED BY <1>2, <2>1, <2>2, <2>3 DEF EndedOk, ServiceSurvives, KeptWhole, RestoredWhole, Moved, SameCase, SamePath
<1> QED BY <1>2, <1>3, <1>4, <1>5, Phases DEF ContainerInv

(* What host_container decides about the order of its steps.                *)
LEMMA Begins ==
    ASSUME op \in OpRow, Begin
    PROVE  /\ Moved /\ op'.light = op.light /\ op'.fellBack = op.fellBack
           /\ SameStops /\ SameCut /\ SameLuck
           /\ \/ op'.txn /\ op'.pc = "snapshot" /\ row' = row /\ man.id
              \/ ~op'.txn /\ op'.pc = "stopOld" /\ row' = "building"
BY DEF Begin, BuildFirst, OpRow, Moved, SameCase, SameStops, SameCut, SameLuck, HostPc

LEMMA BeginInv == ASSUME ContainerInv, Begin, UNCHANGED spent PROVE ContainerInv'
<1>1. /\ op.pc = "preflight" /\ UNCHANGED <<inputs, gen, snap, images, box, man, cancel, spent>>
      /\ mem' = man /\ goodEnv' = (IF man.id THEN EnvRecorded ELSE goodEnv)
      /\ UNCHANGED faults \/ Fail
  BY DEF Begin, At
<1>2. /\ Moved /\ op'.light = op.light /\ op'.fellBack = op.fellBack
      /\ SameStops /\ SameCut /\ SameLuck
      /\ \/ op'.txn /\ op'.pc = "snapshot" /\ row' = row /\ man.id
         \/ ~op'.txn /\ op'.pc = "stopOld" /\ row' = "building"
  BY Begins DEF ContainerInv, Types
<1>3. /\ ~op.txn /\ ~op.recreate /\ Untouched /\ SameBox /\ (op.light => op.fellBack)
      /\ ~op.oldStopped /\ ~op.stopAborted /\ ~op.swapCut /\ Kept(gen)
      /\ ~op.fellBack => goodEnv = Old.good
  BY <1>1 DEF ContainerInv, EarlyOk, Early
<1>4. goodEnv' \in Record /\ (man.id => goodEnv' # NoEnv)
      /\ (~op.fellBack /\ Old.good # NoEnv => goodEnv' = Old.good)
  BY <1>1, <1>3, DeployAssumption DEF ContainerInv, Types, TypeOK, EnvRecorded, Record
<1>5. Types'
  BY <1>1, <1>2, <1>4, Faulty DEF ContainerInv, Types, TypeOK, Moved, inputs, images, Status, HostPc
<1>6. Roots' /\ Flags'
  BY <1>1, <1>2, <1>3 DEF ContainerInv, Roots, Rooted, Flags, Old, Moved, SameCase, images, StartPc, Untouched
<1>7. SameBox' /\ Kept(gen)'
  BY <1>1, <1>2, <1>3 DEF SameBox, Kept, Old, Moved, SameCase, SameLuck, Running
<1>8. HostOk'
  BY <1>1, <1>2, <1>3, <1>4, <1>7 DEF HostOk, TxnOk, SwapOk, PlainOk, TxnOnly, PlainOnly, TxnPc, SwapPc, PlainPc, NewOk,
     Moved, SameCase, SameStops, SameCut, Old, Untouched
<1> QED BY <1>2, <1>5, <1>6, <1>8, Phases DEF ContainerInv, TxnPc, PlainPc

LEMMA SnapshotInv == ASSUME ContainerInv, SnapshotGenerated, UNCHANGED spent PROVE ContainerInv'
<1>1. /\ op.pc = "snapshot" /\ UNCHANGED <<inputs, gen, goodEnv, images, box, man, row, mem, cancel, spent>>
      /\ UNCHANGED faults \/ Fail
  BY DEF SnapshotGenerated, At, FailTo
<1>2. /\ Moved /\ SamePath /\ SameStops /\ SameCut /\ SameLuck
      /\ \/ op'.pc = "tag" /\ snap' = gen
         \/ op'.pc = "failed" /\ snap' = NoGen
  BY Goes DEF SnapshotGenerated, FailTo, ContainerInv, Types, Pcs, HostPc
<1>3. /\ op.txn /\ ~op.oldStopped /\ ~op.stopAborted /\ ~op.swapCut
      /\ man = Old.man /\ mem = Old.man /\ row = Old.row /\ SameBox
      /\ goodEnv # NoEnv /\ (~op.fellBack /\ Old.good # NoEnv => goodEnv = Old.good) /\ Kept(gen)
  BY <1>1 DEF ContainerInv, HostOk, TxnOk, TxnOnly, TxnPc
<1>4. Types'
  BY <1>1, <1>2, Faulty DEF ContainerInv, Types, TypeOK, Moved, HostPc, inputs, images, Render
<1>5. Roots' /\ Flags'
  BY <1>1, <1>2, RootsStay DEF ContainerInv, Flags, Moved, SameCase, SamePath, images, StartPc
<1>6. SameBox' /\ Kept(gen)' /\ Kept(Restored)'
  BY <1>1, <1>2, <1>3 DEF SameBox, Kept, Old, Moved, SameCase, SamePath, SameLuck, Running, Restored
<1>7. CASE op'.pc = "tag"
  <2>1. HostOk'
    BY <1>1, <1>2, <1>3, <1>6, <1>7 DEF HostOk, TxnOk, SwapOk, PlainOk, TxnOnly, PlainOnly, TxnPc, SwapPc, PlainPc, NewOk,
       Moved, SameCase, SamePath, SameStops, SameCut, Old, Kept
  <2> QED BY <1>4, <1>5, <1>7, <2>1, Phases DEF ContainerInv, TxnPc
<1>8. CASE op'.pc = "failed"
  BY <1>1, <1>2, <1>3, <1>6, <1>8, <1>4, <1>5, Phases DEF FailedOk, Moved, SameCase, SamePath,
         SameStops, SameCut, Old, ContainerInv
<1> QED BY <1>2, <1>7, <1>8

LEMMA TagInv == ASSUME ContainerInv, TagPrevious, UNCHANGED spent PROVE ContainerInv'
<1>1. /\ op.pc = "tag" /\ UNCHANGED <<inputs, disk, latest, box, man, row, mem, cancel, spent>>
      /\ UNCHANGED faults \/ Fail
  BY DEF TagPrevious, At, FailTo
<1>2. /\ Moved /\ SamePath /\ SameStops /\ SameCut /\ SameLuck
      /\ \/ op'.pc = "render" /\ prev' = mem.img
         \/ op'.pc = "failed" /\ prev' = prev
  BY Goes DEF TagPrevious, FailTo, ContainerInv, Types, Pcs, HostPc
<1>3. /\ op.txn /\ ~op.oldStopped /\ ~op.stopAborted /\ ~op.swapCut
      /\ man = Old.man /\ mem = Old.man /\ row = Old.row /\ SameBox
      /\ goodEnv # NoEnv /\ (~op.fellBack /\ Old.good # NoEnv => goodEnv = Old.good) /\ Kept(gen) /\ Kept(snap)
  BY <1>1 DEF ContainerInv, HostOk, TxnOk, TxnOnly, TxnPc
<1>4. Types'
  BY <1>1, <1>2, Faulty DEF ContainerInv, Types, TypeOK, Manifest, Moved, HostPc, inputs, disk
<1>5. Roots' /\ Flags'
  BY <1>1, <1>2, RootsStay DEF ContainerInv, Flags, Moved, SameCase, SamePath, disk, StartPc
<1>6. SameBox' /\ Kept(snap)' /\ Kept(Restored)'
  BY <1>1, <1>2, <1>3 DEF SameBox, Kept, Old, Moved, SameCase, SamePath, SameLuck, Running, Restored, disk
<1>7. CASE op'.pc = "render"
  <2>1. HostOk'
    BY <1>1, <1>2, <1>3, <1>6, <1>7 DEF HostOk, TxnOk, SwapOk, PlainOk, TxnOnly, PlainOnly, TxnPc, SwapPc, PlainPc, NewOk,
       Moved, SameCase, SamePath, SameStops, SameCut, Old, Kept, disk
  <2> QED BY <1>4, <1>5, <1>7, <2>1, Phases DEF ContainerInv, TxnPc
<1>8. CASE op'.pc = "failed"
  BY <1>1, <1>2, <1>3, <1>6, <1>8, <1>4, <1>5, Phases DEF FailedOk, Moved, SameCase, SamePath,
         SameStops, SameCut, Old, ContainerInv
<1> QED BY <1>2, <1>7, <1>8

(* How stop_or_abort ends.                                                  *)
LEMMA Stops ==
    ASSUME ContainerInv,
           \/ UNCHANGED <<box, faults>>
           \/ Running /\ box' = NoBox /\ UNCHANGED faults
           \/ box' \in HalfDown /\ UNCHANGED faults
           \/ Fail /\ box' \in (IF Running THEN HalfDown ELSE {box})
           \/ Fail /\ UNCHANGED box
    PROVE  box' \in Box /\ faults' \in 0 .. MaxFault
BY Boxes, Faulty DEF ContainerInv, Types, TypeOK, Box

Stopped == box' = (IF Running THEN NoBox ELSE box) /\ UNCHANGED faults
CutShort == /\ box' \in HalfDown /\ UNCHANGED faults
            /\ Moved /\ SamePath /\ SameStops /\ SameLuck /\ op'.pc = "cancelled" /\ op'.swapCut
Aborted == /\ Fail /\ box' \in (IF Running THEN HalfDown ELSE {box})
           /\ Moved /\ SamePath /\ SameCut /\ op'.pc = "failed" /\ op'.stopAborted /\ op'.oldStopped = op.oldStopped
           /\ op'.calm => op.calm /\ box' = box
           /\ op'.quiet => op.quiet /\ box' = box
FailedStop == /\ Fail /\ UNCHANGED box
              /\ Moved /\ SamePath /\ SameStops /\ SameCut /\ SameLuck /\ op'.pc = "failed"

LEMMA AbortedOp ==
    ASSUME op \in OpRow, Fail, box' \in (IF Running THEN HalfDown ELSE {box}),
           op' = [op EXCEPT !.pc = "failed", !.stopAborted = TRUE,
                            !.calm = @ /\ box' = box, !.quiet = @ /\ box' = box]
    PROVE  Aborted
<1>1. PICK c \in BOOLEAN, q \in BOOLEAN :
         /\ c = (op.calm /\ box' = box) /\ q = (op.quiet /\ box' = box)
  BY DEF OpRow
<1>2. op' = [op EXCEPT !.pc = "failed", !.stopAborted = TRUE, !.calm = c, !.quiet = q]
  BY <1>1
<1> QED BY <1>1, <1>2 DEF OpRow, Aborted, Moved, SameCase, SamePath, SameCut, HostPc

LEMMA StopOldEnds ==
    ASSUME ContainerInv, StopOld
    PROVE  \/ /\ Stopped /\ Moved /\ SamePath /\ SameStops /\ SameCut /\ SameLuck /\ op'.pc = "clearOld"
           \/ CutShort \/ Aborted \/ FailedStop
<1>1. op \in OpRow
  BY DEF ContainerInv, Types
<1>2. ASSUME op' = [op EXCEPT !.pc = "cancelled", !.swapCut = TRUE]
      PROVE  Moved /\ SamePath /\ SameStops /\ SameLuck /\ op'.pc = "cancelled" /\ op'.swapCut
  BY <1>1, <1>2 DEF OpRow, Moved, SameCase, SamePath, SameStops, SameLuck, HostPc
<1> QED BY <1>1, <1>2, AbortedOp, Goes DEF StopOld, StopOrAbort, Stopped, CutShort, FailedStop, FailTo, Pcs, HostPc

LEMMA SwapStopEnds ==
    ASSUME ContainerInv, SwapStop
    PROVE  \/ /\ Stopped /\ Moved /\ SamePath /\ SameCut /\ SameLuck /\ op'.pc = "clearNew"
              /\ op'.oldStopped /\ op'.stopAborted = op.stopAborted
           \/ CutShort \/ Aborted \/ FailedStop
<1>1. op \in OpRow
  BY DEF ContainerInv, Types
<1>2. ASSUME op' = [op EXCEPT !.pc = "cancelled", !.swapCut = TRUE]
      PROVE  Moved /\ SamePath /\ SameStops /\ SameLuck /\ op'.pc = "cancelled" /\ op'.swapCut
  BY <1>1, <1>2 DEF OpRow, Moved, SameCase, SamePath, SameStops, SameLuck, HostPc
<1>3. ASSUME op' = [op EXCEPT !.pc = "clearNew", !.oldStopped = TRUE]
      PROVE  Moved /\ SamePath /\ SameCut /\ SameLuck /\ op'.pc = "clearNew"
              /\ op'.oldStopped /\ op'.stopAborted = op.stopAborted
  BY <1>1, <1>3 DEF OpRow, Moved, SameCase, SamePath, SameCut, SameLuck, HostPc
<1> QED BY <1>1, <1>2, <1>3, AbortedOp, Goes DEF SwapStop, StopOrAbort, Stopped, CutShort, FailedStop, FailTo, Pcs, HostPc

LEMMA StopOldInv == ASSUME ContainerInv, StopOld, UNCHANGED spent PROVE ContainerInv'
<1>1. op.pc = "stopOld" /\ UNCHANGED <<inputs, disk, images, man, row, mem, cancel, spent>>
  BY DEF StopOld, At
<1>2. \/ /\ Stopped /\ Moved /\ SamePath /\ SameStops /\ SameCut /\ SameLuck /\ op'.pc = "clearOld"
      \/ CutShort \/ Aborted \/ FailedStop
  BY StopOldEnds
<1>3. /\ ~op.txn /\ ~op.recreate /\ ~op.stopAborted /\ (op.light => op.fellBack)
      /\ man = Old.man /\ mem = Old.man /\ Kept(gen) /\ SameBox /\ row \in {"building", "verifying"}
  BY <1>1 DEF ContainerInv, HostOk, PlainOk, PlainOnly, PlainPc
<1>4. Moved /\ SamePath /\ op'.pc \in {"clearOld", "cancelled", "failed"}
  BY <1>2 DEF CutShort, Aborted, FailedStop
<1>5. Types'
  BY <1>2, Stops, <1>1, <1>4 DEF Stopped, CutShort, Aborted, FailedStop, ContainerInv, Types,
         TypeOK, Moved, inputs, disk, images, HostPc, Box
<1>6. Roots' /\ Flags'
  BY <1>1, <1>4, RootsStay DEF ContainerInv, Flags, Moved, SameCase, SamePath, disk, images, StartPc
<1>7. CASE op'.pc = "clearOld"
  <2>1. HostOk'
    BY <1>1, <1>2, <1>3, <1>4, <1>7 DEF HostOk, TxnOk, SwapOk, PlainOk, TxnOnly, PlainOnly, TxnPc, SwapPc, PlainPc, NewOk,
       Moved, SameCase, SamePath, CutShort, Aborted, FailedStop, SameStops
  <2> QED BY <1>5, <1>6, <1>7, <2>1, Phases DEF ContainerInv, PlainPc
<1>8. CASE op'.pc = "cancelled"
  BY <1>3, <1>4, <1>8, <1>5, <1>6, Phases DEF CancelledOk, Moved, SameCase, SamePath, ContainerInv
<1>9. CASE op'.pc = "failed"
  <2>1. FailedOk'
    BY <1>1, <1>2, <1>3, <1>4, <1>9 DEF FailedOk, Moved, SameCase, SamePath, SameStops, SameCut, SameLuck, Old, Kept,
       SameBox, Running, Stopped, CutShort, Aborted, FailedStop, disk
  <2> QED BY <1>5, <1>6, <1>9, <2>1, Phases DEF ContainerInv
<1> QED BY <1>4, <1>7, <1>8, <1>9

(* An environment that the old container worked with.                       *)
LEMMA ServedRecord ==
    ASSUME ContainerInv, Served
    PROVE  Old.good # NoEnv /\ Old.good \notin Bad /\ Old.gen # NoGen
BY DeployAssumption DEF ContainerInv, Types, OpRow, OldRow, Served, Works, Old, NoBox, Container

LEMMA SwapStopInv == ASSUME ContainerInv, SwapStop, UNCHANGED spent PROVE ContainerInv'
<1>1. op.pc = "swapStop" /\ UNCHANGED <<inputs, disk, images, man, row, mem, cancel, spent>>
  BY DEF SwapStop, At
<1>2. \/ /\ Stopped /\ Moved /\ SamePath /\ SameCut /\ SameLuck /\ op'.pc = "clearNew"
              /\ op'.oldStopped /\ op'.stopAborted = op.stopAborted
      \/ CutShort \/ Aborted \/ FailedStop
  BY SwapStopEnds
<1>3. /\ op.txn /\ ~op.oldStopped /\ ~op.stopAborted /\ ~op.swapCut
      /\ man = Old.man /\ mem = Old.man /\ row = Old.row /\ SameBox /\ prev = Old.man.img
      /\ goodEnv # NoEnv /\ (~op.fellBack /\ Old.good # NoEnv => goodEnv = Old.good) /\ Kept(snap)
      /\ latest # NoImg /\ gen # NoGen
  BY <1>1 DEF ContainerInv, HostOk, TxnOk, TxnOnly, TxnPc, Roots
<1>4. Moved /\ SamePath /\ op'.pc \in {"clearNew", "cancelled", "failed"}
  BY <1>2 DEF CutShort, Aborted, FailedStop
<1>5. Types'
  BY <1>2, Stops, <1>1, <1>4 DEF Stopped, CutShort, Aborted, FailedStop, ContainerInv, Types,
         TypeOK, Moved, inputs, disk, images, HostPc, Box
<1>6. Roots' /\ Flags'
  BY <1>1, <1>3, <1>4, RootsStay DEF ContainerInv, Flags, Moved, SameCase, SamePath, disk, images, StartPc
<1>7. Kept(snap)' /\ Kept(Restored)'
  BY <1>3, <1>1, <1>4 DEF Kept, ContainerInv, Roots, Old, Moved, SameCase, SamePath, disk,
         Restored
<1>8. CASE op'.pc = "clearNew"
  <2>1. Way'
    BY <1>4, <1>3, ServedRecord, <1>1, <1>6, <1>7 DEF Served, Old, Moved, SameCase, SamePath, Way,
           disk, images, ServedSoFar, Flags
  <2>2. HostOk'
    BY <1>2, <1>3, <1>4, <1>8, <2>1 DEF HostOk, TxnOk, SwapOk, PlainOk, TxnOnly, PlainOnly, TxnPc, SwapPc, PlainPc, NewOk,
       SamePath, SameCut, CutShort, Aborted, FailedStop
  <2> QED BY <1>5, <1>6, <1>8, <2>2, Phases DEF ContainerInv, SwapPc
<1>9. CASE op'.pc = "cancelled"
  BY <1>1, <1>2, <1>3, <1>4, <1>7, <1>9, <1>5, <1>6, Phases DEF CancelledOk, Moved, SameCase,
         SamePath, Old, CutShort, Aborted, FailedStop, ContainerInv
<1>10. CASE op'.pc = "failed"
  <2>1. SameBox'
    BY <1>2, <1>3, <1>10 DEF SameBox, Moved, SameCase, SameLuck, Old, Running, CutShort, Aborted, FailedStop
  <2>2. FailedOk'
    BY <1>1, <1>2, <1>3, <1>4, <1>7, <1>10, <2>1 DEF FailedOk, Moved, SameCase, SamePath, SameStops, SameCut, SameLuck, Old,
       CutShort, Aborted, FailedStop
  <2> QED BY <1>5, <1>6, <1>10, <2>2, Phases DEF ContainerInv
<1> QED BY <1>4, <1>8, <1>9, <1>10

LEMMA ClearIdentityInv ==
    ASSUME ContainerInv, UNCHANGED spent, ClearIdentity("clearOld", "render") \/ ClearIdentity("clearNew", "up")
    PROVE  ContainerInv'
<1>1. /\ UNCHANGED <<inputs, disk, images, box, row, cancel, spent>> /\ (UNCHANGED faults \/ Fail)
      /\ mem' = [mem EXCEPT !.id = FALSE, !.img = NoImg] /\ man' \in {man, mem'}
  BY DEF ClearIdentity, FailTo
<1>2. /\ Moved /\ SamePath /\ SameStops /\ SameCut /\ SameLuck
      /\ \/ op.pc = "clearOld" /\ op'.pc \in {"render", "failed"}
         \/ op.pc = "clearNew" /\ op'.pc \in {"up", "failed"}
  BY Goes DEF ContainerInv, Types, Pcs, HostPc, ClearIdentity, FailTo, At
<1>3. mem' \in Manifest /\ ~mem'.id /\ man' \in Manifest
  BY <1>1, Clears DEF ContainerInv, Types, TypeOK
<1>4. Types'
  BY <1>1, <1>2, <1>3, Faulty DEF ContainerInv, Types, TypeOK, Moved, HostPc, inputs, disk, images
<1>5. Roots' /\ Flags'
  BY <1>1, <1>2, <1>3 DEF ContainerInv, Roots, Rooted, Flags, Old, Moved, SameCase, SamePath, disk, images, StartPc
<1>6. CASE op.pc = "clearOld"
  <2>1. /\ ~op.txn /\ ~op.recreate /\ ~op.stopAborted /\ (op.light => op.fellBack) /\ row \in {"building", "verifying"}
    BY <1>6 DEF ContainerInv, HostOk, PlainOk, PlainOnly, PlainPc
  <2>2. CASE op'.pc = "render"
    <3>1. HostOk'
      BY <1>1, <1>2, <2>1, <2>2 DEF HostOk, TxnOk, SwapOk, PlainOk, TxnOnly, PlainOnly, TxnPc, SwapPc, PlainPc, NewOk,
         Moved, SameCase, SamePath, SameStops
    <3> QED BY <1>4, <1>5, <2>2, <3>1, Phases DEF ContainerInv, PlainPc
  <2>3. CASE op'.pc = "failed"
    BY <1>2, <2>1, <2>3, <1>4, <1>5, Phases DEF FailedOk, Moved, SameCase, SamePath, SameStops,
           ContainerInv
  <2> QED BY <1>2, <1>6, <2>2, <2>3
<1>7. CASE op.pc = "clearNew"
  <2>1. op.txn /\ op.oldStopped /\ ~op.stopAborted /\ ~op.swapCut /\ Way
    BY <1>7 DEF ContainerInv, HostOk, SwapOk, TxnOnly, SwapPc
  <2>2. Way'
    BY <1>1, <1>2, <2>1 DEF Way, Kept, Old, Moved, SameCase, SamePath, SameCut, SameLuck, disk, images, ServedSoFar, Served
  <2>3. CASE op'.pc = "up"
    <3>1. HostOk'
      BY <1>2, <2>1, <2>2, <2>3 DEF HostOk, TxnOk, SwapOk, PlainOk, TxnOnly, PlainOnly, TxnPc, SwapPc, PlainPc, NewOk,
         SamePath, SameStops, SameCut
    <3> QED BY <1>4, <1>5, <2>3, <3>1, Phases DEF ContainerInv, PlainPc
  <2>4. CASE op'.pc = "failed"
    BY <1>2, <2>1, <2>2, <2>4, <1>4, <1>5, Phases DEF FailedOk, SamePath, SameStops, SameCut,
           ContainerInv
  <2> QED BY <1>2, <1>7, <2>3, <2>4
<1> QED BY <1>2, <1>6, <1>7

(* What is rendered, and built, can be served.                              *)
LEMMA FilesExist ==
    ASSUME ContainerInv
    PROVE  cfg # NoGen /\ src # NoImg /\ env # NoEnv /\ cfg \in Render /\ src \in Image /\ env \in Record
  BY DeployAssumption DEF ContainerInv, Types, TypeOK, Render, Image, Record

(* The files of the old version are on disk or in the snapshot.             *)
LEMMA KeepsFiles ==
    ASSUME ContainerInv, op.txn, Kept(snap), Moved, SamePath, UNCHANGED snap
    PROVE  Kept(snap)' /\ Kept(Restored)'
BY DEF Kept, ContainerInv, Roots, Old, Moved, SameCase, SamePath, Restored

LEMMA RenderInv == ASSUME ContainerInv, RenderArtifacts, UNCHANGED spent PROVE ContainerInv'
<1>1. /\ op.pc = "render" /\ UNCHANGED <<inputs, snap, goodEnv, images, box, man, row, mem, cancel, spent>>
      /\ gen' \in {gen, cfg} /\ (UNCHANGED faults \/ Fail)
  BY DEF RenderArtifacts, At, FailTo
<1>2. /\ Moved /\ SamePath /\ SameStops /\ SameCut /\ SameLuck
      /\ \/ op'.pc = "build" /\ gen' = cfg
         \/ op'.pc = "failed"
  BY Goes DEF RenderArtifacts, FailTo, ContainerInv, Types, Pcs, HostPc
<1>3. Types'
  BY <1>1, <1>2, Faulty, FilesExist DEF ContainerInv, Types, TypeOK, Moved, HostPc, inputs, images
<1>4. Roots' /\ Flags'
  BY <1>1, <1>2, FilesExist DEF ContainerInv, Roots, Rooted, Flags, Old, Moved, SameCase, SamePath, images, StartPc
<1>5. CASE op.txn
  <2>1. /\ ~op.oldStopped /\ ~op.stopAborted /\ ~op.swapCut /\ prev = Old.man.img
        /\ man = Old.man /\ mem = Old.man /\ row = Old.row /\ SameBox
        /\ goodEnv # NoEnv /\ (~op.fellBack /\ Old.good # NoEnv => goodEnv = Old.good) /\ Kept(snap)
    BY <1>1, <1>5 DEF ContainerInv, HostOk, TxnOk, TxnPc
  <2>2. SameBox' /\ Kept(snap)' /\ Kept(Restored)'
    BY <1>1, <1>2, <1>5, <2>1, KeepsFiles DEF SameBox, Old, Moved, SameCase, SameLuck, Running
  <2>3. CASE op'.pc = "build"
    <3>1. HostOk'
      BY <1>1, <1>2, <1>5, <2>1, <2>2, <2>3 DEF HostOk, TxnOk, SwapOk, PlainOk, TxnOnly, PlainOnly, TxnPc, SwapPc, PlainPc, NewOk,
         Moved, SameCase, SamePath, SameStops, SameCut, Old, images
    <3> QED BY <1>3, <1>4, <2>3, <3>1, Phases DEF ContainerInv, TxnPc
  <2>4. CASE op'.pc = "failed"
    BY <1>1, <1>2, <1>5, <2>1, <2>2, <2>4, <1>3, <1>4, Phases DEF FailedOk, Moved, SameCase,
           SamePath, SameStops, SameCut, Old, ContainerInv
  <2> QED BY <1>2, <2>3, <2>4
<1>6. CASE ~op.txn
  <2>1. /\ ~op.recreate /\ ~op.stopAborted /\ (op.light => op.fellBack) /\ row \in {"building", "verifying"}
    BY <1>1, <1>6 DEF ContainerInv, HostOk, PlainOk, PlainPc
  <2>2. CASE op'.pc = "build"
    <3>1. HostOk'
      BY <1>1, <1>2, <1>6, <2>1, <2>2 DEF HostOk, TxnOk, SwapOk, PlainOk, TxnOnly, PlainOnly, TxnPc, SwapPc, PlainPc, NewOk,
         Moved, SameCase, SamePath, SameStops
    <3> QED BY <1>3, <1>4, <2>2, <3>1, Phases DEF ContainerInv, PlainPc
  <2>3. CASE op'.pc = "failed"
    BY <1>2, <1>6, <2>1, <2>3, <1>3, <1>4, Phases DEF FailedOk, Moved, SameCase, SamePath,
           SameStops, ContainerInv
  <2> QED BY <1>2, <2>2, <2>3
<1> QED BY <1>5, <1>6

LEMMA BuildInv == ASSUME ContainerInv, BuildImage, UNCHANGED spent PROVE ContainerInv'
<1>1. /\ op.pc = "build" /\ UNCHANGED <<inputs, disk, prev, box, man, row, mem, cancel, spent>>
      /\ latest' \in {latest, src} /\ (UNCHANGED faults \/ Fail)
  BY DEF BuildImage, At, FailTo
<1>2. /\ Moved /\ SamePath /\ SameStops /\ SameCut /\ SameLuck
      /\ \/ latest' = src /\ op.txn /\ op'.pc = "swapStop"
         \/ latest' = src /\ ~op.txn /\ op'.pc = "up"
         \/ op'.pc \in {"failed", "cancelled"}
  BY Goes DEF ContainerInv, Types, Pcs, HostPc, BuildImage, FailTo
<1>3. Types'
  BY <1>1, <1>2, Faulty, FilesExist DEF ContainerInv, Types, TypeOK, Moved, HostPc, inputs, disk
<1>4. Roots' /\ Flags'
  BY <1>1, <1>2, FilesExist DEF ContainerInv, Roots, Rooted, Flags, Old, Moved, SameCase, SamePath, disk, StartPc
<1>5. CASE op.txn
  <2>1. /\ ~op.oldStopped /\ ~op.stopAborted /\ ~op.swapCut /\ prev = Old.man.img
        /\ man = Old.man /\ mem = Old.man /\ row = Old.row /\ SameBox
        /\ goodEnv # NoEnv /\ (~op.fellBack /\ Old.good # NoEnv => goodEnv = Old.good) /\ Kept(snap)
    BY <1>1, <1>5 DEF ContainerInv, HostOk, TxnOk, TxnPc
  <2>2. SameBox' /\ Kept(snap)' /\ Kept(Restored)'
    BY <1>1, <1>2, <1>5, <2>1, KeepsFiles DEF SameBox, Old, Moved, SameCase, SameLuck, Running, disk
  <2>3. CASE op'.pc = "swapStop"
    <3>1. HostOk'
      BY <1>1, <1>2, <1>5, <2>1, <2>2, <2>3 DEF HostOk, TxnOk, SwapOk, PlainOk, TxnOnly, PlainOnly, TxnPc, SwapPc, PlainPc, NewOk,
         Moved, SameCase, SamePath, SameStops, SameCut, Old, disk
    <3> QED BY <1>3, <1>4, <2>3, <3>1, Phases DEF ContainerInv, TxnPc
  <2>4. CASE op'.pc = "failed"
    BY <1>1, <1>2, <1>5, <2>1, <2>2, <2>4, <1>3, <1>4, Phases DEF FailedOk, Moved, SameCase,
           SamePath, SameStops, SameCut, Old, ContainerInv
  <2>5. CASE op'.pc = "cancelled"
    BY <1>1, <1>2, <1>5, <2>1, <2>2, <2>5, <1>3, <1>4, Phases DEF CancelledOk, Moved, SameCase,
           SamePath, SameStops, SameCut, Old, ContainerInv
  <2> QED BY <1>2, <1>5, <2>3, <2>4, <2>5
<1>6. CASE ~op.txn
  <2>1. /\ ~op.recreate /\ ~op.stopAborted /\ (op.light => op.fellBack) /\ row \in {"building", "verifying"}
    BY <1>1, <1>6 DEF ContainerInv, HostOk, PlainOk, PlainPc
  <2>2. CASE op'.pc = "up"
    <3>1. HostOk'
      BY <1>1, <1>2, <1>6, <2>1, <2>2 DEF HostOk, TxnOk, SwapOk, PlainOk, TxnOnly, PlainOnly, TxnPc, SwapPc, PlainPc, NewOk,
         Moved, SameCase, SamePath, SameStops
    <3> QED BY <1>3, <1>4, <2>2, <3>1, Phases DEF ContainerInv, PlainPc
  <2>3. CASE op'.pc = "failed"
    BY <1>2, <1>6, <2>1, <2>3, <1>3, <1>4, Phases DEF FailedOk, Moved, SameCase, SamePath,
           SameStops, ContainerInv
  <2>4. CASE op'.pc = "cancelled"
    BY <1>2, <1>6, <2>1, <2>4, <1>3, <1>4, Phases DEF CancelledOk, Moved, SameCase, SamePath,
           ContainerInv
  <2> QED BY <1>2, <1>6, <2>2, <2>3, <2>4
<1> QED BY <1>5, <1>6

LEMMA UpInv == ASSUME ContainerInv, UpNew, UNCHANGED spent PROVE ContainerInv'
<1>1. /\ op.pc = "up" /\ UNCHANGED <<inputs, disk, images, man, row, mem, cancel, spent>>
      /\ UNCHANGED faults \/ Fail
  BY DEF UpNew, At, FailTo
<1>2. /\ Moved /\ SamePath /\ SameStops /\ SameLuck
      /\ \/ op'.pc = "observe" /\ box' = Upped /\ SameCut
         \/ op'.pc = "failed" /\ box' \in HalfUp /\ SameCut
         \/ op'.pc = "cancelled" /\ box' \in HalfUp /\ op'.swapCut
  <2>1. op \in OpRow /\ "failed" \in Pcs
    BY DEF ContainerInv, Types, Pcs, HostPc
  <2>2. ASSUME op' = [op EXCEPT !.pc = "observe", !.upDone = TRUE]
        PROVE  Moved /\ SamePath /\ SameStops /\ SameLuck /\ op'.pc = "observe" /\ SameCut
    BY <2>1, <2>2 DEF OpRow, Moved, SameCase, SamePath, SameStops, SameLuck, SameCut, HostPc
  <2>3. ASSUME op' = [op EXCEPT !.pc = "cancelled", !.swapCut = TRUE]
        PROVE  Moved /\ SamePath /\ SameStops /\ SameLuck /\ op'.pc = "cancelled" /\ op'.swapCut
    BY <2>1, <2>3 DEF OpRow, Moved, SameCase, SamePath, SameStops, SameLuck, HostPc
  <2> QED BY <2>1, <2>2, <2>3, Goes DEF UpNew, FailTo
<1>3. box' \in Box /\ latest # NoImg /\ gen # NoGen
  BY <1>1, <1>2, Boxes DEF ContainerInv, Roots, Box
<1>4. Types'
  BY <1>1, <1>2, <1>3, Faulty DEF ContainerInv, Types, TypeOK, Moved, HostPc, inputs, disk, images, Box
<1>5. Roots' /\ Flags'
  BY <1>1, <1>2, <1>3, RootsStay DEF ContainerInv, Flags, Moved, SameCase, SamePath, disk, images, StartPc
<1>6. op.txn => op.oldStopped /\ ~op.stopAborted /\ ~op.swapCut /\ Way
  BY <1>1 DEF ContainerInv, HostOk, SwapOk, SwapPc
<1>7. ~op.txn => ~op.recreate /\ ~op.stopAborted /\ (op.light => op.fellBack) /\ row \in {"building", "verifying"}
  BY <1>1 DEF ContainerInv, HostOk, PlainOk, PlainPc
<1>8. CASE op'.pc = "cancelled"
  BY <1>2, <1>6, <1>7, <1>8, <1>4, <1>5, Phases DEF CancelledOk, Moved, SameCase, SamePath,
         SameStops, ContainerInv
<1>9. CASE op'.pc # "cancelled"
  <2>1. op.txn => Way'
    BY <1>1, <1>2, <1>6, <1>9 DEF Way, Kept, Old, Moved, SameCase, SamePath, SameCut, SameLuck, disk, images, ServedSoFar, Served
  <2>2. CASE op'.pc = "observe"
    <3>1. NewOk'
      BY <1>1, <1>2, <2>2 DEF NewOk, Upped, inputs
    <3>2. HostOk'
      BY <1>1, <1>2, <1>6, <1>7, <2>1, <2>2, <3>1 DEF HostOk, TxnOk, SwapOk, PlainOk, TxnOnly, PlainOnly, TxnPc, SwapPc, PlainPc,
         Moved, SameCase, SamePath, SameStops, SameCut
    <3> QED BY <1>4, <1>5, <2>2, <3>2, Phases DEF ContainerInv, SwapPc
  <2>3. CASE op'.pc = "failed"
    BY <1>2, <1>6, <1>7, <2>1, <2>3, <1>4, <1>5, Phases DEF FailedOk, Moved, SameCase, SamePath,
           SameStops, SameCut, ContainerInv
  <2> QED BY <1>2, <1>9, <2>2, <2>3
<1> QED BY <1>8, <1>9

(* The two orders once the new container is being started.                  *)
LEMMA SwapFacts ==
    ASSUME ContainerInv, op.pc \in {"up", "observe", "commit", "verify", "finalize"}
    PROVE  /\ op.txn => op.oldStopped /\ ~op.stopAborted /\ ~op.swapCut /\ Way /\ ~op.recreate
           /\ ~op.txn => ~op.recreate /\ ~op.stopAborted /\ (op.light => op.fellBack) /\ row \in {"building", "verifying"}
           /\ NewOk
  BY DEF ContainerInv, HostOk, SwapOk, PlainOk, SwapPc, PlainPc, Flags

(* An operation without a way back that failed says so.                     *)
LEMMA EndsFailed ==
    ASSUME Moved, SamePath, op'.pc = "ended", op'.out \in {"failed", "error"}, row' # "running" \/ ~op'.quiet,
           ~op.txn, ~op.recreate, op.light => op.fellBack
    PROVE  EndedOk'
  BY DEF EndedOk, ServiceSurvives, KeptWhole, RestoredWhole, NoSplit, Served, Moved, SameCase, SamePath

LEMMA ObserveInv == ASSUME ContainerInv, ObserveNew, UNCHANGED spent PROVE ContainerInv'
<1>1. op.pc = "observe" /\ UNCHANGED <<inputs, disk, images, cancel, spent>> /\ (UNCHANGED faults \/ Fail)
  BY DEF ObserveNew, At
<1>2. /\ op.txn => op.oldStopped /\ ~op.stopAborted /\ ~op.swapCut /\ Way /\ ~op.recreate
      /\ ~op.txn => ~op.recreate /\ ~op.stopAborted /\ (op.light => op.fellBack) /\ row \in {"building", "verifying"}
      /\ NewOk
  BY <1>1, SwapFacts
<1>3. op \in OpRow /\ {"commit", "cDown"} \subseteq Pcs /\ "failed" \in Outs /\ "failed" \in Status
      /\ mem \in Manifest /\ latest # NoImg /\ gen # NoGen
  BY <1>1 DEF ContainerInv, Types, TypeOK, Pcs, HostPc, CompPc, Outs, Status, Roots
<1>4. CASE /\ Running /\ mem' = [mem EXCEPT !.id = TRUE, !.img = box.img] /\ Goto("commit")
           /\ UNCHANGED <<box, man, row, faults>>
  <2>1. Moved /\ SamePath /\ SameStops /\ SameCut /\ SameLuck /\ op'.pc = "commit"
    BY <1>3, <1>4, Goes
  <2>2. mem' \in Manifest /\ mem'.img # NoImg
    <3>1. box.img \in Image /\ box.img # NoImg
      BY <1>4, DeployAssumption DEF Running, ContainerInv, Types, TypeOK, Container, NoBox, Image
    <3> DEFINE n == [mem EXCEPT !.id = TRUE, !.img = box.img]
    <3>2. n \in Manifest /\ n.img = box.img
      BY <1>3, <3>1 DEF Manifest
    <3> QED BY <1>4, <3>1, <3>2
  <2>3. Types'
    BY <1>1, <1>4, <2>1, <2>2 DEF ContainerInv, Types, TypeOK, Moved, HostPc, inputs, disk, images
  <2>4. Roots' /\ Flags'
    BY <1>1, <1>3, <1>4, <2>1, <2>2 DEF ContainerInv, Roots, Rooted, Flags, Old, Moved, SameCase, SamePath, disk, images, StartPc
  <2>5. op.txn => Way'
    BY <1>1, <1>2, <2>1 DEF Way, Kept, Old, Moved, SameCase, SamePath, SameCut, SameLuck, disk, images, ServedSoFar, Served
  <2>6. NewOk'
    BY <1>1, <1>2, <1>4, <2>1 DEF NewOk, SameLuck, inputs
  <2>7. HostOk'
    BY <1>2, <1>4, <2>1, <2>5, <2>6 DEF HostOk, TxnOk, SwapOk, PlainOk, TxnOnly, PlainOnly, TxnPc, SwapPc, PlainPc,
         Moved, SameCase, SamePath, SameStops, SameCut
  <2> QED BY <2>1, <2>3, <2>4, <2>7, Phases DEF ContainerInv, SwapPc
<1>5. CASE op.txn /\ Goto("cDown") /\ UNCHANGED <<box, man, row, mem>>
  <2>1. Moved /\ SamePath /\ SameStops /\ SameCut /\ SameLuck /\ op'.pc = "cDown"
    BY <1>3, <1>5, Goes
  <2>2. Types'
    BY <1>1, <1>5, <2>1, Faulty DEF ContainerInv, Types, TypeOK, Moved, CompPc, inputs, disk, images
  <2>3. Roots' /\ Flags'
    BY <1>1, <1>5, <2>1, RootsStay DEF ContainerInv, Flags, Moved, SameCase, SamePath, disk, images, StartPc
  <2>4. Way'
    BY <1>1, <1>2, <1>5, <2>1 DEF Way, Kept, Old, Moved, SameCase, SamePath, SameCut, SameLuck, disk, images, ServedSoFar, Served
  <2>5. CompOk'
    BY <1>2, <1>5, <2>1, <2>4 DEF CompOk, SamePath, SameCut
  <2> QED BY <2>1, <2>2, <2>3, <2>5, Phases DEF ContainerInv, CompPc
<1>6. CASE /\ ~op.txn /\ box' \in (IF Killed THEN HalfDown ELSE {NoBox}) /\ MarkFailed(mem) /\ End("failed") /\ UNCHANGED mem
  <2>1. Moved /\ SamePath /\ SameStops /\ SameCut /\ SameLuck /\ op'.pc = "ended" /\ op'.out = "failed"
    BY <1>3, <1>6, Ends
  <2>2. /\ man' \in Manifest /\ man'.id = mem.id /\ man'.img = mem.img /\ row' = "failed"
        /\ box' \in Box
    BY <1>3, <1>6, Says, Boxes DEF MarkFailed, ContainerInv
  <2>3. Types'
    BY <1>1, <1>6, <2>1, <2>2, Faulty DEF ContainerInv, Types, TypeOK, Moved, inputs, disk, images, Box, Status
  <2>4. Roots' /\ Flags'
    BY <1>1, <1>6, <2>1, <2>2 DEF ContainerInv, Roots, Rooted, Flags, Old, Moved, SameCase, SamePath, disk, images, StartPc
  <2>5. EndedOk'
    BY <1>2, <1>6, <2>1, <2>2, EndsFailed
  <2> QED BY <2>1, <2>3, <2>4, <2>5, Phases DEF ContainerInv
<1> QED BY <1>4, <1>5, <1>6 DEF ObserveNew

LEMMA CommitInv == ASSUME ContainerInv, CommitVerifying, UNCHANGED spent PROVE ContainerInv'
<1>1. /\ op.pc = "commit" /\ UNCHANGED <<inputs, disk, images, box, cancel, spent>> /\ (UNCHANGED faults \/ Fail)
      /\ mem' = [mem EXCEPT !.status = "verifying"] /\ man' \in {man, mem'} /\ row' \in {row, "verifying"}
  BY DEF CommitVerifying, At, FailTo
<1>2. /\ op.txn => op.oldStopped /\ ~op.stopAborted /\ ~op.swapCut /\ Way /\ ~op.recreate
      /\ ~op.txn => ~op.recreate /\ ~op.stopAborted /\ (op.light => op.fellBack) /\ row \in {"building", "verifying"}
      /\ NewOk
  BY <1>1, SwapFacts
<1>3. Moved /\ SamePath /\ SameStops /\ SameCut /\ SameLuck /\ op'.pc \in {"verify", "failed"}
  BY Goes DEF CommitVerifying, FailTo, ContainerInv, Types, Pcs, HostPc
<1>4. mem' \in Manifest /\ mem'.id = mem.id /\ mem'.img = mem.img
  BY <1>1, Says DEF ContainerInv, Types, TypeOK, Status
<1>5. Types'
  BY <1>1, <1>3, <1>4, Faulty DEF ContainerInv, Types, TypeOK, Moved, HostPc, inputs, disk, images, Status
<1>6. Roots' /\ Flags'
  BY ZenonT(60), <1>1, <1>3, <1>4 DEF ContainerInv, Roots, Rooted, Flags, Old, Moved, SameCase, SamePath, disk, images, StartPc
<1>7. op.txn => Way'
  BY <1>1, <1>2, <1>3 DEF Way, Kept, Old, Moved, SameCase, SamePath, SameCut, SameLuck, disk, images, ServedSoFar, Served
<1>8. CASE op'.pc = "verify"
  <2>1. NewOk'
    BY <1>1, <1>2, <1>3, <1>8 DEF NewOk, SameLuck, inputs
  <2>2. HostOk'
    BY <1>1, <1>2, <1>3, <1>7, <1>8, <2>1 DEF HostOk, TxnOk, SwapOk, PlainOk, TxnOnly, PlainOnly, TxnPc, SwapPc, PlainPc,
         Moved, SameCase, SamePath, SameStops, SameCut
  <2> QED BY <1>5, <1>6, <1>8, <2>2, Phases DEF ContainerInv, SwapPc
<1>9. CASE op'.pc = "failed"
  BY <1>2, <1>3, <1>7, <1>9, <1>5, <1>6, Phases DEF FailedOk, Moved, SameCase, SamePath,
         SameStops, SameCut, ContainerInv
<1> QED BY <1>3, <1>8, <1>9

LEMMA VerifyInv == ASSUME ContainerInv, Verify, UNCHANGED spent PROVE ContainerInv'
<1>1. op.pc = "verify" /\ UNCHANGED <<inputs, disk, images, mem, cancel, spent>> /\ (UNCHANGED faults \/ Fail)
  BY DEF Verify, At
<1>2. /\ op.txn => op.oldStopped /\ ~op.stopAborted /\ ~op.swapCut /\ Way /\ ~op.recreate
      /\ ~op.txn => ~op.recreate /\ ~op.stopAborted /\ (op.light => op.fellBack) /\ row \in {"building", "verifying"}
      /\ NewOk
  BY <1>1, SwapFacts
<1>3. op \in OpRow /\ {"finalize", "cDown"} \subseteq Pcs /\ "failed" \in Outs /\ "failed" \in Status
      /\ mem \in Manifest /\ latest # NoImg /\ gen # NoGen
  BY <1>1 DEF ContainerInv, Types, TypeOK, Pcs, HostPc, CompPc, Outs, Status, Roots
<1>4. CASE Works(box) /\ Goto("finalize") /\ UNCHANGED <<box, man, row>>
  <2>1. Moved /\ SamePath /\ SameStops /\ SameCut /\ SameLuck /\ op'.pc = "finalize"
    BY <1>3, <1>4, Goes
  <2>2. Types'
    BY <1>1, <1>4, <2>1, Faulty DEF ContainerInv, Types, TypeOK, Moved, HostPc, inputs, disk, images
  <2>3. Roots' /\ Flags'
    BY <1>1, <1>3, <1>4, <2>1, RootsStay DEF ContainerInv, Flags, Moved, SameCase, SamePath, disk, images, StartPc
  <2>4. op.txn => Way'
    BY <1>1, <1>2, <2>1 DEF Way, Kept, Old, Moved, SameCase, SamePath, SameCut, SameLuck, disk, images, ServedSoFar, Served
  <2>5. NewOk'
    BY <1>1, <1>2, <1>4, <2>1 DEF NewOk, SameLuck, inputs, Works, Running
  <2>6. HostOk'
    BY <1>2, <1>4, <2>1, <2>4, <2>5 DEF HostOk, TxnOk, SwapOk, PlainOk, TxnOnly, PlainOnly, TxnPc, SwapPc, PlainPc,
         Moved, SameCase, SamePath, SameStops, SameCut
  <2> QED BY <2>1, <2>2, <2>3, <2>6, Phases DEF ContainerInv, SwapPc
<1>5. CASE op.txn /\ Goto("cDown") /\ UNCHANGED <<box, man, row>>
  <2>1. Moved /\ SamePath /\ SameStops /\ SameCut /\ SameLuck /\ op'.pc = "cDown"
    BY <1>3, <1>5, Goes
  <2>2. Types'
    BY <1>1, <1>5, <2>1, Faulty DEF ContainerInv, Types, TypeOK, Moved, CompPc, inputs, disk, images
  <2>3. Roots' /\ Flags'
    BY <1>1, <1>5, <2>1, RootsStay DEF ContainerInv, Flags, Moved, SameCase, SamePath, disk, images, StartPc
  <2>4. Way'
    BY <1>1, <1>2, <1>5, <2>1 DEF Way, Kept, Old, Moved, SameCase, SamePath, SameCut, SameLuck, disk, images, ServedSoFar, Served
  <2>5. CompOk'
    BY <1>2, <1>5, <2>1, <2>4 DEF CompOk, SamePath, SameCut
  <2> QED BY <2>1, <2>2, <2>3, <2>5, Phases DEF ContainerInv, CompPc
<1>6. CASE /\ ~op.txn /\ MarkFailed(mem) /\ End("failed")
           /\ box' \in (IF Running /\ Killed THEN HalfDown ELSE IF Running THEN {NoBox} ELSE {box})
  <2>1. Moved /\ SamePath /\ SameStops /\ SameCut /\ SameLuck /\ op'.pc = "ended" /\ op'.out = "failed"
    BY <1>3, <1>6, Ends
  <2>2. /\ man' \in Manifest /\ man'.id = mem.id /\ man'.img = mem.img /\ row' = "failed"
        /\ box' \in Box
    BY <1>3, <1>6, Says, Boxes DEF ContainerInv, Types, TypeOK, Box, MarkFailed
  <2>3. Types'
    BY <1>1, <1>6, <2>1, <2>2, Faulty DEF ContainerInv, Types, TypeOK, Moved, inputs, disk, images, Box, Status
  <2>4. Roots' /\ Flags'
    BY <1>1, <1>6, <2>1, <2>2 DEF ContainerInv, Roots, Rooted, Flags, Old, Moved, SameCase, SamePath, disk, images, StartPc
  <2>5. EndedOk'
    BY <1>2, <1>6, <2>1, <2>2, EndsFailed
  <2> QED BY <2>1, <2>3, <2>4, <2>5, Phases DEF ContainerInv
<1> QED BY <1>4, <1>5, <1>6 DEF Verify

LEMMA FinalizeInv == ASSUME ContainerInv, Finalize, UNCHANGED spent PROVE ContainerInv'
<1>1. /\ op.pc = "finalize" /\ UNCHANGED <<inputs, gen, snap, images, box, cancel, spent>> /\ (UNCHANGED faults \/ Fail)
      /\ mem' = [mem EXCEPT !.fp = Fingerprint(mem), !.status = "running"]
      /\ goodEnv' \in {goodEnv, env} /\ man' \in {man, mem'} /\ row' \in {row, "running"}
  BY DEF Finalize, At, FailTo
<1>2. /\ op.txn => op.oldStopped /\ ~op.stopAborted /\ ~op.swapCut /\ Way /\ ~op.recreate
      /\ ~op.txn => ~op.recreate /\ ~op.stopAborted /\ (op.light => op.fellBack) /\ row \in {"building", "verifying"}
      /\ NewOk
  BY <1>1, SwapFacts
<1>3. /\ Moved /\ SamePath /\ SameStops /\ SameCut /\ SameLuck
      /\ \/ op'.pc = "ended" /\ op'.out = "deployed"
         \/ op'.pc = "failed" /\ goodEnv' = env
  BY Goes, Ends DEF Finalize, FailTo, ContainerInv, Types, Pcs, HostPc, Outs
<1>4. mem' \in Manifest /\ mem'.id = mem.id /\ mem'.img = mem.img
  BY <1>1 DEF ContainerInv, Types, TypeOK, Status, Fingerprint, Prints, Manifest
<1>5. Types'
  BY <1>1, <1>3, <1>4, Faulty, FilesExist DEF ContainerInv, Types, TypeOK, Moved, HostPc, inputs, images, Status
<1>6. Roots' /\ Flags'
  BY <1>1, <1>3, <1>4 DEF ContainerInv, Roots, Rooted, Flags, Old, Moved, SameCase, SamePath, images, StartPc
<1>7. CASE op'.pc = "ended" /\ op'.out = "deployed"
  BY <1>1, <1>2, <1>3, <1>7, <1>5, <1>6, Phases DEF ServiceSurvives, NoSplit, NewOk, SameLuck,
         Works, Running, EndedOk, KeptWhole, RestoredWhole, ContainerInv
<1>8. CASE op'.pc = "failed" /\ goodEnv' = env
  <2>1. op.calm => env \notin Bad
    BY <1>1, <1>2 DEF NewOk, Works
  <2>2. op.txn => Way'
    BY <1>1, <1>2, <1>3, <1>8, <2>1, FilesExist DEF Way, Kept, Old, Moved, SameCase, SamePath, SameCut, SameLuck, images, ServedSoFar, Served
  <2>3. FailedOk'
    BY <1>2, <1>3, <1>8, <2>2 DEF FailedOk, Moved, SameCase, SamePath, SameStops, SameCut
  <2> QED BY <1>5, <1>6, <1>8, <2>3, Phases DEF ContainerInv
<1> QED BY <1>3, <1>7, <1>8

LEMMA KeepOldInv == ASSUME ContainerInv, KeepOld, UNCHANGED spent PROVE ContainerInv'
<1>1. /\ op.pc = "failed" /\ (op.stopAborted \/ (op.txn /\ ~op.oldStopped))
      /\ UNCHANGED <<inputs, snap, goodEnv, images, box, man, mem, cancel, faults, spent>>
      /\ gen' = (IF op.txn THEN Restored ELSE gen) /\ row' = mem.status
  BY DEF KeepOld, At
<1>2. Moved /\ SamePath /\ SameStops /\ SameCut /\ SameLuck /\ op'.pc = "ended" /\ op'.out = "kept"
  BY Ends DEF KeepOld, ContainerInv, Types, Outs
<1>3. /\ op.txn \/ (~op.recreate /\ (op.light => op.fellBack))
      /\ man = Old.man /\ mem = Old.man /\ SameBox /\ Kept(IF op.txn THEN Restored ELSE gen)
  BY <1>1 DEF ContainerInv, FailedOk
<1>4. gen' \in Render /\ (gen # NoGen => gen' # NoGen) /\ row' \in Status
  BY <1>1 DEF ContainerInv, Types, TypeOK, Restored, Manifest
<1>5. Types'
  BY <1>1, <1>2, <1>4 DEF ContainerInv, Types, TypeOK, Moved, inputs, images
<1>6. Roots' /\ Flags'
  BY <1>1, <1>2, <1>4 DEF ContainerInv, Roots, Rooted, Flags, Old, Moved, SameCase, SamePath, images, StartPc
<1>7. EndedOk'
  <2>1. KeptWhole'
    BY <1>1, <1>2, <1>3 DEF KeptWhole, Kept, Old, Moved, SameCase, SamePath, SameStops
  <2>2. ServiceSurvives'
    BY <1>2, <1>1, <1>3 DEF ServiceSurvives, Served, Old, Moved, SameCase, SameLuck, SameBox,
           Works
  <2>3. NoSplit'
    BY <1>1, <1>2, <1>3 DEF NoSplit, SameBox, Old, Running, SameLuck
  <2> QED BY <1>2, <2>1, <2>2, <2>3 DEF EndedOk, RestoredWhole
<1> QED BY <1>2, <1>5, <1>6, <1>7, Phases DEF ContainerInv

LEMMA CompensateInv == ASSUME ContainerInv, Compensate, UNCHANGED spent PROVE ContainerInv'
<1>1. /\ op.pc = "failed" /\ op.txn /\ op.oldStopped
      /\ UNCHANGED <<inputs, disk, images, box, man, row, mem, cancel, faults, spent>>
  BY DEF Compensate, At
<1>2. Moved /\ SamePath /\ SameStops /\ SameCut /\ SameLuck /\ op'.pc = "cDown"
  BY Goes DEF Compensate, ContainerInv, Types, Pcs, CompPc
<1>3. Way /\ ~op.swapCut
  BY <1>1 DEF ContainerInv, FailedOk
<1>4. Types'
  BY <1>1, <1>2 DEF ContainerInv, Types, TypeOK, Moved, CompPc, inputs, disk, images
<1>5. Roots' /\ Flags'
  BY <1>1, <1>2, RootsStay DEF ContainerInv, Flags, Moved, SameCase, SamePath, disk, images, StartPc
<1>6. Way'
  BY <1>1, <1>2, <1>3 DEF Way, Kept, Old, Moved, SameCase, SamePath, SameCut, SameLuck, disk, images, ServedSoFar, Served
<1>7. CompOk'
  BY <1>1, <1>2, <1>3, <1>6 DEF CompOk, SamePath, SameCut
<1> QED BY <1>2, <1>4, <1>5, <1>7, Phases DEF ContainerInv, CompPc

LEMMA GiveUpInv == ASSUME ContainerInv, GiveUp, UNCHANGED spent PROVE ContainerInv'
<1>1. /\ op.pc = "failed" /\ ~op.stopAborted /\ ~op.txn
      /\ UNCHANGED <<inputs, disk, images, mem, cancel, faults, spent>>
      /\ man' = [mem EXCEPT !.status = "failed"] /\ row' = "failed"
  BY DEF GiveUp, At, MarkFailed
<1>2. Moved /\ SamePath /\ SameStops /\ SameCut /\ SameLuck /\ op'.pc = "ended" /\ op'.out = "failed"
  BY Ends DEF GiveUp, ContainerInv, Types, Outs
<1>3. ~op.recreate /\ (op.light => op.fellBack)
  BY <1>1 DEF ContainerInv, FailedOk
<1>4. /\ box' \in Box /\ man' \in Manifest /\ man'.id = mem.id /\ man'.img = mem.img
  BY Boxes, <1>1, Says DEF ContainerInv, Types, TypeOK, Box, Status, GiveUp
<1>5. Types'
  BY <1>1, <1>2, <1>4 DEF ContainerInv, Types, TypeOK, Moved, inputs, disk, images, Status, Box
<1>6. Roots' /\ Flags'
  BY <1>1, <1>2, <1>4 DEF ContainerInv, Roots, Rooted, Flags, Old, Moved, SameCase, SamePath, disk, images, StartPc
<1>7. EndedOk'
  BY <1>1, <1>2, <1>3, EndsFailed
<1> QED BY <1>2, <1>5, <1>6, <1>7, Phases DEF ContainerInv

LEMMA CancelledInv == ASSUME ContainerInv, Cancelled, UNCHANGED spent PROVE ContainerInv'
<1>1. /\ op.pc = "cancelled" /\ UNCHANGED <<inputs, snap, goodEnv, images, box, row, mem, cancel, faults, spent>>
      /\ gen' = (IF op.txn /\ ~op.oldStopped THEN Restored ELSE gen) /\ man' = mem
  BY DEF Cancelled, At
<1>2. Moved /\ SamePath /\ SameStops /\ SameCut /\ SameLuck /\ op'.pc = "ended" /\ op'.out = "cancelled"
  BY Ends DEF Cancelled, ContainerInv, Types, Outs
<1>3. /\ op.txn \/ (~op.recreate /\ (op.light => op.fellBack))
      /\ op.txn /\ ~op.oldStopped => man = Old.man /\ mem = Old.man /\ row = Old.row /\ Kept(Restored)
      /\ op.txn /\ ~op.swapCut => ~op.oldStopped /\ SameBox
  BY <1>1 DEF ContainerInv, CancelledOk
<1>4. gen' \in Render /\ (gen # NoGen => gen' # NoGen)
  BY <1>1 DEF ContainerInv, Types, TypeOK, Restored
<1>5. Types'
  BY <1>1, <1>2, <1>4 DEF ContainerInv, Types, TypeOK, Moved, inputs, images
<1>6. Roots' /\ Flags'
  BY <1>1, <1>2, <1>4 DEF ContainerInv, Roots, Rooted, Flags, Old, Moved, SameCase, SamePath, images, StartPc
<1>7. EndedOk'
  <2>1. KeptWhole'
    BY <1>1, <1>2, <1>3 DEF KeptWhole, Kept, Old, Moved, SameCase, SamePath, SameStops
  <2>2. ServiceSurvives'
    BY <1>2, <1>3, <1>1 DEF ServiceSurvives, Served, Old, Moved, SameCase, SamePath, SameCut,
           SameLuck, SameBox, Works
  <2> QED BY <1>2, <2>1, <2>2 DEF EndedOk, RestoredWhole, NoSplit
<1> QED BY <1>2, <1>5, <1>6, <1>7, Phases DEF ContainerInv

LEMMA HostStepInv == ASSUME ContainerInv, HostStep, UNCHANGED spent PROVE ContainerInv'
  BY CompDownInv, CompRestoreInv, CompTagInv, CompUpInv, CompSettleInv, CompGiveUpInv, RefuseInv, BeginInv,
     SnapshotInv, TagInv, StopOldInv, SwapStopInv, ClearIdentityInv, RenderInv, BuildInv, UpInv, ObserveInv,
     CommitInv, VerifyInv, FinalizeInv, KeepOldInv, CompensateInv, GiveUpInv, CancelledInv DEF HostStep

----------------------------------------------------------------------------
(* The entry and the decision                                               *)

LEMMA Blank == NoOp \in OpRow
BY DEF NoOp, OldRow, NoPrint, NoBox, Render, Record, Image, Manifest, Status, OpRow, Kinds, Outs

LEMMA Spends ==
    ASSUME spent \in [op : Nat, edit : Nat, upset : Nat], NEW what \in {"op", "edit", "upset"}, Spend(what)
    PROVE  spent' \in [op : Nat, edit : Nat, upset : Nat]
  BY DEF Spend

LEMMA EnterInv ==
    ASSUME ContainerInv, NEW k \in Kinds, NEW p \in {"preflight", "decide", "stop"},
           NEW q \in BOOLEAN, NEW f \in BOOLEAN, Enter(k, p, q, f),
           p = "decide" => man.id, f => ~man.id
    PROVE  ContainerInv'
<1>1. /\ op.pc = "idle" /\ UNCHANGED <<inputs, disk, images, box, man, row, faults>>
      /\ mem' = man /\ cancel' = FALSE /\ Spend("op")
  BY DEF Enter, At
<1>2. PICK s \in BOOLEAN : s = ("running" \in {row, man.status} => Running)
  OBVIOUS
<1>3. op' = [NoOp EXCEPT !.pc = p, !.kind = k, !.queued = q, !.first = f, !.old = Before, !.quiet = s]
  BY <1>2 DEF Enter
<1>4. Before \in OldRow
  BY DEF Before, OldRow, ContainerInv, Types, TypeOK
<1>5. /\ op' \in OpRow /\ op'.pc = p /\ op'.first = f /\ op'.old = Before /\ op'.quiet = s
      /\ ~op'.txn /\ ~op'.recreate /\ ~op'.light /\ ~op'.fellBack
      /\ ~op'.oldStopped /\ ~op'.stopAborted /\ ~op'.swapCut
  <2>1. NoOp \in OpRow /\ p \in Pcs
    BY Blank DEF Pcs, HostPc, StartPc
  <2>2. op' \in OpRow
    <3> DEFINE a == [NoOp EXCEPT !.pc = p, !.kind = k, !.queued = q]
               b == [a EXCEPT !.first = f, !.old = Before, !.quiet = s]
    <3>1. a \in OpRow
      BY <2>1 DEF OpRow, Pcs
    <3>2. b \in OpRow
      BY <1>4, <3>1 DEF OpRow
    <3> QED BY <1>3, <3>2
  <2>3. /\ op'.pc = p /\ op'.first = f /\ op'.old = Before /\ op'.quiet = s /\ op'.txn = NoOp.txn
        /\ op'.recreate = NoOp.recreate /\ op'.light = NoOp.light /\ op'.fellBack = NoOp.fellBack
        /\ op'.oldStopped = NoOp.oldStopped /\ op'.stopAborted = NoOp.stopAborted /\ op'.swapCut = NoOp.swapCut
    BY <1>3, <2>1 DEF OpRow
  <2> QED BY <2>2, <2>3 DEF NoOp
<1>6. Types'
  BY <1>1, Spends, <1>5 DEF ContainerInv, Types, TypeOK, inputs, disk, images, HostPc, StartPc
<1>7. Roots' /\ Flags'
  BY <1>1, <1>5 DEF ContainerInv, Roots, Rooted, Flags, Old, Before, disk, images, StartPc
<1>8. EarlyOk'
  <2>1. /\ op'.old.box = box /\ op'.old.gen = gen /\ op'.old.man = man /\ op'.old.row = row
        /\ op'.old.good = goodEnv /\ op'.old.latest = latest
    BY <1>5 DEF Before
  <2>2. SameBox'
    BY <1>1, <1>2, <1>5, <2>1 DEF SameBox, Old, Running
  <2>3. Untouched' /\ Kept(gen)'
    BY <1>1, <2>1 DEF Untouched, Kept, Old, disk, images
  <2> QED BY <1>1, <1>5, <2>1, <2>2, <2>3 DEF EarlyOk, Early, Old, disk
<1>9. CASE p \in {"preflight", "decide"}
  BY <1>5, <1>6, <1>7, <1>8, <1>9, Phases DEF ContainerInv, Early
<1>10. CASE p = "stop"
  BY <1>5, <1>6, <1>7, <1>8, <1>10, Phases DEF ContainerInv
<1> QED BY <1>9, <1>10

LEMMA EntersInv ==
    ASSUME ContainerInv, RebuildInstance \/ StartInstance \/ RestartInstance \/ StopInstance
    PROVE  ContainerInv'
BY EnterInv DEF RebuildInstance, Kinds, StartInstance, RestartInstance, StopInstance

(* An exception that nothing handles promises nothing.                      *)
LEMMA AbandonedInv ==
    ASSUME ContainerInv, Abandon, Types', Rooted(man)', Rooted(mem)',
           Old.man.id => gen' # NoGen /\ latest' # NoImg
    PROVE  ContainerInv'
<1>1. /\ Moved /\ op'.pc = "ended" /\ op'.out = "error" /\ ~op'.calm /\ ~op'.quiet
      /\ SamePath /\ SameStops /\ SameCut
  BY Abandons DEF ContainerInv, Types
<1>2. Roots' /\ Flags'
  BY <1>1 DEF ContainerInv, Roots, Rooted, Flags, Old, Moved, SameCase, SamePath, StartPc
<1>3. EndedOk'
  BY <1>1 DEF EndedOk, ServiceSurvives, KeptWhole, RestoredWhole, NoSplit
<1> QED BY <1>1, <1>2, <1>3, Phases DEF ContainerInv

LEMMA SnapshotForDecisionInv == ASSUME ContainerInv, SnapshotForDecision PROVE ContainerInv'
<1>1. op.pc = "decide" /\ UNCHANGED <<inputs, gen, goodEnv, images, box, man, row, mem, cancel, spent>>
  BY DEF SnapshotForDecision, At
<1>2. CASE snap' = gen /\ Goto("converge") /\ UNCHANGED faults
  <2>1. Moved /\ SamePath /\ SameStops /\ SameCut /\ SameLuck /\ op'.pc = "converge"
    BY <1>2, Goes DEF ContainerInv, Types, Pcs, StartPc
  <2>2. Types'
    BY <1>1, <1>2, <2>1 DEF ContainerInv, Types, TypeOK, Moved, StartPc, inputs, images
  <2>3. Roots' /\ Flags'
    BY <1>1, <1>2, <2>1 DEF ContainerInv, Roots, Rooted, Flags, Old, Moved, SameCase, SamePath, images, StartPc
  <2>4. EarlyOk'
    BY <1>1, <1>2, <2>1 DEF ContainerInv, EarlyOk, Early, Untouched, SameBox, Kept, Old, Running, images,
       Moved, SameCase, SamePath, SameStops, SameCut, SameLuck
  <2> QED BY <2>1, <2>2, <2>3, <2>4, Phases DEF ContainerInv, Early
<1>3. CASE snap' = NoGen /\ Abandon
  BY <1>1, <1>3, Abandons, Faulty, AbandonedInv DEF ContainerInv, Types, TypeOK, Moved, Abandon,
         inputs, images, Render, Roots, Rooted
<1> QED BY <1>2, <1>3 DEF SnapshotForDecision

LEMMA ConvergeInv == ASSUME ContainerInv, Converge PROVE ContainerInv'
<1>1. op.pc = "converge" /\ UNCHANGED <<inputs, snap, goodEnv, images, box, man, row, mem, cancel, spent>>
  BY DEF Converge, At
<1>2. /\ ~op.txn /\ ~op.recreate /\ ~op.oldStopped /\ ~op.stopAborted /\ ~op.swapCut /\ ~op.light /\ ~op.fellBack
      /\ Untouched /\ SameBox /\ goodEnv = Old.good /\ snap = Old.gen /\ gen = Old.gen /\ Old.man.id
  BY <1>1 DEF ContainerInv, EarlyOk, Early, Roots, StartPc
<1>3. op \in OpRow /\ cfg # NoGen /\ cfg \in Render /\ gen \in Render /\ gen # NoGen
  BY <1>2, FilesExist DEF ContainerInv, Types, TypeOK, Roots
<1>4. PICK start \in BOOLEAN : start = (op.kind = "start")
  OBVIOUS
<1>5. CASE Decision = "full_rebuild" /\ gen' = Restored /\ UNCHANGED faults
           /\ op' = [op EXCEPT !.pc = "preflight", !.queued = start]
  <2>1. /\ op' \in OpRow /\ op'.pc = "preflight" /\ op'.old = op.old /\ op'.first = op.first
        /\ op'.recreate = op.recreate /\ SamePath /\ SameStops /\ SameCut /\ SameLuck
    BY <1>3, <1>5 DEF OpRow, SamePath, SameStops, SameCut, SameLuck, HostPc
  <2>2. gen' = gen
    BY <1>2, <1>5 DEF Restored
  <2>3. Types'
    BY <1>1, <1>5, <2>1, <2>2 DEF ContainerInv, Types, TypeOK, HostPc, inputs, images
  <2>4. Roots' /\ Flags'
    BY <1>1, <1>5, <2>1, <2>2 DEF ContainerInv, Roots, Rooted, Flags, Old, SamePath, images, StartPc
  <2>5. EarlyOk'
    BY <1>1, <1>2, <2>1, <2>2 DEF EarlyOk, Early, Untouched, SameBox, Kept, Old, Running, images,
       SamePath, SameStops, SameCut, SameLuck
  <2> QED BY <2>1, <2>3, <2>4, <2>5, Phases DEF ContainerInv, Early
<1>6. CASE Decision = "runtime_recreate" /\ gen' = cfg /\ Goto("rReady") /\ UNCHANGED faults
  <2>1. Moved /\ SamePath /\ SameStops /\ SameCut /\ SameLuck /\ op'.pc = "rReady"
    BY <1>3, <1>6, Goes DEF Pcs, StartPc
  <2>2. Types'
    BY <1>1, <1>3, <1>6, <2>1 DEF ContainerInv, Types, TypeOK, Moved, StartPc, inputs, images
  <2>3. Roots' /\ Flags'
    BY <1>1, <1>3, <1>6, <2>1 DEF ContainerInv, Roots, Rooted, Flags, Old, Moved, SameCase, SamePath, images, StartPc
  <2>4. EarlyOk'
    BY <1>1, <1>2, <2>1 DEF EarlyOk, Early, Untouched, SameBox, Kept, Old, Running, images,
       Moved, SameCase, SamePath, SameStops, SameCut, SameLuck
  <2> QED BY <2>1, <2>2, <2>3, <2>4, Phases DEF ContainerInv, Early
<1>7. CASE Decision = "none" /\ gen' = cfg /\ UNCHANGED faults
           /\ op' = [op EXCEPT !.light = TRUE, !.pc = IF op.kind = "restart" THEN "lStop" ELSE "light"]
  <2>1. /\ Moved /\ op'.pc \in {"lStop", "light"} /\ op'.light /\ ~op'.txn /\ ~op'.fellBack
        /\ SameStops /\ SameCut /\ SameLuck
    BY <1>2, <1>3, <1>7 DEF OpRow, Moved, SameCase, SameStops, SameCut, SameLuck, StartPc
  <2>2. Types'
    BY <1>1, <1>3, <1>7, <2>1 DEF ContainerInv, Types, TypeOK, Moved, StartPc, inputs, images
  <2>3. Roots' /\ Flags'
    BY <1>1, <1>2, <1>3, <1>7, <2>1 DEF ContainerInv, Roots, Rooted, Flags, Old, Moved, SameCase, images, StartPc
  <2>4. EarlyOk'
    BY <1>1, <1>2, <2>1 DEF EarlyOk, Early, Untouched, SameBox, Kept, Old, Running, images,
       Moved, SameCase, SameStops, SameCut, SameLuck
  <2> QED BY <2>1, <2>2, <2>3, <2>4, Phases DEF ContainerInv, Early
<1>8. CASE gen' \in {gen, cfg} /\ Abandon
  BY <1>1, <1>3, <1>8, Abandons, Faulty, AbandonedInv DEF ContainerInv, Types, TypeOK, Moved,
         Abandon, inputs, images, Roots, Rooted
<1> QED BY <1>4, <1>5, <1>6, <1>7, <1>8 DEF Converge

----------------------------------------------------------------------------
(* The light start                                                          *)

LEMMA HaltsInv == ASSUME ContainerInv, HaltOld("lStop", "light") PROVE ContainerInv'
<1>1. op.pc = "lStop" /\ UNCHANGED <<inputs, disk, images, man, row, mem, cancel, spent>> /\ (UNCHANGED faults \/ Fail)
      /\ box' \in {box, Halted}
  BY DEF HaltOld, At, Abandon
<1>2. /\ ~op.txn /\ ~op.recreate /\ ~op.oldStopped /\ ~op.stopAborted /\ ~op.swapCut /\ op.light /\ ~op.fellBack
      /\ Untouched /\ SameBox /\ goodEnv = Old.good /\ Old.man.id
  BY <1>1 DEF ContainerInv, EarlyOk, Early, Roots, StartPc
<1>3. box' \in Box
  BY <1>1, Boxes DEF ContainerInv, Types, TypeOK, Box
<1>4. CASE box' = Halted /\ Goto("light")
  <2>1. Moved /\ SamePath /\ SameStops /\ SameCut /\ SameLuck /\ op'.pc = "light"
    BY <1>4, Goes DEF ContainerInv, Types, Pcs, StartPc
  <2>2. Types'
    BY <1>1, <1>3, <2>1, Faulty DEF ContainerInv, Types, TypeOK, Moved, StartPc, inputs, disk, images, Box
  <2>3. Roots' /\ Flags'
    BY <1>1, <1>2, <2>1 DEF ContainerInv, Roots, Rooted, Flags, Old, Moved, SameCase, SamePath, disk, images, StartPc
  <2>4. EarlyOk'
    <3>1. Untouched' /\ goodEnv' = op'.old.good
      BY <1>1, <1>2, <2>1 DEF Untouched, Old, Moved, SameCase, disk, images
    <3>2. op'.calm => box' \in {op'.old.box, [op'.old.box EXCEPT !.st = "stopped"]}
      BY <1>2, <1>4, <2>1 DEF SameBox, Old, Halted, Moved, SameCase, SameLuck
    <3>3. op'.quiet /\ "running" \in {op'.old.row, op'.old.man.status} => box'.st # "none"
      BY <1>2, <1>4, <2>1 DEF Running, ContainerInv, Types, TypeOK, NoBox, Halted, Container,
             SameBox, Old, Moved, SameCase, SameLuck
    <3> QED BY <1>1, <1>2, <2>1, <3>1, <3>2, <3>3 DEF EarlyOk, Early, SamePath, SameStops, SameCut, Moved, SameCase, Old
  <2> QED BY <2>1, <2>2, <2>3, <2>4, Phases DEF ContainerInv, Early
<1>5. CASE Abandon
  BY <1>1, <1>3, <1>5, Abandons, Faulty, AbandonedInv DEF ContainerInv, Types, TypeOK, Moved,
         inputs, disk, images, Box, Roots, Rooted
<1> QED BY <1>4, <1>5 DEF HaltOld

LEMMA StopInv == ASSUME ContainerInv, StopContainer PROVE ContainerInv'
<1>1. op.pc = "stop" /\ UNCHANGED <<inputs, disk, images, cancel, spent>> /\ (UNCHANGED faults \/ Fail)
      /\ box' \in {box, Halted}
  BY DEF StopContainer, At, Abandon
<1>2. ~op.txn /\ ~op.recreate /\ ~op.light
  BY <1>1 DEF ContainerInv, Flags
<1>3. box' \in Box
  BY <1>1, Boxes DEF ContainerInv, Types, TypeOK, Box
<1>4. CASE /\ mem' = [mem EXCEPT !.status = "stopped"] /\ man' = mem' /\ row' = "stopped" /\ End("stopped")
  <2>1. Moved /\ SamePath /\ SameStops /\ SameCut /\ SameLuck /\ op'.pc = "ended" /\ op'.out = "stopped"
    BY <1>4, Ends DEF ContainerInv, Types, Outs
  <2>2. mem' \in Manifest /\ mem'.id = mem.id /\ mem'.img = mem.img
    BY <1>4, Says DEF ContainerInv, Types, TypeOK, Status
  <2>3. Types'
    BY <1>1, <1>3, <1>4, <2>1, <2>2, Faulty DEF ContainerInv, Types, TypeOK, Moved, inputs, disk, images, Box, Status
  <2>4. Roots' /\ Flags'
    BY <1>1, <1>2, <1>4, <2>1, <2>2 DEF ContainerInv, Roots, Rooted, Flags, Old, Moved, SameCase, SamePath, disk, images, StartPc
  <2>5. EndedOk'
    BY <1>2, <1>4, <2>1 DEF EndedOk, ServiceSurvives, KeptWhole, RestoredWhole, NoSplit, SamePath, Moved, SameCase
  <2> QED BY <2>1, <2>3, <2>4, <2>5, Phases DEF ContainerInv
<1>5. CASE Abandon /\ UNCHANGED <<man, row, mem>>
  BY <1>1, <1>3, <1>5, Abandons, Faulty, AbandonedInv DEF ContainerInv, Types, TypeOK, Moved,
         inputs, disk, images, Box, Roots, Rooted
<1> QED BY <1>4, <1>5 DEF StopContainer

(* What is running was built and rendered.                                  *)
LEMMA Observed ==
    ASSUME ContainerInv, NEW m \in Manifest, box.st # "none", NEW n, n = [m EXCEPT !.id = TRUE, !.img = box.img]
    PROVE  n \in Manifest /\ n.img = box.img /\ n.img # NoImg
<1>1. box.img \in Image /\ box.img # NoImg
  BY DeployAssumption DEF ContainerInv, Types, TypeOK, Container, NoBox, Image
<1> QED BY <1>1 DEF Manifest

LEMMA LightStartInv == ASSUME ContainerInv, LightStart PROVE ContainerInv'
<1>1. op.pc = "light" /\ UNCHANGED <<inputs, disk, images, man, row, cancel, spent>> /\ (UNCHANGED faults \/ Fail)
  BY DEF LightStart, At, Abandon
<1>2. /\ ~op.txn /\ ~op.recreate /\ ~op.oldStopped /\ ~op.stopAborted /\ ~op.swapCut /\ op.light /\ ~op.fellBack
      /\ Untouched /\ goodEnv = Old.good /\ Old.man.id
      /\ op.calm => box \in {Old.box, [Old.box EXCEPT !.st = "stopped"]}
      /\ op.quiet /\ "running" \in {Old.row, Old.man.status} => box.st # "none"
  BY <1>1 DEF ContainerInv, EarlyOk, Early, Roots, StartPc
<1>3. op \in OpRow /\ {"lCommit", "lClear"} \subseteq Pcs /\ mem \in Manifest /\ Old.box \in Box
  BY DEF ContainerInv, Types, TypeOK, Pcs, StartPc, OpRow, OldRow, Old, Box
<1>4. Served => Old.box \in Container /\ Old.box.st = "running"
  BY <1>3 DEF Served, Works, Old, Box, NoBox
<1>5. CASE /\ box.st # "none" /\ box' = [box EXCEPT !.st = "running"]
           /\ mem' = [mem EXCEPT !.id = TRUE, !.img = box.img] /\ Goto("lCommit")
  <2>1. Moved /\ SamePath /\ SameStops /\ SameCut /\ SameLuck /\ op'.pc = "lCommit"
    BY <1>3, <1>5, Goes
  <2>2. box' \in Container
    BY <1>5, Boxes DEF ContainerInv
  <2>3. mem' \in Manifest /\ mem'.img # NoImg
    BY <1>3, <1>5, Observed
  <2>4. Types'
    BY <1>1, <2>1, <2>2, <2>3, Faulty DEF ContainerInv, Types, TypeOK, Moved, StartPc, inputs, disk, images
  <2>5. Roots' /\ Flags'
    BY <1>1, <1>2, <2>1, <2>3 DEF ContainerInv, Roots, Rooted, Flags, Old, Moved, SameCase, SamePath, disk, images, StartPc
  <2>6. LightOk'
    BY <2>1, <1>2, <1>4, <1>5 DEF ServedSoFar, Served, Old, Moved, SameCase, SamePath, SameCut,
           SameLuck, Container, Works, LightOk, LightPc
  <2> QED BY <2>1, <2>4, <2>5, <2>6, Phases DEF ContainerInv, LightPc
<1>6. CASE Abandon /\ UNCHANGED <<box, mem>>
  BY <1>1, <1>6, Abandons, Faulty, AbandonedInv DEF ContainerInv, Types, TypeOK, Moved, inputs,
         disk, images, Roots, Rooted
<1>7. CASE box.st = "none" /\ Goto("lClear") /\ UNCHANGED <<box, mem>>
  <2>1. Moved /\ SamePath /\ SameStops /\ SameCut /\ SameLuck /\ op'.pc = "lClear"
    BY <1>3, <1>7, Goes
  <2>2. Types'
    BY <1>1, <1>7, <2>1, Faulty DEF ContainerInv, Types, TypeOK, Moved, StartPc, inputs, disk, images
  <2>3. Roots' /\ Flags'
    BY <1>1, <1>2, <1>7, <2>1 DEF ContainerInv, Roots, Rooted, Flags, Old, Moved, SameCase, SamePath, disk, images, StartPc
  <2>4. LightOk'
    BY <2>1, <1>2, <1>4, <1>7 DEF ServedSoFar, Served, Old, Moved, SameCase, SamePath, SameCut,
           SameLuck, Container, LightOk, LightPc
  <2> QED BY <2>1, <2>2, <2>3, <2>4, Phases DEF ContainerInv, LightPc
<1>8. CASE /\ box.st = "none" /\ UNCHANGED <<box, mem>> /\ op' = [op EXCEPT !.pc = "preflight", !.fellBack = TRUE]
  <2>1. /\ Moved /\ op'.pc = "preflight" /\ op'.fellBack /\ op'.txn = op.txn /\ op'.light = op.light
        /\ SameStops /\ SameCut /\ SameLuck
    BY <1>3, <1>8 DEF OpRow, Moved, SameCase, SameStops, SameCut, SameLuck, HostPc
  <2>2. Types'
    BY <1>1, <1>8, <2>1, Faulty DEF ContainerInv, Types, TypeOK, Moved, HostPc, inputs, disk, images
  <2>3. Roots' /\ Flags'
    BY <1>1, <1>2, <1>8, <2>1 DEF ContainerInv, Roots, Rooted, Flags, Old, Moved, SameCase, disk, images, StartPc
  <2>4. EarlyOk'
    <3>1. op.calm => box = Old.box
      BY <1>8, <1>2, <1>3 DEF Container, NoBox, Box
    <3>2. SameBox' /\ Untouched' /\ Kept(gen)'
      BY <1>1, <1>2, <1>8, <2>1, <3>1 DEF SameBox, Untouched, Kept, Old, Moved, SameCase, SameLuck, disk, images
    <3> QED BY <1>1, <1>2, <2>1, <3>2 DEF EarlyOk, Early, SameStops, SameCut, Moved, SameCase
  <2> QED BY <2>1, <2>2, <2>3, <2>4, Phases DEF ContainerInv, Early
<1> QED BY <1>5, <1>6, <1>7, <1>8 DEF LightStart

LEMMA LightClearInv == ASSUME ContainerInv, ClearStale("lClear", "lUp") PROVE ContainerInv'
<1>1. /\ op.pc = "lClear" /\ UNCHANGED <<inputs, disk, images, box, row, cancel, spent>> /\ (UNCHANGED faults \/ Fail)
      /\ mem' = [mem EXCEPT !.id = FALSE, !.img = NoImg] /\ man' \in {man, mem'}
  BY DEF ClearStale, At, Abandon
<1>2. op.light /\ ~op.txn /\ ~op.recreate /\ ~ServedSoFar /\ Old.man.id
  BY <1>1 DEF ContainerInv, LightOk, LightPc, Roots, StartPc
<1>3. mem' \in Manifest /\ ~mem'.id /\ man' \in Manifest
  BY <1>1, Clears DEF ContainerInv, Types, TypeOK
<1>4. CASE Goto("lUp")
  <2>1. Moved /\ SamePath /\ SameStops /\ SameCut /\ SameLuck /\ op'.pc = "lUp"
    BY <1>4, Goes DEF ContainerInv, Types, Pcs, StartPc
  <2>2. Types'
    BY <1>1, <1>3, <2>1, Faulty DEF ContainerInv, Types, TypeOK, Moved, StartPc, inputs, disk, images
  <2>3. Roots' /\ Flags'
    BY <1>1, <1>2, <1>3, <2>1 DEF ContainerInv, Roots, Rooted, Flags, Old, Moved, SameCase, SamePath, disk, images, StartPc
  <2>4. LightOk'
    BY <1>2, <2>1 DEF LightOk, LightPc, ServedSoFar, Served, Old, Moved, SameCase, SamePath, SameCut, SameLuck
  <2> QED BY <2>1, <2>2, <2>3, <2>4, Phases DEF ContainerInv, LightPc
<1>5. CASE Abandon
  BY <1>1, <1>3, <1>5, Abandons, Faulty, AbandonedInv DEF ContainerInv, Types, TypeOK, Moved,
         inputs, disk, images, Roots, Rooted
<1> QED BY <1>4, <1>5 DEF ClearStale

LEMMA LightUpInv == ASSUME ContainerInv, LightUp PROVE ContainerInv'
<1>1. op.pc = "lUp" /\ UNCHANGED <<inputs, disk, images, man, row, mem, cancel, spent>> /\ (UNCHANGED faults \/ Fail)
  BY DEF LightUp, At, Abandon
<1>2. op.light /\ ~op.txn /\ ~op.recreate /\ ~ServedSoFar /\ Old.man.id
  BY <1>1 DEF ContainerInv, LightOk, LightPc, Roots, StartPc
<1>3. box' \in Box
  BY <1>2, Boxes DEF ContainerInv, Roots, Rooted, LightUp, Box
<1>4. CASE Goto("lObserve")
  <2>1. Moved /\ SamePath /\ SameStops /\ SameCut /\ SameLuck /\ op'.pc = "lObserve"
    BY <1>4, Goes DEF ContainerInv, Types, Pcs, StartPc
  <2>2. Types'
    BY <1>1, <1>3, <2>1, Faulty DEF ContainerInv, Types, TypeOK, Moved, StartPc, inputs, disk, images, Box
  <2>3. Roots' /\ Flags'
    BY <1>1, <1>2, <2>1 DEF ContainerInv, Roots, Rooted, Flags, Old, Moved, SameCase, SamePath, disk, images, StartPc
  <2>4. LightOk'
    BY <1>2, <2>1 DEF LightOk, LightPc, ServedSoFar, Served, Old, Moved, SameCase, SamePath, SameCut, SameLuck
  <2> QED BY <2>1, <2>2, <2>3, <2>4, Phases DEF ContainerInv, LightPc
<1>5. CASE Abandon
  BY <1>1, <1>3, <1>5, Abandons, Faulty, AbandonedInv DEF ContainerInv, Types, TypeOK, Moved,
         inputs, disk, images, Box, Roots, Rooted
<1> QED BY <1>4, <1>5 DEF LightUp

LEMMA LightObserveInv == ASSUME ContainerInv, LightObserve PROVE ContainerInv'
<1>1. op.pc = "lObserve" /\ UNCHANGED <<inputs, disk, images, cancel, spent>> /\ (UNCHANGED faults \/ Fail)
  BY DEF LightObserve, At
<1>2. op.light /\ ~op.txn /\ ~op.recreate /\ ~ServedSoFar /\ Old.man.id
  BY <1>1 DEF ContainerInv, LightOk, LightPc, Roots, StartPc
<1>3. mem \in Manifest /\ "failed" \in Status
  BY DEF ContainerInv, Types, TypeOK, Status
<1>4. CASE /\ Running /\ mem' = [mem EXCEPT !.id = TRUE, !.img = box.img] /\ Goto("lCommit")
           /\ UNCHANGED <<box, man, row>>
  <2>1. Moved /\ SamePath /\ SameStops /\ SameCut /\ SameLuck /\ op'.pc = "lCommit"
    BY <1>4, Goes DEF ContainerInv, Types, Pcs, StartPc
  <2>2. mem' \in Manifest /\ mem'.img # NoImg
    BY <1>3, <1>4, Observed DEF Running
  <2>3. Types'
    BY <1>1, <1>4, <2>1, <2>2, Faulty DEF ContainerInv, Types, TypeOK, Moved, StartPc, inputs, disk, images
  <2>4. Roots' /\ Flags'
    BY <1>1, <1>2, <1>4, <2>1, <2>2 DEF ContainerInv, Roots, Rooted, Flags, Old, Moved, SameCase, SamePath, disk, images, StartPc
  <2>5. LightOk'
    BY <1>2, <2>1 DEF LightOk, LightPc, ServedSoFar, Served, Old, Moved, SameCase, SamePath, SameCut, SameLuck
  <2> QED BY <2>1, <2>3, <2>4, <2>5, Phases DEF ContainerInv, LightPc
<1>5. CASE box' = NoBox /\ MarkFailed(mem) /\ End("failed") /\ UNCHANGED mem
  <2>1. Moved /\ SamePath /\ SameStops /\ SameCut /\ SameLuck /\ op'.pc = "ended" /\ op'.out = "failed"
    BY <1>5, Ends DEF ContainerInv, Types, Outs
  <2>2. man' \in Manifest /\ man'.id = mem.id /\ man'.img = mem.img /\ row' = "failed"
    BY <1>3, <1>5, Says DEF MarkFailed
  <2>3. Types'
    BY <1>1, <1>5, <2>1, <2>2, Faulty DEF ContainerInv, Types, TypeOK, Moved, inputs, disk, images, Status
  <2>4. Roots' /\ Flags'
    BY <1>1, <1>2, <1>5, <2>1, <2>2 DEF ContainerInv, Roots, Rooted, Flags, Old, Moved, SameCase, SamePath, disk, images, StartPc
  <2>5. EndedOk'
    BY <2>1, <1>2, <2>2 DEF ServedSoFar, Served, Old, Moved, SameCase, SamePath, SameCut,
           SameLuck, EndedOk, ServiceSurvives, KeptWhole, RestoredWhole, NoSplit
  <2> QED BY <2>1, <2>3, <2>4, <2>5, Phases DEF ContainerInv
<1> QED BY <1>4, <1>5 DEF LightObserve

LEMMA LightCommitInv == ASSUME ContainerInv, LightCommit PROVE ContainerInv'
<1>1. /\ op.pc = "lCommit" /\ UNCHANGED <<inputs, disk, images, box, cancel, spent>> /\ (UNCHANGED faults \/ Fail)
      /\ mem' = [mem EXCEPT !.status = "verifying"] /\ man' \in {man, mem'} /\ row' \in {row, "verifying"}
  BY DEF LightCommit, At, Abandon
<1>2. op.light /\ ~op.txn /\ ~op.recreate /\ (ServedSoFar => Works(box)) /\ Old.man.id
  BY <1>1 DEF ContainerInv, LightOk, LightPc, Roots, StartPc
<1>3. mem' \in Manifest /\ mem'.id = mem.id /\ mem'.img = mem.img
  BY <1>1, Says DEF ContainerInv, Types, TypeOK, Status
<1>4. CASE Goto("lVerify")
  <2>1. Moved /\ SamePath /\ SameStops /\ SameCut /\ SameLuck /\ op'.pc = "lVerify"
    BY <1>4, Goes DEF ContainerInv, Types, Pcs, StartPc
  <2>2. Types'
    BY <1>1, <1>3, <2>1, Faulty DEF ContainerInv, Types, TypeOK, Moved, StartPc, inputs, disk, images, Status
  <2>3. Roots' /\ Flags'
    BY <1>1, <1>2, <1>3, <2>1 DEF ContainerInv, Roots, Rooted, Flags, Old, Moved, SameCase, SamePath, disk, images, StartPc
  <2>4. LightOk'
    BY <1>1, <1>2, <2>1 DEF LightOk, LightPc, ServedSoFar, Served, Old, Moved, SameCase, SamePath, SameCut, SameLuck
  <2> QED BY <2>1, <2>2, <2>3, <2>4, Phases DEF ContainerInv, LightPc
<1>5. CASE Abandon
  <2>1. Types'
    BY <1>1, <1>3, <1>5, Abandons, Faulty DEF ContainerInv, Types, TypeOK, Moved, inputs, disk, images, Status
  <2> QED BY <1>1, <1>3, <1>5, <2>1, AbandonedInv DEF ContainerInv, Roots, Rooted, disk, images
<1> QED BY <1>4, <1>5 DEF LightCommit

LEMMA LightVerifyInv == ASSUME ContainerInv, LightVerify PROVE ContainerInv'
<1>1. op.pc = "lVerify" /\ UNCHANGED <<inputs, disk, images, box, cancel, spent>> /\ (UNCHANGED faults \/ Fail)
  BY DEF LightVerify, At
<1>2. op.light /\ ~op.txn /\ ~op.recreate /\ (ServedSoFar => Works(box)) /\ Old.man.id
  BY <1>1 DEF ContainerInv, LightOk, LightPc, Roots, StartPc
<1>3. PICK s \in {"running", "failed"} :
        /\ mem' = [mem EXCEPT !.status = s] /\ man' = mem' /\ row' = s
        /\ End(IF s = "running" THEN "started" ELSE "failed") /\ (s = "running" => Works(box))
  BY DEF LightVerify
<1>4. /\ Moved /\ SamePath /\ SameStops /\ SameCut /\ SameLuck /\ op'.pc = "ended"
      /\ op'.out \in {"started", "failed"}
  BY <1>3, Ends DEF ContainerInv, Types, Outs
<1>5. mem' \in Manifest /\ mem'.id = mem.id /\ mem'.img = mem.img
  BY <1>3, Says DEF ContainerInv, Types, TypeOK, Status
<1>6. Types'
  BY <1>1, <1>3, <1>4, <1>5, Faulty DEF ContainerInv, Types, TypeOK, Moved, inputs, disk, images, Status
<1>7. Roots' /\ Flags'
  BY <1>1, <1>2, <1>3, <1>4, <1>5 DEF ContainerInv, Roots, Rooted, Flags, Old, Moved, SameCase, SamePath, disk, images, StartPc
<1>8. EndedOk'
  <2>1. ServedSoFar' => ServedSoFar
    BY <1>4 DEF ServedSoFar, Served, Old, Moved, SameCase, SamePath, SameCut, SameLuck
  <2>2. ServiceSurvives'
    BY <1>1, <1>2, <2>1 DEF ServiceSurvives, ServedSoFar
  <2>3. NoSplit'
    BY <1>1, <1>3 DEF NoSplit, Works, Running
  <2> QED BY <1>2, <1>4, <2>2, <2>3 DEF EndedOk, KeptWhole, RestoredWhole
<1> QED BY <1>4, <1>6, <1>7, <1>8, Phases DEF ContainerInv

----------------------------------------------------------------------------
(* The runtime recreate                                                     *)

LEMMA RecreateReadyInv == ASSUME ContainerInv, RecreateReady PROVE ContainerInv'
<1>1. op.pc = "rReady" /\ UNCHANGED <<inputs, snap, images, box, man, row, mem, cancel, spent>> /\ (UNCHANGED faults \/ Fail)
  BY DEF RecreateReady, At
<1>2. /\ ~op.txn /\ ~op.recreate /\ ~op.oldStopped /\ ~op.stopAborted /\ ~op.swapCut /\ ~op.light /\ ~op.fellBack
      /\ Untouched /\ SameBox /\ goodEnv = Old.good /\ snap = Old.gen /\ Old.man.id /\ Old.gen # NoGen
  BY <1>1 DEF ContainerInv, EarlyOk, Early, Roots, StartPc
<1>3. op \in OpRow
  BY DEF ContainerInv, Types
<1>4. CASE goodEnv' = EnvRecorded /\ UNCHANGED gen /\ op' = [op EXCEPT !.pc = "rStop", !.recreate = TRUE]
  <2>1. /\ op' \in OpRow /\ op'.pc = "rStop" /\ op'.old = op.old /\ op'.first = op.first
        /\ op'.recreate /\ SamePath /\ SameStops /\ SameCut /\ SameLuck
    BY <1>3, <1>4 DEF OpRow, SamePath, SameStops, SameCut, SameLuck, StartPc
  <2>2. goodEnv' \in Record /\ goodEnv' # NoEnv /\ (Served => goodEnv' \notin Bad)
    BY <1>4, DeployAssumption, ServedRecord, <1>2 DEF ContainerInv, Types, TypeOK, EnvRecorded,
           Record
  <2>3. Types'
    BY <1>1, <1>4, <2>1, <2>2, Faulty DEF ContainerInv, Types, TypeOK, StartPc, inputs, images
  <2>4. Roots' /\ Flags'
    BY <1>1, <1>2, <1>4, <2>1 DEF ContainerInv, Roots, Rooted, Flags, Old, SamePath, images, StartPc
  <2>5. Way'
    BY <2>1, <1>1, <1>2, <2>2 DEF Served, Old, SamePath, Way, Kept, ServedSoFar, Untouched, images
  <2>6. RecreateOk'
    BY <1>2, <2>1, <2>5 DEF RecreateOk, SameCut
  <2> QED BY <2>1, <2>3, <2>4, <2>6, Phases DEF ContainerInv, RecreatePc
<1>5. CASE goodEnv' = EnvRecorded /\ UNCHANGED gen /\ op' = [op EXCEPT !.pc = "preflight", !.fellBack = TRUE]
  <2>1. /\ Moved /\ op'.pc = "preflight" /\ op'.fellBack /\ op'.txn = op.txn /\ op'.light = op.light
        /\ SameStops /\ SameCut /\ SameLuck
    BY <1>3, <1>5 DEF OpRow, Moved, SameCase, SameStops, SameCut, SameLuck, HostPc
  <2>2. goodEnv' \in Record
    BY <1>5 DEF ContainerInv, Types, TypeOK, EnvRecorded, Record
  <2>3. Types'
    BY <1>1, <1>5, <2>1, <2>2, Faulty DEF ContainerInv, Types, TypeOK, Moved, HostPc, inputs, images
  <2>4. Roots' /\ Flags'
    BY <1>1, <1>2, <1>5, <2>1 DEF ContainerInv, Roots, Rooted, Flags, Old, Moved, SameCase, images, StartPc
  <2>5. EarlyOk'
    BY <1>1, <1>2, <2>1 DEF EarlyOk, Early, Untouched, SameBox, Kept, Old, Running, images,
       Moved, SameCase, SameStops, SameCut, SameLuck
  <2> QED BY <2>1, <2>3, <2>4, <2>5, Phases DEF ContainerInv, Early
<1>6. CASE gen' = Restored /\ End("refused") /\ UNCHANGED <<goodEnv, faults>>
  <2>1. Moved /\ SamePath /\ SameStops /\ SameCut /\ SameLuck /\ op'.pc = "ended" /\ op'.out = "refused"
    BY <1>6, Ends DEF ContainerInv, Types, Outs
  <2>2. gen' \in Render /\ gen' # NoGen
    BY <1>2, <1>6 DEF Restored, ContainerInv, Types, TypeOK
  <2>3. Types'
    BY <1>1, <1>6, <2>1, <2>2 DEF ContainerInv, Types, TypeOK, Moved, inputs, images
  <2>4. Roots' /\ Flags'
    BY <1>1, <1>2, <2>1, <2>2 DEF ContainerInv, Roots, Rooted, Flags, Old, Moved, SameCase, SamePath, images, StartPc
  <2>5. NoSplit'
    BY <1>1, <1>2, <2>1 DEF NoSplit, Untouched, SameBox, Running, SameLuck
  <2>6. EndedOk'
    BY <1>2, <2>1, <2>5 DEF EndedOk, ServiceSurvives, KeptWhole, RestoredWhole, Moved, SameCase, SamePath
  <2> QED BY <2>1, <2>3, <2>4, <2>6, Phases DEF ContainerInv
<1> QED BY <1>4, <1>5, <1>6 DEF RecreateReady

LEMMA RecreateStopInv == ASSUME ContainerInv, HaltOld("rStop", "rClear") PROVE ContainerInv'
<1>1. op.pc = "rStop" /\ UNCHANGED <<inputs, disk, images, man, row, mem, cancel, spent>> /\ (UNCHANGED faults \/ Fail)
      /\ box' \in {box, Halted}
  BY DEF HaltOld, At, Abandon
<1>2. op.recreate /\ ~op.swapCut /\ Way /\ Old.man.id
  BY <1>1 DEF ContainerInv, RecreateOk, RecreatePc, Roots
<1>3. box' \in Box
  BY <1>1, Boxes DEF ContainerInv, Types, TypeOK, Box
<1>4. CASE Goto("rClear")
  <2>1. Moved /\ SamePath /\ SameStops /\ SameCut /\ SameLuck /\ op'.pc = "rClear"
    BY <1>4, Goes DEF ContainerInv, Types, Pcs, StartPc
  <2>2. Types'
    BY <1>1, <1>3, <2>1, Faulty DEF ContainerInv, Types, TypeOK, Moved, StartPc, inputs, disk, images, Box
  <2>3. Roots' /\ Flags'
    BY <1>1, <1>2, <2>1 DEF ContainerInv, Roots, Rooted, Flags, Old, Moved, SameCase, SamePath, disk, images, StartPc
  <2>4. RecreateOk'
    BY <1>1, <1>2, <2>1 DEF RecreateOk, Way, Kept, Old, Moved, SameCase, SamePath, SameCut, SameLuck, disk, images, ServedSoFar, Served
  <2> QED BY <2>1, <2>2, <2>3, <2>4, Phases DEF ContainerInv, RecreatePc
<1>5. CASE Abandon
  BY <1>1, <1>3, <1>5, Abandons, Faulty, AbandonedInv DEF ContainerInv, Types, TypeOK, Moved,
         inputs, disk, images, Box, Roots, Rooted
<1> QED BY <1>4, <1>5 DEF HaltOld

LEMMA RecreateClearInv == ASSUME ContainerInv, ClearStale("rClear", "rUp") PROVE ContainerInv'
<1>1. /\ op.pc = "rClear" /\ UNCHANGED <<inputs, disk, images, box, row, cancel, spent>> /\ (UNCHANGED faults \/ Fail)
      /\ mem' = [mem EXCEPT !.id = FALSE, !.img = NoImg] /\ man' \in {man, mem'}
  BY DEF ClearStale, At, Abandon
<1>2. op.recreate /\ ~op.swapCut /\ Way /\ Old.man.id
  BY <1>1 DEF ContainerInv, RecreateOk, RecreatePc, Roots
<1>3. mem' \in Manifest /\ ~mem'.id /\ man' \in Manifest
  BY <1>1, Clears DEF ContainerInv, Types, TypeOK
<1>4. CASE Goto("rUp")
  <2>1. Moved /\ SamePath /\ SameStops /\ SameCut /\ SameLuck /\ op'.pc = "rUp"
    BY <1>4, Goes DEF ContainerInv, Types, Pcs, StartPc
  <2>2. Types'
    BY <1>1, <1>3, <2>1, Faulty DEF ContainerInv, Types, TypeOK, Moved, StartPc, inputs, disk, images
  <2>3. Roots' /\ Flags'
    BY <1>1, <1>2, <1>3, <2>1 DEF ContainerInv, Roots, Rooted, Flags, Old, Moved, SameCase, SamePath, disk, images, StartPc
  <2>4. RecreateOk'
    BY <1>1, <1>2, <2>1 DEF RecreateOk, Way, Kept, Old, Moved, SameCase, SamePath, SameCut, SameLuck, disk, images, ServedSoFar, Served
  <2> QED BY <2>1, <2>2, <2>3, <2>4, Phases DEF ContainerInv, RecreatePc
<1>5. CASE Abandon
  BY <1>1, <1>3, <1>5, Abandons, Faulty, AbandonedInv DEF ContainerInv, Types, TypeOK, Moved,
         inputs, disk, images, Roots, Rooted
<1> QED BY <1>4, <1>5 DEF ClearStale

LEMMA RecreateUpInv == ASSUME ContainerInv, RecreateUp PROVE ContainerInv'
<1>1. op.pc = "rUp" /\ UNCHANGED <<inputs, disk, images, man, row, mem, cancel, spent>> /\ (UNCHANGED faults \/ Fail)
  BY DEF RecreateUp, At, FailTo
<1>2. op.recreate /\ ~op.swapCut /\ Way /\ Old.man.id
  BY <1>1 DEF ContainerInv, RecreateOk, RecreatePc, Roots
<1>3. box' \in Box
  BY <1>2, Boxes DEF ContainerInv, Roots, Rooted, RecreateUp, Box
<1>4. Moved /\ SamePath /\ SameStops /\ SameCut /\ SameLuck /\ op'.pc \in {"rVerify", "cDown"}
  BY Goes DEF RecreateUp, FailTo, ContainerInv, Types, Pcs, StartPc, CompPc
<1>5. Types'
  BY <1>1, <1>3, <1>4, Faulty DEF ContainerInv, Types, TypeOK, Moved, StartPc, CompPc, inputs, disk, images, Box
<1>6. Roots' /\ Flags'
  BY <1>1, <1>2, <1>4 DEF ContainerInv, Roots, Rooted, Flags, Old, Moved, SameCase, SamePath, disk, images, StartPc
<1>7. Way'
  BY <1>1, <1>2, <1>4 DEF Way, Kept, Old, Moved, SameCase, SamePath, SameCut, SameLuck, disk, images, ServedSoFar, Served
<1>8. CASE op'.pc = "rVerify"
  BY <1>2, <1>4, <1>7, <1>5, <1>6, <1>8, Phases DEF RecreateOk, Moved, SameCase, SameCut,
         ContainerInv, RecreatePc
<1>9. CASE op'.pc = "cDown"
  BY <1>2, <1>4, <1>7, <1>9, <1>5, <1>6, Phases DEF CompOk, Moved, SameCase, SameCut,
         ContainerInv, CompPc
<1> QED BY <1>4, <1>8, <1>9

LEMMA RecreateVerifyInv == ASSUME ContainerInv, RecreateVerify PROVE ContainerInv'
<1>1. op.pc = "rVerify" /\ UNCHANGED <<inputs, gen, snap, images, box, cancel, spent>> /\ (UNCHANGED faults \/ Fail)
      /\ goodEnv' \in {goodEnv, env}
  BY DEF RecreateVerify, At, Abandon
<1>2. op.recreate /\ ~op.swapCut /\ Way /\ Old.man.id /\ ~op.light /\ ~op.txn
  BY <1>1 DEF ContainerInv, RecreateOk, RecreatePc, Roots, Flags
<1>3. goodEnv' \in Record
  BY <1>1, FilesExist DEF ContainerInv, Types, TypeOK
<1>4. CASE /\ Works(box) /\ man' = mem' /\ row' = "running" /\ End("recreated")
           /\ \E seen \in BOOLEAN :
                 LET m == IF seen THEN [mem EXCEPT !.id = TRUE, !.img = box.img] ELSE mem IN
                 mem' = [m EXCEPT !.status = "running", !.fp = Fingerprint(m)]
  <2>1. Moved /\ SamePath /\ SameStops /\ SameCut /\ SameLuck /\ op'.pc = "ended" /\ op'.out = "recreated"
    BY <1>4, Ends DEF ContainerInv, Types, Outs
  <2>2. mem' \in Manifest /\ (mem'.id => mem'.img # NoImg)
    <3>1. mem \in Manifest /\ (mem.id => mem.img # NoImg)
      BY DEF ContainerInv, Types, TypeOK, Roots, Rooted
    <3>2. PICK m \in {mem, [mem EXCEPT !.id = TRUE, !.img = box.img]} :
             mem' = [m EXCEPT !.status = "running", !.fp = Fingerprint(m)]
      BY <1>4
    <3>3. m \in Manifest /\ (m.id => m.img # NoImg)
      BY <1>4, <3>1, Observed DEF Works
    <3>4. Fingerprint(m) \in Prints
      BY <3>3 DEF ContainerInv, Types, TypeOK, Fingerprint, Prints, Manifest
    <3> DEFINE n == [m EXCEPT !.status = "running", !.fp = Fingerprint(m)]
    <3>5. n \in Manifest /\ n.id = m.id /\ n.img = m.img
      BY <3>3, <3>4 DEF Manifest, Status
    <3> QED BY <3>2, <3>3, <3>5
  <2>3. Types'
    BY <1>1, <1>3, <1>4, <2>1, <2>2, Faulty DEF ContainerInv, Types, TypeOK, Moved, inputs, images, Status
  <2>4. Roots' /\ Flags'
    BY <1>1, <1>2, <1>4, <2>1, <2>2 DEF ContainerInv, Roots, Rooted, Flags, Old, Moved, SameCase, SamePath, images, StartPc
  <2>5. EndedOk'
    BY <1>1, <1>2, <1>4, <2>1 DEF EndedOk, ServiceSurvives, KeptWhole, RestoredWhole, NoSplit, Works, Running, SamePath
  <2> QED BY <2>1, <2>3, <2>4, <2>5, Phases DEF ContainerInv
<1>5. CASE Abandon /\ UNCHANGED <<man, row, mem>>
  BY <1>1, <1>3, <1>5, Abandons, Faulty, AbandonedInv DEF ContainerInv, Types, TypeOK, Moved,
         inputs, images, Roots, Rooted
<1>6. CASE Goto("cDown") /\ UNCHANGED <<goodEnv, man, row, mem>>
  <2>1. Moved /\ SamePath /\ SameStops /\ SameCut /\ SameLuck /\ op'.pc = "cDown"
    BY <1>6, Goes DEF ContainerInv, Types, Pcs, CompPc
  <2>2. Types'
    BY <1>1, <1>6, <2>1, Faulty DEF ContainerInv, Types, TypeOK, Moved, CompPc, inputs, images
  <2>3. Roots' /\ Flags'
    BY <1>1, <1>2, <1>6, <2>1 DEF ContainerInv, Roots, Rooted, Flags, Old, Moved, SameCase, SamePath, images, StartPc
  <2>4. Way'
    BY <1>1, <1>2, <1>6, <2>1 DEF Way, Kept, Old, Moved, SameCase, SamePath, SameCut, SameLuck, images, ServedSoFar, Served
  <2>5. CompOk'
    BY <1>2, <2>1, <2>4 DEF CompOk, Moved, SameCase, SameCut
  <2> QED BY <2>1, <2>2, <2>3, <2>5, Phases DEF ContainerInv, CompPc
<1> QED BY <1>4, <1>5, <1>6 DEF RecreateVerify

----------------------------------------------------------------------------
(* The end of an operation, and everybody else                              *)

LEMMA RollbackInv == ASSUME ContainerInv, RollbackAttempt PROVE ContainerInv'
<1>1. /\ op.pc = "ended" /\ op.first /\ op.out = "failed" /\ UNCHANGED <<inputs, snap, goodEnv, images, cancel, faults, spent>>
      /\ box' \in {box, NoBox} /\ gen' = op.old.gen /\ man' = mem' /\ row' = "failed"
      /\ mem' = [mem EXCEPT !.id = op.old.man.id, !.img = op.old.man.img, !.status = "failed"]
      /\ op' = [op EXCEPT !.first = FALSE]
  BY DEF RollbackAttempt, At
<1>2. op \in OpRow /\ op.old.gen \in Render /\ op.old.man \in Manifest /\ ~op.old.man.id /\ mem \in Manifest
  BY <1>1 DEF ContainerInv, Types, TypeOK, OpRow, OldRow, Roots, Old
<1>3. /\ op' \in OpRow /\ op'.pc = "ended" /\ op'.out = "failed" /\ op'.old = op.old /\ ~op'.first
      /\ op'.recreate = op.recreate /\ SamePath
  BY <1>1, <1>2 DEF OpRow, SamePath
<1>4. mem' \in Manifest /\ ~mem'.id
  BY <1>2, <1>1 DEF Manifest, Status
<1>5. Types'
  BY <1>1, <1>2, <1>3, <1>4 DEF ContainerInv, Types, TypeOK, inputs, images, Status
<1>6. Roots' /\ Flags'
  BY <1>1, <1>2, <1>3, <1>4 DEF ContainerInv, Roots, Rooted, Flags, Old, SamePath, images, StartPc
<1>7. EndedOk'
  BY <1>1, <1>2, <1>3 DEF EndedOk, ServiceSurvives, KeptWhole, RestoredWhole, NoSplit, Served
<1> QED BY <1>3, <1>5, <1>6, <1>7, Phases DEF ContainerInv

(* Without an operation there is little to keep true.                       *)
LEMMA RestsInv ==
    ASSUME ContainerInv, Types', op' = NoOp, mem' = man', UNCHANGED <<man, gen, latest>>
    PROVE  ContainerInv'
BY Phases DEF NoOp, ContainerInv, Roots, Rooted, Flags, Old, StartPc

LEMMA ReleaseInv == ASSUME ContainerInv, Release \/ Crash PROVE ContainerInv'
<1>1. /\ op' = NoOp /\ mem' = man /\ cancel' = FALSE /\ UNCHANGED <<inputs, disk, images, box, man, row, faults>>
      /\ UNCHANGED spent \/ Spend("upset")
  BY DEF Release, Crash
<1>2. spent' \in [op : Nat, edit : Nat, upset : Nat]
  BY <1>1, Spends DEF ContainerInv, Types
<1>3. Types'
  BY <1>1, <1>2, Blank DEF ContainerInv, Types, TypeOK, inputs, disk, images, NoOp
<1> QED BY <1>1, <1>3, RestsInv DEF disk, images

(* The environment and the container change under a running operation.      *)
SameOp == /\ op' \in OpRow /\ op'.pc = op.pc /\ SameCase /\ SamePath /\ SameStops /\ SameCut
          /\ op'.calm => op.calm /\ UNCHANGED box /\ (EnvInUse => UNCHANGED env)
          /\ op'.quiet => op.quiet /\ UNCHANGED box

LEMMA DisturbedInv ==
    ASSUME ContainerInv, Types', op.pc \notin {"idle", "ended"}, SameOp, box' \in {box, NoBox, Halted},
           UNCHANGED <<cfg, disk, images, man, row, mem>>
    PROVE  ContainerInv'
<1>1. Roots' /\ Flags'
  BY DEF ContainerInv, Roots, Rooted, Flags, Old, SameOp, SameCase, SamePath, disk, images, StartPc
<1>2. Way => Way'
  BY DEF Way, Kept, Old, ServedSoFar, Served, SameOp, SameCase, SamePath, SameCut, disk, images
<1>3. SameBox => SameBox'
  BY DEF SameBox, Old, SameOp, SameCase, Running
<1>4. EarlyOk'
  BY <1>3 DEF ContainerInv, EarlyOk, Early, Untouched, Kept, Old, SameOp, SameCase, SamePath, SameStops, SameCut, disk, images
<1>5. TxnOk' /\ TxnOnly' /\ PlainOnly'
  BY <1>3 DEF ContainerInv, HostOk, TxnOk, TxnOnly, PlainOnly, TxnPc, Kept, Old, SameOp, SameCase, SamePath, SameStops, SameCut, disk, images
<1>6. NewOk => NewOk'
  BY DEF NewOk, SameOp, EnvInUse, Works, Running
<1>7. SwapOk'
  BY <1>2, <1>6 DEF ContainerInv, HostOk, SwapOk, SameOp, SamePath, SameStops, SameCut
<1>8. PlainOk'
  BY <1>3 DEF ContainerInv, HostOk, PlainOk, Kept, Old, SameOp, SameCase, SamePath, SameStops, disk
<1>9. FailedOk' /\ CancelledOk'
  BY <1>2, <1>3 DEF ContainerInv, FailedOk, CancelledOk, Kept, Old, Restored, SameOp, SameCase, SamePath, SameStops, SameCut, disk
<1>10. RecreateOk'
  BY <1>2 DEF ContainerInv, RecreateOk, SameOp, SameCase, SameCut
<1>11. LightOk'
  BY DEF ContainerInv, LightOk, LightPc, ServedSoFar, Served, Old, Works, SameOp, SameCase, SamePath, SameCut
<1>12. CompOk'
  <2> SUFFICES ASSUME op'.pc \in CompPc PROVE CompOk'
      BY DEF CompOk
  <2>1. CompOk /\ op.pc \in CompPc
    BY DEF ContainerInv, SameOp
  <2>2. op'.calm => UNCHANGED <<env, box>> /\ op.calm
    BY <2>1 DEF SameOp, EnvInUse, CompPc
  <2>3. box'.st # "none" => box'.img = box.img /\ box'.gen = box.gen /\ box.st # "none"
    BY DEF Running, ContainerInv, Types, TypeOK, NoBox, Halted, Container
  <2>4. ServedSoFar' => ServedSoFar
    BY DEF ServedSoFar, Served, Old, SameOp, SameCase, SamePath, SameCut
  <2>5. op'.pc = op.pc /\ op'.txn = op.txn /\ op'.recreate = op.recreate /\ op'.swapCut = op.swapCut
        /\ op'.old = op.old /\ (Served' => Served)
    BY DEF Served, Old, SameOp, SameCase, SamePath, SameCut
  <2> QED BY <1>2, <2>1, <2>2, <2>3, <2>4, <2>5 DEF CompOk, Old, disk, images
<1>13. EndedOk'
  BY Elsewhere DEF SameOp
<1> QED BY <1>1, <1>4, <1>5, <1>7, <1>8, <1>9, <1>10, <1>11, <1>12, <1>13 DEF ContainerInv, HostOk

LEMMA OthersInv ==
    ASSUME ContainerInv, EditSource \/ EditEnv \/ CancelBuild \/ ContainerLost
    PROVE  ContainerInv'
<1>1. op \in OpRow /\ (op.pc = "idle" => op = NoOp /\ mem = man)
  BY DEF ContainerInv, Types, Flags
<1>2. spent' \in [op : Nat, edit : Nat, upset : Nat]
  BY Spends DEF ContainerInv, Types, EditSource, EditEnv, CancelBuild, ContainerLost
<1>3. CASE EditSource
  BY <1>3, <1>2, <1>1, RestsInv DEF EditSource, At, ContainerInv, Types, TypeOK, disk, images
<1>4. CASE EditEnv
  <2>1. op.pc # "ended" /\ UNCHANGED <<src, cfg, disk, images, box, man, row, mem, cancel, faults>> /\ env' \in Env
    BY <1>4 DEF EditEnv, At
  <2>2. PICK c \in BOOLEAN : c = (op.calm /\ ~EnvInUse)
    OBVIOUS
  <2>3. op' = [op EXCEPT !.calm = c]
    BY <1>4, <2>2 DEF EditEnv
  <2>4. /\ op' \in OpRow /\ op'.pc = op.pc /\ SameCase /\ SamePath /\ SameStops /\ SameCut
        /\ op'.calm = c /\ op'.quiet = op.quiet
    BY ZenonT(60), <1>1, <2>2, <2>3 DEF OpRow, SameCase, SamePath, SameStops, SameCut
  <2>5. Types'
    BY <1>2, <2>1, <2>4 DEF ContainerInv, Types, TypeOK, disk, images
  <2>6. CASE op.pc = "idle"
    <3>1. op.calm = c
      <4>1. op.calm = TRUE
        BY <1>1, <2>6 DEF NoOp
      <4>2. ~EnvInUse
        BY <2>6 DEF EnvInUse
      <4>3. c = TRUE
        BY <2>2, <4>1, <4>2
      <4> QED BY <4>1, <4>3
    <3>2. op' = op
      BY <1>1, <2>3, <3>1 DEF OpRow
    <3> QED BY <1>1, <2>1, <2>5, <2>6, <3>2, RestsInv DEF disk, images
  <2>7. CASE op.pc # "idle"
    BY <2>1, <2>2, <2>4, <2>5, <2>7, DisturbedInv DEF SameOp
  <2> QED BY <2>6, <2>7
<1>5. CASE CancelBuild
  BY <1>5, <1>2, <1>1, DisturbedInv DEF CancelBuild, InProgress, ContainerInv, Types, TypeOK,
         inputs, disk, images, SameOp, SameCase, SamePath, SameStops, SameCut
<1>6. CASE ContainerLost
  <2>1. /\ op.pc # "ended" /\ UNCHANGED <<inputs, disk, images, man, row, mem, cancel, faults>>
        /\ box' \in {NoBox, Halted} /\ op' = (IF op.pc = "idle" THEN op ELSE [op EXCEPT !.calm = FALSE, !.quiet = FALSE])
    BY <1>6 DEF ContainerLost, At
  <2>2. box' \in Box
    BY <2>1, Boxes DEF ContainerInv
  <2>3. CASE op.pc = "idle"
    BY <1>2, <2>1, <2>2, <2>3, <1>1, RestsInv DEF ContainerInv, Types, TypeOK, inputs, disk,
           images, Box
  <2>4. CASE op.pc # "idle"
    BY <1>1, <2>1, <2>4, <1>2, <2>2, DisturbedInv DEF OpRow, SameCase, SamePath, SameStops,
           SameCut, ContainerInv, Types, TypeOK, inputs, disk, images, Box, SameOp
  <2> QED BY <2>3, <2>4
<1> QED BY <1>3, <1>4, <1>5, <1>6

LEMMA ContainerInit == Init => ContainerInv
<1> SUFFICES ASSUME Init PROVE ContainerInv
    OBVIOUS
<1>1. op = NoOp /\ mem = man /\ man = NoOp.old.man /\ op.pc = "idle"
  BY DEF Init, NoOp
<1>2. Types
  <2>1. /\ src \in Src /\ cfg \in Cfg /\ env \in Env /\ gen = NoGen /\ snap = NoGen /\ goodEnv = NoEnv
        /\ latest = NoImg /\ prev = NoImg /\ box = NoBox /\ row = "stopped" /\ cancel = FALSE /\ faults = 0
        /\ spent = [op |-> 0, edit |-> 0, upset |-> 0]
    BY DEF Init
  <2>2. man \in Manifest
    BY <1>1 DEF NoOp, Manifest, Status, Image
  <2>3. TypeOK
    <3>1. cancel \in BOOLEAN /\ faults \in 0 .. MaxFault
      <4>1. cancel \in BOOLEAN
        BY DEF Init
      <4>2. faults \in 0 .. MaxFault
        BY <2>1, DeployAssumption
      <4> QED BY <4>1, <4>2
    <3>2. gen \in Render /\ snap \in Render /\ goodEnv \in Record /\ latest \in Image /\ prev \in Image
          /\ box \in Container \cup {NoBox} /\ row \in Status
      BY <2>1 DEF Render, Record, Image, Status
    <3> QED BY <1>1, <2>1, <2>2, <3>1, <3>2 DEF TypeOK
  <2>4. op \in OpRow
    BY <1>1, Blank
  <2>5. spent \in [op : Nat, edit : Nat, upset : Nat]
    BY <2>1
  <2> QED BY <2>3, <2>4, <2>5 DEF Types
<1>3. Roots /\ Flags
  BY <1>1 DEF Roots, Rooted, Flags, Old, NoOp, StartPc
<1>4. EarlyOk /\ HostOk /\ FailedOk /\ CancelledOk /\ RecreateOk /\ LightOk /\ CompOk /\ EndedOk
  BY <1>1 DEF EarlyOk, Early, HostOk, TxnOk, TxnPc, SwapOk, SwapPc, NewOk, PlainOk, PlainPc, TxnOnly, PlainOnly,
     FailedOk, CancelledOk, RecreateOk, RecreatePc, LightOk, LightPc, CompOk, CompPc,
     EndedOk, ServiceSurvives, KeptWhole, RestoredWhole, NoSplit, At
<1> QED BY <1>2, <1>3, <1>4 DEF ContainerInv

LEMMA ContainerStutter == ContainerInv /\ UNCHANGED allVars => ContainerInv'
<1> SUFFICES ASSUME ContainerInv, UNCHANGED allVars PROVE ContainerInv'
    OBVIOUS
<1>1. CASE op.pc = "idle"
  BY <1>1, RestsInv DEF allVars, vars, inputs, disk, images, ContainerInv, Types, TypeOK, Flags
<1>2. CASE op.pc = "ended"
  <2>1. Types' /\ Roots' /\ Flags' /\ op'.pc = "ended"
    BY <1>2 DEF allVars, vars, inputs, disk, images, ContainerInv, Types, TypeOK, Roots, Rooted, Old, Flags
  <2>2. EndedOk'
    BY <1>2 DEF allVars, vars, inputs, disk, images, ContainerInv, EndedOk, ServiceSurvives, KeptWhole, RestoredWhole, NoSplit,
       At, Served, Works, Running
  <2> QED BY <2>1, <2>2, Phases DEF ContainerInv
<1>3. CASE op.pc \notin {"idle", "ended"}
  BY <1>3, DisturbedInv DEF allVars, vars, inputs, disk, images, ContainerInv, Types, TypeOK,
         SameOp, SameCase, SamePath, SameStops, SameCut
<1> QED BY <1>1, <1>2, <1>3

LEMMA ContainerStep == ContainerInv /\ Next => ContainerInv'
  BY HostStepInv, EntersInv, SnapshotForDecisionInv, ConvergeInv, StopInv, HaltsInv, LightStartInv, LightClearInv,
     LightUpInv, LightObserveInv, LightCommitInv, LightVerifyInv, RecreateReadyInv, RecreateStopInv, RecreateClearInv,
     RecreateUpInv, RecreateVerifyInv, RollbackInv, ReleaseInv, OthersInv DEF Next

(* The invariant of the operations on a container instance: where it stands *)
(* in its order of steps, an operation has left the old version untouched,  *)
(* or kept the way back to it.                                              *)
THEOREM ContainerInvariant == Spec => []ContainerInv
<1>1. ContainerInv /\ [Next]_allVars => ContainerInv'
  BY ContainerStep, ContainerStutter
<1> QED BY ContainerInit, <1>1, PTL DEF Spec

(* A working container still serves when an operation of host_container,    *)
(* start_container or recreate_container_runtime ends, whatever step of it  *)
(* failed and whatever was edited before it.                                *)
THEOREM ServiceStays == Spec => []ServiceSurvives
<1>1. ContainerInv => ServiceSurvives
  BY DEF ContainerInv, EndedOk
<1> QED BY <1>1, ContainerInvariant, PTL

LEMMA WayIsKept == ContainerInv => WayBack
<1> SUFFICES ASSUME ContainerInv PROVE WayBack
    OBVIOUS
<1>1. ASSUME op.txn, op.pc \in {"render", "build", "swapStop"}
      PROVE  prev = Old.man.img /\ Kept(snap) /\ goodEnv # NoEnv
  BY <1>1 DEF ContainerInv, HostOk, TxnOk, TxnPc
<1>2. ASSUME op.txn, op.pc \in SwapPc
      PROVE  prev = Old.man.img /\ Kept(snap) /\ goodEnv # NoEnv
  BY <1>2 DEF ContainerInv, HostOk, SwapOk, Way
<1>3. ASSUME op.txn \/ op.recreate, op.pc \in CompPc
      PROVE  (op.txn => prev = Old.man.img) /\ Kept(snap) /\ goodEnv # NoEnv
  BY <1>3 DEF ContainerInv, CompOk, Way
<1>4. ASSUME op.pc \in RecreatePc
      PROVE  Kept(snap) /\ goodEnv # NoEnv
  BY <1>4 DEF ContainerInv, RecreateOk, Way
<1>5. op.recreate => ~op.fellBack
  BY DEF ContainerInv, Flags
<1> QED BY <1>1, <1>2, <1>3, <1>4, <1>5 DEF WayBack, Kept, Old, SwapPc, RecreatePc

(* The old version in one statement: the types, untouched when it was kept, *)
(* whole when it was restored, never out of reach while an operation works, *)
(* and a row that does not say running of a container that is down.         *)
THEOREM OldVersionStays == Spec => []OldVersionKept
<1>1. ContainerInv => OldVersionKept
  BY WayIsKept DEF ContainerInv, Types, EndedOk, OldVersionKept
<1> QED BY <1>1, ContainerInvariant, PTL
=============================================================================
