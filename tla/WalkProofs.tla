----------------------------- MODULE WalkProofs -----------------------------
(***************************************************************************)
(* Machine-checked proofs about Walk, for every tree, every number of      *)
(* workers and every combination of options and failures.                  *)
(*                                                                         *)
(* The invariants of Walk are not inductive.  IInv is: besides the types   *)
(* it says that no directory is in two places at once (in the queue, held  *)
(* by a worker, about to be pushed), that a directory's subdirectories are *)
(* counted only after it was read and only by the worker that read it, and *)
(* that what a worker has yet to count was never counted.  With this, each *)
(* Add of the WaitGroup adds one element to Outstanding and each Done      *)
(* removes one.  AInv follows each directory until it is settled, WakeInv  *)
(* sets the items of the queue against the workers coming for them,        *)
(* LinkInv the inodes seen against the links recorded, TreeInv the tree    *)
(* against what was queued and what rollup has finalised, Counters and     *)
(* Denials the statistics against the tree, QueueInv the priorities in the *)
(* queue against what a worker can have added up in one directory.  What   *)
(* the tree as a whole comes to follows by induction over it: of the       *)
(* directories for which a claim fails, one has none of the others in it   *)
(* (WalkAssumption).                                                       *)
(***************************************************************************)
EXTENDS Walk, FiniteSums

(* A worker holds a directory exactly while it is busy, and one to be       *)
(* pushed exactly between the count and the push; the locals of expandDir   *)
(* are empty outside it.                                                    *)
Holding ==
    \A w \in Workers :
        /\ pc[w] \in {"pop", "wait", "exit"} <=> node[w] = None
        /\ pc[w] = "push" <=> sub[w] # None
        /\ pc[w] # "expand" => todo[w] = {}
        /\ pc[w] \notin {"expand", "push", "signal"} => subdirs[w] = {}

(* No directory is in two places at once.                                   *)
OnePlace ==
    /\ \A i \in heap, j \in heap : i.node = j.node => i = j
    /\ \A i \in heap : \A w \in Workers : i.node # node[w] /\ i.node # sub[w]
    /\ \A v \in Workers, w \in Workers :
        /\ v # w /\ node[v] # None => node[v] # node[w]
        /\ v # w /\ sub[v] # None => sub[v] # sub[w]
        /\ sub[v] # None => sub[v] # node[w]

(* Where the directories counted so far are, and those not yet counted.     *)
Discovery ==
    /\ expanded \subseteq queued
    /\ \A d \in Dirs \ expanded : Entries[d] \cap queued = {}
    /\ \A i \in heap : i.node \in queued \ expanded
    /\ \A w \in Workers :
        /\ node[w] # None => node[w] \in queued
        /\ sub[w] # None => sub[w] \in queued \ expanded
        /\ pc[w] \in {"check", "readdir"} => node[w] \notin expanded
        /\ todo[w] \cup subdirs[w] # {} =>
             /\ node[w] \in expanded
             /\ todo[w] \cup subdirs[w] \subseteq Entries[node[w]] \ queued
             /\ todo[w] \cap subdirs[w] = {}

(* The closer moves only from an empty WaitGroup, the queue closes after.   *)
Closing ==
    /\ closer # "wait" => pending = 0
    /\ closed => closer # "wait"

IInv ==
    /\ TypeOK
    /\ Holding
    /\ OnePlace
    /\ Discovery
    /\ PendingCountsOutstanding
    /\ Closing

-----------------------------------------------------------------------------
(* Initially the root is the only directory counted, and it is in the queue. *)
LEMMA InitIInv == Init => IInv
<1> SUFFICES ASSUME Init PROVE IInv
  OBVIOUS
<1> USE WalkAssumption DEF Init
<1>1. TypeOK
  <2>1. heap \subseteq QueueItem
    BY DEF QueueItem
  <2>2. stats \in [StatNames -> Nat]
    OBVIOUS
  <2>3. state \in [Dirs -> SubtreeState]
    BY DEF SubtreeState
  <2> QED
    BY <2>1, <2>2, <2>3 DEF TypeOK
<1>2. Holding
  BY DEF Holding
<1>3. OnePlace
  BY DEF OnePlace
<1>4. Discovery
  BY DEF Discovery
<1>5. PendingCountsOutstanding
  <2>1. Outstanding = {Root}
    BY DEF Outstanding, HeapDirs, HeldDirs, CountedDirs, Busy
  <2> QED
    BY <2>1, FS_Singleton DEF PendingCountsOutstanding
<1>6. Closing
  BY DEF Closing
<1> QED
  BY <1>1, <1>2, <1>3, <1>4, <1>5, <1>6 DEF IInv

-----------------------------------------------------------------------------
(* Outstanding in terms of the variables alone, without the control points. *)
Places == HeapDirs \cup (({node[w] : w \in Workers} \cup {sub[w] : w \in Workers})
                           \ {None})

LEMMA OutstandingPlaces == TypeOK /\ Holding => Outstanding = Places
<1> SUFFICES ASSUME TypeOK, Holding PROVE Outstanding = Places
  OBVIOUS
<1>1. HeldDirs = {node[w] : w \in Workers} \ {None}
  BY DEF HeldDirs, Busy, Holding
<1>2. CountedDirs = {sub[w] : w \in Workers} \ {None}
  BY DEF CountedDirs, Holding
<1> QED
  BY <1>1, <1>2 DEF Outstanding, Places

(* What is outstanding is a finite set of directories.                      *)
LEMMA OutstandingFinite ==
    TypeOK /\ Holding => Outstanding \subseteq Dirs /\ IsFiniteSet(Outstanding)
<1> SUFFICES ASSUME TypeOK, Holding
             PROVE  Outstanding \subseteq Dirs /\ IsFiniteSet(Outstanding)
  OBVIOUS
<1>1. HeapDirs \subseteq Dirs
  BY DEF HeapDirs, TypeOK, QueueItem
<1>2. Places \subseteq Dirs
  BY <1>1 DEF Places, TypeOK
<1>3. Outstanding \subseteq Dirs
  BY <1>2, OutstandingPlaces
<1> QED
  BY <1>3, FS_Subset, WalkAssumption

(* A step that moves nothing in or out of a place keeps the count right.    *)
LEMMA CountUnmoved ==
    ASSUME IInv, TypeOK', Holding', Places' = Places, UNCHANGED pending
    PROVE  PendingCountsOutstanding'
<1>1. (TypeOK /\ Holding => Outstanding = Places)'
  BY OutstandingPlaces, PTL
<1>2. Outstanding' = Outstanding
  BY <1>1, OutstandingPlaces DEF IInv
<1> QED
  BY <1>2 DEF IInv, PendingCountsOutstanding

(* Counting keeps the counters numbers.                                     *)
LEMMA CountedType ==
    ASSUME TypeOK, NEW names PROVE Counted(names) \in [StatNames -> Nat]
  BY DEF TypeOK, Counted

-----------------------------------------------------------------------------
(* One lemma per action of a worker                                         *)

(* The popped directory goes from the queue to the worker.                  *)
LEMMA PopItemStep ==
    ASSUME IInv, NEW w \in Workers, PopItem(w)
    PROVE  IInv' /\ Places' = Places
<1> USE DEF PopItem, treeVars
<1> PICK i \in heap : /\ heap' = heap \ {i}
                       /\ node' = [node EXCEPT ![w] = i.node]
                       /\ level' = [level EXCEPT ![w] = i.depth]
  OBVIOUS
<1>0. i \in QueueItem /\ i.node \in Dirs /\ i.node # None /\ i.depth \in Nat
  BY WalkAssumption DEF IInv, TypeOK, QueueItem
<1>1. TypeOK'
  BY <1>0 DEF IInv, TypeOK
<1>2. Holding'
  BY <1>0 DEF IInv, TypeOK, Holding
<1>3. OnePlace'
  BY <1>0 DEF IInv, TypeOK, Holding, OnePlace
<1>4. Discovery'
  BY <1>0 DEF IInv, TypeOK, Holding, Discovery
<1>5. Places' = Places
  <2>1. HeapDirs = HeapDirs' \cup {i.node}
    BY DEF HeapDirs
  <2>2. {node'[v] : v \in Workers} \ {None}
          = ({node[v] : v \in Workers} \ {None}) \cup {i.node}
    BY <1>0 DEF IInv, TypeOK, Holding
  <2> QED
    BY <2>1, <2>2 DEF Places
<1>6. Closing'
  BY DEF IInv, Closing
<1> QED
  BY <1>1, <1>2, <1>3, <1>4, <1>5, <1>6, CountUnmoved DEF IInv

(* A worker goes to sleep with nothing in its hands. *)
LEMMA PopWaitStep ==
    ASSUME IInv, NEW w \in Workers, PopWait(w) PROVE IInv'
<1> USE DEF PopWait, treeVars, workerVars, queueVars
<1>1. TypeOK'
  BY DEF IInv, TypeOK
<1>2. Holding'
  BY DEF IInv, TypeOK, Holding
<1>3. OnePlace'
  BY DEF IInv, TypeOK, Holding, OnePlace
<1>4. Discovery'
  BY WalkAssumption DEF IInv, TypeOK, Holding, Discovery
<1>5. Places' = Places
  BY DEF Places, HeapDirs
<1>6. Closing'
  BY DEF IInv, Closing
<1> QED
  BY <1>1, <1>2, <1>3, <1>4, <1>5, <1>6, CountUnmoved DEF IInv

(* A worker goes home with nothing in its hands. *)
LEMMA PopExitStep ==
    ASSUME IInv, NEW w \in Workers, PopExit(w) PROVE IInv'
<1> USE DEF PopExit, treeVars, workerVars, queueVars
<1>1. TypeOK'
  BY DEF IInv, TypeOK
<1>2. Holding'
  BY DEF IInv, TypeOK, Holding
<1>3. OnePlace'
  BY DEF IInv, TypeOK, Holding, OnePlace
<1>4. Discovery'
  BY WalkAssumption DEF IInv, TypeOK, Holding, Discovery
<1>5. Places' = Places
  BY DEF Places, HeapDirs
<1>6. Closing'
  BY DEF IInv, Closing
<1> QED
  BY <1>1, <1>2, <1>3, <1>4, <1>5, <1>6, CountUnmoved DEF IInv

(* A cancelled worker lets its directory go unread. *)
LEMMA CheckCancelledStep ==
    ASSUME IInv, NEW w \in Workers, CheckCancelled(w) PROVE IInv'
<1> USE DEF CheckCancelled, treeVars, workerVars, queueVars
<1>1. TypeOK'
  BY DEF IInv, TypeOK
<1>2. Holding'
  BY DEF IInv, TypeOK, Holding
<1>3. OnePlace'
  BY DEF IInv, TypeOK, Holding, OnePlace
<1>4. Discovery'
  BY WalkAssumption DEF IInv, TypeOK, Holding, Discovery
<1>5. Places' = Places
  BY DEF Places, HeapDirs
<1>6. Closing'
  BY DEF IInv, Closing
<1> QED
  BY <1>1, <1>2, <1>3, <1>4, <1>5, <1>6, CountUnmoved DEF IInv

(* A directory at the depth cap is let go unread. *)
LEMMA CheckDeferredStep ==
    ASSUME IInv, NEW w \in Workers, CheckDeferred(w) PROVE IInv'
<1> USE DEF CheckDeferred, treeVars, workerVars, queueVars
<1>1. TypeOK'
  BY DEF IInv, TypeOK, SubtreeState
<1>2. Holding'
  BY DEF IInv, TypeOK, Holding
<1>3. OnePlace'
  BY DEF IInv, TypeOK, Holding, OnePlace
<1>4. Discovery'
  BY WalkAssumption DEF IInv, TypeOK, Holding, Discovery
<1>5. Places' = Places
  BY DEF Places, HeapDirs
<1>6. Closing'
  BY DEF IInv, Closing
<1> QED
  BY <1>1, <1>2, <1>3, <1>4, <1>5, <1>6, CountUnmoved DEF IInv

(* The directory is still unread when ReadDir is called. *)
LEMMA CheckPassedStep ==
    ASSUME IInv, NEW w \in Workers, CheckPassed(w) PROVE IInv'
<1> USE DEF CheckPassed, treeVars, workerVars, queueVars
<1>1. TypeOK'
  BY DEF IInv, TypeOK
<1>2. Holding'
  BY DEF IInv, TypeOK, Holding
<1>3. OnePlace'
  BY DEF IInv, TypeOK, Holding, OnePlace
<1>4. Discovery'
  BY WalkAssumption DEF IInv, TypeOK, Holding, Discovery
<1>5. Places' = Places
  BY DEF Places, HeapDirs
<1>6. Closing'
  BY DEF IInv, Closing
<1> QED
  BY <1>1, <1>2, <1>3, <1>4, <1>5, <1>6, CountUnmoved DEF IInv

(* A denied directory is let go unread. *)
LEMMA ReadDirDeniedStep ==
    ASSUME IInv, NEW w \in Workers, ReadDirDenied(w) PROVE IInv'
<1> USE DEF ReadDirDenied, treeVars, workerVars, queueVars
<1>1. TypeOK'
  <2>1. stats' \in [StatNames -> Nat]
    BY CountedType DEF IInv
  <2> QED
    BY <2>1 DEF IInv, TypeOK, SubtreeState
<1>2. Holding'
  BY DEF IInv, TypeOK, Holding
<1>3. OnePlace'
  BY DEF IInv, TypeOK, Holding, OnePlace
<1>4. Discovery'
  BY WalkAssumption DEF IInv, TypeOK, Holding, Discovery
<1>5. Places' = Places
  BY DEF Places, HeapDirs
<1>6. Closing'
  BY DEF IInv, Closing
<1> QED
  BY <1>1, <1>2, <1>3, <1>4, <1>5, <1>6, CountUnmoved DEF IInv

(* An entry less to look at. *)
LEMMA StatFailsStep ==
    ASSUME IInv, NEW w \in Workers, NEW e \in Paths, StatFails(w, e) PROVE IInv'
<1> USE DEF StatFails, treeVars, workerVars, queueVars
<1>1. TypeOK'
  <2>1. stats' \in [StatNames -> Nat]
    BY CountedType DEF IInv
  <2> QED
    BY <2>1 DEF IInv, TypeOK
<1>2. Holding'
  BY DEF IInv, TypeOK, Holding
<1>3. OnePlace'
  BY DEF IInv, TypeOK, Holding, OnePlace
<1>4. Discovery'
  BY WalkAssumption DEF IInv, TypeOK, Holding, Discovery
<1>5. Places' = Places
  BY DEF Places, HeapDirs
<1>6. Closing'
  BY DEF IInv, Closing
<1> QED
  BY <1>1, <1>2, <1>3, <1>4, <1>5, <1>6, CountUnmoved DEF IInv

(* An entry turns into a subdirectory not yet counted. *)
LEMMA StatDirStep ==
    ASSUME IInv, NEW w \in Workers, NEW e \in Paths, StatDir(w, e) PROVE IInv'
<1> USE DEF StatDir, treeVars, workerVars, queueVars, Record
<1>1. TypeOK'
  BY DEF IInv, TypeOK
<1>2. Holding'
  BY DEF IInv, TypeOK, Holding
<1>3. OnePlace'
  BY DEF IInv, TypeOK, Holding, OnePlace
<1>4. Discovery'
  BY WalkAssumption DEF IInv, TypeOK, Holding, Discovery
<1>5. Places' = Places
  BY DEF Places, HeapDirs
<1>6. Closing'
  BY DEF IInv, Closing
<1> QED
  BY <1>1, <1>2, <1>3, <1>4, <1>5, <1>6, CountUnmoved DEF IInv

(* An entry less to look at. *)
LEMMA StatSymlinkStep ==
    ASSUME IInv, NEW w \in Workers, NEW e \in Paths, StatSymlink(w, e) PROVE IInv'
<1> USE DEF StatSymlink, treeVars, workerVars, queueVars, Record
<1>1. TypeOK'
  <2>1. stats' \in [StatNames -> Nat]
    BY CountedType DEF IInv
  <2>2. SizeOf[e] \in Nat /\ directBytes \in [Workers -> Nat]
    BY WalkAssumption DEF Leaves, IInv, TypeOK
  <2>3. directBytes' \in [Workers -> Nat]
    BY <2>2
  <2> QED
    BY <2>1, <2>3 DEF IInv, TypeOK
<1>2. Holding'
  BY DEF IInv, TypeOK, Holding
<1>3. OnePlace'
  BY DEF IInv, TypeOK, Holding, OnePlace
<1>4. Discovery'
  BY WalkAssumption DEF IInv, TypeOK, Holding, Discovery
<1>5. Places' = Places
  BY DEF Places, HeapDirs
<1>6. Closing'
  BY DEF IInv, Closing
<1> QED
  BY <1>1, <1>2, <1>3, <1>4, <1>5, <1>6, CountUnmoved DEF IInv

(* The directory is read: its entries are to be looked at, none was counted.  *)
LEMMA ReadDirStep ==
    ASSUME IInv, NEW w \in Workers, ReadDir(w) PROVE IInv'
<1> USE DEF ReadDir, treeVars, workerVars, queueVars
<1>1. TypeOK'
  <2>1. stats' \in [StatNames -> Nat]
    BY CountedType DEF IInv
  <2>2. node[w] \in Dirs
    BY DEF IInv, TypeOK, Holding
  <2>3. Entries[node[w]] \subseteq Paths
    BY <2>2, WalkAssumption
  <2> QED
    BY <2>1, <2>2, <2>3 DEF IInv, TypeOK
<1>2. Holding'
  BY DEF IInv, TypeOK, Holding
<1>3. OnePlace'
  BY DEF IInv, TypeOK, Holding, OnePlace
<1>4. Discovery'
  <2>1. /\ node[w] \in Dirs /\ node[w] \in queued /\ node[w] \notin expanded
        /\ subdirs[w] = {}
    BY DEF IInv, TypeOK, Holding, Discovery
  <2>2. Entries[node[w]] \cap queued = {}
    BY <2>1 DEF IInv, Discovery
  <2>3. \A v \in Workers : v # w => node[v] # node[w] /\ sub[v] # node[w]
    BY <2>1, WalkAssumption DEF IInv, TypeOK, OnePlace
  <2>4. \A i \in heap : i.node # node[w]
    BY DEF IInv, OnePlace
  <2>5. sub[w] = None
    BY DEF IInv, Holding
  <2>6. ASSUME NEW v \in Workers
        PROVE  /\ node[v] # None => node[v] \in queued
               /\ sub[v] # None => sub[v] \in queued \ expanded'
               /\ pc'[v] \in {"check", "readdir"} => node[v] \notin expanded'
               /\ todo'[v] \cup subdirs[v] # {} =>
                    /\ node[v] \in expanded'
                    /\ todo'[v] \cup subdirs[v] \subseteq Entries[node[v]] \ queued
                    /\ todo'[v] \cap subdirs[v] = {}
    <3>1. CASE v = w
      BY <3>1, <2>1, <2>2, <2>5 DEF IInv, TypeOK
    <3>2. CASE v # w
      <4>1. pc'[v] = pc[v] /\ todo'[v] = todo[v]
        BY <3>2 DEF IInv, TypeOK
      <4> QED
        BY <3>2, <4>1, <2>3 DEF IInv, Discovery
    <3> QED
      BY <3>1, <3>2
  <2> QED
    BY <2>1, <2>4, <2>6 DEF IInv, Discovery
<1>5. Places' = Places
  BY DEF Places, HeapDirs
<1>6. Closing'
  BY DEF IInv, Closing
<1> QED
  BY <1>1, <1>2, <1>3, <1>4, <1>5, <1>6, CountUnmoved DEF IInv

(* An entry less to look at.  *)
LEMMA StatDuplicateStep ==
    ASSUME IInv, NEW w \in Workers, NEW e \in Paths, StatDuplicate(w, e) PROVE IInv'
<1> USE DEF StatDuplicate, treeVars, workerVars, queueVars, Record
<1>1. TypeOK'
  <2>1. Counted({"duplicateFiles", "filesScanned"}) \in [StatNames -> Nat]
    BY CountedType DEF IInv
  <2>2. SizeOf[e] \in Nat
    BY WalkAssumption DEF Leaves
  <2>3. stats' \in [StatNames -> Nat]
    BY <2>1, <2>2 DEF StatNames
  <2> QED
    BY <2>3 DEF IInv, TypeOK
<1>2. Holding'
  BY DEF IInv, TypeOK, Holding
<1>3. OnePlace'
  BY DEF IInv, TypeOK, Holding, OnePlace
<1>4. Discovery'
  BY WalkAssumption DEF IInv, TypeOK, Holding, Discovery
<1>5. Places' = Places
  BY DEF Places, HeapDirs
<1>6. Closing'
  BY DEF IInv, Closing
<1> QED
  BY <1>1, <1>2, <1>3, <1>4, <1>5, <1>6, CountUnmoved DEF IInv

(* An entry less to look at.  *)
LEMMA StatFileStep ==
    ASSUME IInv, NEW w \in Workers, NEW e \in Paths, StatFile(w, e) PROVE IInv'
<1> USE DEF StatFile, treeVars, workerVars, queueVars, Record
<1>1. TypeOK'
  <2>1. stats' \in [StatNames -> Nat]
    BY CountedType DEF IInv
  <2>2. SizeOf[e] \in Nat /\ directBytes \in [Workers -> Nat]
    BY WalkAssumption DEF Leaves, IInv, TypeOK
  <2>3. directBytes' \in [Workers -> Nat]
    BY <2>2
  <2> QED
    BY <2>1, <2>3 DEF IInv, TypeOK
<1>2. Holding'
  BY DEF IInv, TypeOK, Holding
<1>3. OnePlace'
  BY DEF IInv, TypeOK, Holding, OnePlace
<1>4. Discovery'
  BY WalkAssumption DEF IInv, TypeOK, Holding, Discovery
<1>5. Places' = Places
  BY DEF Places, HeapDirs
<1>6. Closing'
  BY DEF IInv, Closing
<1> QED
  BY <1>1, <1>2, <1>3, <1>4, <1>5, <1>6, CountUnmoved DEF IInv

(* A subdirectory less to count.  *)
LEMMA SkipCrossDeviceStep ==
    ASSUME IInv, NEW w \in Workers, NEW d \in Dirs, SkipCrossDevice(w, d) PROVE IInv'
<1> USE DEF SkipCrossDevice, treeVars, workerVars, queueVars
<1>1. TypeOK'
  <2>1. stats' \in [StatNames -> Nat]
    BY CountedType DEF IInv
  <2> QED
    BY <2>1 DEF IInv, TypeOK, SubtreeState
<1>2. Holding'
  BY DEF IInv, TypeOK, Holding
<1>3. OnePlace'
  BY DEF IInv, TypeOK, Holding, OnePlace
<1>4. Discovery'
  BY WalkAssumption DEF IInv, TypeOK, Holding, Discovery
<1>5. Places' = Places
  BY DEF Places, HeapDirs
<1>6. Closing'
  BY DEF IInv, Closing
<1> QED
  BY <1>1, <1>2, <1>3, <1>4, <1>5, <1>6, CountUnmoved DEF IInv

(* A subdirectory never counted before becomes outstanding, and pending one *)
(* higher.  The worker's own directory is outstanding, so that pending was  *)
(* not zero and the closer has not moved.                                   *)
LEMMA CountSubStep ==
    ASSUME IInv, NEW w \in Workers, NEW d \in Dirs, CountSub(w, d)
    PROVE  IInv' /\ closer = "wait" /\ pending > 0
           /\ d \notin Outstanding /\ Outstanding' = Outstanding \cup {d}
<1> USE DEF CountSub, treeVars, queueVars
<1>0. /\ node[w] \in Dirs /\ node[w] \in expanded
      /\ d \in Entries[node[w]] /\ d \notin queued /\ d \notin expanded
      /\ d # None /\ sub[w] = None
  BY WalkAssumption DEF IInv, TypeOK, Holding, Discovery
<1>1. TypeOK'
  <2>1. stats' \in [StatNames -> Nat]
    BY CountedType DEF IInv
  <2> QED
    BY <2>1 DEF IInv, TypeOK
<1>2. Holding'
  BY <1>0 DEF IInv, TypeOK, Holding
<1>3. OnePlace'
  <2>1. \A i \in heap : i.node # d
    BY <1>0 DEF IInv, Discovery
  <2>2. \A v \in Workers : node[v] # d /\ sub[v] # d
    BY <1>0 DEF IInv, Discovery
  <2>3. \A v \in Workers : sub'[v] = IF v = w THEN d ELSE sub[v]
    BY DEF IInv, TypeOK
  <2> QED
    BY <1>0, <2>1, <2>2, <2>3 DEF IInv, OnePlace
<1>4. Discovery'
  <2>1. ASSUME NEW x \in Dirs \ expanded PROVE d \notin Entries[x]
    BY <1>0, WalkAssumption
  <2>2. ASSUME NEW v \in Workers, v # w, node[v] # None
        PROVE  d \notin Entries[node[v]]
    <3>1. node[v] \in Dirs /\ node[v] # node[w]
      BY <2>2, <1>0 DEF IInv, TypeOK, OnePlace
    <3> QED
      BY <3>1, <1>0, WalkAssumption
  <2>3. ASSUME NEW v \in Workers
        PROVE  /\ node[v] # None => node[v] \in queued'
               /\ sub'[v] # None => sub'[v] \in queued' \ expanded
               /\ pc'[v] \in {"check", "readdir"} => node[v] \notin expanded
               /\ todo[v] \cup subdirs'[v] # {} =>
                    /\ node[v] \in expanded
                    /\ todo[v] \cup subdirs'[v] \subseteq Entries[node[v]] \ queued'
                    /\ todo[v] \cap subdirs'[v] = {}
    <3>1. CASE v = w
      BY <3>1, <1>0 DEF IInv, TypeOK, Discovery
    <3>2. CASE v # w
      <4>1. pc'[v] = pc[v] /\ sub'[v] = sub[v] /\ subdirs'[v] = subdirs[v]
        BY <3>2 DEF IInv, TypeOK
      <4>2. todo[v] \cup subdirs[v] # {} => node[v] # None
        BY DEF IInv, Holding
      <4> QED
        BY <3>2, <4>1, <4>2, <2>2 DEF IInv, Discovery
    <3> QED
      BY <3>1, <3>2
  <2> QED
    BY <2>1, <2>3, <1>0 DEF IInv, Discovery
<1>5. Outstanding' = Outstanding \cup {d} /\ d \notin Outstanding
  <2>1. (TypeOK /\ Holding => Outstanding = Places)'
    BY OutstandingPlaces, PTL
  <2>2. {sub'[v] : v \in Workers} \ {None}
          = ({sub[v] : v \in Workers} \ {None}) \cup {d}
    BY <1>0 DEF IInv, TypeOK
  <2>3. Places' = Places \cup {d}
    BY <2>2 DEF Places, HeapDirs
  <2>4. Places \subseteq queued
    BY DEF Places, HeapDirs, IInv, Discovery
  <2> QED
    BY <2>1, <2>3, <2>4, <1>0, <1>1, <1>2, OutstandingPlaces DEF IInv
<1>6. PendingCountsOutstanding'
  <2>1. IsFiniteSet(Outstanding)
    BY OutstandingFinite DEF IInv
  <2> QED
    BY <2>1, <1>5, FS_AddElement DEF IInv, PendingCountsOutstanding
<1>7. pending > 0 /\ closer = "wait"
  <2>1. node[w] \in Outstanding
    BY DEF Outstanding, HeldDirs, Busy
  <2>2. pending # 0
    BY <2>1, OutstandingFinite, FS_EmptySet DEF IInv, PendingCountsOutstanding
  <2> QED
    BY <2>2 DEF IInv, TypeOK, Closing
<1>8. Closing'
  BY <1>7 DEF IInv, Closing
<1> QED
  BY <1>1, <1>2, <1>3, <1>4, <1>5, <1>6, <1>7, <1>8 DEF IInv

(* The counted subdirectory goes from the worker to the queue.              *)
LEMMA PushStep ==
    ASSUME IInv, NEW w \in Workers, Push(w)
    PROVE  IInv' /\ Places' = Places
<1> USE DEF Push, treeVars
<1> DEFINE item == [node     |-> sub[w],
                    priority |-> PriorityOf(sub[w], directBytes[w]),
                    seq      |-> nextSeq,
                    depth    |-> level[w] + 1]
<1>0. /\ heap' = heap \cup {item} /\ item.node = sub[w]
      /\ item \in QueueItem /\ sub[w] \in Dirs /\ sub[w] # None
      /\ sub[w] \in queued \ expanded
  BY WalkAssumption
     DEF IInv, TypeOK, Holding, Discovery, QueueItem, PriorityOf
<1> HIDE DEF item
<1>1. TypeOK'
  BY <1>0 DEF IInv, TypeOK
<1>2. Holding'
  BY DEF IInv, TypeOK, Holding
<1>3. OnePlace'
  <2>1. \A v \in Workers : sub'[v] = IF v = w THEN None ELSE sub[v]
    BY DEF IInv, TypeOK
  <2>2. \A v \in Workers : node[v] # sub[w] /\ sub'[v] # sub[w]
    BY <1>0, <2>1 DEF IInv, OnePlace
  <2>3. \A i \in heap : i.node # sub[w]
    BY DEF IInv, OnePlace
  <2>4. \A i \in heap : i.node # None
    BY WalkAssumption DEF IInv, TypeOK, QueueItem
  <2> QED
    BY <1>0, <2>1, <2>2, <2>3, <2>4 DEF IInv, OnePlace
<1>4. Discovery'
  BY <1>0 DEF IInv, TypeOK, Holding, Discovery
<1>5. Places' = Places
  <2>1. HeapDirs' = HeapDirs \cup {sub[w]}
    BY <1>0 DEF HeapDirs
  <2>2. {sub[v] : v \in Workers} \ {None}
          = ({sub'[v] : v \in Workers} \ {None}) \cup {sub[w]}
    BY <1>0 DEF IInv, TypeOK
  <2> QED
    BY <2>1, <2>2 DEF Places
<1>6. Closing'
  BY DEF IInv, Closing
<1> QED
  BY <1>1, <1>2, <1>3, <1>4, <1>5, <1>6, CountUnmoved DEF IInv

(* A sleeping worker that is woken holds nothing, and still holds nothing.  *)
LEMMA SignalStep == ASSUME IInv, NEW w \in Workers, Signal(w) PROVE IInv'
<1> USE DEF Signal, Waiting, treeVars, queueVars
<1>1. TypeOK'
  BY DEF IInv, TypeOK
<1>2. Holding'
  BY DEF IInv, TypeOK, Holding
<1>3. OnePlace'
  BY DEF IInv, TypeOK, Holding, OnePlace
<1>4. Discovery'
  BY DEF IInv, TypeOK, Holding, Discovery
<1>5. Places' = Places
  BY DEF Places, HeapDirs
<1>6. Closing'
  BY DEF IInv, Closing
<1> QED
  BY <1>1, <1>2, <1>3, <1>4, <1>5, <1>6, CountUnmoved DEF IInv

(* The worker's directory is outstanding no more, and pending one lower.    *)
LEMMA DoneStep ==
    ASSUME IInv, NEW w \in Workers, Done(w)
    PROVE  IInv' /\ node[w] \in Outstanding
           /\ Outstanding' = Outstanding \ {node[w]}
<1> USE DEF Done, treeVars, queueVars
<1>0. /\ node[w] \in Dirs /\ node[w] # None /\ sub[w] = None
      /\ node[w] \in Outstanding
  BY WalkAssumption DEF IInv, TypeOK, Holding, Outstanding, HeldDirs, Busy
<1>1. pending > 0 /\ pending - 1 \in Nat /\ closer = "wait"
  <2>1. pending # 0
    BY <1>0, OutstandingFinite, FS_EmptySet DEF IInv, PendingCountsOutstanding
  <2> QED
    BY <2>1 DEF IInv, TypeOK, Closing
<1>2. TypeOK'
  BY <1>1 DEF IInv, TypeOK
<1>3. Holding'
  BY DEF IInv, TypeOK, Holding
<1>4. OnePlace'
  BY DEF IInv, TypeOK, Holding, OnePlace
<1>5. Discovery'
  BY DEF IInv, TypeOK, Holding, Discovery
<1>6. Outstanding' = Outstanding \ {node[w]}
  <2>1. (TypeOK /\ Holding => Outstanding = Places)'
    BY OutstandingPlaces, PTL
  <2>2. {node'[v] : v \in Workers} \ {None}
          = ({node[v] : v \in Workers} \ {None}) \ {node[w]}
    BY <1>0 DEF IInv, TypeOK, OnePlace
  <2>3. node[w] \notin HeapDirs /\ node[w] \notin {sub[v] : v \in Workers}
    BY <1>0 DEF HeapDirs, IInv, OnePlace
  <2>4. Places' = Places \ {node[w]}
    BY <2>2, <2>3 DEF Places, HeapDirs
  <2> QED
    BY <2>1, <2>4, <1>2, <1>3, OutstandingPlaces DEF IInv
<1>7. PendingCountsOutstanding'
  <2>1. IsFiniteSet(Outstanding)
    BY OutstandingFinite DEF IInv
  <2> QED
    BY <2>1, <1>0, <1>6, FS_RemoveElement DEF IInv, PendingCountsOutstanding
<1>8. Closing'
  BY <1>1 DEF IInv, Closing
<1> QED
  BY <1>0, <1>2, <1>3, <1>4, <1>5, <1>6, <1>7, <1>8 DEF IInv

-----------------------------------------------------------------------------
(* The closer, the caller and the context                                   *)

(* The closer moves only once pending is zero.                              *)
LEMMA PendingZeroStep == ASSUME IInv, PendingZero PROVE IInv'
<1> USE DEF PendingZero, treeVars, workerVars, queueVars
<1>1. TypeOK'
  BY DEF IInv, TypeOK
<1>2. Holding'
  BY DEF IInv, TypeOK, Holding
<1>3. OnePlace'
  BY DEF IInv, TypeOK, Holding, OnePlace
<1>4. Discovery'
  BY DEF IInv, TypeOK, Holding, Discovery
<1>5. Places' = Places
  BY DEF Places, HeapDirs
<1>6. Closing'
  BY DEF IInv, Closing
<1> QED
  BY <1>1, <1>2, <1>3, <1>4, <1>5, <1>6, CountUnmoved DEF IInv

(* The queue closes after the closer has moved.                             *)
LEMMA CloseStep == ASSUME IInv, Close PROVE IInv'
<1> USE DEF Close, treeVars, workerVars
<1>1. TypeOK'
  BY DEF IInv, TypeOK
<1>2. Holding'
  BY DEF IInv, TypeOK, Holding
<1>3. OnePlace'
  BY DEF IInv, TypeOK, Holding, OnePlace
<1>4. Discovery'
  BY DEF IInv, TypeOK, Holding, Discovery
<1>5. Places' = Places
  BY DEF Places, HeapDirs
<1>6. Closing'
  BY DEF IInv, Closing
<1> QED
  BY <1>1, <1>2, <1>3, <1>4, <1>5, <1>6, CountUnmoved DEF IInv

(* The sleeping workers that are woken still hold nothing.                  *)
LEMMA BroadcastStep == ASSUME IInv, Broadcast PROVE IInv'
<1> USE DEF Broadcast, Waiting, treeVars, queueVars
<1>1. TypeOK'
  BY DEF IInv, TypeOK
<1>2. Holding'
  BY DEF IInv, TypeOK, Holding
<1>3. OnePlace'
  BY DEF IInv, TypeOK, Holding, OnePlace
<1>4. Discovery'
  BY DEF IInv, TypeOK, Holding, Discovery
<1>5. Places' = Places
  BY DEF Places, HeapDirs
<1>6. Closing'
  BY DEF IInv, Closing
<1> QED
  BY <1>1, <1>2, <1>3, <1>4, <1>5, <1>6, CountUnmoved DEF IInv

(* Walk's own goroutine touches the tree and its result, and no place.      *)
LEMMA CallerStepStep == ASSUME IInv, CallerStep PROVE IInv'
<1> USE DEF CallerStep, RollUp, Return, DeniedDirs, treeVars, workerVars, queueVars
<1>0. /\ UNCHANGED <<queueVars, pending, workerVars, closer, cancelled, expanded,
                    children, duplicate, seen, stats, queued>>
      /\ returned' \in BOOLEAN
      /\ deniedSample' \subseteq Dirs
      /\ rolled' \subseteq Dirs
      /\ state' \in [Dirs -> SubtreeState]
  <2>1. ASSUME NEW d \in Dirs PROVE RolledState(d) \in SubtreeState
    BY DEF RolledState, SubtreeState
  <2>2. CASE Return
    BY <2>2 DEF IInv, TypeOK
  <2>3. ASSUME NEW d \in Dirs, RollUp(d)
        PROVE  rolled' \subseteq Dirs /\ state' \in [Dirs -> SubtreeState]
    BY <2>1, <2>3 DEF IInv, TypeOK
  <2>4. ASSUME NEW d \in Dirs, RollUp(d)
        PROVE  UNCHANGED <<queueVars, pending, workerVars, closer, cancelled, returned,
                           expanded, children, duplicate, seen, stats, deniedSample, queued>>
    BY <2>4
  <2> QED
    BY <2>2, <2>3, <2>4 DEF IInv, TypeOK
<1>1. TypeOK'
  <2>1. TypeOK
    BY DEF IInv
  <2> HIDE DEF CallerStep, RollUp, Return
  <2> QED
    BY <1>0, <2>1 DEF TypeOK
<1>2. Holding'
  BY DEF IInv, TypeOK, Holding
<1>3. OnePlace'
  BY DEF IInv, TypeOK, Holding, OnePlace
<1>4. Discovery'
  BY DEF IInv, TypeOK, Holding, Discovery
<1>5. Places' = Places
  BY DEF Places, HeapDirs
<1>6. Closing'
  BY DEF IInv, Closing
<1> QED
  BY <1>1, <1>2, <1>3, <1>4, <1>5, <1>6, CountUnmoved DEF IInv

(* A cancellation moves nothing.                                            *)
LEMMA CancelStep == ASSUME IInv, Cancel PROVE IInv'
<1> USE DEF Cancel, treeVars, workerVars, queueVars
<1>1. TypeOK'
  BY DEF IInv, TypeOK
<1>2. Holding'
  BY DEF IInv, TypeOK, Holding
<1>3. OnePlace'
  BY DEF IInv, TypeOK, Holding, OnePlace
<1>4. Discovery'
  BY DEF IInv, TypeOK, Holding, Discovery
<1>5. Places' = Places
  BY DEF Places, HeapDirs
<1>6. Closing'
  BY DEF IInv, Closing
<1> QED
  BY <1>1, <1>2, <1>3, <1>4, <1>5, <1>6, CountUnmoved DEF IInv

-----------------------------------------------------------------------------
(* Every step of Walk keeps the invariant.                                  *)
LEMMA NextIInv == IInv /\ [Next]_vars => IInv'
<1> SUFFICES ASSUME IInv, [Next]_vars PROVE IInv'
  OBVIOUS
<1>1. ASSUME NEW w \in Workers, WorkerStep(w) PROVE IInv'
  <2>1. CASE PopItem(w) \/ PopWait(w) \/ PopExit(w)
    BY <2>1, PopItemStep, PopWaitStep, PopExitStep
  <2>2. CASE CheckCancelled(w) \/ CheckDeferred(w) \/ CheckPassed(w)
    BY <2>2, CheckCancelledStep, CheckDeferredStep, CheckPassedStep
  <2>3. CASE ReadDirDenied(w) \/ ReadDir(w)
    BY <2>3, ReadDirDeniedStep, ReadDirStep
  <2>4. ASSUME NEW e \in Paths,
               \/ StatFails(w, e) \/ StatDir(w, e) \/ StatSymlink(w, e)
               \/ StatDuplicate(w, e) \/ StatFile(w, e)
        PROVE  IInv'
    BY <2>4, StatFailsStep, StatDirStep, StatSymlinkStep, StatDuplicateStep,
       StatFileStep
  <2>5. ASSUME NEW d \in Dirs, SkipCrossDevice(w, d) \/ CountSub(w, d)
        PROVE  IInv'
    BY <2>5, SkipCrossDeviceStep, CountSubStep
  <2>6. CASE Push(w) \/ Signal(w) \/ Done(w)
    BY <2>6, PushStep, SignalStep, DoneStep
  <2> QED
    BY <1>1, <2>1, <2>2, <2>3, <2>4, <2>5, <2>6 DEF WorkerStep
<1>2. CASE CloserStep
  BY <1>2, PendingZeroStep, CloseStep, BroadcastStep DEF CloserStep
<1>3. CASE CallerStep
  BY <1>3, CallerStepStep
<1>4. CASE Cancel
  BY <1>4, CancelStep
<1>5. CASE UNCHANGED vars
  <2> USE <1>5 DEF vars, queueVars, workerVars, treeVars
  <2>1. TypeOK' /\ Holding'
    BY DEF IInv, TypeOK, Holding
  <2>2. OnePlace' /\ Discovery' /\ Closing'
    BY DEF IInv, OnePlace, Discovery, Closing
  <2>3. Places' = Places
    BY DEF Places, HeapDirs
  <2> QED
    BY <2>1, <2>2, <2>3, CountUnmoved DEF IInv
<1> QED
  BY <1>1, <1>2, <1>3, <1>4, <1>5 DEF Next, Terminated

(* The inductive invariant holds throughout.                                *)
THEOREM Invariance == Spec => []IInv
  BY InitIInv, NextIInv, PTL DEF Spec

-----------------------------------------------------------------------------
(* The theorems                                                             *)

(* Every reachable state is well typed: in particular pending, the          *)
(* WaitGroup of walk.go:87, is never negative, for which Go would panic.    *)
THEOREM TypeCorrect == Spec => []TypeOK
  BY Invariance, PTL DEF IInv

(* The WaitGroup always equals the number of directories queued, held by a  *)
(* worker or about to be pushed (walk.go:87-103, 219-221).                  *)
THEOREM PendingIsExact == Spec => []PendingCountsOutstanding
  BY Invariance, PTL DEF IInv

(* Once the closer has seen the WaitGroup at zero, nothing is queued or     *)
(* being expanded, and nothing ever will be (walk.go:108-111).              *)
THEOREM DrainedWhenClosed == Spec => []ClosedMeansDrained
<1>1. IInv => ClosedMeansDrained
  <2> SUFFICES ASSUME IInv, closer # "wait" PROVE Outstanding = {}
    BY DEF ClosedMeansDrained
  <2>1. Cardinality(Outstanding) = 0
    BY DEF IInv, Closing, PendingCountsOutstanding
  <2> QED
    BY <2>1, OutstandingFinite, FS_EmptySet DEF IInv
<1> QED
  BY <1>1, Invariance, PTL

(* Only two kinds of step change what is outstanding, or pending.           *)
LEMMA OutstandingChanges ==
    ASSUME IInv, IInv', [Next]_vars
    PROVE  \/ UNCHANGED <<pending, queued, Outstanding>>
           \/ \E w \in Workers : Done(w)
           \/ \E w \in Workers, d \in Dirs : CountSub(w, d)
<1> USE DEF treeVars, queueVars, workerVars
<1>1. Outstanding = Places /\ (Outstanding = Places)'
  <2>1. (TypeOK /\ Holding => Outstanding = Places)'
    BY OutstandingPlaces, PTL
  <2> QED
    BY <2>1, OutstandingPlaces DEF IInv
<1>2. ASSUME NEW w \in Workers, WorkerStep(w), ~Done(w),
             \A d \in Dirs : ~CountSub(w, d)
      PROVE  UNCHANGED <<pending, queued, Places>>
  <2>1. CASE PopItem(w) \/ Push(w)
    BY <2>1, PopItemStep, PushStep DEF PopItem, Push
  <2>2. CASE UNCHANGED <<pending, queued, heap, node, sub>>
    BY <2>2 DEF Places, HeapDirs
  <2> QED
    BY <1>2, <2>1, <2>2
       DEF WorkerStep, PopWait, PopExit, CheckCancelled, CheckDeferred,
           CheckPassed, ReadDirDenied, ReadDir, StatFails, StatDir,
           StatSymlink, StatDuplicate, StatFile, Record, SkipCrossDevice,
           Signal
<1>3. CASE CloserStep \/ CallerStep \/ Cancel \/ UNCHANGED vars
  <2>1. UNCHANGED <<pending, queued, heap, node, sub>>
    BY <1>3 DEF CloserStep, PendingZero, Close, Broadcast, CallerStep, RollUp,
                Return, Cancel, vars
  <2> QED
    BY <2>1, <1>1 DEF Places, HeapDirs
<1> QED
  BY <1>1, <1>2, <1>3 DEF Next, Terminated

(* The WaitGroup never leaves zero: no Add races with the Wait that is      *)
(* already satisfied (walk.go:108-111, 219).                                *)
THEOREM NeverAddsFromZero == Spec => NoAddFromZero
<1>1. IInv /\ IInv' /\ [Next]_vars => [pending = 0 => pending' = 0]_vars
  <2> SUFFICES ASSUME IInv, IInv', [Next]_vars, pending = 0 PROVE pending' = 0
    OBVIOUS
  <2>1. CASE \E w \in Workers : Done(w)
    <3> PICK w \in Workers : Done(w)
      BY <2>1
    <3>1. node[w] \in Outstanding
      BY DoneStep
    <3> QED
      BY <3>1, OutstandingFinite, FS_EmptySet DEF IInv, PendingCountsOutstanding
  <2>2. CASE \E w \in Workers, d \in Dirs : CountSub(w, d)
    BY <2>2, CountSubStep
  <2> QED
    BY <2>1, <2>2, OutstandingChanges
<1> QED
  BY <1>1, Invariance, PTL DEF Spec, NoAddFromZero

(* The traversal's safety: the pool of workers with its queue and counter   *)
(* implements the abstract traversal, which ends only when all it found is  *)
(* settled.                                                                 *)
THEOREM RefinesTraversal == Spec => T!Init /\ [][T!Next]_(T!vars)
<1> USE DEF treeVars, queueVars, workerVars
<1>1. Init => T!Init
  BY DEF Init, T!Init, Outstanding, HeapDirs, HeldDirs, CountedDirs, Busy
<1>2. IInv /\ IInv' /\ [Next]_vars => [T!Next]_(T!vars)
  <2> SUFFICES ASSUME IInv, IInv', [Next]_vars
               PROVE  T!Next \/ UNCHANGED T!vars
    BY DEF T!vars
  <2>1. ASSUME NEW w \in Workers, Done(w) PROVE T!Next
    <3>1. node[w] \in Dirs /\ UNCHANGED <<queued, closed>>
      BY <2>1, WalkAssumption DEF Done, IInv, TypeOK, Holding
    <3>2. T!Settle(node[w])
      BY <2>1, <3>1, DoneStep DEF T!Settle
    <3> QED
      BY <3>1, <3>2 DEF T!Next
  <2>2. ASSUME NEW w \in Workers, NEW d \in Dirs, CountSub(w, d) PROVE T!Next
    <3>1. /\ node[w] \in Dirs /\ node[w] \in Outstanding
          /\ d \in Entries[node[w]] /\ d \notin queued
      BY <2>2, WalkAssumption
         DEF CountSub, IInv, TypeOK, Holding, Discovery, Outstanding, HeldDirs,
             Busy
    <3>2. UNCHANGED closed /\ queued' = queued \cup {d}
      BY <2>2 DEF CountSub
    <3>3. T!Discover(node[w], d)
      BY <2>2, <3>1, <3>2, CountSubStep DEF T!Discover
    <3> QED
      BY <3>1, <3>3 DEF T!Next
  <2>3. CASE UNCHANGED <<queued, Outstanding>>
    <3>1. CASE Close
      <4>1. Outstanding = {}
        BY <3>1, OutstandingFinite, FS_EmptySet
           DEF Close, IInv, Closing, PendingCountsOutstanding
      <4> QED
        BY <2>3, <3>1, <4>1 DEF Close, T!Next, T!Finish
    <3>2. CASE UNCHANGED closed
      BY <2>3, <3>2 DEF T!vars
    <3>3. Close \/ UNCHANGED closed
      BY DEF Next, WorkerStep, PopItem, PopWait, PopExit, CheckCancelled,
             CheckDeferred, CheckPassed, ReadDirDenied, ReadDir, StatFails,
             StatDir, StatSymlink, StatDuplicate, StatFile, Record,
             SkipCrossDevice, CountSub, Push, Signal, Done, CloserStep,
             PendingZero, Broadcast, CallerStep, RollUp, Return, Cancel,
             Terminated, vars
    <3> QED
      BY <3>1, <3>2, <3>3
  <2> QED
    BY <2>1, <2>2, <2>3, OutstandingChanges
<1> QED
  BY <1>1, <1>2, Invariance, PTL DEF Spec

-----------------------------------------------------------------------------
(* Every directory accounted for                                            *)

(* Read, marked with a reason why not, or given up with the whole walk.     *)
Settled(d) ==
    d \in expanded \/ state[d] \in {"Denied", "Deferred", "CrossDevice"} \/ cancelled

Reached(d) == d = Root \/ \E p \in Dirs : d \in children[p]

(* A directory that was reached and is not settled is somebody's: queued,   *)
(* held, about to be pushed, or among the subdirectories a worker is yet to *)
(* count.                                                                   *)
Tracked ==
    \A d \in Dirs :
        Reached(d) => Settled(d) \/ d \in Places \/ \E w \in Workers : d \in subdirs[w]

(* A worker past the reading has settled what it holds, and goes home only  *)
(* from a closed queue.                                                     *)
SettledFirst ==
    /\ \A w \in Workers : pc[w] \in {"expand", "push", "signal"} => Settled(node[w])
    /\ \A w \in Workers : pc[w] = "exit" => closed
    /\ returned => AllExited

AInv == Tracked /\ SettledFirst

LEMMA InitAInv == Init => AInv
<1> SUFFICES ASSUME Init PROVE AInv
  OBVIOUS
<1>1. Root \in Places
  BY DEF Init, Places, HeapDirs
<1> QED
  BY <1>1 DEF Init, AInv, Tracked, SettledFirst, Reached

(* Nothing that is settled is ever unsettled.                               *)
LEMMA SettledForGood ==
    ASSUME IInv, [Next]_vars, NEW d \in Dirs, Settled(d) PROVE Settled(d)'
<1> USE DEF Settled, treeVars, queueVars, workerVars
<1>1. ASSUME NEW w \in Workers, WorkerStep(w) PROVE Settled(d)'
  BY <1>1 DEF WorkerStep, PopItem, PopWait, PopExit, CheckCancelled, CheckDeferred,
              CheckPassed, ReadDirDenied, ReadDir, StatFails, StatDir, StatSymlink,
              StatDuplicate, StatFile, Record, SkipCrossDevice, CountSub, Push, Signal,
              Done, IInv, TypeOK
<1>2. CASE CloserStep \/ Return \/ Cancel \/ UNCHANGED vars
  BY <1>2 DEF CloserStep, PendingZero, Close, Broadcast, Return, Cancel, vars
<1>3. ASSUME NEW e \in Dirs, RollUp(e) PROVE Settled(d)'
  BY <1>3 DEF RollUp, Unmeasured, IInv, TypeOK
<1> QED
  BY <1>1, <1>2, <1>3 DEF Next, CallerStep, Terminated

(* A step after which nothing reached is untracked that was not before.     *)
LEMMA StillTracked ==
    ASSUME IInv, [Next]_vars, Tracked, UNCHANGED children, Places \subseteq Places',
           \A w \in Workers : \A d \in subdirs[w] :
               Settled(d)' \/ d \in Places' \/ d \in subdirs'[w]
    PROVE  Tracked'
  BY SettledForGood DEF Tracked, Reached

LEMMA WorkerTracked ==
    ASSUME IInv, IInv', AInv, [Next]_vars, NEW w \in Workers, WorkerStep(w) PROVE Tracked'
<1> USE DEF treeVars, queueVars, workerVars
<1>1. ASSUME NEW e \in Paths, StatDir(w, e) PROVE Tracked'
  <2>1. /\ e \in subdirs'[w] /\ \A v \in Workers : subdirs[v] \subseteq subdirs'[v]
        /\ node[w] \in Dirs
    BY <1>1 DEF StatDir, Record, IInv, TypeOK, Holding
  <2>2. \A d \in Dirs : Reached(d)' => Reached(d) \/ d = e
    BY <1>1, <2>1 DEF StatDir, Record, Reached, IInv, TypeOK
  <2>3. Places' = Places
    BY <1>1 DEF StatDir, Record, Places, HeapDirs
  <2> QED
    BY <2>1, <2>2, <2>3, SettledForGood DEF AInv, Tracked
<1>2. ASSUME NEW e \in Leaves, StatSymlink(w, e) \/ StatDuplicate(w, e) \/ StatFile(w, e)
      PROVE  Tracked'
  <2>1. e \notin Dirs
    BY WalkAssumption DEF Leaves
  <2>2. node[w] \in Dirs /\ subdirs' = subdirs
    BY <1>2 DEF StatSymlink, StatDuplicate, StatFile, Record, IInv, TypeOK, Holding
  <2>3. \A d \in Dirs : Reached(d)' => Reached(d)
    BY <1>2, <2>1, <2>2
       DEF StatSymlink, StatDuplicate, StatFile, Record, Reached, IInv, TypeOK
  <2>4. Places' = Places
    BY <1>2 DEF StatSymlink, StatDuplicate, StatFile, Record, Places, HeapDirs
  <2> QED
    BY <2>2, <2>3, <2>4, SettledForGood DEF AInv, Tracked
<1>3. ASSUME NEW d \in Dirs, SkipCrossDevice(w, d) PROVE Tracked'
  <2>1. Settled(d)' /\ Places' = Places /\ UNCHANGED children
    BY <1>3 DEF SkipCrossDevice, Settled, Places, HeapDirs, IInv, TypeOK
  <2>2. \A v \in Workers : \A c \in subdirs[v] : c = d \/ c \in subdirs'[v]
    BY <1>3 DEF SkipCrossDevice, IInv, TypeOK
  <2> QED
    BY <2>1, <2>2, StillTracked DEF AInv
<1>4. ASSUME NEW d \in Dirs, CountSub(w, d) PROVE Tracked'
  <2>1. sub[w] = None /\ sub'[w] = d /\ \A v \in Workers : v # w => sub'[v] = sub[v]
    BY <1>4 DEF CountSub, IInv, TypeOK, Holding
  <2>2. Places \subseteq Places' /\ d \in Places'
    BY <1>4, <2>1, WalkAssumption DEF CountSub, Places, HeapDirs
  <2>3. \A v \in Workers : \A c \in subdirs[v] : c = d \/ c \in subdirs'[v]
    BY <1>4 DEF CountSub, IInv, TypeOK
  <2> QED
    BY <1>4, <2>2, <2>3, StillTracked DEF AInv, CountSub
<1>5. CASE Done(w)
  <2>1. Settled(node[w]) /\ node[w] \in Dirs
    BY <1>5 DEF Done, AInv, SettledFirst, IInv, TypeOK, Holding
  <2>2. \A d \in Places : d = node[w] \/ d \in Places'
    BY <1>5 DEF Done, Places, HeapDirs, IInv, TypeOK
  <2>3. UNCHANGED <<subdirs, children>>
    BY <1>5 DEF Done
  <2> QED
    BY <2>1, <2>2, <2>3, SettledForGood DEF AInv, Tracked, Reached
<1>6. CASE PopItem(w) \/ Push(w)
  <2>1. Places' = Places
    BY <1>6, PopItemStep, PushStep DEF PopItem, Push
  <2>2. UNCHANGED <<subdirs, children>>
    BY <1>6 DEF PopItem, Push
  <2> QED
    BY <2>1, <2>2, StillTracked DEF AInv
<1>7. CASE UNCHANGED <<heap, node, sub, subdirs, children>>
  <2>1. Places' = Places
    BY <1>7 DEF Places, HeapDirs
  <2> QED
    BY <1>7, <2>1, StillTracked DEF AInv
<1>8. \/ \E e \in Paths : StatDir(w, e)
      \/ \E e \in Leaves : StatSymlink(w, e) \/ StatDuplicate(w, e) \/ StatFile(w, e)
      \/ \E d \in Dirs : SkipCrossDevice(w, d) \/ CountSub(w, d)
      \/ Done(w) \/ PopItem(w) \/ Push(w)
      \/ UNCHANGED <<heap, node, sub, subdirs, children>>
  BY DEF WorkerStep, PopWait, PopExit, CheckCancelled, CheckDeferred, CheckPassed,
         ReadDirDenied, ReadDir, StatFails, StatSymlink, StatDuplicate, StatFile, Signal,
         Leaves
<1> QED
  BY <1>1, <1>2, <1>3, <1>4, <1>5, <1>6, <1>7, <1>8

LEMMA WorkerSettles ==
    ASSUME IInv, IInv', AInv, [Next]_vars, NEW w \in Workers, WorkerStep(w)
    PROVE  SettledFirst'
<1> USE DEF treeVars, queueVars, workerVars
<1>1. ASSUME NEW v \in Workers, pc'[v] \in {"expand", "push", "signal"}
      PROVE  Settled(node[v])' \/ (node[v] \in Dirs /\ Settled(node[v]) /\ node'[v] = node[v])
  BY <1>1
     DEF WorkerStep, PopItem, PopWait, PopExit, CheckCancelled, CheckDeferred,
         CheckPassed, ReadDirDenied, ReadDir, StatFails, StatDir, StatSymlink,
         StatDuplicate, StatFile, Record, SkipCrossDevice, CountSub, Push, Signal,
         Done, Waiting, IInv, TypeOK, Holding, AInv, SettledFirst, Settled
<1>2. ASSUME NEW v \in Workers, pc'[v] = "exit" PROVE closed'
  BY <1>2
     DEF WorkerStep, PopItem, PopWait, PopExit, CheckCancelled, CheckDeferred,
         CheckPassed, ReadDirDenied, ReadDir, StatFails, StatDir, StatSymlink,
         StatDuplicate, StatFile, Record, SkipCrossDevice, CountSub, Push, Signal,
         Done, IInv, TypeOK, AInv, SettledFirst
<1>3. ~returned'
  BY DEF WorkerStep, PopItem, PopWait, PopExit, CheckCancelled, CheckDeferred,
         CheckPassed, ReadDirDenied, ReadDir, StatFails, StatDir, StatSymlink,
         StatDuplicate, StatFile, Record, SkipCrossDevice, CountSub, Push, Signal,
         Done, AInv, SettledFirst, AllExited
<1> QED
  BY <1>1, <1>2, <1>3, SettledForGood DEF SettledFirst

LEMMA NextAInv == IInv /\ IInv' /\ AInv /\ [Next]_vars => AInv'
<1> SUFFICES ASSUME IInv, IInv', AInv, [Next]_vars PROVE AInv'
  OBVIOUS
<1> USE DEF treeVars, queueVars, workerVars
<1>1. ASSUME NEW w \in Workers, WorkerStep(w) PROVE AInv'
  BY <1>1, WorkerTracked, WorkerSettles DEF AInv
<1>2. CASE CloserStep \/ CallerStep \/ Cancel \/ UNCHANGED vars
  <2>1. UNCHANGED <<heap, node, sub, subdirs, children>>
    BY <1>2 DEF CloserStep, PendingZero, Close, Broadcast, CallerStep, RollUp, Return,
                Cancel, vars
  <2>2. Places' = Places
    BY <2>1 DEF Places, HeapDirs
  <2>3. Tracked'
    BY <2>1, <2>2, StillTracked DEF AInv
  <2>4. /\ \A v \in Workers :
             /\ pc'[v] \in {"expand", "push", "signal"} => pc[v] = pc'[v]
             /\ pc'[v] = "exit" <=> pc[v] = "exit"
        /\ closed => closed'
        /\ returned' => returned \/ AllExited
    BY <1>2 DEF CloserStep, PendingZero, Close, Broadcast, Waiting, CallerStep, RollUp,
                Return, Cancel, vars, IInv, TypeOK
  <2>5. \A v \in Workers : pc[v] \in {"expand", "push", "signal"} => node[v] \in Dirs
    BY DEF IInv, TypeOK, Holding
  <2>6. SettledFirst'
    BY <2>1, <2>4, <2>5, SettledForGood DEF AInv, SettledFirst, AllExited
  <2> QED
    BY <2>3, <2>6 DEF AInv
<1> QED
  BY <1>1, <1>2 DEF Next, Terminated

(* When a walk that nobody cancelled returns, every directory of the tree   *)
(* was read or says why not (walk.go:249-256), however many workers shared  *)
(* the tree: the queue was closed over an empty set of places, so that no   *)
(* directory reached can still be with somebody.                            *)
THEOREM NoneFallsBetween == Spec => []EveryDirectoryAccounted
<1>1. IInv /\ AInv => EveryDirectoryAccounted
  <2> SUFFICES ASSUME IInv, AInv, returned, ~cancelled, NEW d \in Dirs, InTree(d)
               PROVE  d \in expanded \/ state[d] \in {"Denied", "Deferred", "CrossDevice"}
    BY DEF EveryDirectoryAccounted
  <2>1. closed /\ \A w \in Workers : subdirs[w] = {}
    BY WalkAssumption DEF AInv, SettledFirst, AllExited, IInv, Holding
  <2>2. Cardinality(Outstanding) = 0
    BY <2>1 DEF IInv, Closing, PendingCountsOutstanding
  <2>3. Places = {}
    BY <2>2, OutstandingFinite, OutstandingPlaces, FS_EmptySet DEF IInv
  <2>4. Reached(d)
    BY DEF InTree, Reached, IInv, TypeOK
  <2> QED
    BY <2>1, <2>3, <2>4 DEF AInv, Tracked, Settled
<1> QED
  BY <1>1, InitIInv, NextIInv, InitAInv, NextAInv, PTL DEF Spec

-----------------------------------------------------------------------------
(* No lost wakeup                                                           *)

(* The workers on their way to the queue, or about to send one there.       *)
Coming == {w \in Workers : pc[w] \in {"pop", "signal"}}

WakeInv == IsFiniteSet(heap) /\ NoLostWakeup

LEMMA InitWakeInv == Init => WakeInv
<1> SUFFICES ASSUME Init PROVE WakeInv
  OBVIOUS
<1>1. IsFiniteSet(heap)
  BY FS_Singleton DEF Init
<1>2. Waiting = {}
  BY DEF Init, Waiting
<1> QED
  BY <1>1, <1>2 DEF WakeInv, NoLostWakeup

LEMMA ComingFinite == IsFiniteSet(Coming) /\ Cardinality(Coming) \in Nat
  BY FS_Subset, FS_CardinalityType, WalkAssumption DEF Coming

(* Only a push puts into the queue, and its worker signals next; whoever    *)
(* takes an item stops coming, and a signal sends a sleeper in its place.   *)
LEMMA WorkerWakes ==
    ASSUME IInv, WakeInv, NEW w \in Workers, WorkerStep(w) PROVE WakeInv'
<1> USE DEF queueVars, treeVars, workerVars
<1>0. /\ IsFiniteSet(heap) /\ IsFiniteSet(Coming) /\ IsFiniteSet(Coming')
      /\ Cardinality(heap) \in Nat /\ Cardinality(Coming) \in Nat
      /\ Cardinality(Coming') \in Nat
  <2>1. IsFiniteSet(Coming')
    BY FS_Subset, WalkAssumption DEF Coming
  <2> QED
    BY <2>1, ComingFinite, FS_CardinalityType DEF WakeInv
<1>1. CASE PopItem(w)
  <2>1. PICK i \in heap : heap' = heap \ {i}
    BY <1>1 DEF PopItem
  <2>2. Coming' = Coming \ {w} /\ w \in Coming /\ Waiting' = Waiting
    BY <1>1 DEF PopItem, Coming, Waiting, IInv, TypeOK
  <2>3. /\ IsFiniteSet(heap') /\ Cardinality(heap') = Cardinality(heap) - 1
        /\ Cardinality(Coming') = Cardinality(Coming) - 1
    BY <1>0, <2>1, <2>2, FS_RemoveElement
  <2>4. WakeInv => (Waiting # {} => Cardinality(heap) <= Cardinality(Coming))
    BY DEF WakeInv, NoLostWakeup, Coming
  <2>5. Waiting' # {} => Cardinality(heap') <= Cardinality(Coming')
    BY <1>0, <2>2, <2>3, <2>4
  <2> QED
    BY <2>3, <2>5 DEF WakeInv, NoLostWakeup, Coming
<1>2. CASE PopWait(w) \/ PopExit(w)
  <2>1. heap' = {} /\ Cardinality(heap') = 0 /\ IsFiniteSet(heap')
    BY <1>2, FS_EmptySet DEF PopWait, PopExit
  <2>2. Cardinality(heap') <= Cardinality(Coming')
    BY <1>0, <2>1
  <2> QED
    BY <2>1, <2>2 DEF WakeInv, NoLostWakeup, Coming
<1>3. CASE Push(w)
  <2>1. PICK i : heap' = heap \cup {i}
    BY <1>3 DEF Push
  <2>2. Coming' = Coming \cup {w} /\ w \notin Coming /\ Waiting' = Waiting
    BY <1>3 DEF Push, Coming, Waiting, IInv, TypeOK
  <2>3. /\ IsFiniteSet(heap') /\ Cardinality(heap') <= Cardinality(heap) + 1
        /\ Cardinality(Coming') = Cardinality(Coming) + 1
    <3>1. /\ IsFiniteSet(heap')
          /\ Cardinality(heap') = Cardinality(heap)
             \/ Cardinality(heap') = Cardinality(heap) + 1
      BY <1>0, <2>1, FS_AddElement
    <3>2. Cardinality(Coming') = Cardinality(Coming) + 1
      BY <1>0, <2>2, FS_AddElement
    <3> QED
      BY <1>0, <3>1, <3>2
  <2>4. Waiting # {} => Cardinality(heap) <= Cardinality(Coming)
    BY DEF WakeInv, NoLostWakeup, Coming
  <2>5. Cardinality(heap') \in Nat
    BY <2>3, FS_CardinalityType
  <2>6. Waiting' # {} => Cardinality(heap') <= Cardinality(Coming')
    BY <1>0, <2>2, <2>3, <2>4, <2>5
  <2> QED
    BY <2>3, <2>6 DEF WakeInv, NoLostWakeup, Coming
<1>4. CASE Signal(w)
  <2>1. heap' = heap
    BY <1>4 DEF Signal
  <2>2. CASE Waiting = {} /\ pc' = [pc EXCEPT ![w] = "expand"]
    <3>1. Waiting' = {}
      BY <2>2 DEF Waiting, IInv, TypeOK
    <3> QED
      BY <2>1, <3>1 DEF WakeInv, NoLostWakeup
  <2>3. ASSUME NEW v \in Waiting, pc' = [pc EXCEPT ![w] = "expand", ![v] = "pop"]
        PROVE  WakeInv'
    <3>1. /\ w \in Coming /\ v \notin Coming /\ v \in Workers /\ Waiting # {}
          /\ Coming' = (Coming \ {w}) \cup {v}
      BY <1>4, <2>3 DEF Signal, Coming, Waiting, IInv, TypeOK
    <3>2. /\ IsFiniteSet(Coming \ {w})
          /\ Cardinality(Coming \ {w}) = Cardinality(Coming) - 1
      BY <1>0, <3>1, FS_RemoveElement
    <3>3. Cardinality(Coming') = Cardinality(Coming)
      <4>1. v \notin Coming \ {w}
        BY <3>1
      <4>2. Cardinality((Coming \ {w}) \cup {v}) = Cardinality(Coming \ {w}) + 1
        BY <3>2, <4>1, FS_AddElement
      <4> QED
        BY <1>0, <3>1, <3>2, <4>2
    <3>4. Cardinality(heap) <= Cardinality(Coming)
      BY <3>1 DEF WakeInv, NoLostWakeup, Coming
    <3>5. Cardinality(heap') <= Cardinality(Coming')
      BY <2>1, <3>3, <3>4
    <3> QED
      BY <2>1, <1>0, <3>5 DEF WakeInv, NoLostWakeup, Coming
  <2> QED
    BY <1>4, <2>2, <2>3 DEF Signal
<1>5. CASE UNCHANGED heap /\ Coming \subseteq Coming' /\ Waiting' = Waiting
  <2>1. Cardinality(Coming) <= Cardinality(Coming')
    BY <1>0, <1>5, FS_Subset
  <2>2. Waiting # {} => Cardinality(heap) <= Cardinality(Coming)
    BY DEF WakeInv, NoLostWakeup, Coming
  <2>3. Waiting' # {} => Cardinality(heap') <= Cardinality(Coming')
    BY <1>0, <1>5, <2>1, <2>2
  <2> QED
    BY <1>0, <1>5, <2>3 DEF WakeInv, NoLostWakeup, Coming
<1>6. CASE \/ CheckCancelled(w) \/ CheckDeferred(w) \/ CheckPassed(w)
           \/ ReadDirDenied(w) \/ ReadDir(w)
           \/ \E e \in Paths : \/ StatFails(w, e) \/ StatDir(w, e) \/ StatSymlink(w, e)
                               \/ StatDuplicate(w, e) \/ StatFile(w, e)
           \/ \E d \in Dirs : SkipCrossDevice(w, d) \/ CountSub(w, d)
           \/ Done(w)
  <2>1. /\ UNCHANGED heap
        /\ \A v \in Workers : v # w => pc'[v] = pc[v]
        /\ pc[w] \notin {"pop", "signal", "wait"} /\ pc'[w] # "wait"
    BY <1>6 DEF CheckCancelled, CheckDeferred, CheckPassed, ReadDirDenied, ReadDir,
                StatFails, StatDir, StatSymlink, StatDuplicate, StatFile, Record,
                SkipCrossDevice, CountSub, Done, IInv, TypeOK
  <2>2. Coming \subseteq Coming' /\ Waiting' = Waiting
    BY <2>1 DEF Coming, Waiting
  <2> QED
    BY <1>5, <2>1, <2>2
<1> QED
  BY <1>1, <1>2, <1>3, <1>4, <1>6 DEF WorkerStep

(* While a worker sleeps, every item in the queue has a worker on its way   *)
(* to it (queue.go:56-77): the wakeup that comes after the unlock is never  *)
(* lost, whatever happens between the two.                                  *)
THEOREM WakeupsReachSleepers == Spec => []NoLostWakeup
<1>1. IInv /\ WakeInv /\ [Next]_vars => WakeInv'
  <2> SUFFICES ASSUME IInv, WakeInv, [Next]_vars PROVE WakeInv'
    OBVIOUS
  <2>1. ASSUME NEW w \in Workers, WorkerStep(w) PROVE WakeInv'
    BY <2>1, WorkerWakes
  <2>2. CASE Broadcast
    <3>1. Waiting' = {} /\ heap' = heap
      BY <2>2 DEF Broadcast, Waiting, queueVars
    <3> QED
      BY <3>1 DEF WakeInv, NoLostWakeup
  <2>3. CASE PendingZero \/ Close \/ CallerStep \/ Cancel \/ UNCHANGED vars
    <3>1. UNCHANGED <<heap, pc>>
      BY <2>3 DEF PendingZero, Close, CallerStep, RollUp, Return, Cancel, vars, queueVars,
                  workerVars
    <3> QED
      BY <3>1 DEF WakeInv, NoLostWakeup, Waiting
  <2> QED
    BY <2>1, <2>2, <2>3 DEF Next, CloserStep, Terminated
<1>2. WakeInv => NoLostWakeup
  BY DEF WakeInv
<1> QED
  BY <1>1, <1>2, InitIInv, NextIInv, InitWakeInv, PTL DEF Spec

-----------------------------------------------------------------------------
(* Hard links are counted once: whichever workers meet the links of an      *)
(* inode, in whatever order, exactly one of those recorded is no duplicate. *)
(* The invariant relates the dedup set, the marks on the files and the      *)
(* entries recorded; that none is recorded twice rests on IInv, by which a  *)
(* directory is only ever expanded by the one worker that holds it.         *)

(* What is recorded in a directory was listed there, and is not still to be *)
(* looked at.                                                               *)
RecordedOnce ==
    /\ \A d \in Dirs : children[d] \subseteq Entries[d]
    /\ \A d \in Dirs \ expanded : children[d] = {}
    /\ \A w \in Workers : todo[w] # {} => todo[w] \cap children[node[w]] = {}

(* The inodes seen are those of the linked files recorded, and each of them *)
(* has exactly one file that is no duplicate.                               *)
Deduplicated ==
    /\ duplicate \subseteq Linked \cap Recorded
    /\ \A f \in Linked \cap Recorded : InodeOf[f] \in seen
    /\ \A i \in seen : \E f \in (Linked \cap Recorded) \ duplicate : InodeOf[f] = i
    /\ \A f \in Linked \cap Recorded, g \in Linked \cap Recorded :
          InodeOf[f] = InodeOf[g] /\ f \notin duplicate /\ g \notin duplicate
            => f = g

LinkInv == RecordedOnce /\ Deduplicated

LEMMA InitLinkInv == Init => LinkInv
  BY DEF Init, LinkInv, RecordedOnce, Deduplicated, Recorded

(* A step that records nothing and reads no directory.                      *)
LEMMA LinkUnmoved ==
    ASSUME LinkInv, IInv, IInv', UNCHANGED <<children, duplicate, seen, expanded>>,
           \A w \in Workers :
              todo'[w] # {} => todo'[w] \subseteq todo[w] /\ node'[w] = node[w]
    PROVE  LinkInv'
<1>1. RecordedOnce'
  BY DEF LinkInv, RecordedOnce
<1>2. Deduplicated'
  BY DEF LinkInv, Deduplicated, Recorded
<1> QED
  BY <1>1, <1>2 DEF LinkInv

(* The directory read has no children yet.                                  *)
LEMMA ReadDirLinks ==
    ASSUME LinkInv, IInv, NEW w \in Workers, ReadDir(w) PROVE LinkInv'
<1> USE DEF ReadDir
<1>1. node[w] \in Dirs /\ node[w] \notin expanded /\ children[node[w]] = {}
  BY DEF IInv, TypeOK, Holding, Discovery, LinkInv, RecordedOnce
<1>2. RecordedOnce'
  BY <1>1 DEF LinkInv, RecordedOnce, IInv, TypeOK
<1>3. Deduplicated'
  BY DEF LinkInv, Deduplicated, Recorded
<1> QED
  BY <1>2, <1>3 DEF LinkInv

(* Recording an entry: it was not recorded before, here or elsewhere.       *)
LEMMA RecordOnce ==
    ASSUME LinkInv, IInv, NEW w \in Workers, NEW e \in Paths, Record(w, e)
    PROVE  RecordedOnce' /\ e \notin Recorded /\ Recorded' = Recorded \cup {e}
<1> USE DEF Record
<1>1. /\ node[w] \in Dirs /\ node[w] \in expanded /\ e \in Entries[node[w]]
      /\ e \notin children[node[w]]
  BY DEF IInv, TypeOK, Holding, Discovery, LinkInv, RecordedOnce
<1>2. \A d \in Dirs : children'[d] = IF d = node[w] THEN children[d] \cup {e}
                                                    ELSE children[d]
  BY DEF IInv, TypeOK
<1>3. \A v \in Workers : todo'[v] = IF v = w THEN todo[v] \ {e} ELSE todo[v]
  BY DEF IInv, TypeOK
<1>4. \A v \in Workers : v # w => node[v] # node[w]
  BY <1>1, WalkAssumption DEF IInv, TypeOK, OnePlace
<1>5. \A v \in Workers : todo[v] # {} => node[v] \in Dirs
  BY DEF IInv, TypeOK, Holding
<1>6. RecordedOnce'
  BY <1>1, <1>2, <1>3, <1>4, <1>5 DEF LinkInv, RecordedOnce
<1>7. e \notin Recorded
  <2>1. ASSUME NEW d \in Dirs PROVE e \notin children[d]
    <3>1. CASE d = node[w]
      BY <3>1, <1>1
    <3>2. CASE d # node[w]
      BY <3>2, <1>1, WalkAssumption DEF LinkInv, RecordedOnce
    <3> QED
      BY <3>1, <3>2
  <2> QED
    BY <2>1 DEF Recorded
<1>8. Recorded' = Recorded \cup {e}
  BY <1>1, <1>2 DEF Recorded
<1> QED
  BY <1>6, <1>7, <1>8

(* A directory or a symlink is no link.                                     *)
LEMMA OtherLinks ==
    ASSUME LinkInv, IInv, NEW w \in Workers, NEW e \in Paths,
           StatDir(w, e) \/ StatSymlink(w, e)
    PROVE  LinkInv'
<1>1. Record(w, e) /\ e \notin Linked /\ UNCHANGED <<duplicate, seen>>
  BY WalkAssumption DEF StatDir, StatSymlink, Leaves
<1>2. Deduplicated'
  BY <1>1, RecordOnce DEF LinkInv, Deduplicated
<1> QED
  BY <1>1, <1>2, RecordOnce DEF LinkInv

(* A duplicate's inode has its counted file already.                        *)
LEMMA DuplicateLinks ==
    ASSUME LinkInv, IInv, NEW w \in Workers, NEW e \in Paths, StatDuplicate(w, e)
    PROVE  LinkInv'
<1>1. /\ Record(w, e) /\ e \in Linked /\ InodeOf[e] \in seen
      /\ duplicate' = duplicate \cup {e} /\ UNCHANGED seen
  BY DEF StatDuplicate, AlreadySeen
<1>2. Deduplicated'
  BY <1>1, RecordOnce DEF LinkInv, Deduplicated
<1> QED
  BY <1>1, <1>2, RecordOnce DEF LinkInv

(* A linked file that is not a duplicate is the first of its inode.         *)
LEMMA FileLinks ==
    ASSUME LinkInv, IInv, NEW w \in Workers, NEW e \in Paths, StatFile(w, e)
    PROVE  LinkInv'
<1>1. /\ Record(w, e) /\ e \in Files /\ UNCHANGED duplicate
      /\ e \in Linked => InodeOf[e] \notin seen /\ seen' = seen \cup {InodeOf[e]}
      /\ e \notin Linked => UNCHANGED seen
  BY DEF StatFile, AlreadySeen
<1>2. e \notin duplicate
  BY <1>1, RecordOnce DEF LinkInv, Deduplicated
<1>3. Deduplicated'
  <2>1. CASE e \in Linked
    <3>1. \A f \in Linked \cap Recorded : InodeOf[f] # InodeOf[e]
      BY <1>1, <2>1 DEF LinkInv, Deduplicated
    <3> QED
      BY <1>1, <1>2, <2>1, <3>1, RecordOnce DEF LinkInv, Deduplicated
  <2>2. CASE e \notin Linked
    BY <1>1, <1>2, <2>2, RecordOnce DEF LinkInv, Deduplicated
  <2> QED
    BY <2>1, <2>2
<1> QED
  BY <1>1, <1>3, RecordOnce DEF LinkInv

LEMMA NextLinkInv == LinkInv /\ IInv /\ IInv' /\ [Next]_vars => LinkInv'
<1> SUFFICES ASSUME LinkInv, IInv, IInv', [Next]_vars PROVE LinkInv'
  OBVIOUS
<1>1. ASSUME NEW w \in Workers, WorkerStep(w) PROVE LinkInv'
  <2>1. CASE ReadDir(w)
    BY <2>1, ReadDirLinks
  <2>2. ASSUME NEW e \in Paths,
               \/ StatDir(w, e) \/ StatSymlink(w, e) \/ StatDuplicate(w, e)
               \/ StatFile(w, e)
        PROVE  LinkInv'
    BY <2>2, OtherLinks, DuplicateLinks, FileLinks
  <2>3. CASE \/ PopItem(w) \/ Done(w)
    <3>1. todo' = todo /\ todo[w] = {}
      BY <2>3 DEF PopItem, Done, IInv, Holding
    <3>2. \A v \in Workers : v # w => node'[v] = node[v]
      BY <2>3 DEF PopItem, Done, IInv, TypeOK
    <3>3. UNCHANGED <<children, duplicate, seen, expanded>>
      BY <2>3 DEF PopItem, Done, treeVars
    <3> QED
      BY <3>1, <3>2, <3>3, LinkUnmoved
  <2>4. ASSUME NEW e \in Paths, StatFails(w, e) PROVE LinkInv'
    <3>1. \A v \in Workers : todo'[v] \subseteq todo[v] /\ node'[v] = node[v]
      BY <2>4 DEF StatFails, IInv, TypeOK
    <3> QED
      BY <2>4, <3>1, LinkUnmoved DEF StatFails, treeVars
  <2>5. CASE UNCHANGED <<children, duplicate, seen, expanded, todo, node>>
    BY <2>5, LinkUnmoved
  <2> QED
    BY <1>1, <2>1, <2>2, <2>3, <2>4, <2>5
       DEF WorkerStep, PopWait, PopExit, CheckCancelled, CheckDeferred,
           CheckPassed, ReadDirDenied, SkipCrossDevice, CountSub, Push, Signal,
           treeVars
<1>2. CASE CloserStep \/ CallerStep \/ Cancel \/ UNCHANGED vars
  <2>1. UNCHANGED <<children, duplicate, seen, expanded, todo, node>>
    BY <1>2 DEF CloserStep, PendingZero, Close, Broadcast, CallerStep, RollUp,
                Return, Cancel, vars, treeVars, workerVars
  <2> QED
    BY <2>1, LinkUnmoved
<1> QED
  BY <1>1, <1>2 DEF Next, Terminated

(* The invariant gives each recorded file's inode exactly one counted file. *)
LEMMA LinkInvCountsOnce == IInv /\ LinkInv => LinksCountedOnce
<1> SUFFICES ASSUME IInv, LinkInv, NEW f \in Files \cap Recorded
             PROVE  Cardinality({g \in Files \cap Recorded :
                        InodeOf[g] = InodeOf[f] /\ g \notin duplicate}) = 1
  BY DEF LinksCountedOnce
<1> DEFINE Counts == {g \in Files \cap Recorded :
                        InodeOf[g] = InodeOf[f] /\ g \notin duplicate}
<1>1. \E g \in Counts : Counts = {g}
  <2>1. CASE f \in Linked
    <3>1. PICK g \in (Linked \cap Recorded) \ duplicate : InodeOf[g] = InodeOf[f]
      BY <2>1 DEF LinkInv, Deduplicated
    <3>2. \A h \in Counts : h = g
      BY <2>1, <3>1, WalkAssumption DEF LinkInv, Deduplicated
    <3>3. g \in Counts
      BY <3>1, WalkAssumption
    <3> QED
      BY <3>2, <3>3
  <2>2. CASE f \notin Linked
    <3>1. f \in Counts
      BY <2>2 DEF LinkInv, Deduplicated
    <3>2. \A h \in Counts : h = f
      BY <2>2, WalkAssumption
    <3> QED
      BY <3>1, <3>2
  <2> QED
    BY <2>1, <2>2
<1> QED
  BY <1>1, FS_Singleton

(* Of the links to one inode that a walk records, exactly one is counted    *)
(* (dedup.go:22-35, walk.go:196-206), in every state of every walk.         *)
THEOREM CountedOnce == Spec => []LinksCountedOnce
<1>1. Spec => [](IInv /\ LinkInv)
  BY InitIInv, NextIInv, InitLinkInv, NextLinkInv, PTL DEF Spec
<1> QED
  BY <1>1, LinkInvCountsOnce, PTL

-----------------------------------------------------------------------------
(* The tree Walk returns                                                    *)

(* What is queued was found on the way down and may be descended into; what *)
(* was found is queued, about to be, or on another volume.                  *)
Found ==
    /\ \A d \in queued : InTree(d) /\ shouldDescend(d)
    /\ \A w \in Workers : subdirs[w] # {} => subdirs[w] \subseteq children[node[w]]
    /\ \A d \in Dirs : Reached(d) =>
          d \in queued \/ state[d] = "CrossDevice" \/ \E w \in Workers : d \in subdirs[w]

(* A directory that was not read says why not, and nobody will read it; one *)
(* that was is complete only after rollup.                                  *)
Marked ==
    /\ DOMAIN subtree = Dirs
    /\ \A d \in Dirs : state[d] = "CrossDevice" => ~shouldDescend(d)
    /\ \A d \in Dirs : state[d] \in {"Denied", "Deferred"} =>
          /\ d \in queued \ expanded
          /\ \A i \in heap : i.node # d
          /\ \A w \in Workers :
                sub[w] # d /\ (node[w] = d => pc[w] \notin {"check", "readdir"})
    /\ \A d \in Dirs \ rolled : state[d] # "Complete" /\ subtree[d] = 0

(* What rollup has done: from the bottom up, with nobody else at work.      *)
RolledUp ==
    /\ rolled # {} => AllExited
    /\ returned => Root \in rolled
    /\ \A d \in rolled \cap expanded :
          /\ children[d] \cap Dirs \subseteq rolled
          /\ state[d] = RolledState(d)
          /\ subtree[d] = SubtreeTotal(d)
    /\ \A d \in rolled \ expanded : state[d] # "Complete" /\ subtree[d] = 0

TreeInv == Found /\ Marked /\ RolledUp

LEMMA InitTreeInv == Init => TreeInv
<1> SUFFICES ASSUME Init PROVE TreeInv
  OBVIOUS
<1> USE DEF Init
<1>1. Found
  BY DEF Found, InTree, Reached, shouldDescend
<1>2. Marked
  BY DEF Marked
<1>3. RolledUp
  BY DEF RolledUp
<1> QED
  BY <1>1, <1>2, <1>3 DEF TreeInv

(* Only a directory's own worker, and only in three actions, gives it one   *)
(* of the marks of a directory not read.                                    *)
LEMMA WorkerFound ==
    ASSUME IInv, IInv', LinkInv, TreeInv, NEW w \in Workers, WorkerStep(w) PROVE Found'
<1> USE DEF treeVars, queueVars, workerVars
<1>1. ASSUME NEW e \in Paths, StatDir(w, e) PROVE Found'
  <2>1. /\ node[w] \in Dirs /\ node[w] \in expanded /\ e \in Dirs
        /\ children' = [children EXCEPT ![node[w]] = @ \cup {e}]
        /\ subdirs' = [subdirs EXCEPT ![w] = @ \cup {e}]
        /\ UNCHANGED <<state, expanded, queued, node>>
    BY <1>1 DEF StatDir, Record, IInv, TypeOK, Holding, Discovery
  <2>2. \A d \in Dirs : children[d] \subseteq children'[d]
    BY <2>1 DEF IInv, TypeOK
  <2>3. \A d \in queued' : InTree(d)'
    BY <2>1, <2>2, WalkAssumption DEF TreeInv, Found, InTree, IInv, TypeOK
  <2>4. ASSUME NEW v \in Workers, subdirs'[v] # {} PROVE subdirs'[v] \subseteq children'[node[v]]
    <3>1. CASE v = w
      BY <2>1, <3>1 DEF IInv, TypeOK, TreeInv, Found
    <3>2. CASE v # w
      BY <2>1, <2>2, <2>4, <3>2 DEF IInv, TypeOK, TreeInv, Found, Holding
    <3> QED
      BY <3>1, <3>2
  <2>5. \A d \in Dirs : Reached(d)' => Reached(d) \/ d \in subdirs'[w]
    BY <2>1 DEF Reached, IInv, TypeOK
  <2>6. \A v \in Workers : subdirs[v] \subseteq subdirs'[v]
    BY <2>1 DEF IInv, TypeOK
  <2> QED
    BY <2>1, <2>3, <2>4, <2>5, <2>6 DEF TreeInv, Found, shouldDescend
<1>2. ASSUME NEW e \in Leaves, StatSymlink(w, e) \/ StatDuplicate(w, e) \/ StatFile(w, e)
      PROVE  Found'
  <2>1. /\ node[w] \in Dirs /\ e \notin Dirs
        /\ children' = [children EXCEPT ![node[w]] = @ \cup {e}]
        /\ UNCHANGED <<state, expanded, queued, node, subdirs>>
    BY <1>2, WalkAssumption
       DEF StatSymlink, StatDuplicate, StatFile, Record, IInv, TypeOK, Holding
  <2>2. \A d \in Dirs : children[d] \subseteq children'[d]
    BY <2>1 DEF IInv, TypeOK
  <2>3. \A d \in queued' : InTree(d)'
    BY <2>1, <2>2 DEF TreeInv, Found, InTree, IInv, TypeOK
  <2>4. \A v \in Workers : subdirs'[v] # {} => subdirs'[v] \subseteq children'[node[v]]
    BY <2>1, <2>2 DEF TreeInv, Found, IInv, TypeOK, Holding
  <2>5. \A d \in Dirs : Reached(d)' => Reached(d)
    BY <2>1 DEF Reached, IInv, TypeOK
  <2> QED
    BY <2>1, <2>3, <2>4, <2>5 DEF TreeInv, Found, shouldDescend
<1>3. ASSUME NEW d \in Dirs, SkipCrossDevice(w, d) PROVE Found'
  <2>1. /\ subdirs' = [subdirs EXCEPT ![w] = @ \ {d}]
        /\ state' = [state EXCEPT ![d] = "CrossDevice"]
        /\ UNCHANGED <<children, expanded, queued, node>>
    BY <1>3 DEF SkipCrossDevice
  <2>2. \A v \in Workers : subdirs'[v] \subseteq subdirs[v]
    BY <2>1 DEF IInv, TypeOK
  <2>3. \A v \in Workers : \A c \in subdirs[v] : c \in subdirs'[v] \/ state'[c] = "CrossDevice"
    BY <2>1 DEF IInv, TypeOK
  <2>4. \A c \in Dirs : state[c] = "CrossDevice" => state'[c] = "CrossDevice"
    BY <2>1 DEF IInv, TypeOK
  <2> QED
    BY <2>1, <2>2, <2>3, <2>4 DEF TreeInv, Found, Reached, InTree, shouldDescend
<1>4. ASSUME NEW d \in Dirs, CountSub(w, d) PROVE Found'
  <2>1. /\ subdirs' = [subdirs EXCEPT ![w] = @ \ {d}]
        /\ queued' = queued \cup {d} /\ shouldDescend(d) /\ d \in subdirs[w]
        /\ UNCHANGED <<children, expanded, state, node>>
    BY <1>4 DEF CountSub
  <2>2. InTree(d)
    BY <2>1 DEF InTree, TreeInv, Found, IInv, Discovery
  <2>3. \A v \in Workers : subdirs'[v] \subseteq subdirs[v]
    BY <2>1 DEF IInv, TypeOK
  <2>4. \A v \in Workers : \A c \in subdirs[v] : c \in subdirs'[v] \/ c \in queued'
    BY <2>1 DEF IInv, TypeOK
  <2> QED
    BY <2>1, <2>2, <2>3, <2>4 DEF TreeInv, Found, Reached, InTree, shouldDescend
<1>5. ASSUME UNCHANGED <<children, subdirs, queued>> PROVE Found'
  <2>1. expanded \subseteq expanded'
    BY <1>5 DEF WorkerStep, PopItem, PopWait, PopExit, CheckCancelled, CheckDeferred,
                CheckPassed, ReadDirDenied, ReadDir, StatFails, StatDir, StatSymlink,
                StatDuplicate, StatFile, Record, SkipCrossDevice, CountSub, Push, Signal,
                Done
  <2>2. node[w] # None => state[node[w]] # "CrossDevice"
    BY DEF TreeInv, Found, Marked, IInv, TypeOK, Discovery
  <2>3. \A c \in Dirs : state[c] = "CrossDevice" => state'[c] = "CrossDevice"
    BY <2>2 DEF WorkerStep, PopItem, PopWait, PopExit, CheckCancelled, CheckDeferred,
                CheckPassed, ReadDirDenied, ReadDir, StatFails, StatDir, StatSymlink,
                StatDuplicate, StatFile, Record, SkipCrossDevice, CountSub, Push, Signal,
                Done, IInv, TypeOK, Holding
  <2>4. \A v \in Workers : subdirs[v] # {} => node'[v] = node[v]
    BY DEF WorkerStep, PopItem, PopWait, PopExit, CheckCancelled, CheckDeferred,
                CheckPassed, ReadDirDenied, ReadDir, StatFails, StatDir, StatSymlink,
                StatDuplicate, StatFile, Record, SkipCrossDevice, CountSub, Push, Signal,
                Done, IInv, TypeOK, Holding
  <2> QED
    BY <1>5, <2>1, <2>3, <2>4 DEF TreeInv, Found, Reached, InTree, shouldDescend
<1>6. \/ \E e \in Paths : StatDir(w, e)
      \/ \E e \in Leaves : StatSymlink(w, e) \/ StatDuplicate(w, e) \/ StatFile(w, e)
      \/ \E d \in Dirs : SkipCrossDevice(w, d) \/ CountSub(w, d)
      \/ UNCHANGED <<children, subdirs, queued>>
  BY DEF WorkerStep, PopItem, PopWait, PopExit, CheckCancelled, CheckDeferred, CheckPassed,
         ReadDirDenied, ReadDir, StatFails, StatSymlink, StatDuplicate, StatFile, Push,
         Signal, Done, Leaves
<1> QED
  BY <1>1, <1>2, <1>3, <1>4, <1>5, <1>6

LEMMA WorkerMarked ==
    ASSUME IInv, IInv', TreeInv, NEW w \in Workers, WorkerStep(w) PROVE Marked'
<1> USE DEF treeVars, queueVars, workerVars
<1>0. rolled' = rolled /\ subtree' = subtree
  BY DEF WorkerStep, PopItem, PopWait, PopExit, CheckCancelled, CheckDeferred,
         CheckPassed, ReadDirDenied, ReadDir, StatFails, StatDir, StatSymlink,
         StatDuplicate, StatFile, Record, SkipCrossDevice, CountSub, Push, Signal, Done
<1>1. ASSUME NEW d \in Dirs, SkipCrossDevice(w, d) PROVE Marked'
  <2>1. state' = [state EXCEPT ![d] = "CrossDevice"] /\ ~shouldDescend(d)
    BY <1>1 DEF SkipCrossDevice
  <2> QED
    BY <1>0, <1>1, <2>1 DEF SkipCrossDevice, TreeInv, Marked, shouldDescend, IInv, TypeOK
<1>2. CASE CheckDeferred(w) \/ ReadDirDenied(w)
  <2>1. /\ node[w] \in Dirs /\ node[w] \in queued \ expanded
        /\ \A i \in heap : i.node # node[w]
        /\ \A v \in Workers : sub[v] # node[w] /\ (v # w => node[v] # node[w])
    BY <1>2, WalkAssumption
       DEF CheckDeferred, ReadDirDenied, IInv, TypeOK, Holding, OnePlace, Discovery
  <2>2. \E s \in {"Denied", "Deferred"} : state' = [state EXCEPT ![node[w]] = s]
    BY <1>2 DEF CheckDeferred, ReadDirDenied
  <2>3. pc' = [pc EXCEPT ![w] = "expand"] /\ UNCHANGED <<queued, expanded, heap, node, sub>>
    BY <1>2 DEF CheckDeferred, ReadDirDenied
  <2> QED
    BY <1>0, <2>1, <2>2, <2>3 DEF TreeInv, Marked, shouldDescend, IInv, TypeOK
<1>3. CASE ReadDir(w)
  <2>1. \A d \in Dirs : state[d] \in {"Denied", "Deferred"} => d # node[w]
    BY <1>3 DEF ReadDir, TreeInv, Marked
  <2> QED
    BY <1>0, <1>3, <2>1 DEF ReadDir, TreeInv, Marked, shouldDescend, IInv, TypeOK
<1>4. CASE PopItem(w)
  <2>1. PICK i \in heap : heap' = heap \ {i} /\ node' = [node EXCEPT ![w] = i.node]
    BY <1>4 DEF PopItem
  <2>2. \A d \in Dirs : state[d] \in {"Denied", "Deferred"} => i.node # d
    BY DEF TreeInv, Marked
  <2> QED
    BY <1>0, <1>4, <2>1, <2>2 DEF PopItem, TreeInv, Marked, shouldDescend, IInv, TypeOK
<1>5. ASSUME NEW d \in Dirs, CountSub(w, d) PROVE Marked'
  <2>1. d \notin queued
    BY <1>5 DEF CountSub, IInv, Discovery
  <2>2. /\ queued' = queued \cup {d} /\ sub' = [sub EXCEPT ![w] = d]
        /\ pc' = [pc EXCEPT ![w] = "push"]
        /\ UNCHANGED <<expanded, heap, node, state>>
    BY <1>5 DEF CountSub
  <2> QED
    BY <1>0, <2>1, <2>2 DEF TreeInv, Marked, shouldDescend, IInv, TypeOK
<1>6. CASE Push(w)
  <2> DEFINE i == [node |-> sub[w], priority |-> PriorityOf(sub[w], directBytes[w]),
                   seq |-> nextSeq, depth |-> level[w] + 1]
  <2>1. heap' = heap \cup {i} /\ i.node = sub[w]
    BY <1>6 DEF Push
  <2> HIDE DEF i
  <2>2. /\ sub' = [sub EXCEPT ![w] = None] /\ pc' = [pc EXCEPT ![w] = "signal"]
        /\ UNCHANGED <<expanded, queued, node, state>>
    BY <1>6 DEF Push
  <2> QED
    BY <1>0, <2>1, <2>2, WalkAssumption DEF TreeInv, Marked, shouldDescend, IInv, TypeOK
<1>7. CASE Done(w)
  <2>1. /\ node' = [node EXCEPT ![w] = None] /\ pc' = [pc EXCEPT ![w] = "pop"]
        /\ UNCHANGED <<expanded, queued, heap, sub, state>>
    BY <1>7 DEF Done
  <2> QED
    BY <1>0, <2>1, WalkAssumption DEF TreeInv, Marked, shouldDescend, IInv, TypeOK
<1>8. CASE /\ UNCHANGED <<state, expanded, queued, heap, node, sub>>
           /\ \A v \in Workers :
                 pc'[v] \in {"check", "readdir"} => pc[v] \in {"check", "readdir"}
  BY <1>0, <1>8 DEF TreeInv, Marked, shouldDescend
<1>9. CASE CheckPassed(w)
  BY <1>8, <1>9 DEF CheckPassed, IInv, TypeOK
<1>10. CASE \/ PopWait(w) \/ PopExit(w) \/ CheckCancelled(w) \/ Signal(w)
            \/ \E e \in Paths : \/ StatFails(w, e) \/ StatDir(w, e) \/ StatSymlink(w, e)
                                \/ StatDuplicate(w, e) \/ StatFile(w, e)
  BY <1>8, <1>10 DEF PopWait, PopExit, CheckCancelled, Signal, StatFails, StatDir,
                     StatSymlink, StatDuplicate, StatFile, Record, Waiting, IInv, TypeOK
<1> QED
  BY <1>1, <1>2, <1>3, <1>4, <1>5, <1>6, <1>7, <1>9, <1>10 DEF WorkerStep

(* No directory holds itself.                                               *)
LEMMA NotItself == ASSUME NEW d \in Dirs PROVE d \notin Entries[d]
<1>1. {d} \in SUBSET Dirs /\ {d} # {}
  OBVIOUS
<1>2. \E e \in {d} : Entries[e] \cap {d} = {}
  BY <1>1, WalkAssumption
<1> QED
  BY <1>2

(* While a worker is at work nothing is rolled up.                          *)
LEMMA WorkerRolledUp ==
    ASSUME IInv, AInv, TreeInv, NEW w \in Workers, WorkerStep(w) PROVE RolledUp'
<1> USE DEF treeVars, queueVars, workerVars
<1>1. pc[w] # "exit"
  BY DEF WorkerStep, PopItem, PopWait, PopExit, CheckCancelled, CheckDeferred,
         CheckPassed, ReadDirDenied, ReadDir, StatFails, StatDir, StatSymlink,
         StatDuplicate, StatFile, Record, SkipCrossDevice, CountSub, Push, Signal, Done
<1>2. rolled = {} /\ ~returned
  BY <1>1 DEF AllExited, TreeInv, RolledUp, AInv, SettledFirst
<1>3. UNCHANGED <<rolled, returned>>
  BY DEF WorkerStep, PopItem, PopWait, PopExit, CheckCancelled, CheckDeferred,
         CheckPassed, ReadDirDenied, ReadDir, StatFails, StatDir, StatSymlink,
         StatDuplicate, StatFile, Record, SkipCrossDevice, CountSub, Push, Signal, Done
<1> QED
  BY <1>2, <1>3 DEF RolledUp

(* The total of a directory depends on its children only.                   *)
LEMMA SubtreeTotalSame ==
    ASSUME IInv, LinkInv, NEW d \in Dirs, UNCHANGED <<children, duplicate>>,
           \A c \in children[d] \cap Dirs : subtree'[c] = subtree[c]
    PROVE  SubtreeTotal(d)' = SubtreeTotal(d)
<1> DEFINE f == [c \in Paths |-> IF c \in Dirs THEN subtree[c] ELSE SizeOf[c]]
           g == [c \in Paths |-> IF c \in Dirs THEN subtree'[c] ELSE SizeOf[c]]
           part == children[d] \ duplicate
<1>1. part \subseteq Entries[d] /\ part \subseteq Paths
  BY WalkAssumption DEF LinkInv, RecordedOnce
<1>2. IsFiniteSet(part)
  BY <1>1, FS_Subset, WalkAssumption
<1>3. \A c \in part : f[c] = g[c]
  BY <1>1
<1>4. SumFunctionOnSet(f, part) = SumFunctionOnSet(g, part)
  <2> HIDE DEF f, g, part
  <2> QED
    BY <1>2, <1>3, SumSame
<1> QED
  BY <1>4 DEF SubtreeTotal

(* rollup finalises a directory after those in it, once.                    *)
LEMMA RollUpTree ==
    ASSUME IInv, LinkInv, TreeInv, NEW d \in Dirs, RollUp(d) PROVE TreeInv'
<1> USE DEF treeVars, queueVars, workerVars
<1>1. /\ AllExited /\ ~returned /\ InTree(d) /\ d \notin rolled /\ rolled' = rolled \cup {d}
      /\ UNCHANGED <<heap, pc, node, sub, subdirs, returned, expanded, children, duplicate,
                     queued>>
  BY DEF RollUp
<1>2. \/ /\ Unmeasured(d) /\ UNCHANGED <<state, subtree>>
      \/ /\ ~Unmeasured(d)
         /\ children[d] \cap Dirs \subseteq rolled
         /\ subtree' = [subtree EXCEPT ![d] = SubtreeTotal(d)]
         /\ state' = [state EXCEPT ![d] = RolledState(d)]
  BY DEF RollUp
<1>3. Unmeasured(d) <=> d \notin expanded
  <2>1. d \in expanded => d \in queued /\ shouldDescend(d)
    BY DEF TreeInv, Found, IInv, Discovery
  <2> QED
    BY <2>1 DEF Unmeasured, TreeInv, Marked
<1>4. Found'
  <2>1. \A c \in Dirs : state[c] = "CrossDevice" => state'[c] = "CrossDevice"
    BY <1>2 DEF Unmeasured, IInv, TypeOK
  <2> QED
    BY <1>1, <2>1 DEF TreeInv, Found, Reached, InTree, shouldDescend
<1>5. Marked'
  <2>1. \A c \in Dirs : c # d => state'[c] = state[c] /\ subtree'[c] = subtree[c]
    BY <1>2 DEF IInv, TypeOK, TreeInv, Marked
  <2>2. state'[d] = state[d] \/ state'[d] \in {"Complete", "Partial"}
    BY <1>2 DEF RolledState, IInv, TypeOK
  <2>3. DOMAIN subtree' = Dirs
    BY <1>2 DEF TreeInv, Marked
  <2> QED
    BY <1>1, <2>1, <2>2, <2>3 DEF TreeInv, Marked, shouldDescend
<1>6. RolledUp'
  <2>1. \A c \in Dirs : c # d => state'[c] = state[c] /\ subtree'[c] = subtree[c]
    BY <1>2 DEF IInv, TypeOK, TreeInv, Marked
  <2>2. d \notin children[d]
    BY NotItself DEF LinkInv, RecordedOnce
  <2>3. \A c \in Dirs : d \notin children[c] =>
           RolledState(c)' = RolledState(c) /\ SubtreeTotal(c)' = SubtreeTotal(c)
    <3> SUFFICES ASSUME NEW c \in Dirs, d \notin children[c]
                 PROVE  RolledState(c)' = RolledState(c) /\ SubtreeTotal(c)' = SubtreeTotal(c)
      OBVIOUS
    <3>1. \A x \in children[c] \cap Dirs : state'[x] = state[x] /\ subtree'[x] = subtree[x]
      BY <2>1
    <3>2. RolledState(c)' = RolledState(c)
      BY <1>1, <3>1 DEF RolledState
    <3>3. SubtreeTotal(c)' = SubtreeTotal(c)
      BY <1>1, <3>1, SubtreeTotalSame
    <3> QED
      BY <3>2, <3>3
  <2>4. ASSUME NEW c \in rolled \cap expanded
        PROVE  /\ children'[c] \cap Dirs \subseteq rolled'
               /\ state'[c] = RolledState(c)'
               /\ subtree'[c] = SubtreeTotal(c)'
    <3>1. c \in Dirs /\ c # d /\ d \notin children[c]
      BY <1>1 DEF TreeInv, RolledUp, IInv, TypeOK
    <3> QED
      BY <1>1, <2>1, <2>3, <3>1 DEF TreeInv, RolledUp
  <2>5. d \in expanded => /\ children'[d] \cap Dirs \subseteq rolled'
                          /\ state'[d] = RolledState(d)'
                          /\ subtree'[d] = SubtreeTotal(d)'
    <3> SUFFICES ASSUME d \in expanded
                 PROVE  /\ children'[d] \cap Dirs \subseteq rolled'
                        /\ state'[d] = RolledState(d)'
                        /\ subtree'[d] = SubtreeTotal(d)'
      OBVIOUS
    <3>1. subtree'[d] = SubtreeTotal(d) /\ state'[d] = RolledState(d)
      <4>1. d \in DOMAIN state
        BY DEF IInv, TypeOK
      <4>2. d \in DOMAIN subtree
        BY DEF TreeInv, Marked
      <4> QED
        BY <1>2, <1>3, <4>1, <4>2
    <3> QED
      BY <1>1, <1>2, <1>3, <2>2, <2>3, <3>1
  <2>6. \A c \in rolled' \ expanded' : state'[c] # "Complete" /\ subtree'[c] = 0
    <3>1. d \notin expanded => state'[d] # "Complete" /\ subtree'[d] = 0
      BY <1>1, <1>2, <1>3 DEF TreeInv, Marked
    <3>2. \A c \in rolled \ expanded : c \in Dirs /\ c # d
      BY <1>1 DEF IInv, TypeOK
    <3> QED
      BY <1>1, <2>1, <3>1, <3>2 DEF TreeInv, RolledUp
  <2>7. AllExited'
    BY <1>1 DEF AllExited
  <2> QED
    BY <1>1, <2>4, <2>5, <2>6, <2>7 DEF RolledUp
<1> QED
  BY <1>4, <1>5, <1>6 DEF TreeInv

LEMMA NextTreeInv ==
    ASSUME IInv, IInv', LinkInv, AInv, TreeInv, [Next]_vars PROVE TreeInv'
<1>1. ASSUME NEW w \in Workers, WorkerStep(w) PROVE TreeInv'
  BY <1>1, WorkerFound, WorkerMarked, WorkerRolledUp DEF TreeInv
<1>2. ASSUME NEW d \in Dirs, RollUp(d) PROVE TreeInv'
  BY <1>2, RollUpTree
<1>3. CASE CloserStep \/ Return \/ Cancel \/ UNCHANGED vars
  <2>1. /\ UNCHANGED <<heap, node, sub, subdirs, treeVars, queued>>
        /\ \A w \in Workers :
             /\ pc'[w] \in {"check", "readdir"} => pc[w] = pc'[w]
             /\ pc[w] = "exit" => pc'[w] = "exit"
        /\ returned' => returned \/ Root \in rolled
    BY <1>3 DEF CloserStep, PendingZero, Close, Broadcast, Waiting, Return, Cancel, vars,
                queueVars, workerVars, IInv, TypeOK
  <2>2. Found'
    BY <2>1 DEF treeVars, TreeInv, Found, InTree, Reached, shouldDescend
  <2>3. Marked'
    BY <2>1 DEF treeVars, TreeInv, Marked, shouldDescend
  <2>4. \A d \in Dirs : RolledState(d)' = RolledState(d) /\ SubtreeTotal(d)' = SubtreeTotal(d)
    BY <2>1 DEF treeVars, RolledState, SubtreeTotal
  <2>5. RolledUp'
    BY <2>1, <2>4 DEF treeVars, TreeInv, RolledUp, AllExited, IInv, TypeOK
  <2> QED
    BY <2>2, <2>3, <2>5 DEF TreeInv
<1> QED
  BY <1>1, <1>2, <1>3 DEF Next, CallerStep, Terminated

WInv == IInv /\ LinkInv /\ AInv /\ TreeInv

LEMMA WalkInvariance == Spec => []WInv
<1>1. Init => WInv
  BY InitIInv, InitLinkInv, InitAInv, InitTreeInv DEF WInv
<1>2. WInv /\ [Next]_vars => WInv'
  BY NextIInv, NextLinkInv, NextAInv, NextTreeInv DEF WInv
<1> QED
  BY <1>1, <1>2, PTL DEF Spec

-----------------------------------------------------------------------------
(* The shape of the tree                                                    *)

(* Of any directories, one lies in none of the others.                      *)
LEMMA Highest ==
    ASSUME NEW S \in SUBSET Dirs, S # {} PROVE \E d \in S : \A p \in S : d \notin Entries[p]
<1> DEFINE F == {U \in SUBSET S : U # {} /\ \A d \in U : \E p \in U : d \in Entries[p]}
<1>1. ASSUME S \in F PROVE FALSE
  <2>1. PICK U \in F : \A V \in F : V \subseteq U => V = U
    <3>1. F \subseteq SUBSET S /\ F # {} /\ IsFiniteSet(S)
      BY <1>1, FS_Subset, WalkAssumption
    <3> HIDE DEF F
    <3> QED
      BY <3>1, SmallestSet
  <2>2. PICK e \in U : Entries[e] \cap U = {}
    BY <2>1, WalkAssumption
  <2>3. PICK p \in U : e \in Entries[p]
    BY <2>1
  <2>4. U \ {e} \in F
    <3>1. p # e
      BY <2>2, <2>3
    <3>2. \A d \in U \ {e} : \E q \in U \ {e} : d \in Entries[q]
      BY <2>1, <2>2
    <3> QED
      BY <2>1, <3>1, <3>2
  <2> QED
    BY <2>1, <2>4
<1> QED
  BY <1>1

Above(d) == {X \in SUBSET Dirs : d \in X /\ \A z \in X : Entries[z] \cap Dirs \subseteq X}

(* SelfAndBelow is what its equation says.                                  *)
LEMMA Below ==
    /\ DOMAIN SelfAndBelow = Dirs
    /\ \A d \in Dirs :
          SelfAndBelow[d] = {d} \cup UNION {SelfAndBelow[c] : c \in Entries[d] \cap Dirs}
<1> DEFINE g == [d \in Dirs |-> {x \in Dirs : \A X \in Above(d) : x \in X}]
           Step(f) == [d \in Dirs |-> {d} \cup UNION {f[c] : c \in Entries[d] \cap Dirs}]
<1>1. ASSUME NEW d \in Dirs PROVE g[d] = Step(g)[d]
  <2>1. \A c \in Entries[d] \cap Dirs : \A X \in Above(d) : X \in Above(c)
    BY DEF Above
  <2>2. Step(g)[d] \subseteq g[d]
    BY <2>1 DEF Above
  <2>3. ASSUME NEW z \in Step(g)[d], NEW y \in Entries[z] \cap Dirs PROVE y \in Step(g)[d]
    <3>1. CASE z = d
      <4>1. y \in g[y]
        BY DEF Above
      <4> QED
        BY <3>1, <4>1
    <3>2. ASSUME NEW c \in Entries[d] \cap Dirs, z \in g[c] PROVE y \in Step(g)[d]
      <4>1. y \in g[c]
        BY <3>2 DEF Above
      <4> QED
        BY <4>1
    <3> QED
      BY <3>1, <3>2
  <2>4. Step(g)[d] \in Above(d)
    BY <2>3 DEF Above
  <2> QED
    BY <2>2, <2>4
<1>2. g = Step(g)
  BY <1>1
<1>3. \E f : f = Step(f)
  <2> HIDE DEF g
  <2> QED
    BY <1>2
<1>4. SelfAndBelow = CHOOSE f : f = Step(f)
  BY DEF SelfAndBelow
<1>5. SelfAndBelow = Step(SelfAndBelow)
  <2> HIDE DEF Step
  <2> QED
    BY <1>3, <1>4, Zenon
<1> QED
  BY <1>5

(* A property of every directory that all in it have: bottom up.            *)
LEMMA BelowClosed ==
    ASSUME NEW c \in Dirs, NEW z \in SelfAndBelow[c]
    PROVE  z \in Dirs /\ Entries[z] \cap Dirs \subseteq SelfAndBelow[c]
<1> DEFINE bad == {e \in Dirs : \E x \in SelfAndBelow[e] :
                      x \notin Dirs \/ ~(Entries[x] \cap Dirs \subseteq SelfAndBelow[e])}
<1>1. ASSUME bad # {} PROVE FALSE
  <2>1. PICK e \in bad : Entries[e] \cap bad = {}
    BY <1>1, WalkAssumption
  <2>2. PICK x \in SelfAndBelow[e] : x \notin Dirs \/ ~(Entries[x] \cap Dirs \subseteq SelfAndBelow[e])
    BY <2>1
  <2>3. \A y \in Entries[e] \cap Dirs : SelfAndBelow[y] \subseteq SelfAndBelow[e] /\ y \in SelfAndBelow[y]
    BY <2>1, Below
  <2>4. PICK y \in Entries[e] \cap Dirs : x \in SelfAndBelow[y]
    BY <2>2, <2>3, <2>1, Below
  <2>5. y \notin bad
    BY <2>1
  <2> QED
    BY <2>2, <2>3, <2>4, <2>5
<1> QED
  BY <1>1

LEMMA BelowParent ==
    ASSUME NEW c \in Dirs, NEW z \in SelfAndBelow[c], z # c
    PROVE  \E p \in SelfAndBelow[c] : z \in Entries[p]
<1> DEFINE bad == {e \in Dirs : \E x \in SelfAndBelow[e] :
                      x # e /\ \A p \in SelfAndBelow[e] : x \notin Entries[p]}
<1>1. ASSUME bad # {} PROVE FALSE
  <2>1. PICK e \in bad : Entries[e] \cap bad = {}
    BY <1>1, WalkAssumption
  <2>2. PICK x \in SelfAndBelow[e] : x # e /\ \A p \in SelfAndBelow[e] : x \notin Entries[p]
    BY <2>1
  <2>3. PICK y \in Entries[e] \cap Dirs : x \in SelfAndBelow[y]
    BY <2>1, <2>2, Below
  <2>4. e \in SelfAndBelow[e] /\ SelfAndBelow[y] \subseteq SelfAndBelow[e]
    BY <2>1, <2>3, Below
  <2>5. y \notin bad
    BY <2>1
  <2> QED
    BY <2>2, <2>3, <2>4, <2>5
<1> QED
  BY <1>1

(* No directory is in one below it.                                         *)
LEMMA NoCycle ==
    ASSUME NEW c \in Dirs, NEW z \in SelfAndBelow[c] PROVE c \notin Entries[z]
<1> DEFINE bad == {e \in Dirs : \E x \in SelfAndBelow[e] : e \in Entries[x]}
<1>1. ASSUME bad # {} PROVE FALSE
  <2>1. PICK e \in bad : Entries[e] \cap bad = {}
    BY <1>1, WalkAssumption
  <2>2. PICK x \in SelfAndBelow[e] : e \in Entries[x]
    BY <2>1
  <2>3. x # e
    BY <2>1, <2>2, NotItself
  <2>4. PICK y \in Entries[e] \cap Dirs : x \in SelfAndBelow[y]
    BY <2>1, <2>2, <2>3, Below
  <2>5. e \in SelfAndBelow[y]
    BY <2>1, <2>2, <2>4, BelowClosed
  <2> QED
    BY <2>1, <2>4, <2>5
<1> QED
  BY <1>1

(* Nothing is below two directories of the same directory.                  *)
LEMMA ApartBelow ==
    ASSUME NEW d \in Dirs, NEW b \in Entries[d] \cap Dirs, NEW c \in Entries[d] \cap Dirs,
           b # c
    PROVE  SelfAndBelow[b] \cap SelfAndBelow[c] = {}
<1> DEFINE S == SelfAndBelow[b] \cap SelfAndBelow[c]
<1>1. ASSUME S # {} PROVE FALSE
  <2>1. S \in SUBSET Dirs
    BY BelowClosed
  <2>2. PICK x \in S : \A p \in S : x \notin Entries[p]
    BY <1>1, <2>1, Highest
  <2>3. ASSUME NEW e \in {b, c}, NEW f \in {b, c}, e # f, x = e PROVE FALSE
    <3>1. PICK p \in SelfAndBelow[f] : e \in Entries[p]
      BY <2>3, BelowParent
    <3>2. p = d
      BY <3>1, BelowClosed, WalkAssumption
    <3> QED
      BY <3>1, <3>2, NoCycle
  <2>4. x # b /\ x # c
    BY <2>3
  <2>5. PICK p \in SelfAndBelow[b] : x \in Entries[p]
    BY <2>4, BelowParent
  <2>6. PICK q \in SelfAndBelow[c] : x \in Entries[q]
    BY <2>4, BelowParent
  <2>7. p = q
    BY <2>5, <2>6, BelowClosed, WalkAssumption
  <2> QED
    BY <2>2, <2>5, <2>6, <2>7
<1> QED
  BY <1>1

-----------------------------------------------------------------------------
(* What Walk returns                                                        *)

(* A directory recorded anywhere is recorded where it lies, in one that was *)
(* read.                                                                    *)
LEMMA TreeParent ==
    ASSUME WInv, NEW d \in Dirs, NEW c \in Entries[d] \cap Dirs, InTree(c)
    PROVE  d \in expanded /\ c \in children[d]
<1>1. c # Root /\ expanded \subseteq Dirs
  BY WalkAssumption DEF WInv, IInv, TypeOK
<1>2. PICK p \in expanded : c \in children[p]
  BY <1>1 DEF InTree
<1>3. p = d
  BY <1>1, <1>2, WalkAssumption DEF WInv, LinkInv, RecordedOnce
<1> QED
  BY <1>2, <1>3

LEMMA ReadInTree == ASSUME WInv, NEW d \in expanded PROVE d \in Dirs /\ InTree(d)
  BY DEF WInv, IInv, TypeOK, Discovery, TreeInv, Found

(* Below a directory that was not reached, none was.                        *)
LEMMA NoneBelow ==
    ASSUME WInv, NEW d \in Dirs, ~InTree(d), NEW x \in SelfAndBelow[d] PROVE ~InTree(x)
<1> DEFINE bad == {e \in Dirs : ~InTree(e) /\ \E y \in SelfAndBelow[e] : InTree(y)}
<1>1. ASSUME bad # {} PROVE FALSE
  <2>1. PICK e \in bad : Entries[e] \cap bad = {}
    BY <1>1, WalkAssumption
  <2>2. PICK y \in SelfAndBelow[e] : InTree(y)
    BY <2>1
  <2>3. PICK c \in Entries[e] \cap Dirs : y \in SelfAndBelow[c]
    BY <2>1, <2>2, Below
  <2>4. InTree(c)
    BY <2>1, <2>2, <2>3
  <2> QED
    BY <2>1, <2>4, TreeParent, ReadInTree
<1> QED
  BY <1>1

(* Once Walk has returned, rollup has finalised the whole tree.             *)
LEMMA AllRolled == ASSUME WInv, returned, NEW d \in Dirs, InTree(d) PROVE d \in rolled
<1> DEFINE S == {e \in Dirs : InTree(e) /\ e \notin rolled}
<1>1. ASSUME S # {} PROVE FALSE
  <2>1. PICK e \in S : \A p \in S : e \notin Entries[p]
    BY <1>1, Highest
  <2>2. PICK p \in expanded : e \in children[p]
    BY <2>1 DEF InTree, WInv, TreeInv, RolledUp
  <2>3. p \in Dirs /\ InTree(p) /\ e \in Entries[p]
    BY <2>2, ReadInTree DEF WInv, LinkInv, RecordedOnce
  <2>4. p \in rolled
    BY <2>1, <2>3
  <2> QED
    BY <2>1, <2>2, <2>4 DEF WInv, TreeInv, RolledUp
<1> QED
  BY <1>1

(* Everything in the tree is at or below the root.                          *)
LEMMA AllBelowRoot == ASSUME WInv, NEW d \in Dirs, InTree(d) PROVE d \in SelfAndBelow[Root]
<1> DEFINE S == {e \in Dirs : InTree(e) /\ e \notin SelfAndBelow[Root]}
<1>1. ASSUME S # {} PROVE FALSE
  <2>1. PICK e \in S : \A p \in S : e \notin Entries[p]
    BY <1>1, Highest
  <2>2. e # Root
    BY <2>1, Below
  <2>3. PICK p \in expanded : e \in children[p]
    BY <2>1, <2>2 DEF InTree
  <2>4. p \in Dirs /\ InTree(p) /\ e \in Entries[p]
    BY <2>3, ReadInTree DEF WInv, LinkInv, RecordedOnce
  <2>5. p \in SelfAndBelow[Root]
    BY <2>1, <2>4
  <2> QED
    BY <2>1, <2>4, <2>5, BelowClosed, WalkAssumption
<1> QED
  BY <1>1

(* A directory Walk returns is complete exactly if every directory recorded *)
(* at or below it was read (walk.go:249-281), for every tree: from the      *)
(* bottom up, rollup's test of the children is a test of everything below.  *)
THEOREM CompleteMeansAllRead == Spec => []StateExact
<1>1. WInv => StateExact
  <2> SUFFICES ASSUME WInv, returned PROVE StateExact
    BY DEF StateExact
  <2> DEFINE AllRead(d) == \A x \in SelfAndBelow[d] : InTree(x) => x \in expanded
             bad == {d \in Dirs : InTree(d) /\ ~(state[d] = "Complete" <=> AllRead(d))}
  <2>1. ASSUME bad # {} PROVE FALSE
    <3>1. PICK d \in bad : Entries[d] \cap bad = {}
      BY <2>1, WalkAssumption
    <3>2. d \in rolled /\ d \in SelfAndBelow[d]
      BY <3>1, AllRolled, Below
    <3>3. d \in expanded
      BY <3>1, <3>2 DEF WInv, TreeInv, RolledUp
    <3>4. state[d] = "Complete" <=> \A c \in children[d] \cap Dirs : state[c] = "Complete"
      BY <3>2, <3>3 DEF WInv, TreeInv, RolledUp, RolledState
    <3>5. ASSUME NEW c \in children[d] \cap Dirs PROVE state[c] = "Complete" <=> AllRead(c)
      <4>1. c \in Entries[d] /\ InTree(c)
        BY <3>3 DEF WInv, LinkInv, RecordedOnce, InTree, IInv, TypeOK
      <4> QED
        BY <3>1, <4>1
    <3>6. ASSUME NEW c \in Entries[d] \cap Dirs, c \notin children[d] PROVE AllRead(c)
      <4>1. ~InTree(c)
        BY <3>1, <3>6, TreeParent
      <4> QED
        BY <4>1, NoneBelow
    <3>7. AllRead(d) <=> \A c \in Entries[d] \cap Dirs : AllRead(c)
      BY <3>1, <3>3, Below
    <3>8. children[d] \subseteq Entries[d]
      BY <3>1 DEF WInv, LinkInv, RecordedOnce
    <3> HIDE DEF AllRead
    <3>9. state[d] = "Complete" <=> AllRead(d)
      BY <3>4, <3>5, <3>6, <3>7, <3>8
    <3> QED
      BY <3>1, <3>9
  <2> QED
    BY <2>1 DEF StateExact
<1> QED
  BY <1>1, WalkInvariance, PTL

-----------------------------------------------------------------------------
(* What rollup adds up                                                      *)

(* The files and symlinks at or below d that are counted.                   *)
Kept(d) == {l \in Leaves : \E x \in SelfAndBelow[d] : l \in children[x] \ duplicate}

LEMMA LeafSizes == \A l \in Leaves : SizeOf[l] \in Nat
  BY WalkAssumption

LEMMA KeptFinite == ASSUME WInv, NEW d \in Dirs PROVE IsFiniteSet(Kept(d))
<1> DEFINE lists == {Entries[x] : x \in Dirs}
<1>1. IsFiniteSet(lists) /\ \A s \in lists : IsFiniteSet(s)
  BY FiniteImage, WalkAssumption
<1>2. IsFiniteSet(UNION lists)
  <2> HIDE DEF lists
  <2> QED
    BY <1>1, FS_UNION
<1>3. Kept(d) \subseteq UNION lists
  BY BelowClosed DEF Kept, WInv, LinkInv, RecordedOnce
<1> QED
  BY <1>2, <1>3, FS_Subset

(* Nothing is kept below a directory that was not read.                     *)
LEMMA KeptInRead == ASSUME WInv, NEW d \in Dirs, d \notin expanded PROVE Kept(d) = {}
<1>1. \A c \in Entries[d] \cap Dirs : ~InTree(c)
  BY TreeParent
<1>2. \A x \in SelfAndBelow[d] : x \in Dirs /\ x \notin expanded
  <2>1. \A x \in SelfAndBelow[d] : x \in Dirs /\ (x = d \/ ~InTree(x))
    BY <1>1, Below, BelowClosed, NoneBelow
  <2> QED
    BY <2>1, ReadInTree
<1> QED
  BY <1>2 DEF Kept, WInv, LinkInv, RecordedOnce

(* The total of a directory is the size of all that is kept below it.       *)
LEMMA TotalIsKept ==
    ASSUME WInv, returned, NEW d \in Dirs PROVE subtree[d] = SumFunctionOnSet(SizeOf, Kept(d))
<1> DEFINE bad == {e \in Dirs : subtree[e] # SumFunctionOnSet(SizeOf, Kept(e))}
<1>1. ASSUME bad # {} PROVE FALSE
  <2>1. PICK e \in bad : Entries[e] \cap bad = {}
    BY <1>1, WalkAssumption
  <2>2. CASE e \notin expanded
    <3>1. subtree[e] = 0
      BY <2>1, <2>2 DEF WInv, TreeInv, Marked, RolledUp
    <3> QED
      BY <2>1, <2>2, <3>1, KeptInRead, SumEmpty
  <2>3. CASE e \in expanded
    <3> DEFINE f == [c \in Paths |-> IF c \in Dirs THEN subtree[c] ELSE SizeOf[c]]
               C == children[e] \cap Dirs
               L == (children[e] \ duplicate) \cap Leaves
               K == [c \in C |-> Kept(c)]
               Lower == UNION {K[c] : c \in C}
    <3>1. subtree[e] = SumFunctionOnSet(f, children[e] \ duplicate)
      BY <2>1, <2>3, AllRolled, ReadInTree DEF WInv, TreeInv, RolledUp, SubtreeTotal
    <3>2. children[e] \subseteq Entries[e] /\ children[e] \subseteq Paths /\ duplicate \subseteq Leaves
      BY <2>1, WalkAssumption DEF WInv, LinkInv, RecordedOnce, IInv, TypeOK, Leaves
    <3>3. children[e] \ duplicate = L \cup C /\ L \cap C = {}
      BY <3>2, WalkAssumption DEF Paths
    <3>4. IsFiniteSet(L) /\ IsFiniteSet(C)
      BY <2>1, <3>2, FS_Subset, WalkAssumption
    <3>5. \A c \in C : f[c] = SumFunctionOnSet(SizeOf, K[c])
      BY <2>1, <3>2 DEF Paths
    <3>6. \A l \in L : f[l] = SizeOf[l] /\ SizeOf[l] \in Nat
      BY <3>2, LeafSizes, WalkAssumption
    <3>7. \A c \in C : IsFiniteSet(K[c])
      BY KeptFinite
    <3>8. DOMAIN K = C /\ \A c \in C : \A l \in K[c] : SizeOf[l] \in Int
      BY LeafSizes DEF Kept
    <3>9. \A c \in C : f[c] \in Int
      <4> HIDE DEF f, C, K
      <4> QED
        BY <3>5, <3>7, <3>8, SumType
    <3>10. ASSUME NEW b \in C, NEW c \in C, b # c PROVE K[b] \cap K[c] = {}
      <4>1. SelfAndBelow[b] \cap SelfAndBelow[c] = {}
        BY <2>1, <3>2, <3>10, ApartBelow
      <4> QED
        BY <4>1, BelowClosed, WalkAssumption DEF Kept, WInv, LinkInv, RecordedOnce
    <3>11. IsFiniteSet(Lower) /\ SumFunctionOnSet(SizeOf, Lower) = SumFunctionOnSet(f, C)
      <4>1. \A b \in C, c \in C : b # c => K[b] \cap K[c] = {}
        <5> HIDE DEF C, K
        <5> QED
          BY <3>10
      <4>2. \A l : l \in Lower <=> \E c \in C : l \in K[c]
        OBVIOUS
      <4> HIDE DEF C, K, L, f, Lower
      <4> QED
        BY <3>4, <3>5, <3>7, <3>8, <4>1, <4>2, SumOfSums
    <3>12. SumFunctionOnSet(f, L) = SumFunctionOnSet(SizeOf, L)
      <4> HIDE DEF f, L
      <4> QED
        BY <3>4, <3>6, SumSame
    <3>13. SumFunctionOnSet(f, L \cup C) = SumFunctionOnSet(f, L) + SumFunctionOnSet(f, C)
      <4> HIDE DEF f, L, C
      <4> QED
        BY <3>3, <3>4, <3>6, <3>9, SumUnion
    <3>14. Kept(e) = L \cup Lower
      <4>1. ASSUME NEW c \in Entries[e] \cap Dirs, c \notin children[e] PROVE Kept(c) = {}
        BY <2>1, <4>1, TreeParent, ReadInTree, KeptInRead
      <4>2. Kept(e) = L \cup UNION {Kept(c) : c \in Entries[e] \cap Dirs}
        BY <2>1, Below DEF Kept
      <4>3. UNION {Kept(c) : c \in Entries[e] \cap Dirs} = Lower
        BY <3>2, <4>1
      <4> QED
        BY <4>2, <4>3
    <3>15. L \cap Lower = {}
      <4>1. \A c \in C : e \notin SelfAndBelow[c]
        BY <2>1, <3>2, NoCycle
      <4>2. \A c \in C : L \cap Kept(c) = {}
        BY <2>1, <4>1, BelowClosed, WalkAssumption DEF Kept, WInv, LinkInv, RecordedOnce
      <4>3. \A c \in C : K[c] = Kept(c)
        OBVIOUS
      <4> HIDE DEF L, C, K
      <4> QED
        BY <4>2, <4>3
    <3>16. \A l \in Lower : SizeOf[l] \in Int
      BY <3>8
    <3>17. SumFunctionOnSet(SizeOf, L \cup Lower)
             = SumFunctionOnSet(SizeOf, L) + SumFunctionOnSet(SizeOf, Lower)
      <4>1. \A l \in L \cup Lower : SizeOf[l] \in Int
        <5> HIDE DEF L, Lower, f
        <5> QED
          BY <3>6, <3>16
      <4>2. IsFiniteSet(Lower)
        BY <3>11
      <4> HIDE DEF L, Lower
      <4> QED
        BY <3>4, <3>15, <4>1, <4>2, SumUnion
    <3> HIDE DEF f, L, C, K, Lower
    <3>18. subtree[e] = SumFunctionOnSet(SizeOf, Kept(e))
      BY <3>1, <3>3, <3>11, <3>12, <3>13, <3>14, <3>17
    <3> QED
      BY <2>1, <3>18
  <2> QED
    BY <2>2, <2>3
<1> QED
  BY <1>1

(* The files counted stand for the inodes recorded, one each.               *)
LEMMA KeptOfRoot ==
    ASSUME WInv, returned
    PROVE  Kept(Root) = (Symlinks \cap Recorded) \cup ((Files \cap Recorded) \ duplicate)
<1>1. \A x \in Dirs : children[x] # {} => x \in SelfAndBelow[Root]
  <2>1. \A x \in Dirs : children[x] # {} => x \in expanded
    BY DEF WInv, LinkInv, RecordedOnce
  <2> QED
    BY <2>1, ReadInTree, AllBelowRoot
<1>2. \A l \in Leaves : l \in Recorded <=> \E x \in SelfAndBelow[Root] : l \in children[x]
  BY <1>1, BelowClosed, WalkAssumption DEF Recorded
<1>3. duplicate \cap Symlinks = {}
  BY WalkAssumption DEF WInv, IInv, TypeOK
<1> QED
  BY <1>2, <1>3 DEF Kept, Leaves

(* The total Walk returns for the root is the size of all it recorded, each *)
(* inode once (walk.go:196-206, 242-282), for every tree and every race     *)
(* between the workers for the links of an inode.                           *)
THEOREM RootTotalIsExact == Spec => []TotalsExact
<1>1. WInv /\ LinksCountedOnce => TotalsExact
  <2> SUFFICES ASSUME WInv, LinksCountedOnce, returned PROVE subtree[Root] = TrueTotal
    BY DEF TotalsExact
  <2> DEFINE counted == (Files \cap Recorded) \ duplicate
             links   == Symlinks \cap Recorded
             inodes  == {InodeOf[f] : f \in Files \cap Recorded}
             bytes   == [i \in inodes |-> SizeOf[CHOOSE f \in Files : InodeOf[f] = i]]
  <2>1. subtree[Root] = SumFunctionOnSet(SizeOf, links \cup counted)
    BY TotalIsKept, KeptOfRoot, WalkAssumption
  <2>2. IsFiniteSet(links) /\ IsFiniteSet(counted)
    BY KeptFinite, KeptOfRoot, FS_Subset, WalkAssumption
  <2>3. \A l \in links \cup counted : SizeOf[l] \in Int
    BY LeafSizes DEF Leaves
  <2>4. links \cap counted = {}
    BY WalkAssumption
  <2>5. SumFunctionOnSet(SizeOf, links \cup counted)
          = SumFunctionOnSet(SizeOf, links) + SumFunctionOnSet(SizeOf, counted)
    <3> HIDE DEF links, counted
    <3> QED
      BY <2>2, <2>3, <2>4, SumUnion
  <2>6. \A f \in counted : InodeOf[f] \in inodes /\ bytes[InodeOf[f]] = SizeOf[f]
    BY WalkAssumption
  <2>7. ASSUME NEW f \in Files \cap Recorded
        PROVE  \E g : {k \in counted : InodeOf[k] = InodeOf[f]} = {g}
    <3> DEFINE S == {k \in Files \cap Recorded : InodeOf[k] = InodeOf[f] /\ k \notin duplicate}
    <3>1. S = {k \in counted : InodeOf[k] = InodeOf[f]}
      OBVIOUS
    <3>2. IsFiniteSet(S) /\ Cardinality(S) = 1
      BY <2>2, <3>1, FS_Subset DEF LinksCountedOnce
    <3> HIDE DEF S
    <3>3. \E g : S = {g}
      BY <3>2, FS_Singleton
    <3> QED
      BY <3>1, <3>3
  <2>8. \A f \in counted, g \in counted : InodeOf[f] = InodeOf[g] => f = g
    BY <2>7
  <2>9. {InodeOf[f] : f \in counted} = inodes
    <3>1. \A f \in Files \cap Recorded : \E k \in counted : InodeOf[k] = InodeOf[f]
      BY <2>7
    <3> QED
      BY <3>1
  <2>10. SumFunctionOnSet(SizeOf, counted) = SumFunctionOnSet(bytes, {InodeOf[f] : f \in counted})
    <3> HIDE DEF counted, bytes
    <3> QED
      BY <2>2, <2>3, <2>6, <2>8, SumImage
  <2>11. TrueTotal = SumFunctionOnSet(bytes, inodes) + SumFunctionOnSet(SizeOf, links)
    BY DEF TrueTotal
  <2>12. SumFunctionOnSet(SizeOf, links) \in Int /\ SumFunctionOnSet(SizeOf, counted) \in Int
    <3> HIDE DEF counted, links
    <3> QED
      BY <2>2, <2>3, SumType
  <2> HIDE DEF counted, links, inodes, bytes
  <2>13. SumFunctionOnSet(SizeOf, counted) = SumFunctionOnSet(bytes, inodes)
    BY <2>9, <2>10
  <2> QED
    BY <2>1, <2>5, <2>11, <2>12, <2>13
<1>2. WInv => LinksCountedOnce
  BY LinkInvCountsOnce DEF WInv
<1> QED
  BY <1>1, <1>2, WalkInvariance, PTL

-----------------------------------------------------------------------------
(* The counters                                                             *)

(* What a step does to those of the directories read and queued.            *)
Counters ==
    /\ stats["dirsScanned"] = Cardinality(expanded)
    /\ stats["dirsQueued"] = Cardinality(queued)

Same(name) == stats'[name] = stats[name]

Unmoved == Same("dirsScanned") /\ Same("dirsQueued") /\ UNCHANGED <<expanded, queued>>

OneRead ==
    \E d \in Dirs \ expanded :
        /\ expanded' = expanded \cup {d} /\ stats'["dirsScanned"] = stats["dirsScanned"] + 1
        /\ UNCHANGED queued /\ Same("dirsQueued")

OneQueued ==
    \E d \in Dirs \ queued :
        /\ queued' = queued \cup {d} /\ stats'["dirsQueued"] = stats["dirsQueued"] + 1
        /\ UNCHANGED expanded /\ Same("dirsScanned")

LEMMA CountedOnes ==
    ASSUME NEW names, NEW s \in StatNames
    PROVE  Counted(names)[s] = IF s \in names THEN stats[s] + 1 ELSE stats[s]
  BY DEF Counted

LEMMA WorkerCounts ==
    ASSUME IInv, NEW w \in Workers, WorkerStep(w) PROVE Unmoved \/ OneRead \/ OneQueued
<1> USE DEF Unmoved, Same
<1>0. "dirsScanned" \in StatNames /\ "dirsQueued" \in StatNames
  BY DEF StatNames
<1>1. CASE PopItem(w) \/ PopWait(w) \/ PopExit(w) \/ CheckCancelled(w) \/ CheckPassed(w)
           \/ CheckDeferred(w) \/ Push(w) \/ Signal(w) \/ Done(w)
  BY <1>1 DEF PopItem, PopWait, PopExit, CheckCancelled, CheckPassed, CheckDeferred, Push,
              Signal, Done, treeVars
<1>2. CASE ReadDirDenied(w)
  BY <1>0, <1>2, CountedOnes DEF ReadDirDenied, treeVars
<1>3. CASE ReadDir(w)
  <2>1. node[w] \in Dirs /\ node[w] \notin expanded
    BY <1>3 DEF ReadDir, IInv, TypeOK, Holding, Discovery
  <2> QED
    BY <1>0, <1>3, <2>1, CountedOnes DEF ReadDir, OneRead
<1>4. ASSUME NEW e \in Paths, StatFails(w, e) \/ StatDir(w, e) \/ StatSymlink(w, e)
      PROVE  Unmoved
  BY <1>0, <1>4, CountedOnes DEF StatFails, StatDir, StatSymlink, Record, treeVars
<1>5. ASSUME NEW e \in Paths, StatFile(w, e) PROVE Unmoved
  BY <1>0, <1>5, CountedOnes DEF StatFile, Record
<1>6. ASSUME NEW e \in Paths, StatDuplicate(w, e) PROVE Unmoved
  <2>1. /\ stats'["dirsScanned"] = Counted({"duplicateFiles", "filesScanned"})["dirsScanned"]
        /\ stats'["dirsQueued"] = Counted({"duplicateFiles", "filesScanned"})["dirsQueued"]
    BY <1>0, <1>6 DEF StatDuplicate, Counted
  <2> QED
    BY <1>0, <1>6, <2>1, CountedOnes DEF StatDuplicate, Record
<1>7. ASSUME NEW d \in Dirs, SkipCrossDevice(w, d) PROVE Unmoved
  BY <1>0, <1>7, CountedOnes DEF SkipCrossDevice
<1>8. ASSUME NEW d \in Dirs, CountSub(w, d) PROVE OneQueued
  <2>1. d \notin queued
    BY <1>8 DEF CountSub, IInv, Discovery
  <2> QED
    BY <1>0, <1>8, <2>1, CountedOnes DEF CountSub, OneQueued, treeVars
<1> QED
  BY <1>1, <1>2, <1>3, <1>4, <1>5, <1>6, <1>7, <1>8 DEF WorkerStep

LEMMA StepCounts ==
    ASSUME IInv, [Next]_vars PROVE Unmoved \/ OneRead \/ OneQueued
<1>1. CASE \E w \in Workers : WorkerStep(w)
  BY <1>1, WorkerCounts
<1>2. CASE CloserStep
  BY <1>2 DEF CloserStep, PendingZero, Close, Broadcast, treeVars, Unmoved, Same
<1>3. CASE CallerStep
  BY <1>3 DEF CallerStep, RollUp, Return, treeVars, Unmoved, Same
<1>4. CASE Cancel \/ UNCHANGED vars
  BY <1>4 DEF Cancel, vars, treeVars, Unmoved, Same
<1> QED
  BY <1>1, <1>2, <1>3, <1>4 DEF Next, Terminated

(* The counts stay exact, and never fall.                                   *)
LEMMA WalkKeepsCounters ==
    ASSUME IInv, Counters, [Next]_vars
    PROVE  /\ Counters'
           /\ stats["dirsQueued"] \in Nat /\ stats'["dirsQueued"] \in Nat
           /\ stats["dirsQueued"] <= stats'["dirsQueued"]
<1>1. /\ expanded \subseteq Dirs /\ queued \subseteq Dirs
      /\ IsFiniteSet(expanded) /\ IsFiniteSet(queued)
  BY FS_Subset, WalkAssumption DEF IInv, TypeOK
<1>2. Cardinality(expanded) \in Nat /\ Cardinality(queued) \in Nat
  BY <1>1, FS_CardinalityType
<1>3. CASE Unmoved
  BY <1>2, <1>3 DEF Unmoved, Same, Counters
<1>4. CASE OneRead
  <2>1. PICK d \in Dirs \ expanded :
          /\ expanded' = expanded \cup {d} /\ stats'["dirsScanned"] = stats["dirsScanned"] + 1
          /\ UNCHANGED queued /\ Same("dirsQueued")
    BY <1>4 DEF OneRead
  <2>2. Cardinality(expanded \cup {d}) = Cardinality(expanded) + 1
    BY <1>1, FS_AddElement
  <2> QED
    BY <1>2, <2>1, <2>2 DEF Same, Counters
<1>5. CASE OneQueued
  <2>1. PICK d \in Dirs \ queued :
          /\ queued' = queued \cup {d} /\ stats'["dirsQueued"] = stats["dirsQueued"] + 1
          /\ UNCHANGED expanded /\ Same("dirsScanned")
    BY <1>5 DEF OneQueued
  <2>2. Cardinality(queued \cup {d}) = Cardinality(queued) + 1
    BY <1>1, FS_AddElement
  <2> QED
    BY <1>2, <2>1, <2>2 DEF Same, Counters
<1> QED
  BY <1>3, <1>4, <1>5, StepCounts

(* The entries that were listed and dropped, and no longer to be looked at. *)
Dropped ==
    {e \in UNION {Entries[d] \ children[d] : d \in expanded} : \A w \in Workers : e \notin todo[w]}

(* Each path counted as denied is a directory marked so or an entry dropped,*)
(* and the sample is of those directories.                                  *)
Denials ==
    /\ stats["deniedPaths"] = Cardinality(DeniedDirs) + Cardinality(Dropped)
    /\ deniedSample \subseteq DeniedDirs

LEMMA InitDenials == Init => Counters /\ Denials
<1> SUFFICES ASSUME Init PROVE Counters /\ Denials
  OBVIOUS
<1>1. DeniedDirs = {} /\ Dropped = {}
  BY DEF Init, DeniedDirs, Dropped
<1>2. Cardinality(DeniedDirs) = 0 /\ Cardinality(Dropped) = 0
  BY <1>1, FS_EmptySet
<1>3. Denials
  BY <1>1, <1>2 DEF Init, Denials, StatNames
<1> QED
  BY <1>3, FS_EmptySet, FS_Singleton DEF Init, Counters, StatNames

IsDropped(e) ==
    /\ \E d \in expanded : e \in Entries[d] /\ e \notin children[d]
    /\ \A w \in Workers : e \notin todo[w]

LEMMA DenialsFinite == ASSUME WInv PROVE IsFiniteSet(DeniedDirs) /\ IsFiniteSet(Dropped)
<1>1. IsFiniteSet(DeniedDirs)
  BY FS_Subset, WalkAssumption DEF DeniedDirs
<1> DEFINE lists == {Entries[x] : x \in Dirs}
<1>2. IsFiniteSet(lists) /\ \A s \in lists : IsFiniteSet(s)
  BY FiniteImage, WalkAssumption
<1>3. IsFiniteSet(UNION lists)
  <2> HIDE DEF lists
  <2> QED
    BY <1>2, FS_UNION
<1>4. Dropped \subseteq UNION lists
  BY DEF Dropped, WInv, IInv, TypeOK
<1> QED
  BY <1>1, <1>3, <1>4, FS_Subset

(* A step that denies nothing.                                              *)
LEMMA NothingDenied ==
    ASSUME Denials, stats'["deniedPaths"] = stats["deniedPaths"],
           deniedSample' \subseteq DeniedDirs,
           \A d \in Dirs : state'[d] = "Denied" <=> state[d] = "Denied",
           Dropped' = Dropped
    PROVE  Denials'
<1>1. DeniedDirs' = DeniedDirs
  BY DEF DeniedDirs
<1> QED
  BY <1>1 DEF Denials

LEMMA WorkerDenials ==
    ASSUME WInv, Denials, NEW w \in Workers, WorkerStep(w) PROVE Denials'
<1> USE DEF treeVars, queueVars, workerVars
<1>0. "deniedPaths" \in StatNames /\ deniedSample \subseteq DeniedDirs
  BY DEF StatNames, Denials
<1>a. IsFiniteSet(DeniedDirs) /\ IsFiniteSet(Dropped)
  BY DenialsFinite
<1>b. Cardinality(DeniedDirs) \in Nat /\ Cardinality(Dropped) \in Nat
  BY <1>a, FS_CardinalityType
<1>c. /\ \A x : x \in Dropped <=> IsDropped(x)
      /\ (\A x : x \in Dropped <=> IsDropped(x))'
  BY DEF Dropped, IsDropped
<1>1. CASE PopItem(w) \/ PopWait(w) \/ PopExit(w) \/ CheckCancelled(w) \/ CheckPassed(w)
           \/ Push(w) \/ Signal(w) \/ Done(w)
  <2>1. UNCHANGED <<stats, deniedSample, state, expanded, children, todo>>
    BY <1>1 DEF PopItem, PopWait, PopExit, CheckCancelled, CheckPassed, Push, Signal, Done
  <2> QED
    BY <1>0, <2>1, NothingDenied DEF Dropped
<1>2. CASE CheckDeferred(w)
  <2>1. state[node[w]] # "Denied" /\ node[w] \in Dirs
    BY <1>2 DEF CheckDeferred, WInv, TreeInv, Marked, IInv, TypeOK, Holding
  <2>2. UNCHANGED <<stats, deniedSample, expanded, children, todo>>
        /\ state' = [state EXCEPT ![node[w]] = "Deferred"]
    BY <1>2 DEF CheckDeferred
  <2>3. \A d \in Dirs : state'[d] = "Denied" <=> state[d] = "Denied"
    BY <2>1, <2>2 DEF WInv, IInv, TypeOK
  <2> QED
    BY <1>0, <2>2, <2>3, NothingDenied DEF Dropped
<1>3. CASE ReadDirDenied(w)
  <2>1. state[node[w]] # "Denied" /\ node[w] \in Dirs
    BY <1>3 DEF ReadDirDenied, WInv, TreeInv, Marked, IInv, TypeOK, Holding
  <2>2. /\ UNCHANGED <<deniedSample, expanded, children, todo>>
        /\ state' = [state EXCEPT ![node[w]] = "Denied"]
        /\ stats'["deniedPaths"] = stats["deniedPaths"] + 1
    BY <1>0, <1>3, CountedOnes DEF ReadDirDenied
  <2>3. DeniedDirs' = DeniedDirs \cup {node[w]} /\ node[w] \notin DeniedDirs
    BY <2>1, <2>2 DEF DeniedDirs, WInv, IInv, TypeOK
  <2>4. Cardinality(DeniedDirs') = Cardinality(DeniedDirs) + 1
    BY <1>a, <2>3, FS_AddElement
  <2>5. Dropped' = Dropped
    BY <2>2 DEF Dropped
  <2> QED
    BY <1>0, <1>b, <2>2, <2>3, <2>4, <2>5 DEF Denials
<1>4. CASE ReadDir(w)
  <2>1. node[w] \in Dirs \ expanded /\ expanded \subseteq Dirs
    BY <1>4 DEF ReadDir, WInv, IInv, TypeOK, Holding, Discovery
  <2>2. /\ UNCHANGED <<deniedSample, state, children>>
        /\ expanded' = expanded \cup {node[w]}
        /\ todo' = [todo EXCEPT ![w] = Entries[node[w]]] /\ todo[w] = {}
        /\ stats'["deniedPaths"] = stats["deniedPaths"]
    BY <1>0, <1>4, CountedOnes DEF ReadDir, WInv, IInv, Holding
  <2>3. \A v \in Workers : todo'[v] = IF v = w THEN Entries[node[w]] ELSE todo[v]
    BY <2>2 DEF WInv, IInv, TypeOK
  <2>4. \A d \in expanded : Entries[d] \cap Entries[node[w]] = {}
    BY <2>1, WalkAssumption
  <2>5. \A e : e \in Dropped' <=> e \in Dropped
    BY <1>c, <2>2, <2>3, <2>4 DEF IsDropped
  <2> QED
    BY <1>0, <2>2, <2>5, NothingDenied
<1>5. ASSUME NEW e \in Paths, StatFails(w, e) PROVE Denials'
  <2>1. /\ UNCHANGED <<deniedSample, state, children, expanded>>
        /\ todo' = [todo EXCEPT ![w] = @ \ {e}] /\ e \in todo[w]
        /\ stats'["deniedPaths"] = stats["deniedPaths"] + 1
    BY <1>0, <1>5, CountedOnes DEF StatFails
  <2>2. /\ node[w] \in expanded /\ node[w] \in Dirs
        /\ e \in Entries[node[w]] /\ e \notin children[node[w]]
    BY <2>1 DEF WInv, IInv, TypeOK, Discovery, LinkInv, RecordedOnce
  <2>3. \A v \in Workers : v # w => e \notin todo[v]
    <3> SUFFICES ASSUME NEW v \in Workers, v # w, e \in todo[v] PROVE FALSE
      OBVIOUS
    <3>1. node[v] \in Dirs /\ e \in Entries[node[v]] /\ node[v] # None
      BY WalkAssumption DEF WInv, IInv, TypeOK, Discovery
    <3>2. node[v] # node[w]
      BY <3>1 DEF WInv, IInv, OnePlace
    <3> QED
      BY <2>2, <3>1, <3>2, WalkAssumption
  <2>4. \A v \in Workers : todo'[v] = IF v = w THEN todo[v] \ {e} ELSE todo[v]
    BY <2>1 DEF WInv, IInv, TypeOK
  <2>5. Dropped' = Dropped \cup {e} /\ e \notin Dropped
    <3>1. \A x : x \in Dropped' <=> x \in Dropped \/ x = e
      BY <1>c, <2>1, <2>2, <2>3, <2>4 DEF IsDropped
    <3> QED
      BY <1>c, <2>1, <3>1 DEF IsDropped
  <2>6. Cardinality(Dropped') = Cardinality(Dropped) + 1
    BY <1>a, <2>5, FS_AddElement
  <2>7. DeniedDirs' = DeniedDirs
    BY <2>1 DEF DeniedDirs
  <2> QED
    BY <1>0, <1>b, <2>1, <2>6, <2>7 DEF Denials
<1>6. ASSUME NEW e \in Paths,
             StatDir(w, e) \/ StatSymlink(w, e) \/ StatDuplicate(w, e) \/ StatFile(w, e)
      PROVE  Denials'
  <2>1. /\ Record(w, e) /\ UNCHANGED <<state, expanded, deniedSample>>
        /\ stats'["deniedPaths"] = stats["deniedPaths"]
    <3>1. CASE StatDuplicate(w, e)
      <4>1. stats'["deniedPaths"] = Counted({"duplicateFiles", "filesScanned"})["deniedPaths"]
        BY <1>0, <3>1 DEF StatDuplicate, Counted
      <4> QED
        BY <1>0, <3>1, <4>1, CountedOnes DEF StatDuplicate, Record
    <3>2. CASE StatFile(w, e)
      BY <1>0, <3>2, CountedOnes DEF StatFile, Record
    <3>3. CASE StatDir(w, e) \/ StatSymlink(w, e)
      BY <1>0, <3>3, CountedOnes DEF StatDir, StatSymlink, Record
    <3> QED
      BY <1>6, <3>1, <3>2, <3>3
  <2>2. /\ todo' = [todo EXCEPT ![w] = @ \ {e}] /\ e \in todo[w]
        /\ children' = [children EXCEPT ![node[w]] = @ \cup {e}]
    BY <2>1 DEF Record
  <2>3. /\ node[w] \in expanded /\ node[w] \in Dirs /\ expanded \subseteq Dirs
        /\ e \in Entries[node[w]]
    BY <2>2 DEF WInv, IInv, TypeOK, Discovery
  <2>4. \A v \in Workers : todo'[v] = IF v = w THEN todo[v] \ {e} ELSE todo[v]
    BY <2>2 DEF WInv, IInv, TypeOK
  <2>5. \A d \in Dirs : children'[d] = IF d = node[w] THEN children[d] \cup {e} ELSE children[d]
    BY <2>2 DEF WInv, IInv, TypeOK
  <2>6. \A d \in expanded : e \in Entries[d] => d = node[w]
    BY <2>3, WalkAssumption
  <2>7. ASSUME NEW x PROVE x \in Dropped' <=> x \in Dropped
    <3>1. CASE x = e
      <4>1. x \notin Dropped
        BY <1>c, <2>2, <3>1 DEF IsDropped
      <4>2. x \notin Dropped'
        BY <1>c, <2>1, <2>3, <2>5, <2>6, <3>1 DEF IsDropped
      <4> QED
        BY <4>1, <4>2
    <3>2. CASE x # e
      <4>1. \A d \in expanded : x \in children'[d] <=> x \in children[d]
        BY <2>3, <2>5, <3>2
      <4>2. \A v \in Workers : x \in todo'[v] <=> x \in todo[v]
        BY <2>4, <3>2
      <4> QED
        BY <1>c, <2>1, <4>1, <4>2 DEF IsDropped
    <3> QED
      BY <3>1, <3>2
  <2> QED
    BY <1>0, <2>1, <2>7, NothingDenied
<1>7. ASSUME NEW d \in Dirs, SkipCrossDevice(w, d) \/ CountSub(w, d) PROVE Denials'
  <2>1. /\ UNCHANGED <<deniedSample, expanded, children, todo>>
        /\ stats'["deniedPaths"] = stats["deniedPaths"]
        /\ state' = state \/ state' = [state EXCEPT ![d] = "CrossDevice"]
    BY <1>0, <1>7, CountedOnes DEF SkipCrossDevice, CountSub
  <2>2. state[d] # "Denied"
    BY <1>7 DEF SkipCrossDevice, CountSub, WInv, TreeInv, Marked, IInv, Discovery
  <2>3. \A c \in Dirs : state'[c] = "Denied" <=> state[c] = "Denied"
    BY <2>1, <2>2 DEF WInv, IInv, TypeOK
  <2>4. Dropped' = Dropped
    BY <2>1 DEF Dropped
  <2> QED
    BY <1>0, <2>1, <2>3, <2>4, NothingDenied
<1> QED
  BY <1>1, <1>2, <1>3, <1>4, <1>5, <1>6, <1>7 DEF WorkerStep

LEMMA NextDenials == ASSUME WInv, Denials, [Next]_vars PROVE Denials'
<1> USE DEF treeVars, queueVars, workerVars
<1>1. ASSUME NEW w \in Workers, WorkerStep(w) PROVE Denials'
  BY <1>1, WorkerDenials
<1>2. CASE CallerStep \/ CloserStep \/ Cancel \/ UNCHANGED vars
  <2>1. /\ UNCHANGED <<stats, expanded, children, todo>>
        /\ deniedSample' = deniedSample \/ deniedSample' \subseteq DeniedDirs
    BY <1>2 DEF CallerStep, RollUp, Return, CloserStep, PendingZero, Close, Broadcast,
                Cancel, vars
  <2>2. \A d \in Dirs : state'[d] = "Denied" <=> state[d] = "Denied"
    BY <1>2 DEF CallerStep, RollUp, Unmeasured, RolledState, Return, CloserStep, PendingZero,
                Close, Broadcast, Cancel, vars, WInv, IInv, TypeOK
  <2>3. Dropped' = Dropped
    BY <2>1 DEF Dropped
  <2> QED
    BY <2>1, <2>2, <2>3, NothingDenied DEF Denials
<1> QED
  BY <1>1, <1>2 DEF Next, Terminated

(* The counters Walk returns agree with the tree it returns (node.go:67-85),*)
(* for every tree, whatever fails and whenever the walk is cancelled.       *)
THEOREM CountersAgree == Spec => []StatsReconcile
<1>1. WInv /\ Counters /\ Denials => StatsReconcile
  <2> SUFFICES ASSUME WInv, Counters, Denials, returned PROVE StatsReconcile
    BY DEF StatsReconcile
  <2> DEFINE In(states) == {d \in Dirs : InTree(d) /\ state[d] \in states}
             left == {d \in In({"Partial"}) : d \notin expanded}
             unread == In({"Denied", "Deferred"}) \cup left
  <2>1. \A w \in Workers : todo[w] = {} /\ subdirs[w] = {}
    BY DEF WInv, AInv, SettledFirst, AllExited, IInv, Holding
  <2>2. Dropped = UNION {Entries[d] \ children[d] : d \in expanded}
    BY <2>1 DEF Dropped
  <2>3. DeniedDirs = In({"Denied"})
    BY DEF DeniedDirs, WInv, TreeInv, Marked, Found
  <2>4. queued \ expanded = unread
    <3>1. ASSUME NEW d \in queued \ expanded PROVE d \in unread
      <4>1. d \in Dirs /\ InTree(d) /\ state[d] # "CrossDevice"
        BY DEF WInv, IInv, TypeOK, TreeInv, Found, Marked
      <4>2. d \in rolled /\ state[d] # "Complete"
        BY <4>1, AllRolled DEF WInv, TreeInv, RolledUp
      <4>3. state[d] \in SubtreeState
        BY <4>1 DEF WInv, IInv, TypeOK
      <4> QED
        BY <4>1, <4>2, <4>3 DEF SubtreeState
    <3>2. ASSUME NEW d \in left PROVE d \in queued \ expanded
      <4>1. Reached(d)
        BY DEF InTree, Reached, WInv, IInv, TypeOK
      <4> QED
        BY <2>1, <4>1 DEF WInv, TreeInv, Found
    <3>3. ASSUME NEW d \in In({"Denied", "Deferred"}) PROVE d \in queued \ expanded
      BY DEF WInv, TreeInv, Marked
    <3> QED
      BY <3>1, <3>2, <3>3
  <2>5. Cardinality(queued) = Cardinality(expanded) + Cardinality(unread)
    <3>1. IsFiniteSet(queued) /\ IsFiniteSet(expanded) /\ expanded \subseteq queued
      BY FS_Subset, WalkAssumption DEF WInv, IInv, TypeOK, Discovery
    <3>2. queued = expanded \cup (queued \ expanded) /\ expanded \cap (queued \ expanded) = {}
      BY <3>1
    <3>3. IsFiniteSet(queued \ expanded)
      BY <3>1, FS_Subset
    <3> DEFINE rest == queued \ expanded
    <3> HIDE DEF rest
    <3>4. Cardinality(expanded \cup rest)
            = Cardinality(expanded) + Cardinality(rest) - Cardinality(expanded \cap rest)
      BY <3>1, <3>3, FS_Union DEF rest
    <3>5. Cardinality(expanded) \in Nat /\ Cardinality(rest) \in Nat
      BY <3>1, <3>3, FS_CardinalityType DEF rest
    <3>6. Cardinality(expanded \cap rest) = 0 /\ expanded \cup rest = queued
      BY <3>2, FS_EmptySet DEF rest
    <3>7. Cardinality(queued) = Cardinality(expanded) + Cardinality(rest) - 0
      BY <3>4, <3>6
    <3>8. Cardinality(queued) = Cardinality(expanded) + Cardinality(rest)
      BY <3>5, <3>7
    <3> QED
      BY <2>4, <3>8 DEF rest
  <2>6. Cardinality(deniedSample) <= stats["deniedPaths"]
    <3>1. Cardinality(deniedSample) <= Cardinality(DeniedDirs) /\ IsFiniteSet(deniedSample)
      BY DenialsFinite, FS_Subset DEF Denials
    <3> QED
      BY <3>1, DenialsFinite, FS_CardinalityType DEF Denials
  <2> HIDE DEF In, left, unread
  <2>7. /\ stats["dirsScanned"] = Cardinality(expanded)
        /\ stats["dirsQueued"] = stats["dirsScanned"] + Cardinality(unread)
        /\ stats["deniedPaths"] = Cardinality(In({"Denied"}))
             + Cardinality(UNION {Entries[d] \ children[d] : d \in expanded})
    BY <2>2, <2>3, <2>5 DEF Counters, Denials
  <2> QED
    BY <2>6, <2>7 DEF StatsReconcile, In, left, unread
<1>2. WInv /\ Counters /\ Denials /\ [Next]_vars => Counters' /\ Denials'
  BY WalkKeepsCounters, NextDenials DEF WInv
<1> QED
  BY <1>1, <1>2, InitDenials, WalkInvariance, PTL DEF Spec

-----------------------------------------------------------------------------
(* The order of the queue                                                   *)

BytesIn(part) == SumFunctionOnSet(SizeOf, part \cap Leaves)

(* What a worker has added up, and what it has yet to look at, is in the    *)
(* directory it holds; outside expandDir it has added nothing.              *)
Summed ==
    \A w \in Workers :
        /\ pc[w] \notin {"expand", "push", "signal"} => directBytes[w] = 0
        /\ node[w] # None =>
            directBytes[w] + BytesIn(todo[w]) <= BytesIn(Entries[node[w]])

(* The queue has the root first, alone, and then never again.               *)
RootAlone ==
    /\ Root \in HeapDirs => Busy = {} /\ \A i \in heap : i.node = Root
    /\ \A w \in Workers : sub[w] # Root

(* But for the root, exactly the priority paths have the highest priority.  *)
Ranking ==
    \A i \in heap : i.node # Root =>
        /\ i.node \in PriorityPaths => i.priority = MaxPriority
        /\ i.node \notin PriorityPaths => i.priority < MaxPriority

QueueInv == Summed /\ RootAlone /\ Ranking

LEMMA BytesFacts ==
    ASSUME NEW d \in Dirs, NEW part, part \subseteq Entries[d]
    PROVE  /\ BytesIn(part) \in Nat /\ BytesIn(part) <= BytesIn(Entries[d])
           /\ BytesIn({}) = 0 /\ BytesIn(Entries[d]) < MaxPriority
           /\ \A e \in part : /\ BytesIn(part \ {e}) <= BytesIn(part) /\ BytesIn(part \ {e}) \in Nat
                              /\ e \in Leaves => SizeOf[e] + BytesIn(part \ {e}) = BytesIn(part)
<1> DEFINE U == part \cap Leaves
           V == Entries[d] \cap Leaves
<1>1. IsFiniteSet(V) /\ \A l \in V : SizeOf[l] \in Nat /\ SizeOf[l] \in Int
  <2>1. \A l \in V : SizeOf[l] \in Nat /\ SizeOf[l] \in Int
    BY LeafSizes
  <2>2. IsFiniteSet(Entries[d])
    BY WalkAssumption
  <2> QED
    BY <2>1, <2>2, FS_Subset
<1>2. U \in SUBSET V /\ IsFiniteSet(U)
  BY <1>1, FS_Subset
<1> HIDE DEF U, V
<1>3. /\ SumFunctionOnSet(SizeOf, V) \in Nat /\ SumFunctionOnSet(SizeOf, U) \in Nat
      /\ SumFunctionOnSet(SizeOf, U) <= SumFunctionOnSet(SizeOf, V)
  BY <1>1, <1>2, SumPart
<1>4. BytesIn({}) = 0
  BY SumEmpty DEF BytesIn
<1>5. BytesIn(Entries[d]) < MaxPriority
  BY PriorityAssumption DEF BytesIn
<1>6. ASSUME NEW e \in part
      PROVE  /\ BytesIn(part \ {e}) <= BytesIn(part) /\ BytesIn(part \ {e}) \in Nat
             /\ e \in Leaves => SizeOf[e] + BytesIn(part \ {e}) = BytesIn(part)
  <2> DEFINE W == U \ {e}
  <2>1. W \in SUBSET U /\ (part \ {e}) \cap Leaves = W /\ (e \in Leaves => e \in U)
    BY DEF U
  <2>2. \A l \in U : SizeOf[l] \in Nat /\ SizeOf[l] \in Int
    BY <1>1, <1>2
  <2>3. SumFunctionOnSet(SizeOf, W) \in Nat /\ SumFunctionOnSet(SizeOf, W) <= SumFunctionOnSet(SizeOf, U)
    <3> HIDE DEF W
    <3> QED
      BY <1>2, <2>1, <2>2, SumPart
  <2>4. e \in Leaves => SumFunctionOnSet(SizeOf, U) = SizeOf[e] + SumFunctionOnSet(SizeOf, W)
    BY <1>2, <2>1, <2>2, SumRemove
  <2> QED
    BY <2>1, <2>3, <2>4 DEF BytesIn, U
<1> QED
  BY <1>3, <1>4, <1>5, <1>6 DEF BytesIn, U, V

(* What a worker has yet to look at is in the directory it holds.           *)
LEMMA HeldTodo ==
    ASSUME IInv, NEW w \in Workers, node[w] # None
    PROVE  /\ node[w] \in Dirs /\ todo[w] \subseteq Entries[node[w]]
           /\ directBytes[w] \in Nat /\ BytesIn(todo[w]) \in Nat
           /\ BytesIn(Entries[node[w]]) \in Nat
<1>1. node[w] \in Dirs /\ todo[w] \subseteq Entries[node[w]] /\ directBytes[w] \in Nat
  BY DEF IInv, TypeOK, Discovery
<1> QED
  BY <1>1, BytesFacts

LEMMA SummedUnmoved ==
    ASSUME IInv, Summed,
           \A v \in Workers :
              /\ node'[v] = node[v] /\ todo'[v] = todo[v] /\ directBytes'[v] = directBytes[v]
              /\ \/ pc'[v] \in {"expand", "push", "signal"}
                 \/ pc[v] \notin {"expand", "push", "signal"}
    PROVE  Summed'
BY DEF Summed, BytesIn

LEMMA WorkerSums ==
    ASSUME IInv, Summed, NEW w \in Workers, WorkerStep(w)
    PROVE  Summed'
<1> USE DEF treeVars, queueVars
<1>0. \A v \in Workers : node[v] # None => todo[v] \subseteq Entries[node[v]] /\ node[v] \in Dirs
  BY HeldTodo
<1>1. CASE PopItem(w)
  <2>1. PICK i \in heap : node' = [node EXCEPT ![w] = i.node]
    BY <1>1 DEF PopItem
  <2>2. i.node \in Dirs /\ todo[w] = {} /\ directBytes[w] = 0
    BY <1>1 DEF PopItem, IInv, TypeOK, QueueItem, Holding, Summed
  <2>3. BytesIn(todo[w]) = 0 /\ BytesIn(Entries[i.node]) \in Nat
    BY <2>2, BytesFacts
  <2>4. \A v \in Workers : node'[v] = IF v = w THEN i.node ELSE node[v]
    BY <2>1 DEF IInv, TypeOK
  <2>5. /\ \A v \in Workers : todo'[v] = todo[v] /\ directBytes'[v] = directBytes[v]
        /\ \A v \in Workers : pc'[v] = IF v = w THEN "check" ELSE pc[v]
    BY <1>1 DEF PopItem, IInv, TypeOK
  <2>6. \A v \in Workers : node'[v] # None =>
            directBytes[v] + BytesIn(todo[v]) <= BytesIn(Entries[node'[v]])
    <3>1. node'[w] = i.node /\ directBytes[w] + BytesIn(todo[w]) <= BytesIn(Entries[i.node])
      BY <2>2, <2>3, <2>4
    <3>2. ASSUME NEW v \in Workers, v # w, node'[v] # None
          PROVE  directBytes[v] + BytesIn(todo[v]) <= BytesIn(Entries[node'[v]])
      BY <2>4, <3>2 DEF Summed
    <3> QED
      BY <3>1, <3>2
  <2>7. \A v \in Workers : pc'[v] \notin {"expand", "push", "signal"} => directBytes[v] = 0
    BY <2>2, <2>5 DEF Summed
  <2> QED
    BY <2>5, <2>6, <2>7 DEF Summed, BytesIn
<1>2. CASE ReadDir(w)
  <2>1. /\ \A v \in Workers : node'[v] = node[v]
        /\ \A v \in Workers : todo'[v] = IF v = w THEN Entries[node[w]] ELSE todo[v]
        /\ \A v \in Workers : directBytes'[v] = IF v = w THEN 0 ELSE directBytes[v]
        /\ \A v \in Workers : pc'[v] = IF v = w THEN "expand" ELSE pc[v]
    BY <1>2 DEF ReadDir, IInv, TypeOK
  <2>2. node[w] # None /\ BytesIn(Entries[node[w]]) \in Nat
    <3>1. node[w] # None
      BY <1>2 DEF ReadDir, IInv, Holding
    <3> QED
      BY <3>1, HeldTodo
  <2>3. \A v \in Workers : node[v] # None =>
            directBytes'[v] + BytesIn(todo'[v]) <= BytesIn(Entries[node[v]])
    BY <2>1, <2>2 DEF Summed
  <2>4. \A v \in Workers : pc'[v] \notin {"expand", "push", "signal"} => directBytes'[v] = 0
    BY <2>1 DEF Summed
  <2> QED
    BY <2>1, <2>3, <2>4 DEF Summed, BytesIn
<1>3. ASSUME NEW e \in Paths,
             \/ StatFails(w, e) \/ StatDir(w, e) \/ StatSymlink(w, e)
             \/ StatDuplicate(w, e) \/ StatFile(w, e)
      PROVE  Summed'
  <2>1. /\ pc[w] = "expand" /\ e \in todo[w] /\ UNCHANGED <<pc, node>>
        /\ todo' = [todo EXCEPT ![w] = @ \ {e}]
        /\ \/ directBytes' = directBytes
           \/ directBytes' = [directBytes EXCEPT ![w] = @ + SizeOf[e]] /\ e \in Leaves
    BY <1>3 DEF StatFails, StatDir, StatSymlink, StatDuplicate, StatFile, Record, Leaves
  <2>2. /\ node[w] # None /\ node[w] \in Dirs /\ directBytes[w] \in Nat
        /\ todo[w] \subseteq Entries[node[w]]
        /\ BytesIn(todo[w]) \in Nat /\ BytesIn(Entries[node[w]]) \in Nat
    <3>1. node[w] # None
      BY <2>1 DEF IInv, Holding
    <3> QED
      BY <3>1, HeldTodo
  <2> DEFINE rest == BytesIn(todo[w] \ {e})
  <2>3. /\ rest \in Nat /\ rest <= BytesIn(todo[w])
        /\ e \in Leaves => SizeOf[e] + rest = BytesIn(todo[w])
        /\ e \in Leaves => SizeOf[e] \in Nat
    <3>1. e \in Leaves => SizeOf[e] \in Nat
      BY LeafSizes
    <3> QED
      BY <2>1, <2>2, <3>1, BytesFacts
  <2>4. /\ \A v \in Workers : todo'[v] = IF v = w THEN todo[w] \ {e} ELSE todo[v]
        /\ \A v \in Workers : v # w => directBytes'[v] = directBytes[v]
        /\ \/ directBytes'[w] = directBytes[w]
           \/ directBytes'[w] = directBytes[w] + SizeOf[e] /\ e \in Leaves
    BY <2>1 DEF IInv, TypeOK
  <2>5. directBytes[w] + BytesIn(todo[w]) <= BytesIn(Entries[node[w]])
    BY <2>2 DEF Summed
  <2> HIDE DEF rest
  <2>6. directBytes'[w] + rest <= BytesIn(Entries[node[w]])
    BY <2>2, <2>3, <2>4, <2>5
  <2>7. \A v \in Workers : node[v] # None =>
            directBytes'[v] + BytesIn(todo'[v]) <= BytesIn(Entries[node[v]])
    BY <2>4, <2>6 DEF Summed, rest
  <2>8. \A v \in Workers : pc[v] \notin {"expand", "push", "signal"} => directBytes'[v] = 0
    BY <2>1, <2>4 DEF Summed
  <2> QED
    BY <2>1, <2>7, <2>8 DEF Summed, BytesIn
<1>4. CASE Done(w)
  <2>1. /\ \A v \in Workers : node'[v] = IF v = w THEN None ELSE node[v]
        /\ \A v \in Workers : directBytes'[v] = IF v = w THEN 0 ELSE directBytes[v]
        /\ todo' = todo
        /\ \A v \in Workers : pc'[v] = IF v = w THEN "pop" ELSE pc[v]
    BY <1>4 DEF Done, IInv, TypeOK
  <2> QED
    BY <2>1 DEF Summed, BytesIn
<1>5. CASE Signal(w)
  <2>1. \A v \in Workers : pc'[v] = pc[v] \/ pc'[v] = "expand" \/ pc[v] = "wait"
    BY <1>5 DEF Signal, Waiting, IInv, TypeOK
  <2> QED
    BY <1>5, <2>1, SummedUnmoved DEF Signal, Summed
<1>6. CASE \/ PopWait(w) \/ PopExit(w) \/ CheckCancelled(w) \/ CheckDeferred(w)
           \/ CheckPassed(w) \/ ReadDirDenied(w) \/ Push(w)
           \/ \E d \in Dirs : SkipCrossDevice(w, d) \/ CountSub(w, d)
  <2>1. UNCHANGED <<node, todo, directBytes>>
    BY <1>6 DEF PopWait, PopExit, CheckCancelled, CheckDeferred, CheckPassed, ReadDirDenied,
                Push, SkipCrossDevice, CountSub
  <2>2. \A v \in Workers : v # w => pc'[v] = pc[v]
    BY <1>6 DEF PopWait, PopExit, CheckCancelled, CheckDeferred, CheckPassed, ReadDirDenied,
                Push, SkipCrossDevice, CountSub, IInv, TypeOK
  <2>3. \/ pc'[w] \in {"expand", "push", "signal"}
        \/ pc[w] \notin {"expand", "push", "signal"}
    BY <1>6 DEF PopWait, PopExit, CheckCancelled, CheckDeferred, CheckPassed, ReadDirDenied,
                Push, SkipCrossDevice, CountSub, IInv, TypeOK
  <2>4. \A v \in Workers : \/ pc'[v] \in {"expand", "push", "signal"}
                           \/ pc[v] \notin {"expand", "push", "signal"}
                           \/ pc'[v] = pc[v] /\ pc[v] \in {"expand", "push", "signal"}
    BY <2>2, <2>3
  <2> QED
    BY <2>1, <2>4, SummedUnmoved
<1> QED
  BY <1>1, <1>2, <1>3, <1>4, <1>5, <1>6 DEF WorkerStep

LEMMA WorkerQueues ==
    ASSUME IInv, QueueInv, NEW w \in Workers, WorkerStep(w)
    PROVE  RootAlone' /\ Ranking'
<1> USE DEF treeVars, queueVars
<1>1. CASE PopItem(w)
  <2>1. PICK i \in heap : heap' = heap \ {i}
    BY <1>1 DEF PopItem
  <2>2. Root \notin HeapDirs'
    <3> SUFFICES ASSUME NEW j \in heap', j.node = Root PROVE FALSE
      BY DEF HeapDirs
    <3>1. j \in heap /\ j # i /\ Root \in HeapDirs
      BY <2>1 DEF HeapDirs
    <3>2. i.node = Root
      BY <2>1, <3>1 DEF QueueInv, RootAlone
    <3> QED
      BY <3>1, <3>2 DEF IInv, OnePlace
  <2>3. Ranking'
    BY <2>1 DEF QueueInv, Ranking
  <2>4. sub' = sub
    BY <1>1 DEF PopItem
  <2> QED
    BY <2>2, <2>3, <2>4 DEF QueueInv, RootAlone
<1>2. CASE Push(w)
  <2> DEFINE item == [node |-> sub[w], priority |-> PriorityOf(sub[w], directBytes[w]),
                      seq |-> nextSeq, depth |-> level[w] + 1]
  <2>1. /\ heap' = heap \cup {item} /\ item.node = sub[w]
        /\ item.priority = PriorityOf(sub[w], directBytes[w])
        /\ pc[w] = "push" /\ todo[w] = {} /\ node[w] # None
    BY <1>2 DEF Push, IInv, Holding
  <2> HIDE DEF item
  <2>2. w \in Busy
    BY <2>1 DEF Busy
  <2>3. sub[w] # Root /\ Root \notin HeapDirs
    <3>1. Root \notin HeapDirs
      BY <2>2 DEF QueueInv, RootAlone
    <3>2. sub[w] # Root
      BY DEF QueueInv, RootAlone
    <3> QED
      BY <3>1, <3>2
  <2>4. Root \notin HeapDirs'
    BY <2>1, <2>3 DEF HeapDirs
  <2>5. directBytes[w] < MaxPriority
    <3>1. /\ node[w] \in Dirs /\ directBytes[w] \in Nat /\ BytesIn(todo[w]) = 0
          /\ BytesIn(Entries[node[w]]) < MaxPriority /\ BytesIn(Entries[node[w]]) \in Nat
      BY <2>1, HeldTodo, BytesFacts
    <3>2. directBytes[w] + BytesIn(todo[w]) <= BytesIn(Entries[node[w]])
      BY <2>1 DEF QueueInv, Summed
    <3> QED
      BY <3>1, <3>2, WalkAssumption
  <2>6. Ranking'
    BY <2>1, <2>5 DEF QueueInv, Ranking, PriorityOf, isPriorityPath
  <2>7. \A v \in Workers : sub'[v] = sub[v] \/ sub'[v] = None
    BY <1>2 DEF Push, IInv, TypeOK
  <2>8. \A v \in Workers : sub'[v] # Root
    BY <2>7, WalkAssumption DEF QueueInv, RootAlone
  <2> QED
    BY <2>4, <2>6, <2>8 DEF RootAlone
<1>3. CASE ~PopItem(w) /\ ~Push(w)
  <2>1. heap' = heap
    BY <1>3 DEF WorkerStep, PopWait, PopExit, CheckCancelled, CheckDeferred, CheckPassed,
         ReadDirDenied, ReadDir, StatFails, StatDir, StatSymlink, StatDuplicate, StatFile,
         Record, SkipCrossDevice, CountSub, Signal, Done
  <2>2. Busy = {} => Busy' = {}
    <3>1. \A v \in Workers : \/ pc'[v] = pc[v] \/ w \in Busy
                             \/ pc'[v] \in {"pop", "wait", "exit"}
      BY <1>3 DEF WorkerStep, PopWait, PopExit, CheckCancelled, CheckDeferred, CheckPassed,
           ReadDirDenied, ReadDir, StatFails, StatDir, StatSymlink, StatDuplicate, StatFile,
           Record, SkipCrossDevice, CountSub, Signal, Done, Busy, IInv, TypeOK
    <3> QED
      BY <3>1 DEF Busy
  <2>3. \A v \in Workers : sub'[v] # Root
    <3>1. CASE \E d \in Dirs : CountSub(w, d)
      <4>1. PICK d \in Dirs : CountSub(w, d)
        BY <3>1
      <4>2. d \in Entries[node[w]] /\ node[w] \in Dirs
        BY <4>1 DEF CountSub, IInv, TypeOK, Holding, Discovery
      <4>3. d # Root
        BY <4>2, WalkAssumption
      <4>4. \A v \in Workers : sub'[v] = sub[v] \/ sub'[v] = d
        BY <4>1 DEF CountSub, IInv, TypeOK
      <4> QED
        BY <4>3, <4>4 DEF QueueInv, RootAlone
    <3>2. CASE ~(\E d \in Dirs : CountSub(w, d))
      <4>1. sub' = sub
        BY <1>3, <3>2 DEF WorkerStep, PopWait, PopExit, CheckCancelled, CheckDeferred,
           CheckPassed, ReadDirDenied, ReadDir, StatFails, StatDir, StatSymlink,
           StatDuplicate, StatFile, Record, SkipCrossDevice, Signal, Done
      <4> QED
        BY <4>1 DEF QueueInv, RootAlone
    <3> QED
      BY <3>1, <3>2
  <2>4. Ranking'
    BY <2>1 DEF QueueInv, Ranking
  <2>5. Root \in HeapDirs' => Busy' = {} /\ \A i \in heap' : i.node = Root
    BY <2>1, <2>2 DEF QueueInv, RootAlone, HeapDirs
  <2> QED
    BY <2>3, <2>4, <2>5 DEF RootAlone
<1> QED
  BY <1>1, <1>2, <1>3

LEMMA NextQueueInv == IInv /\ QueueInv /\ [Next]_vars => QueueInv'
<1> SUFFICES ASSUME IInv, QueueInv, [Next]_vars PROVE QueueInv'
  OBVIOUS
<1>1. ASSUME NEW w \in Workers, WorkerStep(w) PROVE QueueInv'
  BY <1>1, WorkerSums, WorkerQueues DEF QueueInv
<1>2. CASE CloserStep \/ CallerStep \/ Cancel \/ UNCHANGED vars
  <2>1. /\ UNCHANGED <<heap, node, sub, todo, directBytes>>
        /\ \A v \in Workers : pc'[v] = pc[v] \/ (pc[v] = "wait" /\ pc'[v] = "pop")
    BY <1>2 DEF CloserStep, PendingZero, Close, Broadcast, Waiting, CallerStep, RollUp, Return,
                Cancel, vars, queueVars, workerVars, treeVars, IInv, TypeOK
  <2>2. Summed'
    BY <2>1 DEF QueueInv, Summed, BytesIn
  <2>3. Busy' = Busy
    BY <2>1 DEF Busy
  <2>4. RootAlone' /\ Ranking'
    BY <2>1, <2>3 DEF QueueInv, RootAlone, Ranking, HeapDirs
  <2> QED
    BY <2>2, <2>4 DEF QueueInv
<1> QED
  BY <1>1, <1>2 DEF Next, Terminated

(* While a priority path is in the queue, no worker takes an ordinary       *)
(* directory from it, however large the directory it was found in           *)
(* (walk.go:38-45, 215-218, queue.go:14-23).                                *)
THEOREM PriorityPathsFirst == Spec => PriorityFirst
<1> DEFINE Rule(w) == pc[w] = "pop" /\ pc'[w] = "check" /\ PriorityPaths \cap HeapDirs # {}
                        => node'[w] \in PriorityPaths \cup {Root}
<1>1. IInv /\ QueueInv /\ [Next]_vars => [\A w \in Workers : Rule(w)]_vars
  <2> SUFFICES ASSUME IInv, QueueInv, [Next]_vars, NEW w \in Workers,
                      pc[w] = "pop", pc'[w] = "check", PriorityPaths \cap HeapDirs # {}
               PROVE  node'[w] \in PriorityPaths \cup {Root}
    OBVIOUS
  <2>1. PopItem(w)
    <3>1. ASSUME NEW v \in Workers, WorkerStep(v) PROVE PopItem(w)
      <4>1. CASE PopItem(v)
        BY <4>1 DEF PopItem, IInv, TypeOK
      <4>2. CASE ~PopItem(v)
        <5>1. pc'[w] # "check" \/ pc'[w] = pc[w]
          BY <3>1, <4>2 DEF WorkerStep, PopWait, PopExit, CheckCancelled, CheckDeferred,
             CheckPassed, ReadDirDenied, ReadDir, StatFails, StatDir, StatSymlink,
             StatDuplicate, StatFile, Record, SkipCrossDevice, CountSub, Push, Signal, Done,
             IInv, TypeOK
        <5> QED
          BY <5>1
      <4> QED
        BY <4>1, <4>2
    <3>2. CASE CloserStep \/ CallerStep \/ Cancel \/ UNCHANGED vars
      BY <3>2 DEF CloserStep, PendingZero, Close, Broadcast, Waiting, CallerStep, RollUp, Return,
                  Cancel, vars, workerVars, IInv, TypeOK
    <3> QED
      BY <3>1, <3>2 DEF Next, Terminated
  <2>2. PICK i \in heap : IsFirst(i) /\ node' = [node EXCEPT ![w] = i.node]
    BY <2>1 DEF PopItem
  <2>3. node'[w] = i.node
    BY <2>2 DEF IInv, TypeOK
  <2>4. PICK j \in heap : j.node \in PriorityPaths
    BY DEF HeapDirs
  <2>5. i.priority \in Nat /\ j.priority \in Nat /\ i.seq \in Nat /\ j.seq \in Nat
    BY DEF IInv, TypeOK, QueueItem
  <2>6. CASE j.node = Root
    BY <2>3, <2>4, <2>6 DEF QueueInv, RootAlone, HeapDirs
  <2>7. CASE j.node # Root
    <3>1. j.priority = MaxPriority
      BY <2>4, <2>7 DEF QueueInv, Ranking
    <3>2. ~(j.priority > i.priority)
      BY <2>2 DEF IsFirst, Less
    <3>3. i.node = Root \/ i.node \in PriorityPaths
      BY <2>5, <3>1, <3>2, WalkAssumption DEF QueueInv, Ranking
    <3> QED
      BY <2>3, <3>3
  <2> QED
    BY <2>6, <2>7
<1>2. Init => QueueInv
  <2> SUFFICES ASSUME Init PROVE QueueInv
    OBVIOUS
  <2>1. Summed
    BY DEF Init, Summed
  <2>2. RootAlone
    BY WalkAssumption DEF Init, RootAlone, Busy
  <2>3. Ranking
    BY DEF Init, Ranking
  <2> QED
    BY <2>1, <2>2, <2>3 DEF QueueInv
<1> QED
  BY <1>1, <1>2, InitIInv, NextIInv, NextQueueInv, PTL DEF Spec, PriorityFirst

=============================================================================
