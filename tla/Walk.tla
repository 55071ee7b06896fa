-------------------------------- MODULE Walk --------------------------------
(***************************************************************************)
(* scan.Walk: the concurrent, size-prioritised measurement of a directory  *)
(* tree (src/scan/walk.go, queue.go, dedup.go, node.go).                   *)
(*                                                                         *)
(* A pool of workers pops directories off a shared priority queue,         *)
(* expands them and pushes the directories found in them.  A WaitGroup     *)
(* (pending) counts directories handed to the queue and not done with; a   *)
(* closer goroutine waits for it to reach zero and closes the queue, which *)
(* sends the workers home; the caller then rolls the sizes up the tree.    *)
(*                                                                         *)
(* Atomicity.  One action is what the code does between two points where   *)
(* another goroutine can see or disturb it: a critical section of the      *)
(* queue's or the dedup set's mutex, one system call, one WaitGroup or     *)
(* condition-variable operation.  The counters of Stats, which no          *)
(* goroutine of Walk reads, change with the step they count.               *)
(*                                                                         *)
(* Data.  Names and paths are the elements of Dirs, Files and Symlinks.    *)
(* A directory's entries are a set: the order in which os.ReadDir lists    *)
(* them is left open.  One size stands for both the logical and the        *)
(* allocated size, which the code adds up side by side.                    *)
(***************************************************************************)
EXTENDS Naturals, FiniteSets, FiniteSetsExt

CONSTANTS
    Workers,          (* the worker goroutines of one Walk                  *)
    Dirs, Files, Symlinks,  (* the paths below and including Root, by kind  *)
    Root,             (* the path Walk is called on; stat'ed, a directory   *)
    Entries,          (* for each directory, the paths directly in it       *)
    InodeOf,          (* for each file, its (device, inode) pair            *)
    Linked,           (* the files whose link count is above one            *)
    SizeOf,           (* the size of each file and symlink                  *)
    DeviceOf,         (* the volume each directory is on                    *)
    Depth,            (* Options.Depth: 0 is no limit                       *)
    CrossDevice,      (* Options.CrossDevice                                *)
    PriorityPaths,    (* Options.PriorityPaths                              *)
    MaxPriority,      (* math.MaxInt64, the priority of a priority path     *)
    Unreliable,       (* the paths whose ReadDir or Stat may fail           *)
    MaxDeniedSample,  (* the cap on Stats.DeniedSample                      *)
    None              (* no directory                                       *)

Leaves == Files \cup Symlinks
Paths  == Dirs \cup Leaves

ASSUME WalkAssumption ==
    /\ IsFiniteSet(Workers) /\ Workers # {}
    /\ IsFiniteSet(Dirs) /\ Root \in Dirs /\ None \notin Dirs
    /\ Dirs \cap Leaves = {} /\ Files \cap Symlinks = {}
    /\ Entries \in [Dirs -> SUBSET (Paths \ {Root})]
    /\ \A d \in Dirs : IsFiniteSet(Entries[d])
    /\ \A d, e \in Dirs : d # e => Entries[d] \cap Entries[e] = {}
    (* no directory is below itself: of any, one holds none of the others   *)
    /\ \A S \in SUBSET Dirs : S # {} => \E d \in S : Entries[d] \cap S = {}
    /\ Linked \subseteq Files
    /\ \A f, g \in Files : f # g /\ InodeOf[f] = InodeOf[g]
                             => f \in Linked /\ g \in Linked
    /\ SizeOf \in [Leaves -> Nat]
    /\ \A f, g \in Files : InodeOf[f] = InodeOf[g] => SizeOf[f] = SizeOf[g]
    /\ DOMAIN DeviceOf = Dirs
    /\ Depth \in Nat
    /\ CrossDevice \in BOOLEAN
    /\ MaxPriority \in Nat
    /\ MaxDeniedSample \in Nat

(* No directory holds 2^63 bytes in its entries.                            *)
ASSUME PriorityAssumption ==
    \A d \in Dirs : SumFunctionOnSet(SizeOf, Entries[d] \cap Leaves) < MaxPriority

VARIABLES
    (* the priority queue and its condition variable: a waiting worker is   *)
    (* one whose pc is "wait"                                               *)
    heap, nextSeq, closed,
    (* the WaitGroup of directories not done with                           *)
    pending,
    (* each worker: where it is, the item it holds (its directory and its   *)
    (* depth), and the locals of expandDir                                  *)
    pc, node, level, todo, subdirs, directBytes, sub,
    (* the closer goroutine, the caller's context, Walk's own goroutine     *)
    closer, cancelled, returned,
    (* the tree being built: Node.State, Node.expanded, Node.Children,      *)
    (* Node.Duplicate, Node.SubtreeAllocatedSize                            *)
    state, expanded, children, duplicate, subtree,
    (* the directories rollup has finalised, i.e. called onComplete for     *)
    rolled,
    (* the dedup set, and Stats                                             *)
    seen, stats, deniedSample,
    (* history variable: the directories that were ever counted in pending  *)
    queued

queueVars  == <<heap, nextSeq, closed>>
workerVars == <<pc, node, level, todo, subdirs, directBytes, sub>>
treeVars   == <<state, expanded, children, duplicate, subtree, rolled>>
vars == <<queueVars, pending, workerVars, closer, cancelled, returned,
          treeVars, seen, stats, deniedSample, queued>>

-----------------------------------------------------------------------------
(* Types                                                                    *)

SubtreeState == {"Partial", "Complete", "Deferred", "Denied", "CrossDevice"}

StatNames == {"dirsScanned", "dirsQueued", "filesScanned", "symlinksScanned",
              "deniedPaths", "crossDeviceSkipped", "duplicateFiles",
              "duplicateBytesSaved"}

QueueItem == [node : Dirs, priority : Nat, seq : Nat, depth : Nat]

Busy    == {w \in Workers : pc[w] \notin {"pop", "wait", "exit"}}
Waiting == {w \in Workers : pc[w] = "wait"}

TypeOK ==
    /\ heap \subseteq QueueItem
    /\ nextSeq \in Nat
    /\ closed \in BOOLEAN
    /\ pending \in Nat
    /\ pc \in [Workers -> {"pop", "wait", "check", "readdir", "expand",
                           "push", "signal", "exit"}]
    /\ node \in [Workers -> Dirs \cup {None}]
    /\ level \in [Workers -> Nat]
    /\ todo \in [Workers -> SUBSET Paths]
    /\ subdirs \in [Workers -> SUBSET Dirs]
    /\ directBytes \in [Workers -> Nat]
    /\ sub \in [Workers -> Dirs \cup {None}]
    /\ closer \in {"wait", "close", "broadcast", "done"}
    /\ cancelled \in BOOLEAN
    /\ returned \in BOOLEAN
    /\ state \in [Dirs -> SubtreeState]
    /\ expanded \subseteq Dirs
    /\ children \in [Dirs -> SUBSET Paths]
    /\ duplicate \subseteq Files
    /\ rolled \subseteq Dirs
    /\ seen \subseteq {InodeOf[f] : f \in Files}
    /\ stats \in [StatNames -> Nat]
    /\ deniedSample \subseteq Dirs
    /\ queued \subseteq Dirs

-----------------------------------------------------------------------------
(* Helpers                                                                  *)

(* itemHeap.Less: higher priority first, then the earlier insertion.        *)
Less(i, j) ==
    \/ i.priority > j.priority
    \/ i.priority = j.priority /\ i.seq < j.seq

(* The item container/heap hands out: no other one sorts before it.         *)
IsFirst(i) == i \in heap /\ \A j \in heap : ~Less(j, i)

shouldDescend(d) == CrossDevice \/ DeviceOf[d] = DeviceOf[Root]

isPriorityPath(d) == d \in PriorityPaths

(* Mutant of PriorityOf: the priority paths are not looked up.              *)
PriorityOfSizeOnly(d, bytes) == bytes

PriorityOf(d, bytes) == IF isPriorityPath(d) THEN MaxPriority ELSE bytes

(* Stats, with the counters in names one higher.                            *)
Counted(names) ==
    [s \in StatNames |-> IF s \in names THEN stats[s] + 1 ELSE stats[s]]

(* Mutant of AlreadySeen: the dedup set is not consulted.                   *)
AlreadySeenNever(f) == FALSE

(* dedup.checkAndMark, the answer: has a link to f's inode been counted?    *)
AlreadySeen(f) == f \in Linked /\ InodeOf[f] \in seen

-----------------------------------------------------------------------------
(* Walk up to the start of its goroutines: the root counted and pushed.     *)

Init ==
    /\ heap = {[node |-> Root, priority |-> 0, seq |-> 0, depth |-> 0]}
    /\ nextSeq = 1
    /\ closed = FALSE
    /\ pending = 1
    /\ pc = [w \in Workers |-> "pop"]
    /\ node = [w \in Workers |-> None]
    /\ level = [w \in Workers |-> 0]
    /\ todo = [w \in Workers |-> {}]
    /\ subdirs = [w \in Workers |-> {}]
    /\ directBytes = [w \in Workers |-> 0]
    /\ sub = [w \in Workers |-> None]
    /\ closer = "wait"
    /\ cancelled = FALSE
    /\ returned = FALSE
    /\ state = [d \in Dirs |-> "Partial"]
    /\ expanded = {}
    /\ children = [d \in Dirs |-> {}]
    /\ duplicate = {}
    /\ subtree = [d \in Dirs |-> 0]
    /\ rolled = {}
    /\ seen = {}
    /\ stats = [s \in StatNames |-> IF s = "dirsQueued" THEN 1 ELSE 0]
    /\ deniedSample = {}
    /\ queued = {Root}

-----------------------------------------------------------------------------
(* A worker in the queue: priorityQueue.Pop                                 *)

(* The queue is not empty: take the first item out and start on it.         *)
PopItem(w) ==
    /\ pc[w] = "pop"
    /\ \E i \in heap :
        /\ IsFirst(i)
        /\ heap' = heap \ {i}
        /\ node' = [node EXCEPT ![w] = i.node]
        /\ level' = [level EXCEPT ![w] = i.depth]
    /\ pc' = [pc EXCEPT ![w] = "check"]
    /\ UNCHANGED <<nextSeq, closed, pending, todo, subdirs, directBytes, sub,
                   closer, cancelled, returned, treeVars, seen, stats,
                   deniedSample, queued>>

(* The queue is empty and open: cond.Wait.  The worker comes back here,     *)
(* with pc "pop", when it is signalled.                                     *)
PopWait(w) ==
    /\ pc[w] = "pop"
    /\ heap = {}
    /\ ~closed
    /\ pc' = [pc EXCEPT ![w] = "wait"]
    /\ UNCHANGED <<queueVars, pending, node, level, todo, subdirs, directBytes,
                   sub, closer, cancelled, returned, treeVars, seen, stats,
                   deniedSample, queued>>

(* The queue is empty and closed: ok is false and the worker returns.       *)
PopExit(w) ==
    /\ pc[w] = "pop"
    /\ heap = {}
    /\ closed
    /\ pc' = [pc EXCEPT ![w] = "exit"]
    /\ UNCHANGED <<queueVars, pending, node, level, todo, subdirs, directBytes,
                   sub, closer, cancelled, returned, treeVars, seen, stats,
                   deniedSample, queued>>

-----------------------------------------------------------------------------
(* A worker in expandDir                                                    *)

(* Mutant of CheckCancelled: the early return calls pending.Done as well.   *)
CheckCancelledDone(w) ==
    /\ pc[w] = "check"
    /\ cancelled
    /\ pc' = [pc EXCEPT ![w] = "expand"]
    /\ pending' = pending - 1
    /\ UNCHANGED <<queueVars, node, level, todo, subdirs, directBytes, sub,
                   closer, cancelled, returned, treeVars, seen, stats,
                   deniedSample, queued>>

(* ctx.Err, read before the directory is opened: the context is cancelled.  *)
(* The early returns leave todo and subdirs empty, so that Done comes next. *)
CheckCancelled(w) ==
    /\ pc[w] = "check"
    /\ cancelled
    /\ pc' = [pc EXCEPT ![w] = "expand"]
    /\ UNCHANGED <<queueVars, pending, node, level, todo, subdirs, directBytes,
                   sub, closer, cancelled, returned, treeVars, seen, stats,
                   deniedSample, queued>>

(* The directory lies at the depth cap.                                     *)
TooDeep(w) == Depth > 0 /\ level[w] >= Depth

CheckDeferred(w) ==
    /\ pc[w] = "check"
    /\ ~cancelled
    /\ TooDeep(w)
    /\ state' = [state EXCEPT ![node[w]] = "Deferred"]
    /\ pc' = [pc EXCEPT ![w] = "expand"]
    /\ UNCHANGED <<queueVars, pending, node, level, todo, subdirs, directBytes,
                   sub, closer, cancelled, returned, expanded, children,
                   duplicate, subtree, rolled, seen, stats, deniedSample,
                   queued>>

(* The directory is to be read.                                             *)
CheckPassed(w) ==
    /\ pc[w] = "check"
    /\ ~cancelled
    /\ ~TooDeep(w)
    /\ pc' = [pc EXCEPT ![w] = "readdir"]
    /\ UNCHANGED <<queueVars, pending, node, level, todo, subdirs, directBytes,
                   sub, closer, cancelled, returned, treeVars, seen, stats,
                   deniedSample, queued>>

(* Mutants of ReadDirDenied: the state is not set; the failure is not       *)
(* counted.                                                                 *)
ReadDirDeniedUnmarked(w) ==
    /\ pc[w] = "readdir"
    /\ node[w] \in Unreliable
    /\ stats' = Counted({"deniedPaths"})
    /\ pc' = [pc EXCEPT ![w] = "expand"]
    /\ UNCHANGED <<queueVars, pending, node, level, todo, subdirs, directBytes,
                   sub, closer, cancelled, returned, treeVars, seen,
                   deniedSample, queued>>

ReadDirDeniedUncounted(w) ==
    /\ pc[w] = "readdir"
    /\ node[w] \in Unreliable
    /\ state' = [state EXCEPT ![node[w]] = "Denied"]
    /\ pc' = [pc EXCEPT ![w] = "expand"]
    /\ UNCHANGED <<queueVars, pending, node, level, todo, subdirs, directBytes,
                   sub, closer, cancelled, returned, expanded, children,
                   duplicate, subtree, rolled, seen, stats, deniedSample,
                   queued>>

(* os.ReadDir fails.                                                        *)
ReadDirDenied(w) ==
    /\ pc[w] = "readdir"
    /\ node[w] \in Unreliable
    /\ state' = [state EXCEPT ![node[w]] = "Denied"]
    /\ stats' = Counted({"deniedPaths"})
    /\ pc' = [pc EXCEPT ![w] = "expand"]
    /\ UNCHANGED <<queueVars, pending, node, level, todo, subdirs, directBytes,
                   sub, closer, cancelled, returned, expanded, children,
                   duplicate, subtree, rolled, seen, deniedSample, queued>>

(* os.ReadDir succeeds: the entries are to be stat'ed one by one.           *)
ReadDir(w) ==
    /\ pc[w] = "readdir"
    /\ expanded' = expanded \cup {node[w]}
    /\ stats' = Counted({"dirsScanned"})
    /\ todo' = [todo EXCEPT ![w] = Entries[node[w]]]
    /\ directBytes' = [directBytes EXCEPT ![w] = 0]
    /\ pc' = [pc EXCEPT ![w] = "expand"]
    /\ UNCHANGED <<queueVars, pending, node, level, subdirs, sub, closer,
                   cancelled, returned, state, children, duplicate, subtree,
                   rolled, seen, deniedSample, queued>>

(* platform.Stat of entry e fails: the entry is counted and dropped.        *)
StatFails(w, e) ==
    /\ pc[w] = "expand"
    /\ e \in todo[w]
    /\ e \in Unreliable
    /\ todo' = [todo EXCEPT ![w] = @ \ {e}]
    /\ stats' = Counted({"deniedPaths"})
    /\ UNCHANGED <<queueVars, pending, pc, node, level, subdirs, directBytes,
                   sub, closer, cancelled, returned, treeVars, seen,
                   deniedSample, queued>>

(* Entry e is recorded as a child; what all the cases of the switch share.  *)
Record(w, e) ==
    /\ pc[w] = "expand"
    /\ e \in todo[w]
    /\ todo' = [todo EXCEPT ![w] = @ \ {e}]
    /\ children' = [children EXCEPT ![node[w]] = @ \cup {e}]
    /\ UNCHANGED <<queueVars, pending, pc, node, level, sub, closer, cancelled,
                   returned, state, expanded, subtree, rolled, deniedSample,
                   queued>>

StatDir(w, e) ==
    /\ e \in Dirs
    /\ Record(w, e)
    /\ subdirs' = [subdirs EXCEPT ![w] = @ \cup {e}]
    /\ UNCHANGED <<directBytes, duplicate, seen, stats>>

StatSymlink(w, e) ==
    /\ e \in Symlinks
    /\ Record(w, e)
    /\ directBytes' = [directBytes EXCEPT ![w] = @ + SizeOf[e]]
    /\ stats' = Counted({"symlinksScanned"})
    /\ UNCHANGED <<subdirs, duplicate, seen>>

(* A file whose inode was counted before: its bytes are saved.              *)
StatDuplicate(w, e) ==
    /\ e \in Files
    /\ AlreadySeen(e)
    /\ Record(w, e)
    /\ duplicate' = duplicate \cup {e}
    /\ stats' = [Counted({"duplicateFiles", "filesScanned"})
                   EXCEPT !["duplicateBytesSaved"] = @ + SizeOf[e]]
    /\ UNCHANGED <<subdirs, directBytes, seen>>

(* A file met for the first time; a linked one is marked.                   *)
StatFile(w, e) ==
    /\ e \in Files
    /\ ~AlreadySeen(e)
    /\ Record(w, e)
    /\ seen' = IF e \in Linked THEN seen \cup {InodeOf[e]} ELSE seen
    /\ directBytes' = [directBytes EXCEPT ![w] = @ + SizeOf[e]]
    /\ stats' = Counted({"filesScanned"})
    /\ UNCHANGED <<subdirs, duplicate>>

(* Mutant of SkipCrossDevice: pending.Add comes before the check.           *)
SkipCrossDevicePending(w, d) ==
    /\ pc[w] = "expand"
    /\ todo[w] = {}
    /\ d \in subdirs[w]
    /\ ~shouldDescend(d)
    /\ pending' = pending + 1
    /\ subdirs' = [subdirs EXCEPT ![w] = @ \ {d}]
    /\ state' = [state EXCEPT ![d] = "CrossDevice"]
    /\ stats' = Counted({"crossDeviceSkipped"})
    /\ UNCHANGED <<queueVars, pc, node, level, todo, directBytes, sub, closer,
                   cancelled, returned, expanded, children, duplicate, subtree,
                   rolled, seen, deniedSample, queued>>

(* The loop over subdirs, once every entry is stat'ed: a directory on       *)
(* another volume is not descended into ...                                 *)
SkipCrossDevice(w, d) ==
    /\ pc[w] = "expand"
    /\ todo[w] = {}
    /\ d \in subdirs[w]
    /\ ~shouldDescend(d)
    /\ subdirs' = [subdirs EXCEPT ![w] = @ \ {d}]
    /\ state' = [state EXCEPT ![d] = "CrossDevice"]
    /\ stats' = Counted({"crossDeviceSkipped"})
    /\ UNCHANGED <<queueVars, pending, pc, node, level, todo, directBytes, sub,
                   closer, cancelled, returned, expanded, children, duplicate,
                   subtree, rolled, seen, deniedSample, queued>>

(* ... any other is counted: pending.Add(1), DirsQueued ...                 *)
CountSub(w, d) ==
    /\ pc[w] = "expand"
    /\ todo[w] = {}
    /\ d \in subdirs[w]
    /\ shouldDescend(d)
    /\ subdirs' = [subdirs EXCEPT ![w] = @ \ {d}]
    /\ sub' = [sub EXCEPT ![w] = d]
    /\ pending' = pending + 1
    /\ queued' = queued \cup {d}
    /\ stats' = Counted({"dirsQueued"})
    /\ pc' = [pc EXCEPT ![w] = "push"]
    /\ UNCHANGED <<queueVars, node, level, todo, directBytes, closer,
                   cancelled, returned, treeVars, seen, deniedSample>>

(* ... then pushed, under the queue's lock ...                              *)
Push(w) ==
    /\ pc[w] = "push"
    /\ heap' = heap \cup {[node     |-> sub[w],
                           priority |-> PriorityOf(sub[w], directBytes[w]),
                           seq      |-> nextSeq,
                           depth    |-> level[w] + 1]}
    /\ nextSeq' = nextSeq + 1
    /\ sub' = [sub EXCEPT ![w] = None]
    /\ pc' = [pc EXCEPT ![w] = "signal"]
    /\ UNCHANGED <<closed, pending, node, level, todo, subdirs, directBytes,
                   closer, cancelled, returned, treeVars, seen, stats,
                   deniedSample, queued>>

(* Mutant of Signal: nobody is woken.                                       *)
SignalNobody(w) ==
    /\ pc[w] = "signal"
    /\ pc' = [pc EXCEPT ![w] = "expand"]
    /\ UNCHANGED <<queueVars, pending, node, level, todo, subdirs, directBytes,
                   sub, closer, cancelled, returned, treeVars, seen, stats,
                   deniedSample, queued>>

(* ... and one waiting worker, if there is one, is woken after the unlock.  *)
Signal(w) ==
    /\ pc[w] = "signal"
    /\ \/ /\ Waiting = {}
          /\ pc' = [pc EXCEPT ![w] = "expand"]
       \/ \E v \in Waiting :
            pc' = [pc EXCEPT ![w] = "expand", ![v] = "pop"]
    /\ UNCHANGED <<queueVars, pending, node, level, todo, subdirs, directBytes,
                   sub, closer, cancelled, returned, treeVars, seen, stats,
                   deniedSample, queued>>

(* expandDir has returned: pending.Done(), and back to Pop.                 *)
Done(w) ==
    /\ pc[w] = "expand"
    /\ todo[w] = {}
    /\ subdirs[w] = {}
    /\ pending' = pending - 1
    /\ pc' = [pc EXCEPT ![w] = "pop"]
    /\ node' = [node EXCEPT ![w] = None]
    /\ level' = [level EXCEPT ![w] = 0]
    /\ directBytes' = [directBytes EXCEPT ![w] = 0]
    /\ UNCHANGED <<queueVars, todo, subdirs, sub, closer, cancelled, returned,
                   treeVars, seen, stats, deniedSample, queued>>

-----------------------------------------------------------------------------
(* The closer goroutine                                                     *)

(* Mutant of PendingZero: the wait ends one directory early.                *)
PendingOne ==
    /\ closer = "wait"
    /\ pending <= 1
    /\ closer' = "close"
    /\ UNCHANGED <<queueVars, pending, workerVars, cancelled, returned,
                   treeVars, seen, stats, deniedSample, queued>>

(* pending.Wait() returns.                                                  *)
PendingZero ==
    /\ closer = "wait"
    /\ pending = 0
    /\ closer' = "close"
    /\ UNCHANGED <<queueVars, pending, workerVars, cancelled, returned,
                   treeVars, seen, stats, deniedSample, queued>>

(* priorityQueue.Close, under the lock ...                                  *)
Close ==
    /\ closer = "close"
    /\ closed' = TRUE
    /\ closer' = "broadcast"
    /\ UNCHANGED <<heap, nextSeq, pending, workerVars, cancelled, returned,
                   treeVars, seen, stats, deniedSample, queued>>

(* Mutant of Broadcast: Signal instead, which wakes one.                    *)
BroadcastOne ==
    /\ closer = "broadcast"
    /\ \/ Waiting = {} /\ UNCHANGED pc
       \/ \E v \in Waiting : pc' = [pc EXCEPT ![v] = "pop"]
    /\ closer' = "done"
    /\ UNCHANGED <<queueVars, pending, node, level, todo, subdirs, directBytes,
                   sub, cancelled, returned, treeVars, seen, stats,
                   deniedSample, queued>>

(* ... and its Broadcast after the unlock.                                  *)
Broadcast ==
    /\ closer = "broadcast"
    /\ pc' = [w \in Workers |-> IF w \in Waiting THEN "pop" ELSE pc[w]]
    /\ closer' = "done"
    /\ UNCHANGED <<queueVars, pending, node, level, todo, subdirs, directBytes,
                   sub, cancelled, returned, treeVars, seen, stats,
                   deniedSample, queued>>

-----------------------------------------------------------------------------
(* Walk's own goroutine, after workerWG.Wait()                              *)

AllExited == \A w \in Workers : pc[w] = "exit"

(* rollup visits the directories of the tree bottom-up.                     *)
InTree(d) == d = Root \/ \E p \in expanded : d \in children[p]

(* The early returns of rollup: nothing below d was measured.               *)
Unmeasured(d) == state[d] \in {"Denied", "Deferred", "CrossDevice"}
                 \/ d \notin expanded

(* Mutant of SubtreeTotal: duplicates are added too.                        *)
SubtreeTotalAll(d) ==
    SumFunctionOnSet([c \in Paths |-> IF c \in Dirs THEN subtree[c] ELSE SizeOf[c]],
                     children[d])

SubtreeTotal(d) ==
    SumFunctionOnSet([c \in Paths |-> IF c \in Dirs THEN subtree[c] ELSE SizeOf[c]],
                     children[d] \ duplicate)

(* Mutant of RolledState: only a denied child makes a directory partial.    *)
RolledStateDeniedOnly(d) ==
    IF \A c \in children[d] \cap Dirs : state[c] # "Denied"
    THEN "Complete" ELSE "Partial"

RolledState(d) ==
    IF \A c \in children[d] \cap Dirs : state[c] = "Complete"
    THEN "Complete" ELSE "Partial"

RollUp(d) ==
    /\ AllExited /\ ~returned
    /\ InTree(d) /\ d \notin rolled
    /\ \/ /\ Unmeasured(d)
          /\ UNCHANGED <<state, subtree>>
       \/ /\ ~Unmeasured(d)
          /\ children[d] \cap Dirs \subseteq rolled
          /\ subtree' = [subtree EXCEPT ![d] = SubtreeTotal(d)]
          /\ state' = [state EXCEPT ![d] = RolledState(d)]
    /\ rolled' = rolled \cup {d}
    /\ UNCHANGED <<queueVars, pending, workerVars, closer, cancelled, returned,
                   expanded, children, duplicate, seen, stats, deniedSample,
                   queued>>

DeniedDirs == {d \in Dirs : state[d] = "Denied"}

(* Walk returns, with a capped sample of the directories that were denied.  *)
Return ==
    /\ AllExited /\ ~returned
    /\ Root \in rolled
    /\ \E sample \in SUBSET DeniedDirs :
        /\ \/ sample = DeniedDirs /\ Cardinality(sample) <= MaxDeniedSample
           \/ Cardinality(sample) = MaxDeniedSample
        /\ deniedSample' = sample
    /\ returned' = TRUE
    /\ UNCHANGED <<queueVars, pending, workerVars, closer, cancelled, treeVars,
                   seen, stats, queued>>

-----------------------------------------------------------------------------
(* The caller's context is cancelled: at any time while Walk runs.          *)

Cancel ==
    /\ ~cancelled /\ ~returned
    /\ cancelled' = TRUE
    /\ UNCHANGED <<queueVars, pending, workerVars, closer, returned, treeVars,
                   seen, stats, deniedSample, queued>>

(* Walk has returned: nothing more happens.                                 *)
Terminated == returned /\ UNCHANGED vars

-----------------------------------------------------------------------------

WorkerStep(w) ==
    \/ PopItem(w) \/ PopWait(w) \/ PopExit(w)
    \/ CheckCancelled(w) \/ CheckDeferred(w) \/ CheckPassed(w)
    \/ ReadDirDenied(w) \/ ReadDir(w)
    \/ \E e \in Paths : \/ StatFails(w, e) \/ StatDir(w, e)
                        \/ StatSymlink(w, e) \/ StatDuplicate(w, e)
                        \/ StatFile(w, e)
    \/ \E d \in Dirs : SkipCrossDevice(w, d) \/ CountSub(w, d)
    \/ Push(w) \/ Signal(w) \/ Done(w)

CloserStep == PendingZero \/ Close \/ Broadcast

CallerStep == (\E d \in Dirs : RollUp(d)) \/ Return

Next ==
    \/ \E w \in Workers : WorkerStep(w)
    \/ CloserStep
    \/ CallerStep
    \/ Cancel
    \/ Terminated

(* The Go scheduler runs every runnable goroutine in the end, and system    *)
(* calls return.  Nothing forces a cancellation.                            *)
Fairness ==
    /\ \A w \in Workers : WF_vars(WorkerStep(w))
    /\ WF_vars(CloserStep)
    /\ WF_vars(CallerStep)

Spec == Init /\ [][Next]_vars

FairSpec == Spec /\ Fairness

-----------------------------------------------------------------------------
(* Safety                                                                   *)

HeapDirs == {i.node : i \in heap}
HeldDirs == {node[w] : w \in Busy}
CountedDirs == {sub[w] : w \in {v \in Workers : pc[v] = "push"}}

(* The directories somebody still has to deal with: in the queue, held by a *)
(* worker, or counted and about to be pushed.                               *)
Outstanding == HeapDirs \cup HeldDirs \cup CountedDirs

(* The WaitGroup counts exactly the directories still to be dealt with,     *)
(* through every interleaving of Add, Push, Pop and Done (walk.go:87-103,   *)
(* 219-221): were it ever lower, Walk would return early; were it higher,   *)
(* Walk would hang.                                                         *)
PendingCountsOutstanding == pending = Cardinality(Outstanding)

(* From the moment the closer has seen the WaitGroup at zero (walk.go:109)  *)
(* no directory is queued or being expanded any more, so that closing the   *)
(* queue sends nobody home from unfinished work.                            *)
ClosedMeansDrained == closer # "wait" => Outstanding = {}

(* No wakeup is lost (queue.go:56-77): while a worker sleeps in Pop, every  *)
(* item in the queue has a worker that is on its way to it, or a signal.    *)
NoLostWakeup ==
    Waiting # {} =>
      Cardinality(heap) <= Cardinality({w \in Workers : pc[w] \in {"pop", "signal"}})

(* When Walk returns from a walk nobody cancelled, every directory of the   *)
(* tree was either read or says why not (walk.go:249-256): none fell        *)
(* between two workers.                                                     *)
EveryDirectoryAccounted ==
    returned /\ ~cancelled => \A d \in Dirs : InTree(d) =>
        d \in expanded \/ state[d] \in {"Denied", "Deferred", "CrossDevice"}

Recorded == UNION {children[d] : d \in Dirs}

(* However many workers meet the links of one inode at once, exactly one of *)
(* the links recorded is counted and all others are duplicates              *)
(* (dedup.go:22-35, node.go:48-52).                                         *)
LinksCountedOnce ==
    \A f \in Files \cap Recorded :
        Cardinality({g \in Files \cap Recorded :
                        InodeOf[g] = InodeOf[f] /\ g \notin duplicate}) = 1

(* What the root must come to: every symlink recorded, and every inode      *)
(* recorded once, whatever the number of its links.                         *)
TrueTotal ==
    LET inodes == {InodeOf[f] : f \in Files \cap Recorded}
        bytes  == [i \in inodes |-> SizeOf[CHOOSE f \in Files : InodeOf[f] = i]]
    IN  SumFunctionOnSet(bytes, inodes)
        + SumFunctionOnSet(SizeOf, Symlinks \cap Recorded)

(* The total Walk returns for the root is the size of what was recorded,    *)
(* each inode once, although rollup (walk.go:242-282) only ever looks at    *)
(* one directory and its children, and although which link is the counted   *)
(* one was decided by a race.                                               *)
TotalsExact == returned => subtree[Root] = TrueTotal

(* d and the directories below it on the disk.                              *)
SelfAndBelow[d \in Dirs] ==
    {d} \cup UNION {SelfAndBelow[c] : c \in Entries[d] \cap Dirs}

(* A directory Walk returns is complete exactly if every directory recorded *)
(* at or below it was read (node.go:18-34, walk.go:249-281): one that was   *)
(* denied, deferred, skipped or never reached shows at every level above.   *)
StateExact ==
    returned => \A d \in Dirs : InTree(d) =>
        (state[d] = "Complete" <=>
            \A x \in SelfAndBelow[d] : InTree(x) => x \in expanded)

(* The counters Walk returns agree with the tree it returns (node.go:67-85):*)
(* each directory queued is one read, denied, deferred or, after a          *)
(* cancellation, left; each denied path is a directory that could not be    *)
(* read or an entry that could not be stat'ed.                              *)
StatsReconcile ==
    returned =>
      LET dirsIn(states) == {d \in Dirs : InTree(d) /\ state[d] \in states}
          left == {d \in dirsIn({"Partial"}) : d \notin expanded}
      IN  /\ stats["dirsScanned"] = Cardinality(expanded)
          /\ stats["dirsQueued"] = stats["dirsScanned"]
                 + Cardinality(dirsIn({"Denied", "Deferred"}) \cup left)
          /\ stats["deniedPaths"] = Cardinality(dirsIn({"Denied"}))
                 + Cardinality(UNION {Entries[d] \ children[d] : d \in expanded})
          /\ Cardinality(deniedSample) <= stats["deniedPaths"]

-----------------------------------------------------------------------------
(* Steps                                                                    *)

(* The WaitGroup never leaves zero once it is there (walk.go:108-111, 219): *)
(* an Add from zero beside the closer's Wait would be a misuse that lets    *)
(* the queue close under a directory just found.                            *)
NoAddFromZero == [][pending = 0 => pending' = 0]_vars

(* While a known heavy path waits in the queue, no worker starts on an      *)
(* ordinary directory (walk.go:38-45, 215-218), whatever the sizes.         *)
PriorityFirst ==
    [][\A w \in Workers :
         pc[w] = "pop" /\ pc'[w] = "check" /\ PriorityPaths \cap HeapDirs # {}
           => node'[w] \in PriorityPaths \cup {Root}]_vars

-----------------------------------------------------------------------------
(* Liveness and refinement                                                  *)

(* Walk returns, cancelled or not, whatever fails.                          *)
WalkReturns == <>returned

(* The pool of workers, its queue and its counter implement the abstract    *)
(* traversal: the queue is closed only over a settled tree.                 *)
T == INSTANCE Traversal
       WITH Subdirs <- [d \in Dirs |-> Entries[d] \cap Dirs],
            found <- queued, outstanding <- Outstanding, over <- closed

Traverses == T!Spec

=============================================================================
