------------------------------- MODULE Index -------------------------------
(***************************************************************************)
(* The SQLite index of measured trees and the two calls that write it,     *)
(* IngestScan and Rescan (src/index/db.go), as issued by the service's     *)
(* Scan and Rescan (src/service/service.go) from any number of diskwise    *)
(* processes, over a disk that changes under them.                         *)
(*                                                                         *)
(* Atomicity.  A process first walks the disk, then (Rescan) looks the     *)
(* path up outside any transaction, then writes in one transaction that    *)
(* starts with an INSERT and so holds SQLite's write lock: the walk, the   *)
(* lookup and the transaction are one action each.  A failed transaction   *)
(* is rolled back, so it changes nothing.                                  *)
(*                                                                         *)
(* Data.  A path is an element of Paths, ParentOf its directory.  A row's  *)
(* id, assigned by AUTOINCREMENT and never reused, is the pair of its run  *)
(* and its path: a run inserts a path at most once.  The parent_id of the  *)
(* row of p always names a row of ParentOf[p], so that its run is enough   *)
(* to identify it; Null is SQL's NULL.  One size stands for both the       *)
(* logical and the allocated size.  The states of a directory that was not *)
(* read, denied, deferred and cross_device, are one, "denied": nothing     *)
(* written depends on which.  An entry that could not be stat'ed is one    *)
(* that is not there.                                                      *)
(***************************************************************************)
EXTENDS Naturals, Integers, Sequences, FiniteSets, FiniteSetsExt

CONSTANTS
    Procs,      (* the diskwise processes                                   *)
    Paths,      (* the paths a disk may hold                                *)
    ParentOf,   (* the directory each path is in; NoPath for the top        *)
    NoPath,
    Below,      (* for each path, the paths strictly below it               *)
    LikeAlso,   (* for each p, the paths matched by "p/%" that are not below *)
                (* p: LIKE reads "_" and "%" in p as wildcards              *)
    Sizes,      (* the sizes a file may have                                *)
    InodeOf,    (* for each path, the inode a file there has                *)
    Skippable,  (* the directories a walk may deny, defer or not enter      *)
    FirstDisk,  (* the disk in the beginning                                *)
    Changing,   (* the paths the disk may change at                         *)
    KindOf,     (* the kind of what is, when it is there, at each path      *)
    Retyped,    (* the paths at which a directory may follow a file, too    *)
    MaxRuns     (* bound: scans recorded                                    *)

Null == 0

ASSUME IndexAssumption ==
    /\ IsFiniteSet(Paths)
    /\ NoPath \notin Paths
    /\ ParentOf \in [Paths -> Paths \cup {NoPath}]
    /\ Below \in [Paths -> SUBSET Paths]
    /\ LikeAlso \in [Paths -> SUBSET Paths]
    /\ \A p \in Paths :
        /\ p \notin Below[p]
        /\ {c \in Paths : ParentOf[c] = p} \subseteq Below[p]
        /\ \A q \in Below[p] :
            /\ ParentOf[q] = p \/ ParentOf[q] \in Below[p]
            /\ Below[q] \subseteq Below[p]
        (* what extends a match of "p/%" matches too                        *)
        /\ \A q \in LikeAlso[p] : Below[q] \subseteq Below[p] \cup LikeAlso[p]
        /\ LikeAlso[p] \cap (Below[p] \cup {p}) = {}
    /\ Sizes \subseteq Nat
    /\ \A p \in Changing : p \in Paths /\ ParentOf[p] \in Paths
    /\ KindOf \in [Paths -> {"file", "dir"}]
    /\ Retyped \subseteq Paths
    /\ FirstDisk \in [Paths -> [kind : {"file", "dir", "absent"}, size : Nat]]
    /\ \A p \in Paths : FirstDisk[p].kind # "absent" /\ ParentOf[p] # NoPath
                          => FirstDisk[ParentOf[p]].kind = "dir"
    /\ MaxRuns \in Nat

VARIABLES
    disk,   (* for each path, what is there: a kind and a size              *)
    rows,   (* table nodes: a function from the indexed paths to their rows *)
    runs,   (* table scan_runs                                              *)
    pc,     (* for each process, what it does next                          *)
    op      (* for each process, the call it is in and what it has read     *)

vars == <<disk, rows, runs, pc, op>>

-----------------------------------------------------------------------------
(* Types                                                                    *)

Kinds == {"file", "dir"}
States == {"", "complete", "partial", "denied"}

(* A scan.Node, as Walk returns it.                                         *)
Node == [kind : Kinds, size : Nat, total : Nat, state : States, duplicate : BOOLEAN]

(* A row of nodes: the node, its run, and the run of its parent's row.      *)
Row == [kind : Kinds, size : Nat, total : Int, state : States,
        duplicate : BOOLEAN, run : Nat, parent : Nat]

Run == [root : Paths, status : {"complete", "partial"}]

Indexed == DOMAIN rows

TypeOK ==
    /\ disk \in [Paths -> [kind : Kinds \cup {"absent"}, size : Nat]]
    /\ Indexed \subseteq Paths
    /\ rows \in [Indexed -> Row]
    /\ runs \in Seq(Run)
    /\ pc \in [Procs -> {"idle", "lookup", "ingest", "replace"}]
    /\ DOMAIN op = Procs
    /\ \A w \in Procs : pc[w] # "idle" =>
        /\ op[w].path \in Paths
        /\ op[w].path \in DOMAIN op[w].tree
        /\ DOMAIN op[w].tree \subseteq {op[w].path} \cup Below[op[w].path]
        /\ op[w].tree \in [DOMAIN op[w].tree -> Node]
        /\ op[w].parent \in Nat
        /\ op[w].total \in Int

-----------------------------------------------------------------------------
(* What scan.Walk(p) finds on the disk, one reading of which directories    *)
(* are skipped and which link of an inode is met first                      *)

Entries(d) == {c \in Paths : ParentOf[c] = d /\ disk[c].kind # "absent"}

(* The paths recorded at and below p.                                       *)
Reached(p, skip) ==
    {q \in {p} \cup Below[p] :
        /\ disk[q].kind # "absent"
        /\ \A a \in {p} \cup Below[p] : q \in Below[a] => a \notin skip}

(* The files that may come out as duplicates: all but one of each inode.    *)
Duplicates(reached) ==
    LET files == {f \in reached : disk[f].kind = "file"}
    IN  {dup \in SUBSET files :
            \A f \in files : \E g \in files \ dup :
                /\ InodeOf[g] = InodeOf[f]
                /\ \A h \in files \ dup : InodeOf[h] = InodeOf[g] => h = g}

(* scan.rollup: the totals and states of the directories, bottom-up.        *)
Tree(p, skip, dup) ==
    LET isDir(q) == disk[q].kind = "dir"
        kids(q)  == IF isDir(q) /\ q \notin skip THEN Entries(q) ELSE {}
        total[q \in Paths] ==
            SumFunction([c \in kids(q) |-> IF isDir(c) THEN total[c]
                                          ELSE IF c \in dup THEN 0 ELSE disk[c].size])
        state[q \in Paths] ==
            IF ~isDir(q) THEN ""
            ELSE IF q \in skip THEN "denied"
            ELSE IF \A c \in kids(q) : isDir(c) => state[c] = "complete"
            THEN "complete" ELSE "partial"
    IN  [q \in Reached(p, skip) |->
            [kind |-> disk[q].kind, size |-> disk[q].size, total |-> total[q],
             state |-> state[q], duplicate |-> q \in dup]]

-----------------------------------------------------------------------------
(* Helpers of the transactions                                              *)

NextRun == Len(runs) + 1

(* Mutant of statusFor: the root's state as it is.                          *)
statusForAsIs(state) == state

(* Mutant of statusFor: only an unread root makes a scan partial.           *)
statusForRootOnly(state) == IF state = "denied" THEN "partial" ELSE "complete"

statusFor(state) == IF state = "complete" THEN "complete" ELSE "partial"

(* insertTree: the rows of a tree, its top under the row parent names.      *)
RowsOf(p, tree, parent) ==
    [q \in DOMAIN tree |->
        [kind |-> tree[q].kind, size |-> tree[q].size, total |-> tree[q].total,
         state |-> tree[q].state, duplicate |-> tree[q].duplicate,
         run |-> NextRun, parent |-> IF q = p THEN parent ELSE NextRun]]

(* Mutants of Deleted: without the deeper rows; with the rows beside p.     *)
DeletedEntries(p) == {p} \cup {c \in Paths : ParentOf[c] = p}

DeletedBeside(p) == Below[p] \cup {c \in Paths : ParentOf[c] = ParentOf[p]}

(* deleteSubtree: path = p OR path LIKE 'p/%'.                              *)
Deleted(p) == {p} \cup Below[p] \cup LikeAlso[p]

Kept(p) == Indexed \ Deleted(p)

(* Mutant of ForeignKey: PRAGMA foreign_keys is off.                        *)
ForeignKeyOff(p, parent) == TRUE

(* The foreign key of the inserted top row: parent_id is NULL or the id of  *)
(* a row that is still there.                                               *)
ForeignKey(p, parent) ==
    \/ parent = Null
    \/ ParentOf[p] \in Kept(p) /\ rows[ParentOf[p]].run = parent

(* Mutant of PropagateTo: only the parent's total is corrected.             *)
PropagateToParent(p, parent) == IF parent = Null THEN {} ELSE {ParentOf[p]}

(* propagateDelta: the rows whose totals Rescan corrects, given the parent  *)
(* its lookup found: the directories above p, up to the first that has no   *)
(* parent_id.                                                               *)
PropagateTo(p, parent) ==
    {q \in Paths : /\ parent # Null
                   /\ p \in Below[q]
                   /\ \A r \in Below[q] \cap Indexed :
                        p \in Below[r] => rows[r].parent # Null}

(* UNIQUE(path): no row of the tree is there already.                       *)
Unique(tree, kept) == DOMAIN tree \cap kept = {}

-----------------------------------------------------------------------------

Init ==
    /\ disk = FirstDisk
    /\ rows = [p \in {} |-> 0]
    /\ runs = <<>>
    /\ pc = [w \in Procs |-> "idle"]
    /\ op = [w \in Procs |-> [path |-> NoPath]]

(* The disk changes at p: a file appears, changes size or disappears, a     *)
(* directory appears empty or disappears with what is in it.                *)
Change(p) ==
    /\ p \in Changing
    /\ disk[ParentOf[p]].kind = "dir"
    /\ \E kind \in Kinds \cup {"absent"}, size \in Sizes :
        /\ kind \in {"absent", KindOf[p]} \/ p \in Retyped
        /\ disk' = [q \in Paths |->
             IF q = p THEN [kind |-> kind, size |-> IF kind = "file" THEN size ELSE 0]
             ELSE IF q \in Below[p] THEN [kind |-> "absent", size |-> 0]
             ELSE disk[q]]
        /\ disk' # disk
    /\ UNCHANGED <<rows, runs, pc, op>>

(* scan.Walk returns its tree to the caller; next is what comes after it.   *)
Walked(w, p, next) ==
    /\ pc[w] = "idle"
    /\ Len(runs) < MaxRuns
    /\ disk[p].kind = "dir"
    /\ \E skip \in SUBSET (Skippable \cap ({p} \cup Below[p])) :
       \E dup \in Duplicates(Reached(p, skip)) :
         op' = [op EXCEPT ![w] = [path |-> p, tree |-> Tree(p, skip, dup),
                                  parent |-> Null, total |-> 0]]
    /\ pc' = [pc EXCEPT ![w] = next]
    /\ UNCHANGED <<disk, rows, runs>>

Scan(w, p) == Walked(w, p, "ingest")

Rescan(w, p) == Walked(w, p, "lookup")

(* lookupNode finds the row of the path ...                                 *)
LookupNode(w) ==
    /\ pc[w] = "lookup"
    /\ op[w].path \in Indexed
    /\ op' = [op EXCEPT ![w] = [path |-> op[w].path, tree |-> op[w].tree,
                                parent |-> rows[op[w].path].parent,
                                total  |-> rows[op[w].path].total]]
    /\ pc' = [pc EXCEPT ![w] = "replace"]
    /\ UNCHANGED <<disk, rows, runs>>

(* ... or none: the tree is ingested as a scan of its own.                  *)
LookupNothing(w) ==
    /\ pc[w] = "lookup"
    /\ op[w].path \notin Indexed
    /\ pc' = [pc EXCEPT ![w] = "ingest"]
    /\ UNCHANGED <<disk, rows, runs, op>>

Finish(w) ==
    /\ runs' = Append(runs, [root   |-> op[w].path,
                             status |-> statusFor(op[w].tree[op[w].path].state)])
    /\ pc' = [pc EXCEPT ![w] = "idle"]
    /\ op' = [op EXCEPT ![w] = [path |-> NoPath]]
    /\ UNCHANGED disk

(* IngestScan's transaction.                                                *)
IngestScan(w) ==
    /\ pc[w] = "ingest"
    /\ LET new == RowsOf(op[w].path, op[w].tree, Null) IN
        /\ Unique(op[w].tree, Indexed)
        /\ rows' = [q \in Indexed \cup DOMAIN new |->
                      IF q \in DOMAIN new THEN new[q] ELSE rows[q]]
    /\ Finish(w)

(* Rescan's transaction: the old rows out, the tree in, the change in size  *)
(* added along the chain of parents.                                        *)
Replace(w) ==
    /\ pc[w] = "replace"
    /\ LET p    == op[w].path
           new  == RowsOf(p, op[w].tree, op[w].parent)
           delta == op[w].tree[p].total - op[w].total
       IN  /\ Unique(op[w].tree, Kept(p))
           /\ ForeignKey(p, op[w].parent)
           /\ rows' = [q \in Kept(p) \cup DOMAIN new |->
                IF q \in DOMAIN new THEN new[q]
                ELSE IF q \in PropagateTo(p, op[w].parent)
                THEN [rows[q] EXCEPT !.total = @ + delta]
                ELSE rows[q]]
    /\ Finish(w)

(* The call fails without a trace: a constraint is violated, the database   *)
(* is locked by the other process, the context is cancelled or the process  *)
(* dies, in the transaction or before it.                                   *)
Fail(w) ==
    /\ pc[w] # "idle"
    /\ pc' = [pc EXCEPT ![w] = "idle"]
    /\ op' = [op EXCEPT ![w] = [path |-> NoPath]]
    /\ UNCHANGED <<disk, rows, runs>>

Next ==
    \/ \E p \in Paths : Change(p)
    \/ \E w \in Procs :
        \/ \E p \in Paths : Scan(w, p) \/ Rescan(w, p)
        \/ LookupNode(w) \/ LookupNothing(w)
        \/ IngestScan(w) \/ Replace(w)
        \/ Fail(w)

Spec == Init /\ [][Next]_vars

-----------------------------------------------------------------------------
(* Properties                                                               *)

(* The rows whose parent_id is the row of d: what Children(d) returns.      *)
ChildRows(d) == {c \in Indexed : ParentOf[c] = d /\ rows[c].parent = rows[d].run}

(* Every parent_id names the row of a directory, whatever was replaced in   *)
(* between and by whom (schema.go:32, db.go:127-151).                       *)
ParentsExist ==
    \A p \in Indexed : rows[p].parent # Null =>
        /\ ParentOf[p] \in Indexed
        /\ rows[ParentOf[p]].run = rows[p].parent
        /\ rows[ParentOf[p]].kind = "dir"

(* What a row adds to the total of its directory.                           *)
Counted(row) == IF row.kind = "dir" THEN row.total
                ELSE IF row.duplicate THEN 0 ELSE row.size

(* Every directory's stored total is what its child rows add up to, after   *)
(* any sequence of scans and rescans at any level: the deltas Rescan        *)
(* propagates (db.go:153-159, 203-220) keep the ancestors exact.            *)
RollupConsistent ==
    \A d \in Indexed : rows[d].kind = "dir" =>
        rows[d].total = SumFunction([c \in ChildRows(d) |-> Counted(rows[c])])

(* A row is never older than the row of its directory, and the root of the  *)
(* run it names is indexed under that run (db.go:133-151): what freshness   *)
(* reads off a row's run is a lower bound for everything below it.          *)
RunsNested ==
    \A p \in Indexed :
        /\ rows[p].run \in 1..Len(runs)
        /\ rows[p].parent <= rows[p].run
        /\ LET root == runs[rows[p].run].root
           IN  root \in Indexed /\ rows[root].run = rows[p].run

(* A call replaces the rows at and below its own path and touches nothing   *)
(* else but the totals of directories above it (db.go:104-107).             *)
RescanLocal ==
    [][\A w \in Procs : pc[w] \in {"ingest", "replace"} /\ runs' # runs /\ pc'[w] = "idle" =>
        LET p == op[w].path IN
        \A q \in Paths \ ({p} \cup Below[p]) :
            /\ q \in Indexed <=> q \in DOMAIN rows'
            /\ q \in Indexed =>
                 \/ rows'[q] = rows[q]
                 \/ p \in Below[q] /\ rows'[q] = [rows[q] EXCEPT !.total = rows'[q].total]
      ]_vars

=============================================================================
