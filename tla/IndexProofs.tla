---------------------------- MODULE IndexProofs ----------------------------
(***************************************************************************)
(* Theorems about Index, for any disk, any number of processes and any     *)
(* sequence of scans, rescans and failures.                                *)
(*                                                                         *)
(* IInv is the order of the rows: their parents and their runs.  RInv adds *)
(* what they hold: types, states, and trees whose totals add up (Rolled),  *)
(* which takes that the two recursions of Tree have solutions: closed      *)
(* forms of them are given.  SInv adds that the totals of all rows add up. *)
(***************************************************************************)
EXTENDS Index, FiniteSums

(* What is on the disk is in a directory.                                   *)
DiskIsTree ==
    \A p \in Paths : disk[p].kind # "absent" /\ ParentOf[p] # NoPath
                       => ParentOf[p] \in Paths /\ disk[ParentOf[p]].kind = "dir"

(* A tree on its way into the index: below p, in directories of the tree.   *)
TreeBelow(p, tree) ==
    /\ p \in DOMAIN tree
    /\ DOMAIN tree \subseteq {p} \cup Below[p]
    /\ \A q \in DOMAIN tree \ {p} :
         ParentOf[q] \in DOMAIN tree /\ tree[ParentOf[q]].kind = "dir"

(* A parent a lookup found is, if it still is there, a directory.           *)
StillDirectory(p, parent) ==
    parent # Null /\ ParentOf[p] \in Indexed /\ rows[ParentOf[p]].run = parent
      => rows[ParentOf[p]].kind = "dir"

Calls ==
    \A w \in Procs : pc[w] # "idle" =>
        /\ op[w].path \in Paths
        /\ TreeBelow(op[w].path, op[w].tree)
        /\ op[w].parent \in 0..Len(runs)
        /\ StillDirectory(op[w].path, op[w].parent)

RowFields == {"kind", "size", "total", "state", "duplicate", "run", "parent"}

Shapes ==
    /\ runs \in Seq([root : Paths, status : {"complete", "partial"}])
    /\ Indexed \subseteq Paths
    /\ \A q \in Indexed : DOMAIN rows[q] = RowFields
    /\ pc \in [Procs -> {"idle", "lookup", "ingest", "replace"}]
    /\ DOMAIN op = Procs

(* A row is at or below the root of its run.                                *)
WithinRun ==
    \A q \in Indexed :
        rows[q].run \in 1..Len(runs)
        /\ q \in {runs[rows[q].run].root} \cup Below[runs[rows[q].run].root]

IInv == Shapes /\ DiskIsTree /\ Calls /\ ParentsExist /\ RunsNested /\ WithinRun

-----------------------------------------------------------------------------
(* Paths                                                                    *)

(* An entry is below its directory.                                         *)
LEMMA EntriesBelow ==
    ASSUME NEW q \in Paths, ParentOf[q] \in Paths
    PROVE  q \in Below[ParentOf[q]]
  BY IndexAssumption

(* Of the paths of a set one has no other of them above it.                 *)
LEMMA TopMost ==
    ASSUME NEW A \in SUBSET Paths, A # {}
    PROVE  \E a \in A : \A b \in A : a \notin Below[b]
<1> DEFINE Rest(a) == Paths \ Below[a]
           rests == {Rest(a) : a \in A}
<1>1. PICK T \in rests : \A U \in rests : U \subseteq T => U = T
  <2>1. rests \subseteq SUBSET Paths /\ rests # {}
    OBVIOUS
  <2>2. IsFiniteSet(Paths)
    BY IndexAssumption
  <2> HIDE DEF rests
  <2> QED
    BY <2>1, <2>2, SmallestSet
<1>2. PICK a \in A : T = Rest(a)
  BY <1>1
<1>3. ASSUME NEW b \in A, a \in Below[b] PROVE FALSE
  <2>1. Rest(b) \subseteq Rest(a) /\ a \in Rest(a) /\ a \notin Rest(b)
    BY <1>3, IndexAssumption
  <2> QED
    BY <1>1, <1>2, <2>1
<1> QED
  BY <1>2, <1>3

(* ... and one has no other of them below it.                               *)
LEMMA LowMost ==
    ASSUME NEW A \in SUBSET Paths, A # {}
    PROVE  \E a \in A : \A b \in A : b \notin Below[a]
<1> DEFINE belows == {Below[a] : a \in A}
<1>1. PICK T \in belows : \A U \in belows : U \subseteq T => U = T
  <2>1. belows \subseteq SUBSET Paths /\ belows # {}
    BY IndexAssumption
  <2>2. IsFiniteSet(Paths)
    BY IndexAssumption
  <2> HIDE DEF belows
  <2> QED
    BY <2>1, <2>2, SmallestSet
<1>2. PICK a \in A : T = Below[a]
  BY <1>1
<1>3. ASSUME NEW b \in A, b \in Below[a] PROVE FALSE
  <2>1. Below[b] \subseteq Below[a] /\ b \notin Below[b]
    BY <1>3, IndexAssumption
  <2> QED
    BY <1>1, <1>2, <1>3, <2>1
<1> QED
  BY <1>2, <1>3

(* What is below a path is at or below one of its entries.                  *)
LEMMA FirstBelow ==
    ASSUME NEW p \in Paths, NEW q \in Below[p]
    PROVE  \E c \in Below[p] : ParentOf[c] = p /\ (q = c \/ q \in Below[c])
<1> DEFINE A == {a \in Below[p] : q = a \/ q \in Below[a]}
<1>1. A \in SUBSET Paths /\ q \in A
  BY IndexAssumption
<1>2. PICK a \in A : \A b \in A : a \notin Below[b]
  <2> HIDE DEF A
  <2> QED
    BY <1>1, TopMost
<1>3. a \in Below[p] /\ a \in Paths
  BY <1>1
<1>4. ASSUME ParentOf[a] \in Below[p] PROVE FALSE
  <2>1. ParentOf[a] \in Paths /\ a \in Below[ParentOf[a]]
    BY <1>3, <1>4, IndexAssumption
  <2>2. ParentOf[a] \in A
    BY <1>4, <2>1, IndexAssumption
  <2> QED
    BY <1>2, <2>1, <2>2
<1> QED
  BY <1>2, <1>3, <1>4, IndexAssumption

(* Of two paths above one, one is above the other.                          *)
LEMMA Comparable ==
    ASSUME NEW p \in Paths, NEW q \in Paths, NEW x \in Below[p] \cap Below[q]
    PROVE  p = q \/ p \in Below[q] \/ q \in Below[p]
<1> DEFINE A == Below[p] \cap Below[q]
<1>1. A \in SUBSET Paths /\ A # {}
  BY IndexAssumption
<1>2. PICK a \in A : \A b \in A : a \notin Below[b]
  <2> HIDE DEF A
  <2> QED
    BY <1>1, TopMost
<1>3. a \in Paths /\ ParentOf[a] \in {p} \cup Below[p] /\ ParentOf[a] \in {q} \cup Below[q]
  BY <1>1, <1>2, IndexAssumption
<1>4. ParentOf[a] \notin A
  BY <1>1, <1>2, <1>3, IndexAssumption
<1> QED
  BY <1>3, <1>4

(* No entry of a directory is above another one.                            *)
LEMMA EntriesApart ==
    ASSUME NEW c \in Paths, NEW d \in Paths, ParentOf[c] = ParentOf[d],
           ParentOf[c] \in Paths
    PROVE  c \notin Below[d]
  BY IndexAssumption

(* What is at or below an entry of a directory is not at or below another.  *)
LEMMA OneEntry ==
    ASSUME NEW c \in Paths, NEW d \in Paths, ParentOf[c] = ParentOf[d],
           ParentOf[c] \in Paths, c # d
    PROVE  ({c} \cup Below[c]) \cap ({d} \cup Below[d]) = {}
  BY EntriesApart, Comparable

-----------------------------------------------------------------------------
(* What a walk returns                                                      *)

IsDir(q) == disk[q].kind = "dir"

(* The entries a walk finds in q.                                           *)
Found(q, skip) == IF IsDir(q) /\ q \notin skip THEN Entries(q) ELSE {}

(* What an entry adds to the total of its directory, given the totals.      *)
Adds(total, dup, c) == IF IsDir(c) THEN total[c]
                       ELSE IF c \in dup THEN 0 ELSE disk[c].size

TotalsOf(total, skip, dup) ==
    total = [q \in Paths |-> SumFunction([c \in Found(q, skip) |-> Adds(total, dup, c)])]

StatesOf(state, skip) ==
    state = [q \in Paths |->
               IF ~IsDir(q) THEN ""
               ELSE IF q \in skip THEN "denied"
               ELSE IF \A c \in Found(q, skip) : IsDir(c) => state[c] = "complete"
               THEN "complete" ELSE "partial"]

(* What a walk returns is a tree below the path it was called on.           *)
LEMMA TreeIsBelow ==
    ASSUME DiskIsTree, NEW p \in Paths, disk[p].kind = "dir", NEW skip,
           NEW dup, p \notin Below[p]
    PROVE  TreeBelow(p, Tree(p, skip, dup))
<1> DEFINE tree == Tree(p, skip, dup)
<1>1. DOMAIN tree = Reached(p, skip)
  BY DEF Tree
<1>2. \A q \in Reached(p, skip) : tree[q].kind = disk[q].kind
  BY DEF Tree
<1>3. p \in Reached(p, skip)
  <2>1. \A a \in {p} \cup Below[p] : p \notin Below[a]
    BY IndexAssumption
  <2> QED
    BY <2>1 DEF Reached
<1>4. ASSUME NEW q \in Reached(p, skip), q # p
      PROVE  ParentOf[q] \in Reached(p, skip) /\ disk[ParentOf[q]].kind = "dir"
  <2>1. q \in Below[p] /\ q \in Paths /\ disk[q].kind # "absent"
    BY <1>4, IndexAssumption DEF Reached
  <2>2. ParentOf[q] \in {p} \cup Below[p] /\ ParentOf[q] \in Paths
    BY <2>1, IndexAssumption
  <2>3. disk[ParentOf[q]].kind = "dir"
    BY <2>1, <2>2, IndexAssumption DEF DiskIsTree
  <2>4. ASSUME NEW a \in {p} \cup Below[p], ParentOf[q] \in Below[a]
        PROVE  a \notin skip
    <3>1. a \in Paths
      BY IndexAssumption
    <3>2. q \in Below[a]
      BY <2>1, <2>2, <2>4, <3>1, EntriesBelow, IndexAssumption
    <3> QED
      BY <1>4, <2>4, <3>2 DEF Reached
  <2> QED
    BY <2>2, <2>3, <2>4 DEF Reached
<1> QED
  <2>1. Reached(p, skip) \subseteq {p} \cup Below[p]
    BY DEF Reached
  <2> QED
    BY <1>1, <1>2, <1>3, <1>4, <2>1 DEF TreeBelow

(* Above what is on the disk are directories.                               *)
LEMMA AboveIsDir ==
    ASSUME DiskIsTree, NEW p \in Paths, NEW q \in Below[p], disk[q].kind # "absent"
    PROVE  IsDir(p)
<1> DEFINE A == {a \in Below[p] : disk[a].kind # "absent"}
<1>1. A \in SUBSET Paths /\ A # {}
  BY IndexAssumption
<1>2. PICK a \in A : \A b \in A : a \notin Below[b]
  <2> HIDE DEF A
  <2> QED
    BY <1>1, TopMost
<1>3. a \in Paths /\ ParentOf[a] \in {p} \cup Below[p] /\ ParentOf[a] \in Paths
  BY <1>1, <1>2, IndexAssumption
<1>4. IsDir(ParentOf[a])
  BY <1>2, <1>3, IndexAssumption DEF DiskIsTree, IsDir
<1>5. ParentOf[a] \notin A
  BY <1>1, <1>2, <1>3, IndexAssumption
<1> QED
  BY <1>3, <1>4, <1>5 DEF IsDir

(* Nothing is reached below what is no directory or is skipped.             *)
LEMMA ReachedAlone ==
    ASSUME DiskIsTree, NEW p \in Paths, NEW skip, ~IsDir(p) \/ p \in skip
    PROVE  Reached(p, skip) \subseteq {p}
  BY AboveIsDir, IndexAssumption DEF Reached

(* What is reached below a directory is what is reached from its entries.   *)
LEMMA ReachedBelow ==
    ASSUME DiskIsTree, NEW p \in Paths, IsDir(p), NEW skip, p \notin skip
    PROVE  \A x : x \in Reached(p, skip) \ {p}
                    <=> \E c \in Found(p, skip) : x \in Reached(c, skip)
<1>1. ASSUME NEW x \in Reached(p, skip), x # p
      PROVE  \E c \in Found(p, skip) : x \in Reached(c, skip)
  <2>1. x \in Below[p] /\ disk[x].kind # "absent"
    BY <1>1 DEF Reached
  <2>2. PICK c \in Below[p] : ParentOf[c] = p /\ (x = c \/ x \in Below[c])
    BY <2>1, FirstBelow
  <2>3. c \in Paths /\ Below[c] \subseteq Below[p]
    BY <2>2, IndexAssumption
  <2>4. disk[c].kind # "absent"
    BY <2>1, <2>2, <2>3, AboveIsDir DEF IsDir
  <2>5. c \in Found(p, skip)
    BY <2>2, <2>3, <2>4 DEF Found, Entries
  <2>6. x \in Reached(c, skip)
    BY <1>1, <2>1, <2>2, <2>3 DEF Reached
  <2> QED
    BY <2>5, <2>6
<1>2. ASSUME NEW c \in Found(p, skip), NEW x \in Reached(c, skip)
      PROVE  x \in Reached(p, skip) \ {p}
  <2>1. c \in Paths /\ ParentOf[c] = p /\ c \in Below[p]
    BY <1>2, IndexAssumption DEF Found, Entries
  <2>2. x \in Below[p] /\ x \in {c} \cup Below[c] /\ disk[x].kind # "absent" /\ x \in Paths
    BY <1>2, <2>1, IndexAssumption DEF Reached
  <2>3. ASSUME NEW a \in {p} \cup Below[p], x \in Below[a]
        PROVE  a \notin skip
    <3>1. CASE a = p
      BY <3>1
    <3>2. CASE a \in Below[p]
      <4>1. a \in Paths /\ c \notin Below[a]
        BY <2>1, <3>2, IndexAssumption
      <4>2. a \in {c} \cup Below[c]
        BY <2>1, <2>2, <2>3, <4>1, Comparable
      <4> QED
        BY <1>2, <2>3, <4>2 DEF Reached
    <3> QED
      BY <2>3, <3>1, <3>2
  <2>4. x # p
    BY <2>2, IndexAssumption
  <2> QED
    BY <2>2, <2>3, <2>4 DEF Reached
<1> QED
  BY <1>1, <1>2

(* The size an entry at x adds to the totals above it.                      *)
OwnSizes(dup) == [x \in Paths |-> IF IsDir(x) \/ x \in dup THEN 0 ELSE disk[x].size]

DiskTypes == disk \in [Paths -> [kind : Kinds \cup {"absent"}, size : Nat]]

LEMMA ReachedTypes ==
    ASSUME NEW p \in Paths, NEW skip, NEW dup, DiskTypes
    PROVE  /\ Reached(p, skip) \subseteq Paths
           /\ IsFiniteSet(Reached(p, skip))
           /\ \A x \in Paths : OwnSizes(dup)[x] \in Nat
<1>1. Reached(p, skip) \subseteq Paths
  BY IndexAssumption DEF Reached
<1>2. IsFiniteSet(Paths)
  BY IndexAssumption
<1>3. IsFiniteSet(Reached(p, skip))
  BY <1>1, <1>2, FS_Subset
<1> QED
  BY <1>1, <1>3 DEF OwnSizes, DiskTypes

LEMMA FoundTypes ==
    ASSUME NEW p \in Paths, NEW skip
    PROVE  /\ Found(p, skip) \subseteq Paths
           /\ IsFiniteSet(Found(p, skip))
           /\ \A c \in Found(p, skip) : ParentOf[c] = p /\ disk[c].kind # "absent"
<1>1. Found(p, skip) \subseteq Paths
  BY DEF Found, Entries
<1>2. IsFiniteSet(Paths)
  BY IndexAssumption
<1> QED
  BY <1>1, <1>2, FS_Subset DEF Found, Entries

(* The recursion of scan.rollup has a solution: the total of a directory is *)
(* the size of what is reached at and below it.                             *)
LEMMA TotalsExist ==
    ASSUME DiskIsTree, DiskTypes, NEW skip, NEW dup
    PROVE  \E total : TotalsOf(total, skip, dup)
<1> DEFINE own == OwnSizes(dup)
           Whole(q) == SumFunctionOnSet(own, Reached(q, skip))
           total == [q \in Paths |-> IF IsDir(q) THEN Whole(q) ELSE 0]
           adds(q) == [c \in Found(q, skip) |-> Adds(total, dup, c)]
<1>1. ASSUME NEW q \in Paths PROVE total[q] = SumFunction(adds(q))
  <2>1. CASE IsDir(q) /\ q \notin skip
    <3> DEFINE I == Found(q, skip)
               S == [c \in I |-> Reached(c, skip)]
               U == Reached(q, skip) \ {q}
               g == adds(q)
    <3>1. I \subseteq Paths /\ IsFiniteSet(I)
      BY FoundTypes
    <3>2. \A c \in I : IsFiniteSet(S[c]) /\ \A x \in S[c] : own[x] \in Int
      BY <3>1, ReachedTypes
    <3>3. \A c \in I, d \in I : c # d => S[c] \cap S[d] = {}
      <4>1. \A c \in I : S[c] \subseteq {c} \cup Below[c] /\ ParentOf[c] = q
        BY FoundTypes DEF Reached
      <4> QED
        BY <3>1, <4>1, OneEntry
    <3>4. \A c \in I : g[c] = SumFunctionOnSet(own, S[c])
      <4> SUFFICES ASSUME NEW c \in I PROVE Adds(total, dup, c) = Whole(c)
        OBVIOUS
      <4>1. c \in Paths /\ disk[c].kind # "absent"
        BY <3>1, FoundTypes
      <4>2. CASE IsDir(c)
        BY <4>1, <4>2 DEF Adds
      <4>3. CASE ~IsDir(c)
        <5>1. Reached(c, skip) = {c}
          <6>1. c \in Reached(c, skip)
            BY <4>1, IndexAssumption DEF Reached
          <6> QED
            BY <4>1, <4>3, <6>1, ReachedAlone
        <5>2. own[c] \in Int /\ \A x \in {} : own[x] \in Int
          BY <4>1, ReachedTypes
        <5>3. SumFunctionOnSet(own, {} \cup {c}) = own[c] + SumFunctionOnSet(own, {})
          <6> HIDE DEF own
          <6> QED
            BY <5>2, SumAdd, FS_EmptySet
        <5>4. SumFunctionOnSet(own, {}) = 0
          BY SumEmpty
        <5>5. Whole(c) = own[c]
          BY <5>1, <5>2, <5>3, <5>4
        <5> QED
          BY <4>1, <4>3, <5>5 DEF Adds, OwnSizes
      <4> QED
        BY <4>2, <4>3
    <3>5. \A x : x \in U <=> \E c \in I : x \in S[c]
      BY <2>1, ReachedBelow
    <3>6. DOMAIN S = I
      OBVIOUS
    <3>7. SumFunctionOnSet(own, U) = SumFunctionOnSet(g, I)
      <4> HIDE DEF own, I, S, U, g
      <4> QED
        BY <3>1, <3>2, <3>3, <3>4, <3>5, <3>6, SumOfSums
    <3>8. q \in Reached(q, skip)
      BY <2>1, IndexAssumption DEF Reached, IsDir
    <3>9. Whole(q) = own[q] + SumFunctionOnSet(own, U)
      <4> DEFINE T == Reached(q, skip)
      <4>1. IsFiniteSet(T) /\ q \in T /\ \A x \in T : own[x] \in Int
        BY <3>8, ReachedTypes
      <4>2. SumFunctionOnSet(own, T) = own[q] + SumFunctionOnSet(own, T \ {q})
        <5> HIDE DEF own, T
        <5> QED
          BY <4>1, SumRemove
      <4> QED
        BY <4>2
    <3>10. own[q] = 0
      BY <2>1 DEF OwnSizes
    <3>11. SumFunctionOnSet(g, I) \in Int
      <4>1. IsFiniteSet(U) /\ \A x \in U : own[x] \in Int
        BY ReachedTypes, FS_Subset
      <4> HIDE DEF own, I, U, g
      <4> QED
        BY <3>7, <4>1, SumType
    <3>12. SumFunction(adds(q)) = SumFunctionOnSet(g, I)
      BY DEF SumFunction
    <3>13. Whole(q) = SumFunction(adds(q))
      <4> HIDE DEF own, I, U, g, Whole, adds
      <4> QED
        BY <3>7, <3>9, <3>10, <3>11, <3>12
    <3> QED
      BY <2>1, <3>13
  <2>2. CASE ~IsDir(q) \/ q \in skip
    <3>1. Found(q, skip) = {}
      BY <2>2 DEF Found
    <3>2. SumFunction(adds(q)) = 0
      BY <3>1, SumEmpty DEF SumFunction
    <3>3. CASE IsDir(q)
      <4>1. Reached(q, skip) = {q}
        <5>1. q \in Reached(q, skip)
          BY <3>3, IndexAssumption DEF Reached, IsDir
        <5> QED
          BY <2>2, <5>1, ReachedAlone
      <4>2. own[q] = 0 /\ \A x \in {} : own[x] \in Int
        BY <3>3 DEF OwnSizes
      <4>3. SumFunctionOnSet(own, {} \cup {q}) = own[q] + SumFunctionOnSet(own, {})
        <5> HIDE DEF own
        <5> QED
          BY <4>2, SumAdd, FS_EmptySet
      <4>4. SumFunctionOnSet(own, {}) = 0
        BY SumEmpty
      <4> QED
        BY <3>2, <3>3, <4>1, <4>2, <4>3, <4>4
    <3> QED
      BY <3>2, <3>3
  <2> QED
    BY <2>1, <2>2
<1>2. total = [q \in Paths |-> SumFunction(adds(q))]
  BY <1>1
<1> QED
  BY <1>2 DEF TotalsOf

(* ... and of the states: a directory is complete if none reached at or     *)
(* below it is skipped.                                                     *)
LEMMA StatesExist ==
    ASSUME DiskIsTree, NEW skip
    PROVE  \E state : StatesOf(state, skip)
<1> DEFINE whole(q) == \A x \in Reached(q, skip) : IsDir(x) => x \notin skip
           state == [q \in Paths |-> IF ~IsDir(q) THEN ""
                                     ELSE IF q \in skip THEN "denied"
                                     ELSE IF whole(q) THEN "complete" ELSE "partial"]
<1>1. ASSUME NEW q \in Paths, IsDir(q), q \notin skip
      PROVE  whole(q) <=> \A c \in Found(q, skip) : IsDir(c) => state[c] = "complete"
  <2>1. \A x : x \in Reached(q, skip) \ {q}
                 <=> \E c \in Found(q, skip) : x \in Reached(c, skip)
    BY <1>1, ReachedBelow
  <2>2. ASSUME NEW c \in Found(q, skip), IsDir(c)
        PROVE  state[c] = "complete" <=> whole(c)
    <3>1. c \in Paths /\ c \in Reached(c, skip)
      BY <2>2, FoundTypes, IndexAssumption DEF Reached
    <3> QED
      BY <2>2, <3>1
  <2>3. ASSUME NEW c \in Found(q, skip), ~IsDir(c)
        PROVE  whole(c)
    BY <2>3, FoundTypes, ReachedAlone
  <2>4. whole(q) <=> \A c \in Found(q, skip) : whole(c)
    BY <1>1, <2>1
  <2> QED
    BY <2>2, <2>3, <2>4
<1>2. state = [q \in Paths |->
               IF ~IsDir(q) THEN ""
               ELSE IF q \in skip THEN "denied"
               ELSE IF \A c \in Found(q, skip) : IsDir(c) => state[c] = "complete"
               THEN "complete" ELSE "partial"]
  BY <1>1
<1> QED
  BY <1>2 DEF StatesOf

(* What Tree returns, in terms of solutions of the two recursions.          *)
LEMMA TreeParts ==
    ASSUME DiskIsTree, DiskTypes, NEW p, NEW skip, NEW dup
    PROVE  \E total, state :
             /\ TotalsOf(total, skip, dup)
             /\ StatesOf(state, skip)
             /\ Tree(p, skip, dup) =
                  [q \in Reached(p, skip) |->
                     [kind |-> disk[q].kind, size |-> disk[q].size, total |-> total[q],
                      state |-> state[q], duplicate |-> q \in dup]]
<1> DEFINE total == CHOOSE f : TotalsOf(f, skip, dup)
           state == CHOOSE f : StatesOf(f, skip)
<1>1. TotalsOf(total, skip, dup) /\ StatesOf(state, skip)
  BY TotalsExist, StatesExist
<1>2. Tree(p, skip, dup) =
                  [q \in Reached(p, skip) |->
                     [kind |-> disk[q].kind, size |-> disk[q].size, total |-> total[q],
                      state |-> state[q], duplicate |-> q \in dup]]
  BY DEF Tree, TotalsOf, StatesOf, Found, Adds, IsDir
<1> HIDE DEF total, state
<1> QED
  BY <1>1, <1>2

(* The entries of d in a tree, or in the index.                             *)
KidsIn(tree, d) == {c \in DOMAIN tree : ParentOf[c] = d}

(* A tree as scan.rollup leaves it: what its directories hold adds up, and  *)
(* a root that is complete is complete throughout.                          *)
Rolled(p, tree) ==
    /\ tree \in [DOMAIN tree -> Node]
    /\ tree[p].kind = "dir"
    /\ \A d \in DOMAIN tree : tree[d].kind = "dir" =>
         tree[d].total = SumFunction([c \in KidsIn(tree, d) |-> Counted(tree[c])])
    /\ tree[p].state = "complete" =>
         \A q \in DOMAIN tree : tree[q].state \in {"", "complete"}

LEMMA TotalsAreNat ==
    ASSUME DiskTypes, NEW skip, NEW dup, NEW total, TotalsOf(total, skip, dup)
    PROVE  total \in [Paths -> Nat]
<1> DEFINE adds(q) == [c \in Found(q, skip) |-> Adds(total, dup, c)]
           bad == {q \in Paths : total[q] \notin Nat}
<1>1. ASSUME NEW q \in Paths PROVE total[q] = SumFunctionOnSet(adds(q), Found(q, skip))
  BY DEF TotalsOf, SumFunction
<1>2. ASSUME bad # {} PROVE FALSE
  <2>1. PICK q \in bad : \A b \in bad : b \notin Below[q]
    <3>1. bad \in SUBSET Paths
      OBVIOUS
    <3> HIDE DEF bad
    <3> QED
      BY <1>2, <3>1, LowMost
  <2>2. \A c \in Found(q, skip) : c \in Below[q] /\ c \in Paths
    BY FoundTypes, IndexAssumption
  <2>3. \A c \in Found(q, skip) : adds(q)[c] \in Nat
    BY <2>1, <2>2 DEF Adds, DiskTypes
  <2>4. SumFunctionOnSet(adds(q), Found(q, skip)) \in Nat
    <3>1. IsFiniteSet(Found(q, skip))
      BY FoundTypes
    <3> HIDE DEF adds
    <3> QED
      BY <2>3, <3>1, SumNat
  <2> QED
    BY <1>1, <2>1, <2>4
<1> QED
  BY <1>2 DEF TotalsOf

LEMMA TreeIsRolled ==
    ASSUME DiskIsTree, DiskTypes, NEW p \in Paths, IsDir(p), NEW skip, NEW dup
    PROVE  Rolled(p, Tree(p, skip, dup))
<1> DEFINE tree == Tree(p, skip, dup)
           R == Reached(p, skip)
<1>1. PICK total, state :
             /\ TotalsOf(total, skip, dup)
             /\ StatesOf(state, skip)
             /\ tree =
                  [q \in R |->
                     [kind |-> disk[q].kind, size |-> disk[q].size, total |-> total[q],
                      state |-> state[q], duplicate |-> q \in dup]]
  BY TreeParts
<1>2. R \subseteq Paths /\ DOMAIN tree = R /\ \A q \in R : disk[q].kind # "absent"
  BY <1>1, ReachedTypes DEF Reached
<1>3. p \in R
  BY IndexAssumption DEF Reached, IsDir
<1>4. ASSUME NEW d \in R PROVE KidsIn(tree, d) = IF IsDir(d) THEN Found(d, skip) ELSE {}
  <2>1. d \in Paths /\ d \in {p} \cup Below[p]
    BY <1>2 DEF Reached
  <2>2. ASSUME NEW c \in KidsIn(tree, d) PROVE IsDir(d) /\ c \in Found(d, skip)
    <3>1. c \in R /\ c \in Paths /\ c \in Below[d] /\ disk[c].kind # "absent"
      BY <1>2, <2>1, <2>2, IndexAssumption DEF KidsIn
    <3>2. IsDir(d)
      BY <2>1, <3>1, AboveIsDir
    <3>3. d \notin skip
      BY <2>1, <3>1 DEF Reached
    <3> QED
      BY <2>2, <3>1, <3>2, <3>3 DEF Found, Entries, KidsIn
  <2>3. ASSUME NEW c \in Found(d, skip) PROVE c \in KidsIn(tree, d)
    <3>1. c \in Paths /\ ParentOf[c] = d /\ c \in Below[d] /\ c \in Below[p]
          /\ disk[c].kind # "absent" /\ d \notin skip
      BY <2>1, <2>3, FoundTypes, IndexAssumption DEF Found
    <3>2. \A a \in {p} \cup Below[p] : c \in Below[a] => a = d \/ d \in Below[a]
      BY <2>1, <3>1, IndexAssumption
    <3>3. c \in R
      BY <3>1, <3>2 DEF Reached
    <3> QED
      BY <1>2, <3>1, <3>3 DEF KidsIn
  <2> QED
    BY <2>2, <2>3
<1>5. total \in [Paths -> Nat]
  BY <1>1, TotalsAreNat
<1>6. tree \in [DOMAIN tree -> Node]
  <2> SUFFICES ASSUME NEW q \in R PROVE tree[q] \in Node
    BY <1>1, <1>2
  <2>1. q \in Paths /\ state[q] \in States
    BY <1>1, <1>2 DEF StatesOf, States
  <2>2. disk[q].kind \in Kinds /\ disk[q].size \in Nat
    BY <1>2, <2>1 DEF DiskTypes, Kinds
  <2>3. (q \in dup) \in BOOLEAN
    OBVIOUS
  <2> QED
    BY <1>1, <1>5, <2>1, <2>2, <2>3 DEF Node
<1>7. \A d \in R : tree[d].kind = disk[d].kind /\ tree[d].state = state[d]
  BY <1>1
<1>8. ASSUME NEW d \in R, IsDir(d)
      PROVE  tree[d].total = SumFunction([c \in KidsIn(tree, d) |-> Counted(tree[c])])
  <2>1. tree[d].total = SumFunction([c \in Found(d, skip) |-> Adds(total, dup, c)])
    BY <1>1, <1>2 DEF TotalsOf
  <2>2. ASSUME NEW c \in Found(d, skip) PROVE Adds(total, dup, c) = Counted(tree[c])
    <3>1. c \in R
      BY <1>2, <1>4, <1>8, <2>2 DEF KidsIn
    <3>2. /\ tree[c].kind = disk[c].kind /\ tree[c].size = disk[c].size
          /\ tree[c].total = total[c]
      BY <1>1, <3>1
    <3>3. CASE IsDir(c)
      BY <3>2, <3>3 DEF Adds, Counted, IsDir
    <3>4. CASE ~IsDir(c) /\ c \in dup
      <4>1. tree[c].duplicate
        <5> HIDE DEF tree, R
        <5> QED
          BY <1>1, <3>1, <3>4
      <4> QED
        BY <3>2, <3>4, <4>1 DEF Adds, Counted, IsDir
    <3>5. CASE ~IsDir(c) /\ c \notin dup
      <4>1. ~tree[c].duplicate
        <5> HIDE DEF tree, R
        <5> QED
          BY <1>1, <3>1, <3>5
      <4> QED
        BY <3>2, <3>5, <4>1 DEF Adds, Counted, IsDir
    <3> QED
      BY <3>3, <3>4, <3>5
  <2> QED
    BY <1>4, <1>8, <2>1, <2>2
<1>9. ASSUME state[p] = "complete"
      PROVE  \A q \in R : state[q] \in {"", "complete"}
  <2> DEFINE A == {q \in R : state[q] \notin {"", "complete"}}
  <2>1. ASSUME A # {} PROVE FALSE
    <3>1. A \in SUBSET Paths
      BY <1>2
    <3>2. PICK a \in A : \A b \in A : a \notin Below[b]
      <4> HIDE DEF A
      <4> QED
        BY <2>1, <3>1, TopMost
    <3>3. a \in R /\ a # p /\ IsDir(a) /\ a \in Paths
      BY <1>1, <1>2, <1>9 DEF StatesOf
    <3>4. ParentOf[a] \in R /\ IsDir(ParentOf[a]) /\ ParentOf[a] \in Paths
      <4>1. TreeBelow(p, tree)
        BY TreeIsBelow, IndexAssumption DEF IsDir
      <4> QED
        BY <1>2, <1>7, <3>3, <4>1 DEF TreeBelow, IsDir
    <3>5. a \in Found(ParentOf[a], skip)
      BY <1>2, <1>4, <3>3, <3>4 DEF KidsIn
    <3>6. state[ParentOf[a]] = "complete"
      <4>1. a \in Below[ParentOf[a]]
        BY <3>3, <3>4, EntriesBelow
      <4>2. state[ParentOf[a]] \in {"", "complete"}
        BY <3>2, <3>4, <4>1
      <4> QED
        BY <1>1, <3>4, <4>2 DEF StatesOf
    <3> QED
      BY <1>1, <3>2, <3>3, <3>4, <3>5, <3>6 DEF StatesOf
  <2> QED
    BY <2>1
<1> QED
  BY <1>2, <1>3, <1>6, <1>7, <1>8, <1>9 DEF Rolled, IsDir

-----------------------------------------------------------------------------
(* The rows a call writes                                                   *)

(* The rows left after a call has replaced the rows of a set gone by those  *)
(* of its tree and corrected totals of some of the others.                  *)
Written(p, tree, parent, gone) ==
    /\ DOMAIN rows' = (Indexed \ gone) \cup DOMAIN tree
    /\ \A q \in DOMAIN tree : rows'[q] = RowsOf(p, tree, parent)[q]
    /\ \A q \in Indexed \ (gone \cup DOMAIN tree) :
         \/ rows'[q] = rows[q]
         \/ \E t : rows'[q] = [rows[q] EXCEPT !.total = t]

(* A path kept is in a directory kept: deletions take what is below along.  *)
LEMMA DeletedIsClosed ==
    ASSUME NEW p \in Paths, NEW q \in Paths, NEW r \in Paths,
           r \in Deleted(p), q \in Below[r]
    PROVE  q \in Deleted(p)
  BY IndexAssumption DEF Deleted

(* A kept row has the run, the parent and the kind it had.                  *)
LEMMA KeptRow ==
    ASSUME Shapes, NEW p, NEW tree, NEW parent, NEW gone,
           Written(p, tree, parent, gone),
           NEW q \in Indexed \ (gone \cup DOMAIN tree)
    PROVE  /\ q \in DOMAIN rows'
           /\ rows'[q].run = rows[q].run
           /\ rows'[q].parent = rows[q].parent
           /\ rows'[q].kind = rows[q].kind
           /\ DOMAIN rows'[q] = RowFields
<1>1. DOMAIN rows[q] = RowFields
  BY DEF Shapes
<1>2. q \in DOMAIN rows'
  BY DEF Written
<1>3. CASE rows'[q] = rows[q]
  BY <1>1, <1>2, <1>3
<1>4. CASE \E t : rows'[q] = [rows[q] EXCEPT !.total = t]
  BY <1>1, <1>2, <1>4 DEF RowFields
<1> QED
  BY <1>3, <1>4 DEF Written

(* A new row is of the new run.                                             *)
LEMMA NewRow ==
    ASSUME NEW p, NEW tree, NEW parent, NEW gone,
           Written(p, tree, parent, gone), NEW q \in DOMAIN tree
    PROVE  /\ q \in DOMAIN rows'
           /\ rows'[q].run = NextRun
           /\ rows'[q].parent = IF q = p THEN parent ELSE NextRun
           /\ rows'[q].kind = tree[q].kind
           /\ DOMAIN rows'[q] = RowFields
  BY DEF Written, RowsOf, RowFields

(* What a call needs to leave the index in order.                           *)
Writes(p, tree, parent, gone) ==
    /\ p \in Paths
    /\ TreeBelow(p, tree)
    /\ parent \in 0..Len(runs)
    /\ StillDirectory(p, parent)
    /\ gone \subseteq Paths
    /\ \A r \in gone, q \in Paths : q \in Below[r] => q \in gone
    /\ DOMAIN tree \cap (Indexed \ gone) = {}
    /\ parent # Null => /\ ParentOf[p] \in Indexed \ gone
                        /\ rows[ParentOf[p]].run = parent
    /\ Written(p, tree, parent, gone)
    /\ \E status \in {"complete", "partial"} :
         runs' = Append(runs, [root |-> p, status |-> status])

LEMMA RunsGrow ==
    ASSUME Shapes, NEW p, NEW tree, NEW parent, NEW gone,
           Writes(p, tree, parent, gone)
    PROVE  /\ runs' \in Seq([root : Paths, status : {"complete", "partial"}])
           /\ Len(runs') = NextRun
           /\ Len(runs) \in Nat
           /\ runs'[NextRun].root = p
           /\ \A i \in 1..Len(runs) : runs'[i] = runs[i]
<1>1. PICK status \in {"complete", "partial"} :
        runs' = Append(runs, [root |-> p, status |-> status])
  BY DEF Writes
<1>2. [root |-> p, status |-> status] \in [root : Paths, status : {"complete", "partial"}]
  BY DEF Writes
<1>3. runs \in Seq([root : Paths, status : {"complete", "partial"}])
  BY DEF Shapes
<1> QED
  BY <1>1, <1>2, <1>3 DEF NextRun

LEMMA WrittenShapes ==
    ASSUME Shapes, pc' \in [Procs -> {"idle", "lookup", "ingest", "replace"}],
           DOMAIN op' = Procs,
           NEW p, NEW tree, NEW parent, NEW gone,
           Writes(p, tree, parent, gone)
    PROVE  Shapes'
<1>1. \A q \in DOMAIN rows' : q \in Paths /\ DOMAIN rows'[q] = RowFields
  <2> SUFFICES ASSUME NEW q \in DOMAIN rows'
               PROVE  q \in Paths /\ DOMAIN rows'[q] = RowFields
    OBVIOUS
  <2>1. CASE q \in DOMAIN tree
    BY <2>1, NewRow, IndexAssumption DEF Writes, TreeBelow
  <2>2. CASE q \notin DOMAIN tree
    BY <2>2, KeptRow DEF Writes, Written, Shapes
  <2> QED
    BY <2>1, <2>2
<1> QED
  BY <1>1, RunsGrow DEF Shapes, Indexed

(* Every parent_id still names the row of a directory.                      *)
LEMMA WrittenParents ==
    ASSUME Shapes, ParentsExist, NEW p, NEW tree, NEW parent, NEW gone,
           Writes(p, tree, parent, gone)
    PROVE  ParentsExist'
<1> SUFFICES ASSUME NEW q \in DOMAIN rows', rows'[q].parent # Null
             PROVE  /\ ParentOf[q] \in DOMAIN rows'
                    /\ rows'[ParentOf[q]].run = rows'[q].parent
                    /\ rows'[ParentOf[q]].kind = "dir"
  BY DEF ParentsExist, Indexed, Null
<1>1. CASE q \in DOMAIN tree /\ q = p
  <2>1. rows'[p].parent = parent
    BY <1>1, NewRow DEF Writes
  <2>2. ParentOf[p] \in Indexed \ (gone \cup DOMAIN tree)
    BY <1>1, <2>1 DEF Writes
  <2>3. rows[ParentOf[p]].kind = "dir" /\ rows[ParentOf[p]].run = parent
    BY <1>1, <2>1, <2>2 DEF Writes, StillDirectory
  <2> QED
    BY <1>1, <2>1, <2>2, <2>3, KeptRow DEF Writes
<1>2. CASE q \in DOMAIN tree /\ q # p
  <2>1. ParentOf[q] \in DOMAIN tree /\ tree[ParentOf[q]].kind = "dir"
    BY <1>2 DEF Writes, TreeBelow
  <2> QED
    BY <1>2, <2>1, NewRow DEF Writes
<1>3. CASE q \notin DOMAIN tree
  <2>1. q \in Indexed \ (gone \cup DOMAIN tree)
    BY <1>3 DEF Writes, Written
  <2>2. rows'[q].parent = rows[q].parent
    BY <2>1, KeptRow DEF Writes
  <2>3. /\ ParentOf[q] \in Indexed
        /\ rows[ParentOf[q]].run = rows[q].parent
        /\ rows[ParentOf[q]].kind = "dir"
    BY <2>1, <2>2 DEF ParentsExist
  <2>4. q \in Paths /\ ParentOf[q] \in Paths
    BY <2>1, <2>3 DEF Shapes
  <2>5. ParentOf[q] \notin gone
    BY <2>1, <2>4, EntriesBelow DEF Writes
  <2>6. ParentOf[q] \notin DOMAIN tree
    BY <2>3, <2>5 DEF Writes
  <2> QED
    BY <2>2, <2>3, <2>5, <2>6, KeptRow DEF Writes
<1> QED
  BY <1>1, <1>2, <1>3

(* The roots of the runs in the index are still there.                      *)
LEMMA WrittenRuns ==
    ASSUME Shapes, RunsNested, WithinRun, NEW p, NEW tree, NEW parent, NEW gone,
           Writes(p, tree, parent, gone)
    PROVE  RunsNested' /\ WithinRun'
<1> DEFINE Good(q) ==
      /\ rows'[q].run \in 1..Len(runs')
      /\ rows'[q].parent <= rows'[q].run
      /\ runs'[rows'[q].run].root \in DOMAIN rows'
      /\ rows'[runs'[rows'[q].run].root].run = rows'[q].run
      /\ q \in {runs'[rows'[q].run].root} \cup Below[runs'[rows'[q].run].root]
<1> SUFFICES ASSUME NEW q \in DOMAIN rows'
             PROVE  Good(q)
  BY DEF RunsNested, WithinRun, Indexed
<1>0. /\ Len(runs') = NextRun
      /\ Len(runs) \in Nat
      /\ runs'[NextRun].root = p
      /\ \A i \in 1..Len(runs) : runs'[i] = runs[i]
  BY RunsGrow
<1>1. CASE q \in DOMAIN tree
  <2>1. rows'[q].run = NextRun /\ rows'[q].parent = IF q = p THEN parent ELSE NextRun
    BY <1>1, NewRow DEF Writes
  <2>2. p \in DOMAIN rows' /\ rows'[p].run = NextRun
    BY NewRow DEF Writes, TreeBelow
  <2>3. q \in {p} \cup Below[p] /\ parent \in 0..Len(runs)
    BY <1>1 DEF Writes, TreeBelow
  <2> QED
    BY <1>0, <2>1, <2>2, <2>3 DEF NextRun
<1>2. CASE q \notin DOMAIN tree
  <2>1. q \in Indexed \ (gone \cup DOMAIN tree) /\ q \in Paths
    BY <1>2 DEF Writes, Written, Shapes
  <2>2. rows'[q].run = rows[q].run /\ rows'[q].parent = rows[q].parent
    BY <2>1, KeptRow DEF Writes
  <2> DEFINE root == runs[rows[q].run].root
  <2>3. /\ rows[q].run \in 1..Len(runs)
        /\ rows[q].parent <= rows[q].run
        /\ root \in Indexed /\ rows[root].run = rows[q].run
        /\ q \in {root} \cup Below[root]
    BY <2>1 DEF RunsNested, WithinRun
  <2>4. root \notin gone
    BY <2>1, <2>3 DEF Writes
  <2>5. root \notin DOMAIN tree
    BY <2>3, <2>4 DEF Writes
  <2>6. root \in DOMAIN rows' /\ rows'[root].run = rows[q].run
    BY <2>3, <2>4, <2>5, KeptRow DEF Writes
  <2>7. runs'[rows[q].run] = runs[rows[q].run] /\ rows[q].run \in 1..Len(runs')
    BY <1>0, <2>3 DEF NextRun
  <2> QED
    BY <2>2, <2>3, <2>6, <2>7
<1> QED
  BY <1>1, <1>2

(* A call that has read the index is not misled by one that writes it.      *)
LEMMA WrittenLookups ==
    ASSUME Shapes, RunsNested, NEW p, NEW tree, NEW parent, NEW gone,
           Writes(p, tree, parent, gone)
    PROVE  \A r : \A found \in 0..Len(runs) :
             StillDirectory(r, found) => /\ found \in 0..Len(runs')
                                         /\ StillDirectory(r, found)'
<1> SUFFICES ASSUME NEW r, NEW found \in 0..Len(runs), StillDirectory(r, found)
             PROVE  found \in 0..Len(runs') /\ StillDirectory(r, found)'
  OBVIOUS
<1>0. Len(runs') = NextRun /\ Len(runs) \in Nat
  BY RunsGrow
<1>1. found \in 0..Len(runs') /\ found # NextRun
  BY <1>0 DEF NextRun
<1>2. ASSUME found # Null, ParentOf[r] \in DOMAIN rows', rows'[ParentOf[r]].run = found
      PROVE  rows'[ParentOf[r]].kind = "dir"
  <2>1. ParentOf[r] \notin DOMAIN tree
    BY <1>1, <1>2, NewRow DEF Writes
  <2>2. ParentOf[r] \in Indexed \ (gone \cup DOMAIN tree)
    BY <1>2, <2>1 DEF Writes, Written
  <2>3. /\ rows[ParentOf[r]].run = found
        /\ rows'[ParentOf[r]].kind = rows[ParentOf[r]].kind
    BY <1>2, <2>2, KeptRow DEF Writes
  <2> QED
    BY <1>2, <2>2, <2>3 DEF StillDirectory
<1> QED
  BY <1>1, <1>2 DEF StillDirectory, Indexed, Null

-----------------------------------------------------------------------------
(* The calls                                                                *)

LEMMA InitIInv == Init => IInv
<1> SUFFICES ASSUME Init PROVE IInv
  OBVIOUS
<1>1. Shapes
  BY DEF Init, Shapes, Indexed
<1>2. DiskIsTree
  BY IndexAssumption DEF Init, DiskIsTree
<1>3. Calls
  BY DEF Init, Calls
<1> QED
  BY <1>1, <1>2, <1>3
     DEF Init, IInv, ParentsExist, RunsNested, WithinRun, Indexed

LEMMA ChangeIInv == ASSUME IInv, NEW p \in Paths, Change(p) PROVE IInv'
<1> USE DEF Change
<1>1. PICK kind \in {"file", "dir", "absent"}, size \in Sizes :
        disk' = [q \in Paths |->
             IF q = p THEN [kind |-> kind, size |-> IF kind = "file" THEN size ELSE 0]
             ELSE IF q \in Below[p] THEN [kind |-> "absent", size |-> 0]
             ELSE disk[q]]
  BY DEF Kinds
<1>2. DiskIsTree'
  <2> SUFFICES ASSUME NEW q \in Paths, disk'[q].kind # "absent", ParentOf[q] # NoPath
               PROVE  ParentOf[q] \in Paths /\ disk'[ParentOf[q]].kind = "dir"
    BY DEF DiskIsTree
  <2>1. ParentOf[q] \in Paths /\ q \in Below[ParentOf[q]]
    BY EntriesBelow, IndexAssumption
  <2>2. q \notin Below[p]
    BY <1>1, IndexAssumption
  <2>3. ParentOf[q] # p /\ ParentOf[q] \notin Below[p]
    BY <2>1, <2>2, IndexAssumption
  <2>4. disk'[ParentOf[q]] = disk[ParentOf[q]]
    BY <1>1, <2>1, <2>3
  <2>5. disk[ParentOf[q]].kind = "dir"
    <3>1. CASE q = p
      BY <3>1
    <3>2. CASE q # p
      <4>1. disk'[q] = disk[q]
        BY <1>1, <2>2, <3>2
      <4> QED
        BY <4>1 DEF IInv, DiskIsTree
    <3> QED
      BY <3>1, <3>2
  <2> QED
    BY <2>1, <2>4, <2>5
<1>3. Shapes' /\ Calls' /\ ParentsExist' /\ RunsNested' /\ WithinRun'
  BY DEF IInv, Shapes, Calls, StillDirectory, ParentsExist, RunsNested, WithinRun, Indexed
<1> QED
  BY <1>2, <1>3 DEF IInv

(* A step that leaves the disk and the index alone keeps what is said of    *)
(* them.                                                                    *)
LEMMA OnlyCalls ==
    ASSUME IInv, UNCHANGED <<disk, rows, runs>>, Calls',
           pc' \in [Procs -> {"idle", "lookup", "ingest", "replace"}],
           DOMAIN op' = Procs
    PROVE  IInv'
  BY DEF IInv, Shapes, DiskIsTree, ParentsExist, RunsNested, WithinRun, Indexed

LEMMA WalkedIInv ==
    ASSUME IInv, NEW w \in Procs, NEW p \in Paths,
           NEW next \in {"ingest", "lookup"}, Walked(w, p, next)
    PROVE  IInv'
<1> USE DEF Walked
<1>1. PICK skip, dup :
        op' = [op EXCEPT ![w] = [path |-> p, tree |-> Tree(p, skip, dup),
                                 parent |-> Null, total |-> 0]]
  OBVIOUS
<1>2. TreeBelow(p, Tree(p, skip, dup))
  BY TreeIsBelow, IndexAssumption DEF IInv
<1>3. Calls'
  <2> SUFFICES ASSUME NEW v \in Procs, pc'[v] # "idle"
               PROVE  /\ op'[v].path \in Paths
                      /\ TreeBelow(op'[v].path, op'[v].tree)
                      /\ op'[v].parent \in 0..Len(runs)
                      /\ StillDirectory(op'[v].path, op'[v].parent)
    BY DEF Calls, StillDirectory, Indexed
  <2>0. Len(runs) \in Nat
    BY DEF IInv, Shapes
  <2>1. CASE v = w
    BY <1>1, <1>2, <2>0, <2>1 DEF IInv, Shapes, StillDirectory, Null
  <2>2. CASE v # w
    <3>1. op'[v] = op[v] /\ pc[v] # "idle"
      BY <1>1, <2>2 DEF IInv, Shapes
    <3> QED
      BY <3>1 DEF IInv, Calls
  <2> QED
    BY <2>1, <2>2
<1>4. pc' \in [Procs -> {"idle", "lookup", "ingest", "replace"}] /\ DOMAIN op' = Procs
  BY <1>1 DEF IInv, Shapes
<1> QED
  BY <1>3, <1>4, OnlyCalls

LEMMA LookupNodeIInv == ASSUME IInv, NEW w \in Procs, LookupNode(w) PROVE IInv'
<1> USE DEF LookupNode
<1> DEFINE p == op[w].path
<1>0. /\ p \in Paths /\ TreeBelow(p, op[w].tree)
      /\ Len(runs) \in Nat
  BY DEF IInv, Calls, Shapes
<1>1. rows[p].parent \in 0..Len(runs) /\ StillDirectory(p, rows[p].parent)
  <2>1. CASE rows[p].parent = Null
    BY <1>0, <2>1 DEF StillDirectory, Null
  <2>2. CASE rows[p].parent # Null
    <3>1. ParentOf[p] \in Indexed /\ rows[ParentOf[p]].run = rows[p].parent
      BY <2>2 DEF IInv, ParentsExist
    <3>2. rows[ParentOf[p]].run \in 1..Len(runs)
      BY <3>1 DEF IInv, RunsNested
    <3> QED
      BY <1>0, <2>2, <3>1, <3>2 DEF IInv, ParentsExist, StillDirectory
  <2> QED
    BY <2>1, <2>2
<1>2. Calls'
  <2> SUFFICES ASSUME NEW v \in Procs, pc'[v] # "idle"
               PROVE  /\ op'[v].path \in Paths
                      /\ TreeBelow(op'[v].path, op'[v].tree)
                      /\ op'[v].parent \in 0..Len(runs)
                      /\ StillDirectory(op'[v].path, op'[v].parent)
    BY DEF Calls, StillDirectory, Indexed
  <2>1. CASE v = w
    BY <1>0, <1>1, <2>1 DEF IInv, Shapes
  <2>2. CASE v # w
    BY <2>2 DEF IInv, Shapes, Calls
  <2> QED
    BY <2>1, <2>2
<1>3. pc' \in [Procs -> {"idle", "lookup", "ingest", "replace"}] /\ DOMAIN op' = Procs
  BY DEF IInv, Shapes
<1> QED
  BY <1>2, <1>3, OnlyCalls

LEMMA LookupNothingIInv == ASSUME IInv, NEW w \in Procs, LookupNothing(w) PROVE IInv'
<1> USE DEF LookupNothing
<1>1. Calls'
  BY DEF IInv, Calls, Shapes, StillDirectory, Indexed
<1>2. pc' \in [Procs -> {"idle", "lookup", "ingest", "replace"}] /\ DOMAIN op' = Procs
  BY DEF IInv, Shapes
<1> QED
  BY <1>1, <1>2, OnlyCalls

LEMMA FailIInv == ASSUME IInv, NEW w \in Procs, Fail(w) PROVE IInv'
<1> USE DEF Fail
<1>1. Calls'
  BY DEF IInv, Calls, Shapes, StillDirectory, Indexed
<1>2. pc' \in [Procs -> {"idle", "lookup", "ingest", "replace"}] /\ DOMAIN op' = Procs
  BY DEF IInv, Shapes
<1> QED
  BY <1>1, <1>2, OnlyCalls

(* A call that writes as it should leaves the index in order.               *)
LEMMA WrittenIInv ==
    ASSUME IInv, NEW w \in Procs, NEW parent, NEW gone, Finish(w), pc[w] # "idle",
           Writes(op[w].path, op[w].tree, parent, gone)
    PROVE  IInv'
<1> USE DEF Finish
<1>1. pc' \in [Procs -> {"idle", "lookup", "ingest", "replace"}] /\ DOMAIN op' = Procs
  BY DEF IInv, Shapes
<1>2. Shapes'
  BY <1>1, WrittenShapes DEF IInv
<1>3. DiskIsTree'
  BY DEF IInv, DiskIsTree
<1>4. ParentsExist'
  BY WrittenParents DEF IInv
<1>5. RunsNested' /\ WithinRun'
  BY WrittenRuns DEF IInv
<1>6. Calls'
  <2> SUFFICES ASSUME NEW v \in Procs, pc'[v] # "idle"
               PROVE  /\ op'[v].path \in Paths
                      /\ TreeBelow(op'[v].path, op'[v].tree)
                      /\ op'[v].parent \in 0..Len(runs')
                      /\ StillDirectory(op[v].path, op[v].parent)'
    BY DEF Calls
  <2>1. v # w /\ op'[v] = op[v] /\ pc'[v] = pc[v]
    BY DEF IInv, Shapes
  <2>2. /\ op[v].path \in Paths
        /\ TreeBelow(op[v].path, op[v].tree)
        /\ op[v].parent \in 0..Len(runs)
        /\ StillDirectory(op[v].path, op[v].parent)
    BY <2>1 DEF IInv, Calls
  <2>3. \A r : \A found \in 0..Len(runs) :
          StillDirectory(r, found) => /\ found \in 0..Len(runs')
                                      /\ StillDirectory(r, found)'
    BY WrittenLookups DEF IInv
  <2> QED
    BY <2>1, <2>2, <2>3 DEF StillDirectory
<1> QED
  BY <1>2, <1>3, <1>4, <1>5, <1>6 DEF IInv

LEMMA IngestWrites ==
    ASSUME IInv, NEW w \in Procs, IngestScan(w)
    PROVE  Writes(op[w].path, op[w].tree, Null, {})
<1> DEFINE p == op[w].path
           tree == op[w].tree
<1>1. p \in Paths /\ TreeBelow(p, tree) /\ Finish(w)
  BY DEF IngestScan, IInv, Calls
<1>2. Unique(tree, Indexed) /\ DOMAIN RowsOf(p, tree, Null) = DOMAIN tree
  BY DEF IngestScan, RowsOf
<1>3. Written(p, tree, Null, {})
  BY <1>2 DEF IngestScan, Written, Unique
<1> QED
  BY <1>1, <1>2, <1>3
     DEF Writes, Finish, Unique, StillDirectory, Null, IInv, Shapes, statusFor

LEMMA ReplaceWrites ==
    ASSUME IInv, NEW w \in Procs, Replace(w)
    PROVE  Writes(op[w].path, op[w].tree, op[w].parent, Deleted(op[w].path))
<1> DEFINE p == op[w].path
           tree == op[w].tree
           parent == op[w].parent
<1>1. /\ p \in Paths /\ TreeBelow(p, tree) /\ Finish(w)
      /\ parent \in 0..Len(runs) /\ StillDirectory(p, parent)
  BY DEF Replace, IInv, Calls
<1>2. /\ Unique(tree, Kept(p)) /\ ForeignKey(p, parent)
      /\ DOMAIN RowsOf(p, tree, parent) = DOMAIN tree
  BY DEF Replace, RowsOf
<1>3. Written(p, tree, parent, Deleted(p))
  BY <1>2 DEF Replace, Written, Unique, Kept
<1>4. Deleted(p) \subseteq Paths
  BY <1>1, IndexAssumption DEF Deleted
<1>5. \A r \in Deleted(p), q \in Paths : q \in Below[r] => q \in Deleted(p)
  BY <1>1, <1>4, DeletedIsClosed
<1>6. parent # Null => /\ ParentOf[p] \in Indexed \ Deleted(p)
                       /\ rows[ParentOf[p]].run = parent
  BY <1>2 DEF ForeignKey, Kept
<1>7. \E status \in {"complete", "partial"} :
        runs' = Append(runs, [root |-> p, status |-> status])
  BY <1>1 DEF Finish, statusFor
<1>8. DOMAIN tree \cap (Indexed \ Deleted(p)) = {}
  BY <1>2 DEF Unique, Kept
<1> QED
  BY <1>1, <1>3, <1>4, <1>5, <1>6, <1>7, <1>8 DEF Writes

LEMMA WriteIInv ==
    ASSUME IInv, NEW w \in Procs, IngestScan(w) \/ Replace(w)
    PROVE  IInv'
<1>1. Finish(w) /\ pc[w] # "idle"
  BY DEF IngestScan, Replace
<1> QED
  BY <1>1, IngestWrites, ReplaceWrites, WrittenIInv

LEMMA NextIInv == IInv /\ [Next]_vars => IInv'
<1> SUFFICES ASSUME IInv, [Next]_vars PROVE IInv'
  OBVIOUS
<1>1. CASE \E p \in Paths : Change(p)
  BY <1>1, ChangeIInv
<1>2. ASSUME NEW w \in Procs,
             \/ \E p \in Paths : Scan(w, p) \/ Rescan(w, p)
             \/ LookupNode(w) \/ LookupNothing(w)
             \/ IngestScan(w) \/ Replace(w) \/ Fail(w)
      PROVE  IInv'
  BY <1>2, WalkedIInv, LookupNodeIInv, LookupNothingIInv, WriteIInv,
     FailIInv DEF Scan, Rescan
<1>3. CASE UNCHANGED vars
  <2>1. Calls'
    BY <1>3 DEF IInv, Calls, StillDirectory, Indexed, vars
  <2>2. pc' \in [Procs -> {"idle", "lookup", "ingest", "replace"}] /\ DOMAIN op' = Procs
    BY <1>3 DEF IInv, Shapes, vars
  <2> QED
    BY <1>3, <2>1, <2>2, OnlyCalls DEF vars
<1> QED
  BY <1>1, <1>2, <1>3 DEF Next

(* The inductive invariant holds throughout.                                *)
THEOREM IndexInvariance == Spec => []IInv
  BY InitIInv, NextIInv, PTL DEF Spec

-----------------------------------------------------------------------------
(* What the rows hold                                                       *)

Trees ==
    \A w \in Procs : pc[w] # "idle" =>
        Rolled(op[w].path, op[w].tree) /\ op[w].total \in Int

RowTypes == rows \in [Indexed -> Row]

(* What a complete run has written and is still there is complete.          *)
CompleteRuns ==
    \A q \in Indexed :
        runs[rows[q].run].status = "complete" => rows[q].state \in {"", "complete"}

RInv == IInv /\ DiskTypes /\ Trees /\ RowTypes /\ CompleteRuns

LEMMA InitRInv == Init => RInv
<1> SUFFICES ASSUME Init PROVE RInv
  OBVIOUS
<1>1. DiskTypes
  BY IndexAssumption DEF Init, DiskTypes, Kinds
<1>2. Trees /\ RowTypes /\ CompleteRuns
  BY DEF Init, Trees, RowTypes, CompleteRuns, Indexed
<1> QED
  BY <1>1, <1>2, InitIInv DEF RInv

(* The rows a call writes are typed, and complete if its run is.            *)
LEMMA WrittenRows ==
    ASSUME RInv, NEW w \in Procs, IngestScan(w) \/ Replace(w)
    PROVE  RowTypes' /\ CompleteRuns'
<1> DEFINE p == op[w].path
           tree == op[w].tree
           parent == IF pc[w] = "ingest" THEN Null ELSE op[w].parent
           delta == tree[p].total - op[w].total
           status == statusFor(tree[p].state)
<1>1. /\ pc[w] # "idle" /\ p \in DOMAIN tree /\ Rolled(p, tree) /\ op[w].total \in Int
      /\ parent \in Nat
      /\ Len(runs) \in Nat /\ runs \in Seq([root : Paths, status : {"complete", "partial"}])
  BY DEF RInv, IInv, Calls, Trees, Shapes, TreeBelow, IngestScan, Replace, Null
<1>10. \A q \in DOMAIN tree : tree[q] \in Node
  BY <1>1 DEF Rolled
<1>2. delta \in Int
  <2>1. tree[p] \in Node
    BY <1>1, <1>10
  <2>2. tree[p].total \in Int
    BY <2>1 DEF Node
  <2> QED
    BY <1>1, <2>2
<1>3. /\ runs' = Append(runs, [root |-> p, status |-> status])
      /\ status \in {"complete", "partial"} /\ p \in Paths
  BY <1>1 DEF IngestScan, Replace, Finish, statusFor, RInv, IInv, Calls
<1>4. /\ runs'[NextRun].status = status
      /\ \A i \in 1..Len(runs) : runs'[i] = runs[i]
  BY <1>1, <1>3 DEF NextRun
<1>5. ASSUME NEW q \in DOMAIN rows'
      PROVE  \/ q \in DOMAIN tree /\ rows'[q] = RowsOf(p, tree, parent)[q]
             \/ q \in Indexed /\ rows'[q] = rows[q]
             \/ q \in Indexed /\ rows'[q] = [rows[q] EXCEPT !.total = @ + delta]
  <2>1. DOMAIN RowsOf(p, tree, parent) = DOMAIN tree
    BY DEF RowsOf
  <2>2. CASE IngestScan(w)
    BY <2>1, <2>2 DEF IngestScan
  <2>3. CASE Replace(w)
    BY <2>1, <2>3 DEF Replace, Kept
  <2> QED
    BY <2>2, <2>3
<1>6. ASSUME NEW q \in DOMAIN rows'
      PROVE  /\ rows'[q] \in Row
             /\ runs'[rows'[q].run].status = "complete" => rows'[q].state \in {"", "complete"}
  <2>1. CASE q \in DOMAIN tree /\ rows'[q] = RowsOf(p, tree, parent)[q]
    <3>1. rows'[q] =
            [kind |-> tree[q].kind, size |-> tree[q].size, total |-> tree[q].total,
             state |-> tree[q].state, duplicate |-> tree[q].duplicate,
             run |-> NextRun, parent |-> IF q = p THEN parent ELSE NextRun]
      BY <2>1 DEF RowsOf
    <3>2. tree[q] \in Node /\ NextRun \in Nat
      BY <1>1, <1>10, <2>1 DEF NextRun
    <3>3. rows'[q] \in Row
      BY <1>1, <3>1, <3>2 DEF Row, Node
    <3>4. status = "complete" => tree[q].state \in {"", "complete"}
      <4>1. status = "complete" => tree[p].state = "complete"
        BY DEF statusFor
      <4> QED
        BY <1>1, <2>1, <4>1 DEF Rolled
    <3>5. rows'[q].run = NextRun /\ rows'[q].state = tree[q].state
      BY <3>1
    <3>6. runs'[rows'[q].run].status = status
      BY <1>4, <3>5
    <3> HIDE DEF status, tree
    <3> QED
      BY <3>3, <3>4, <3>5, <3>6
  <2>2. CASE q \in Indexed /\ (\/ rows'[q] = rows[q]
                               \/ rows'[q] = [rows[q] EXCEPT !.total = @ + delta])
    <3>1. /\ rows[q] \in Row
          /\ rows[q].run \in 1..Len(runs)
          /\ runs[rows[q].run].status = "complete" => rows[q].state \in {"", "complete"}
      BY <2>2 DEF RInv, RowTypes, CompleteRuns, IInv, RunsNested
    <3>2. rows'[q] \in Row /\ rows'[q].run = rows[q].run /\ rows'[q].state = rows[q].state
      <4> DEFINE r == rows[q]
      <4>1. r \in Row /\ (rows'[q] = r \/ rows'[q] = [r EXCEPT !.total = r.total + delta])
        BY <2>2, <3>1
      <4> HIDE DEF r, delta
      <4>2. rows'[q] \in Row /\ rows'[q].run = r.run /\ rows'[q].state = r.state
        <5>1. r.total + delta \in Int
          BY <1>2, <4>1 DEF Row
        <5> QED
          BY <4>1, <5>1 DEF Row
      <4> QED
        BY <4>2 DEF r
    <3> QED
      BY <1>4, <3>1, <3>2
  <2> QED
    BY <1>5, <2>1, <2>2
<1>7. rows' = [q \in DOMAIN rows' |-> rows'[q]]
  <2>1. CASE IngestScan(w)
    BY <2>1 DEF IngestScan
  <2>2. CASE Replace(w)
    BY <2>2 DEF Replace
  <2> QED
    BY <2>1, <2>2
<1> QED
  BY <1>6, <1>7 DEF RowTypes, CompleteRuns, Indexed

LEMMA NextRInv == RInv /\ [Next]_vars => RInv'
<1> SUFFICES ASSUME RInv, [Next]_vars PROVE RInv'
  OBVIOUS
<1>1. IInv'
  BY NextIInv DEF RInv
<1> DEFINE Typed(v) == Rolled(op'[v].path, op'[v].tree) /\ op'[v].total \in Int
<1>0. \A v \in Procs : pc[v] # "idle" => Rolled(op[v].path, op[v].tree) /\ op[v].total \in Int
  BY DEF RInv, Trees
<1>2. CASE UNCHANGED vars
  <2>1. DiskTypes' /\ RowTypes' /\ CompleteRuns'
    BY <1>2 DEF vars, RInv, DiskTypes, RowTypes, CompleteRuns, Indexed
  <2>2. Trees'
    BY <1>0, <1>2 DEF vars, Trees
  <2> QED
    BY <1>1, <2>1, <2>2 DEF RInv
<1>3. ASSUME NEW p \in Paths, Change(p) PROVE RInv'
  <2>1. DiskTypes'
    BY <1>3, IndexAssumption DEF Change, RInv, DiskTypes, Kinds
  <2>2. RowTypes' /\ CompleteRuns'
    BY <1>3 DEF Change, RInv, RowTypes, CompleteRuns, Indexed
  <2>3. Trees'
    BY <1>0, <1>3 DEF Change, Trees
  <2> QED
    BY <1>1, <2>1, <2>2, <2>3 DEF RInv
<1>4. ASSUME NEW w \in Procs, NEW p \in Paths, Scan(w, p) \/ Rescan(w, p)
      PROVE  RInv'
  <2>1. PICK next \in {"ingest", "lookup"} : Walked(w, p, next)
    BY <1>4 DEF Scan, Rescan
  <2>2. PICK skip, dup :
        op' = [op EXCEPT ![w] = [path |-> p, tree |-> Tree(p, skip, dup),
                                 parent |-> Null, total |-> 0]]
    BY <2>1 DEF Walked
  <2>3. Rolled(p, Tree(p, skip, dup))
    BY <2>1, TreeIsRolled DEF Walked, RInv, IInv, IsDir
  <2>4. DiskTypes' /\ RowTypes' /\ CompleteRuns'
    BY <2>1 DEF Walked, RInv, DiskTypes, RowTypes, CompleteRuns, Indexed
  <2>5. ASSUME NEW v \in Procs, pc'[v] # "idle" PROVE Typed(v)
    <3>1. CASE v = w
      BY <2>2, <2>3, <3>1 DEF RInv, IInv, Shapes
    <3>2. CASE v # w
      <4>1. op'[v] = op[v] /\ pc'[v] = pc[v]
        BY <2>1, <2>2, <3>2 DEF Walked, RInv, IInv, Shapes
      <4> QED
        BY <1>0, <2>5, <4>1
    <3> QED
      BY <3>1, <3>2
  <2> QED
    BY <1>1, <2>4, <2>5 DEF RInv, Trees
<1>5. ASSUME NEW w \in Procs,
             LookupNode(w) \/ LookupNothing(w) \/ Fail(w)
      PROVE  RInv'
  <2>1. DiskTypes' /\ RowTypes' /\ CompleteRuns'
    BY <1>5 DEF LookupNode, LookupNothing, Fail, RInv, DiskTypes, RowTypes, CompleteRuns, Indexed
  <2>2. ASSUME NEW v \in Procs, pc'[v] # "idle" PROVE Typed(v)
    <3>1. CASE LookupNode(w) /\ v = w
      <4>1. /\ op'[w].path = op[w].path /\ op'[w].tree = op[w].tree
            /\ op'[w].total = rows[op[w].path].total
        BY <3>1 DEF LookupNode, RInv, IInv, Shapes
      <4>2. rows[op[w].path].total \in Int
        BY <3>1 DEF LookupNode, RInv, RowTypes, Row
      <4> QED
        BY <1>0, <3>1, <4>1, <4>2 DEF LookupNode
    <3>2. CASE LookupNode(w) /\ v # w
      <4>1. op'[v] = op[v] /\ pc'[v] = pc[v]
        BY <3>2 DEF LookupNode, RInv, IInv, Shapes
      <4> QED
        BY <1>0, <2>2, <4>1
    <3>3. CASE LookupNothing(w)
      <4>1. op'[v] = op[v] /\ pc[v] # "idle"
        BY <2>2, <3>3 DEF LookupNothing, RInv, IInv, Shapes
      <4> QED
        BY <1>0, <4>1
    <3>4. CASE Fail(w)
      <4>1. op'[v] = op[v] /\ pc[v] # "idle"
        BY <2>2, <3>4 DEF Fail, RInv, IInv, Shapes
      <4> QED
        BY <1>0, <4>1
    <3> QED
      BY <1>5, <3>1, <3>2, <3>3, <3>4
  <2> QED
    BY <1>1, <2>1, <2>2 DEF RInv, Trees
<1>6. ASSUME NEW w \in Procs, IngestScan(w) \/ Replace(w) PROVE RInv'
  <2>1. Finish(w)
    BY <1>6 DEF IngestScan, Replace
  <2>2. DiskTypes'
    BY <2>1 DEF Finish, RInv, DiskTypes
  <2>3. RowTypes' /\ CompleteRuns'
    BY <1>6, WrittenRows
  <2>4. ASSUME NEW v \in Procs, pc'[v] # "idle" PROVE Typed(v)
    <3>1. op'[v] = op[v] /\ pc[v] # "idle"
      BY <2>1, <2>4 DEF Finish, RInv, IInv, Shapes
    <3> QED
      BY <1>0, <3>1
  <2> QED
    BY <1>1, <2>2, <2>3, <2>4 DEF RInv, Trees
<1> QED
  BY <1>2, <1>3, <1>4, <1>5, <1>6 DEF Next

THEOREM RowsInvariance == Spec => []RInv
  BY InitRInv, NextRInv, PTL DEF Spec


-----------------------------------------------------------------------------
(* The theorems                                                             *)

(* Every parent_id in the index names the row of a directory, whatever      *)
(* scans and rescans, of however many processes, replaced rows in between   *)
(* (schema.go:32, db.go:127-151), and whatever LIKE deletes.                *)
THEOREM ParentsAlwaysExist == Spec => []ParentsExist
  BY IndexInvariance, PTL DEF IInv

(* A row is never older than its directory's, and its run's root is indexed *)
(* under that run (db.go:133-151).                                          *)
THEOREM RunsAlwaysNested == Spec => []RunsNested
  BY IndexInvariance, PTL DEF IInv

(* No directory name holds a character LIKE reads as a wildcard.            *)
NoWildcards == \A p \in Paths : LikeAlso[p] = {}

(* As long as no name holds a wildcard of LIKE, a call changes nothing but  *)
(* the rows at and below its path and the totals of directories above it    *)
(* (db.go:104-107, 193-220).                                                *)
THEOREM RescanIsLocal == NoWildcards /\ Spec => RescanLocal
<1> DEFINE Local(w, q) ==
      /\ q \in Indexed <=> q \in DOMAIN rows'
      /\ q \in Indexed =>
           \/ rows'[q] = rows[q]
           \/ op[w].path \in Below[q] /\ rows'[q] = [rows[q] EXCEPT !.total = rows'[q].total]
<1>1. ASSUME NoWildcards, IInv, [Next]_vars, NEW w \in Procs,
             pc[w] \in {"ingest", "replace"}, runs' # runs, pc'[w] = "idle",
             NEW q \in Paths \ ({op[w].path} \cup Below[op[w].path])
      PROVE  Local(w, q)
  <2> DEFINE p == op[w].path
             tree == op[w].tree
  <2>1. /\ p \in Paths /\ DOMAIN tree \subseteq {p} \cup Below[p]
    BY <1>1 DEF IInv, Calls, TreeBelow
  <2>2. q \notin DOMAIN tree /\ q \notin Deleted(p)
    BY <1>1, <2>1 DEF Deleted, NoWildcards
  <2>3. IngestScan(w) \/ Replace(w)
    <3>1. PICK v \in Procs : IngestScan(v) \/ Replace(v)
      BY <1>1 DEF Next, vars, Change, Scan, Rescan, Walked, LookupNode,
                  LookupNothing, Fail
    <3>2. v = w
      BY <1>1, <3>1 DEF IngestScan, Replace, Finish, IInv, Shapes
    <3> QED
      BY <3>1, <3>2
  <2>4. CASE IngestScan(w)
    <3>1. DOMAIN RowsOf(p, tree, Null) = DOMAIN tree
      BY DEF RowsOf
    <3> QED
      BY <2>2, <2>4, <3>1, Zenon DEF IngestScan
  <2>5. CASE Replace(w)
    <3> DEFINE parent == op[w].parent
               new == RowsOf(p, tree, parent)
               delta == tree[p].total - op[w].total
    <3>1. DOMAIN new = DOMAIN tree
      BY DEF RowsOf
    <3>2. rows' = [r \in Kept(p) \cup DOMAIN new |->
                IF r \in DOMAIN new THEN new[r]
                ELSE IF r \in PropagateTo(p, parent)
                THEN [rows[r] EXCEPT !.total = @ + delta]
                ELSE rows[r]]
      BY <2>5 DEF Replace
    <3>3. q \in Indexed <=> q \in DOMAIN rows'
      BY <2>2, <3>1, <3>2 DEF Kept
    <3>4. ASSUME q \in Indexed, q \in PropagateTo(p, parent)
          PROVE  p \in Below[q] /\ rows'[q] = [rows[q] EXCEPT !.total = rows'[q].total]
      <4>1. rows'[q] = [rows[q] EXCEPT !.total = rows[q].total + delta]
        BY <2>2, <3>1, <3>2, <3>3, <3>4
      <4>2. DOMAIN rows[q] = RowFields
        BY <1>1, <3>4 DEF IInv, Shapes
      <4>3. rows'[q].total = rows[q].total + delta
        BY <4>1, <4>2 DEF RowFields
      <4> QED
        BY <3>4, <4>1, <4>3 DEF PropagateTo
    <3>5. ASSUME q \in Indexed, q \notin PropagateTo(p, parent)
          PROVE  rows'[q] = rows[q]
      BY <2>2, <3>1, <3>2, <3>3, <3>5
    <3> QED
      BY <3>3, <3>4, <3>5
  <2> QED
    BY <2>3, <2>4, <2>5
<1>2. NoWildcards /\ IInv /\ [Next]_vars =>
        [\A w \in Procs : pc[w] \in {"ingest", "replace"} /\ runs' # runs /\ pc'[w] = "idle" =>
          LET p == op[w].path IN
          \A q \in Paths \ ({p} \cup Below[p]) :
            /\ q \in Indexed <=> q \in DOMAIN rows'
            /\ q \in Indexed =>
                 \/ rows'[q] = rows[q]
                 \/ p \in Below[q] /\ rows'[q] = [rows[q] EXCEPT !.total = rows'[q].total]
        ]_vars
  BY <1>1
<1>3. NoWildcards => NoWildcards'
  BY DEF NoWildcards
<1> QED
  BY <1>2, <1>3, IndexInvariance, PTL DEF Spec, RescanLocal

(* The index and the calls under way are typed, whatever the disk, the      *)
(* number of processes and the order of their calls; totals stay integers   *)
(* and states and kinds those of scan.Node (db.go:17-60, 104-220).          *)
THEOREM IndexTypeCorrect == Spec => []TypeOK
<1>1. ASSUME RInv PROVE TypeOK
  <2>1. /\ runs \in Seq(Run) /\ Indexed \subseteq Paths
        /\ pc \in [Procs -> {"idle", "lookup", "ingest", "replace"}] /\ DOMAIN op = Procs
    BY <1>1 DEF RInv, IInv, Shapes, Run
  <2>2. rows \in [Indexed -> Row]
    BY <1>1 DEF RInv, RowTypes
  <2>3. disk \in [Paths -> [kind : Kinds \cup {"absent"}, size : Nat]]
    BY <1>1 DEF RInv, DiskTypes
  <2>4. ASSUME NEW w \in Procs, pc[w] # "idle"
        PROVE  /\ op[w].path \in Paths
               /\ op[w].path \in DOMAIN op[w].tree
               /\ DOMAIN op[w].tree \subseteq {op[w].path} \cup Below[op[w].path]
               /\ op[w].tree \in [DOMAIN op[w].tree -> Node]
               /\ op[w].parent \in Nat
               /\ op[w].total \in Int
    <3>1. op[w].path \in Paths /\ TreeBelow(op[w].path, op[w].tree)
          /\ op[w].parent \in 0..Len(runs) /\ Len(runs) \in Nat
      BY <1>1, <2>4 DEF RInv, IInv, Calls, Shapes
    <3>2. Rolled(op[w].path, op[w].tree) /\ op[w].total \in Int
      BY <1>1, <2>4 DEF RInv, Trees
    <3>3. op[w].parent \in Nat
      BY <3>1
    <3>4. op[w].tree \in [DOMAIN op[w].tree -> Node]
      BY <3>2, Zenon DEF Rolled
    <3>5. /\ op[w].path \in DOMAIN op[w].tree
          /\ DOMAIN op[w].tree \subseteq {op[w].path} \cup Below[op[w].path]
      BY <3>1, Zenon DEF TreeBelow
    <3> QED
      BY <3>1, <3>2, <3>3, <3>4, <3>5, Zenon
  <2> QED
    BY <2>1, <2>2, <2>3, <2>4 DEF TypeOK
<1> QED
  BY <1>1, RowsInvariance, PTL

-----------------------------------------------------------------------------
(* The totals of the rows                                                   *)

(* No path that was a file becomes a directory, nor the reverse.            *)
KindsKept == Retyped = {} /\ \A p \in Paths : FirstDisk[p].kind \in {"absent", KindOf[p]}

(* While a rescan is between its lookup and its transaction, no other call  *)
(* writes the index.                                                        *)
Undisturbed == \A w \in Procs : pc[w] = "replace" /\ runs' # runs => pc'[w] = "idle"

OneKind ==
    /\ \A p \in Paths : disk[p].kind \in {"absent", KindOf[p]}
    /\ \A q \in Indexed : rows[q].kind = KindOf[q]
    /\ \A w \in Procs : pc[w] # "idle" =>
         \A q \in DOMAIN op[w].tree : op[w].tree[q].kind = KindOf[q]

(* What a rescan has looked up is what is in the index.                     *)
Fresh ==
    \A w \in Procs : pc[w] = "replace" =>
        /\ op[w].path \in Indexed
        /\ op[w].parent = rows[op[w].path].parent
        /\ op[w].total = rows[op[w].path].total

(* The totals add up, and what the next rescan will add to them is right.   *)
SInv == RInv /\ OneKind /\ Fresh /\ RollupConsistent

LEMMA InitSInv == KindsKept /\ Init => SInv
<1> SUFFICES ASSUME KindsKept, Init PROVE SInv
  OBVIOUS
<1>1. OneKind
  BY DEF KindsKept, Init, OneKind, Indexed
<1>2. Fresh /\ RollupConsistent
  BY DEF Init, Fresh, RollupConsistent, Indexed
<1> QED
  BY <1>1, <1>2, InitRInv DEF SInv

(* The kinds of what a call writes.                                         *)
LEMMA NextOneKind ==
    ASSUME KindsKept, RInv, OneKind, [Next]_vars
    PROVE  OneKind'
<1> DEFINE Ok(v) == \A q \in DOMAIN op'[v].tree : op'[v].tree[q].kind = KindOf[q]
<1>0. \A v \in Procs : pc[v] # "idle" =>
        \A q \in DOMAIN op[v].tree : op[v].tree[q].kind = KindOf[q]
  BY DEF OneKind
<1>2. CASE UNCHANGED vars
  BY <1>2 DEF vars, OneKind, Indexed
<1>3. ASSUME NEW p \in Paths, Change(p) PROVE OneKind'
  BY <1>3 DEF Change, OneKind, KindsKept, Indexed
<1>4. ASSUME NEW w \in Procs, NEW p \in Paths, Scan(w, p) \/ Rescan(w, p)
      PROVE  OneKind'
  <2>1. PICK next \in {"ingest", "lookup"} : Walked(w, p, next)
    BY <1>4 DEF Scan, Rescan
  <2>2. PICK skip, dup :
        op' = [op EXCEPT ![w] = [path |-> p, tree |-> Tree(p, skip, dup),
                                 parent |-> Null, total |-> 0]]
    BY <2>1 DEF Walked
  <2>3. \A q \in DOMAIN Tree(p, skip, dup) : Tree(p, skip, dup)[q].kind = KindOf[q]
    <3>1. \A q \in Reached(p, skip) : q \in Paths /\ disk[q].kind # "absent"
      BY IndexAssumption DEF Reached
    <3>2. /\ DOMAIN Tree(p, skip, dup) = Reached(p, skip)
          /\ \A q \in Reached(p, skip) : Tree(p, skip, dup)[q].kind = disk[q].kind
      BY DEF Tree
    <3> QED
      BY <3>1, <3>2 DEF OneKind
  <2>4. ASSUME NEW v \in Procs, pc'[v] # "idle" PROVE Ok(v)
    <3>1. CASE v = w
      BY <2>2, <2>3, <3>1 DEF RInv, IInv, Shapes
    <3>2. CASE v # w
      <4>1. op'[v] = op[v] /\ pc'[v] = pc[v]
        BY <2>1, <2>2, <3>2 DEF Walked, RInv, IInv, Shapes
      <4> QED
        BY <1>0, <2>4, <4>1
    <3> QED
      BY <3>1, <3>2
  <2> QED
    BY <2>1, <2>4 DEF Walked, OneKind, Indexed
<1>5. ASSUME NEW w \in Procs,
             LookupNode(w) \/ LookupNothing(w) \/ Fail(w)
      PROVE  OneKind'
  <2>1. ASSUME NEW v \in Procs, pc'[v] # "idle" PROVE Ok(v)
    <3>1. pc[v] # "idle" /\ op'[v].tree = op[v].tree
      BY <1>5, <2>1 DEF LookupNode, LookupNothing, Fail, RInv, IInv, Shapes
    <3> QED
      BY <1>0, <3>1
  <2> QED
    BY <1>5, <2>1 DEF LookupNode, LookupNothing, Fail, OneKind, Indexed
<1>6. ASSUME NEW w \in Procs, IngestScan(w) \/ Replace(w) PROVE OneKind'
  <2>1. Finish(w) /\ pc[w] # "idle"
    BY <1>6 DEF IngestScan, Replace
  <2>2. ASSUME NEW v \in Procs, pc'[v] # "idle" PROVE Ok(v)
    <3>1. op'[v] = op[v] /\ pc[v] # "idle"
      BY <2>1, <2>2 DEF Finish, RInv, IInv, Shapes
    <3> QED
      BY <1>0, <3>1
  <2>3. ASSUME NEW q \in DOMAIN rows' PROVE rows'[q].kind = KindOf[q]
    <3> DEFINE p == op[w].path
               tree == op[w].tree
    <3>1. PICK parent, gone : Written(p, tree, parent, gone)
      BY <1>6, IngestWrites, ReplaceWrites DEF Writes, RInv
    <3>2. CASE q \in DOMAIN tree
      BY <1>0, <2>1, <3>1, <3>2, NewRow
    <3>3. CASE q \notin DOMAIN tree
      <4>1. q \in Indexed \ (gone \cup DOMAIN tree)
        BY <3>1, <3>3 DEF Written
      <4>2. rows'[q].kind = rows[q].kind
        BY <3>1, <4>1, KeptRow DEF RInv, IInv
      <4> QED
        BY <4>1, <4>2 DEF OneKind
    <3> QED
      BY <3>2, <3>3
  <2> QED
    BY <2>1, <2>2, <2>3 DEF Finish, OneKind, Indexed
<1> QED
  BY <1>2, <1>3, <1>4, <1>5, <1>6 DEF Next

LEMMA NextFresh ==
    ASSUME RInv, Fresh, Undisturbed, [Next]_vars
    PROVE  Fresh'
<1>1. CASE runs' # runs
  <2>1. PICK v \in Procs : IngestScan(v) \/ Replace(v)
    BY <1>1 DEF Next, vars, Change, Scan, Rescan, Walked, LookupNode, LookupNothing, Fail
  <2>2. \A w \in Procs : pc'[w] # "replace"
    BY <1>1, <2>1 DEF IngestScan, Replace, Finish, Undisturbed, RInv, IInv, Shapes
  <2> QED
    BY <2>2 DEF Fresh
<1>2. CASE runs' = runs
  <2>1. rows' = rows
    <3>1. ASSUME NEW v \in Procs, IngestScan(v) \/ Replace(v) PROVE FALSE
      <4>1. PICK new : runs' = Append(runs, new)
        BY <3>1 DEF IngestScan, Replace, Finish
      <4>2. runs \in Seq([root : Paths, status : {"complete", "partial"}])
        BY DEF RInv, IInv, Shapes
      <4>3. Len(runs') = Len(runs) + 1 /\ Len(runs) \in Nat
        BY <4>1, <4>2
      <4> QED
        BY <1>2, <4>3
    <3> QED
      BY <3>1 DEF Next, vars, Change, Scan, Rescan, Walked, LookupNode, LookupNothing, Fail
  <2>2. ASSUME NEW w \in Procs, pc'[w] = "replace"
        PROVE  /\ op'[w].path \in Indexed
               /\ op'[w].parent = rows[op'[w].path].parent
               /\ op'[w].total = rows[op'[w].path].total
    <3> USE DEF RInv, IInv, Shapes
    <3> DEFINE Good == /\ op'[w].path \in Indexed
                       /\ op'[w].parent = rows[op'[w].path].parent
                       /\ op'[w].total = rows[op'[w].path].total
    <3>1. ASSUME NEW v \in Procs, LookupNode(v)
          PROVE  Good \/ (op'[w] = op[w] /\ pc'[w] = pc[w])
      <4>1. CASE v = w
        <5>1. /\ op[v].path \in Indexed
              /\ op'[v].path = op[v].path
              /\ op'[v].parent = rows[op[v].path].parent
              /\ op'[v].total = rows[op[v].path].total
          BY <3>1 DEF LookupNode
        <5> QED
          BY <4>1, <5>1
      <4>2. CASE v # w
        BY <3>1, <4>2 DEF LookupNode
      <4> QED
        BY <4>1, <4>2
    <3>2. ASSUME NEW v \in Procs, NEW p \in Paths, Scan(v, p) \/ Rescan(v, p)
          PROVE  op'[w] = op[w] /\ pc'[w] = pc[w]
      BY <2>2, <3>2 DEF Scan, Rescan, Walked
    <3>3. ASSUME NEW v \in Procs, LookupNothing(v) \/ Fail(v)
          PROVE  op'[w] = op[w] /\ pc'[w] = pc[w]
      BY <2>2, <3>3 DEF LookupNothing, Fail
    <3>4. ASSUME NEW v \in Procs, IngestScan(v) \/ Replace(v)
          PROVE  op'[w] = op[w] /\ pc'[w] = pc[w]
      BY <2>2, <3>4 DEF IngestScan, Replace, Finish
    <3>5. ASSUME NEW p \in Paths, Change(p) PROVE op'[w] = op[w] /\ pc'[w] = pc[w]
      BY <3>5 DEF Change
    <3>6. Good \/ (op'[w] = op[w] /\ pc'[w] = pc[w])
      <4> HIDE DEF Good
      <4> QED
        BY <3>1, <3>2, <3>3, <3>4, <3>5, Zenon DEF Next, vars
    <3>8. CASE op'[w] = op[w] /\ pc'[w] = pc[w]
      BY <2>2, <3>8 DEF Fresh
    <3> QED
      BY <3>6, <3>8
  <2> QED
    BY <2>1, <2>2 DEF Fresh, Indexed
<1> QED
  BY <1>1, <1>2

(* The directories a call has written add up.                               *)
LEMMA NewTotals ==
    ASSUME RInv, NEW p, NEW tree, NEW parent, NEW gone,
           Writes(p, tree, parent, gone), Rolled(p, tree),
           NEW d \in DOMAIN tree, tree[d].kind = "dir"
    PROVE  rows'[d].total = SumFunction([c \in ChildRows(d)' |-> Counted(rows'[c])])
<1>1. /\ p \in Paths /\ d \in Paths /\ d \in {p} \cup Below[p]
      /\ \A q \in DOMAIN tree : q \in Paths
      /\ Len(runs) \in Nat
  BY IndexAssumption DEF Writes, TreeBelow, RInv, IInv, Shapes
<1>2. ASSUME NEW q \in DOMAIN tree
      PROVE  /\ q \in DOMAIN rows' /\ rows'[q].run = NextRun
             /\ rows'[q].parent = IF q = p THEN parent ELSE NextRun
             /\ rows'[q].total = tree[q].total
             /\ Counted(rows'[q]) = Counted(tree[q])
  <2>1. q \in DOMAIN rows' /\ rows'[q] = RowsOf(p, tree, parent)[q]
    BY DEF Writes, Written
  <2> QED
    BY <2>1 DEF RowsOf, Counted
<1>3. ASSUME NEW c \in ChildRows(d)' PROVE c \in KidsIn(tree, d)
  <2>1. c \in DOMAIN rows' /\ ParentOf[c] = d /\ rows'[c].parent = NextRun
    BY <1>2, <1>3 DEF ChildRows, Indexed
  <2>2. ASSUME c \notin DOMAIN tree PROVE FALSE
    <3>1. c \in Indexed \ (gone \cup DOMAIN tree)
      BY <2>1, <2>2 DEF Writes, Written
    <3>2. rows'[c].parent = rows[c].parent
      BY <3>1, KeptRow DEF RInv, IInv, Writes
    <3>3. rows[c].parent <= rows[c].run /\ rows[c].run \in 1..Len(runs)
          /\ rows[c].parent \in Nat
      BY <3>1 DEF RInv, IInv, RunsNested, RowTypes, Row
    <3> QED
      BY <1>1, <2>1, <3>2, <3>3 DEF NextRun
  <2> QED
    BY <2>1, <2>2 DEF KidsIn
<1>4. ASSUME NEW c \in KidsIn(tree, d) PROVE c \in ChildRows(d)'
  <2>1. c \in DOMAIN tree /\ ParentOf[c] = d /\ c \in Paths
    BY <1>1, <1>4 DEF KidsIn
  <2>2. c # p
    BY <1>1, <2>1, EntriesBelow, IndexAssumption
  <2> QED
    BY <1>2, <2>1, <2>2 DEF ChildRows, Indexed
<1>5. ChildRows(d)' = KidsIn(tree, d)
  BY <1>3, <1>4
<1>6. rows'[d].total = SumFunction([c \in KidsIn(tree, d) |-> Counted(tree[c])])
  BY <1>2 DEF Rolled
<1>7. \A c \in KidsIn(tree, d) : Counted(rows'[c]) = Counted(tree[c])
  BY <1>2 DEF KidsIn
<1> QED
  BY <1>5, <1>6, <1>7

(* Above a path that hangs from its directory the corrected directories are *)
(* a chain: each has an entry that is corrected too, or is the path.        *)
LEMMA CorrectedChain ==
    ASSUME RInv, NEW p \in Indexed, rows[p].parent # Null,
           NEW c \in PropagateTo(p, rows[p].parent)
    PROVE  /\ c \in Indexed /\ rows[c].kind = "dir"
           /\ \E e \in Indexed :
                /\ e = p \/ e \in PropagateTo(p, rows[p].parent)
                /\ ParentOf[e] = c /\ rows[e].parent = rows[c].run
<1> DEFINE P == PropagateTo(p, rows[p].parent)
           OnChain(e) == e = p \/ p \in Below[e]
           A == {a \in Below[c] \cup {c} : a # p /\ OnChain(a) /\ a \notin Indexed}
<1>1. /\ p \in Paths /\ c \in Paths /\ p \in Below[c]
      /\ \A r \in Below[c] \cap Indexed : p \in Below[r] => rows[r].parent # Null
  BY DEF PropagateTo, RInv, IInv, Shapes
<1>2. ASSUME NEW a \in Below[c] \cup {c}, p \in Below[a]
      PROVE  \E e \in Below[a] : /\ ParentOf[e] = a /\ OnChain(e)
                                 /\ e \in Below[c] /\ e \in Paths
  <2>1. a \in Paths /\ Below[a] \subseteq Below[c]
    BY <1>1, <1>2, IndexAssumption
  <2>2. PICK e \in Below[a] : ParentOf[e] = a /\ (p = e \/ p \in Below[e])
    BY <1>2, <2>1, FirstBelow
  <2> QED
    BY <1>1, <2>1, <2>2, IndexAssumption
<1>3. ASSUME NEW e \in Below[c], e \in Indexed, OnChain(e)
      PROVE  /\ rows[e].parent # Null /\ ParentOf[e] \in Indexed
             /\ rows[ParentOf[e]].run = rows[e].parent
             /\ rows[ParentOf[e]].kind = "dir"
  <2>1. rows[e].parent # Null
    BY <1>1, <1>3
  <2> QED
    BY <1>3, <2>1 DEF RInv, IInv, ParentsExist
<1>4. ASSUME A # {} PROVE FALSE
  <2>1. A \in SUBSET Paths
    BY <1>1, IndexAssumption
  <2>2. PICK a \in A : \A b \in A : b \notin Below[a]
    <3> HIDE DEF A
    <3> QED
      BY <1>4, <2>1, LowMost
  <2>3. PICK e \in Below[a] : ParentOf[e] = a /\ OnChain(e) /\ e \in Below[c] /\ e \in Paths
    BY <1>2, <2>2
  <2>4. e \in Indexed
    BY <2>2, <2>3
  <2>5. a \in Indexed
    BY <1>3, <2>3, <2>4
  <2> QED
    BY <2>2, <2>5
<1>5. PICK e \in Below[c] : ParentOf[e] = c /\ OnChain(e) /\ e \in Paths
  BY <1>1, <1>2
<1>6. e \in Indexed
  BY <1>4, <1>5
<1>7. /\ rows[e].parent # Null /\ c \in Indexed
      /\ rows[c].run = rows[e].parent
      /\ rows[c].kind = "dir"
  BY <1>3, <1>5, <1>6
<1>8. e = p \/ e \in P
  <2>1. Below[e] \subseteq Below[c]
    BY <1>1, <1>5, IndexAssumption
  <2> QED
    BY <1>1, <1>5, <2>1 DEF PropagateTo
<1> QED
  BY <1>5, <1>6, <1>7, <1>8

(* An ingest changes nothing of the other directories.                      *)
LEMMA IngestTotals ==
    ASSUME RInv, RollupConsistent, NEW w \in Procs, IngestScan(w),
           NEW d \in Indexed \ DOMAIN op[w].tree, rows[d].kind = "dir"
    PROVE  rows'[d].total = SumFunction([c \in ChildRows(d)' |-> Counted(rows'[c])])
<1> DEFINE p == op[w].path
           tree == op[w].tree
<1>1. Writes(p, tree, Null, {})
  BY IngestWrites DEF RInv
<1>2. \A q \in Indexed : q \notin DOMAIN tree /\ q \in DOMAIN rows' /\ rows'[q] = rows[q]
  <2>1. DOMAIN RowsOf(p, tree, Null) = DOMAIN tree
    BY DEF RowsOf
  <2> QED
    BY <2>1 DEF IngestScan, Unique
<1>3. rows[d].run # Null
  BY DEF RInv, IInv, RunsNested, Null
<1>4. ASSUME NEW c \in DOMAIN tree, ParentOf[c] = d PROVE rows'[c].parent = Null
  <2>1. c = p
    BY <1>1, <1>4 DEF Writes, TreeBelow
  <2> QED
    BY <1>1, <2>1, NewRow DEF Writes, TreeBelow
<1>5. DOMAIN rows' = Indexed \cup DOMAIN tree
  BY <1>1 DEF Writes, Written
<1>6. ChildRows(d)' = ChildRows(d)
  BY <1>2, <1>3, <1>4, <1>5 DEF ChildRows, Indexed
<1>7. \A c \in ChildRows(d) : Counted(rows'[c]) = Counted(rows[c])
  BY <1>2 DEF ChildRows
<1> QED
  BY <1>2, <1>6, <1>7 DEF RollupConsistent

(* A rescan keeps the child rows of the other directories, ...              *)
LEMMA ReplaceChildren ==
    ASSUME NoWildcards, SInv, NEW w \in Procs, Replace(w),
           NEW d \in Indexed \ (Deleted(op[w].path) \cup DOMAIN op[w].tree)
    PROVE  /\ ChildRows(d)' = ChildRows(d)
           /\ \A c \in ChildRows(d) \ {op[w].path} :
                c \in Indexed \ (Deleted(op[w].path) \cup DOMAIN op[w].tree)
<1> DEFINE p == op[w].path
           tree == op[w].tree
           parent == op[w].parent
           gone == Deleted(p)
<1>1. Writes(p, tree, parent, gone) /\ p \in Paths /\ d \in Paths
  BY ReplaceWrites DEF SInv, RInv, Writes, IInv, Shapes
<1>2. /\ gone = {p} \cup Below[p] /\ p \in DOMAIN tree
      /\ DOMAIN tree \subseteq gone
  BY <1>1 DEF Writes, TreeBelow, NoWildcards, Deleted
<1>3. p \in Indexed /\ rows[p].parent = parent
  BY DEF Replace, SInv, Fresh
<1>4. rows[d].run # Null /\ d \in DOMAIN rows' /\ rows'[d].run = rows[d].run
  BY <1>1, KeptRow DEF SInv, RInv, IInv, RunsNested, Null, Writes
<1>5. p \in DOMAIN rows' /\ rows'[p].parent = parent
  BY <1>1, <1>2, NewRow DEF Writes
<1>6. ASSUME NEW c, ParentOf[c] = d, c \in Paths, c # p PROVE c \notin gone
  BY <1>1, <1>2, <1>6, IndexAssumption
<1>7. ASSUME NEW c \in Indexed \ (gone \cup DOMAIN tree)
      PROVE  c \in DOMAIN rows' /\ rows'[c].parent = rows[c].parent
  BY <1>1, KeptRow DEF SInv, RInv, IInv, Writes
<1>8. DOMAIN rows' = (Indexed \ gone) \cup DOMAIN tree
  BY <1>1 DEF Writes, Written
<1>9. Indexed \subseteq Paths
  BY DEF SInv, RInv, IInv, Shapes
<1>10. \A c \in ChildRows(d) \ {p} : c \in Indexed \ (gone \cup DOMAIN tree)
  BY <1>2, <1>6, <1>9 DEF ChildRows
<1>11. ASSUME NEW c \in ChildRows(d)' PROVE c \in ChildRows(d)
  <2>1. c \in DOMAIN rows' /\ ParentOf[c] = d /\ rows'[c].parent = rows[d].run
    BY <1>4, <1>11 DEF ChildRows, Indexed
  <2>2. CASE c = p
    BY <1>3, <1>5, <2>1, <2>2 DEF ChildRows
  <2>3. CASE c # p
    <3>1. c \in Paths
      BY <1>1, <1>2, <1>8, <1>9, <2>1, IndexAssumption
    <3>2. c \in Indexed \ (gone \cup DOMAIN tree)
      BY <1>2, <1>6, <1>8, <2>1, <2>3, <3>1
    <3> QED
      BY <1>7, <2>1, <3>2 DEF ChildRows
  <2> QED
    BY <2>2, <2>3
<1>12. ASSUME NEW c \in ChildRows(d) PROVE c \in ChildRows(d)'
  <2>1. CASE c = p
    BY <1>3, <1>4, <1>5, <1>12, <2>1 DEF ChildRows, Indexed
  <2>2. CASE c # p
    BY <1>4, <1>7, <1>10, <1>12, <2>2 DEF ChildRows, Indexed
  <2> QED
    BY <2>1, <2>2
<1> QED
  BY <1>10, <1>11, <1>12

(* ... and adds to each what it adds to one of its child rows, or nothing   *)
(* to either.                                                               *)
LEMMA ReplaceTotals ==
    ASSUME NoWildcards, SInv, NEW w \in Procs, Replace(w),
           NEW d \in Indexed \ (Deleted(op[w].path) \cup DOMAIN op[w].tree),
           rows[d].kind = "dir"
    PROVE  rows'[d].total = SumFunction([c \in ChildRows(d)' |-> Counted(rows'[c])])
<1> DEFINE p == op[w].path
           tree == op[w].tree
           parent == op[w].parent
           gone == Deleted(p)
           delta == tree[p].total - op[w].total
           P == PropagateTo(p, parent)
           K == ChildRows(d)
           f == [c \in K |-> Counted(rows[c])]
           g == [c \in K |-> Counted(rows'[c])]
           Changed(c) == c = p \/ c \in P
<1>1. /\ Writes(p, tree, parent, gone) /\ p \in Paths /\ d \in Paths
      /\ Rolled(p, tree) /\ op[w].total \in Int
  BY ReplaceWrites DEF SInv, RInv, Writes, IInv, Shapes, Trees, Replace
<1>2. /\ gone = {p} \cup Below[p] /\ p \in DOMAIN tree
      /\ DOMAIN tree \subseteq gone
  BY <1>1 DEF Writes, TreeBelow, NoWildcards, Deleted
<1>3. p \in Indexed /\ rows[p].parent = parent /\ rows[p].total = op[w].total
  BY DEF Replace, SInv, Fresh
<1>4. delta \in Int /\ tree[p].total \in Int
  <2>1. tree[p] \in Node
    BY <1>1, <1>2 DEF Rolled
  <2>2. tree[p].total \in Int
    BY <2>1 DEF Node
  <2> QED
    BY <1>1, <2>2
<1>5. /\ ChildRows(d)' = K
      /\ \A c \in K \ {p} : c \in Indexed \ (gone \cup DOMAIN tree)
  BY ReplaceChildren
<1>6. ASSUME NEW q \in Indexed \ (gone \cup DOMAIN tree)
      PROVE  rows'[q] = IF q \in P THEN [rows[q] EXCEPT !.total = @ + delta] ELSE rows[q]
  <2>1. DOMAIN RowsOf(p, tree, parent) = DOMAIN tree
    BY DEF RowsOf
  <2> QED
    BY <2>1 DEF Replace, Kept
<1>7. \A q \in Indexed : rows[q] \in Row
  BY DEF SInv, RInv, RowTypes
<1>8. IsFiniteSet(K) /\ K \subseteq Indexed /\ \A c \in K : f[c] \in Int
  <2>1. IsFiniteSet(Paths) /\ K \subseteq Indexed /\ Indexed \subseteq Paths
    BY IndexAssumption DEF ChildRows, SInv, RInv, IInv, Shapes
  <2>2. IsFiniteSet(K)
    BY <2>1, FS_Subset
  <2>3. ASSUME NEW c \in K PROVE f[c] \in Int
    BY <1>7, <2>1 DEF Counted, Row
  <2> QED
    BY <2>1, <2>2, <2>3
<1>9. ASSUME NEW c \in K, Changed(c) PROVE g[c] = f[c] + delta
  <2>1. CASE c = p
    <3>1. rows'[p].kind = tree[p].kind /\ rows'[p].total = tree[p].total
      <4>1. rows'[p] = RowsOf(p, tree, parent)[p]
        BY <1>1, <1>2 DEF Writes, Written
      <4> QED
        BY <1>2, <4>1 DEF RowsOf
    <3>2. rows'[p].kind = "dir" /\ rows[p].kind = "dir"
      <4>1. tree[p].kind = "dir"
        BY <1>1 DEF Rolled
      <4>2. tree[p].kind = KindOf[p] /\ rows[p].kind = KindOf[p]
        BY <1>2, <1>3 DEF SInv, OneKind, Replace
      <4> QED
        BY <3>1, <4>1, <4>2
    <3>3. Counted(rows'[p]) = tree[p].total /\ Counted(rows[p]) = op[w].total
      BY <1>3, <3>1, <3>2 DEF Counted
    <3>4. tree[p].total = op[w].total + delta
      BY <1>1, <1>4
    <3>5. g[c] = tree[p].total /\ f[c] = op[w].total
      BY <1>9, <2>1, <3>3
    <3> HIDE DEF f, g, delta
    <3> QED
      BY <3>4, <3>5
  <2>2. CASE c # p
    <3>1. c \in P /\ parent # Null /\ c \in Indexed \ (gone \cup DOMAIN tree)
      BY <1>5, <1>9, <2>2 DEF PropagateTo
    <3>2. rows[c].kind = "dir"
      BY <1>3, <3>1, CorrectedChain DEF SInv
    <3>3. rows'[c] = [rows[c] EXCEPT !.total = rows[c].total + delta]
      BY <1>6, <3>1
    <3>4. rows'[c].kind = "dir" /\ rows'[c].total = rows[c].total + delta
      BY <1>7, <3>1, <3>2, <3>3 DEF Row
    <3> QED
      BY <1>9, <3>2, <3>4 DEF Counted
  <2> QED
    BY <2>1, <2>2
<1>10. ASSUME NEW c \in K, ~Changed(c) PROVE g[c] = f[c]
  BY <1>5, <1>6, <1>10
<1>11. rows[d].total = SumFunctionOnSet(f, K)
  BY DEF SInv, RollupConsistent, SumFunction
<1>12. CASE d \in P
  <2>1. parent # Null /\ p \in Below[d]
    BY <1>12 DEF PropagateTo
  <2>2. PICK e \in K : Changed(e)
    <3>1. PICK e \in Indexed : /\ Changed(e)
                               /\ ParentOf[e] = d /\ rows[e].parent = rows[d].run
      BY <1>3, <1>12, <2>1, CorrectedChain DEF SInv
    <3> QED
      BY <3>1 DEF ChildRows
  <2>3. ASSUME NEW c \in K, c # e PROVE ~Changed(c)
    <3>1. /\ ParentOf[c] = d /\ ParentOf[e] = d
          /\ c \in Paths /\ e \in Paths
      BY <1>8, <2>2 DEF ChildRows, SInv, RInv, IInv, Shapes
    <3>2. Changed(c) => p \in {c} \cup Below[c]
      BY DEF PropagateTo
    <3>3. p \in {e} \cup Below[e]
      BY <2>2 DEF PropagateTo
    <3> QED
      BY <1>1, <2>3, <3>1, <3>2, <3>3, OneEntry
  <2>4. \A c \in K : g[c] \in Int
    BY <1>4, <1>8, <1>9, <1>10
  <2>5. SumFunctionOnSet(f, K) = f[e] + SumFunctionOnSet(f, K \ {e})
    <3> HIDE DEF f, K
    <3> QED
      BY <1>8, <2>2, SumRemove
  <2>6. SumFunctionOnSet(g, K) = g[e] + SumFunctionOnSet(g, K \ {e})
    <3> HIDE DEF g, K
    <3> QED
      BY <1>8, <2>2, <2>4, SumRemove
  <2>7. SumFunctionOnSet(f, K \ {e}) = SumFunctionOnSet(g, K \ {e})
    <3>1. IsFiniteSet(K \ {e}) /\ \A c \in K \ {e} : f[c] = g[c]
      <4>1. \A c \in K \ {e} : f[c] = g[c]
        BY <1>10, <2>3
      <4>2. IsFiniteSet(K \ {e})
        BY <1>8, FS_Subset
      <4> QED
        BY <4>1, <4>2
    <3> HIDE DEF f, g, K
    <3> QED
      BY <3>1, SumSame
  <2>8. SumFunctionOnSet(f, K \ {e}) \in Int
    <3>1. IsFiniteSet(K \ {e})
      BY <1>8, FS_Subset
    <3> HIDE DEF f, K
    <3> QED
      BY <1>8, <3>1, SumType
  <2>9. rows'[d].total = rows[d].total + delta
    <3>1. rows'[d] = [rows[d] EXCEPT !.total = rows[d].total + delta]
      BY <1>6, <1>12
    <3> QED
      BY <1>7, <3>1 DEF Row
  <2>10. g[e] = f[e] + delta /\ f[e] \in Int
    BY <1>8, <1>9, <2>2
  <2>11. rows'[d].total = SumFunctionOnSet(g, K)
    <3> HIDE DEF f, g, K, delta
    <3> QED
      BY <1>4, <1>11, <2>5, <2>6, <2>7, <2>8, <2>9, <2>10
  <2> QED
    BY <1>5, <2>11 DEF SumFunction
<1>13. CASE d \notin P
  <2>1. ASSUME NEW c \in K, Changed(c) PROVE FALSE
    <3>1. /\ c \in Indexed /\ c \in Paths /\ ParentOf[c] = d /\ rows[c].parent # Null
          /\ c \in Below[d] /\ Below[c] \subseteq Below[d]
      <4>1. c \in Indexed /\ c \in Paths /\ ParentOf[c] = d /\ rows[c].parent = rows[d].run
        BY DEF ChildRows, SInv, RInv, IInv, Shapes
      <4>2. rows[d].run # Null
        BY DEF SInv, RInv, IInv, RunsNested, Null
      <4> QED
        BY <1>1, <4>1, <4>2, EntriesBelow, IndexAssumption
    <3>2. parent # Null /\ p \in Below[d] /\ p \in {c} \cup Below[c]
      BY <1>3, <2>1, <3>1 DEF PropagateTo
    <3>3. ASSUME NEW r \in Below[d] \cap Indexed, p \in Below[r]
          PROVE  rows[r].parent # Null
      <4>1. r \in Paths /\ c \notin Below[r]
        BY <1>1, <3>1, <3>3, IndexAssumption
      <4>2. r = c \/ r \in Below[c]
        BY <3>1, <3>2, <3>3, <4>1, Comparable
      <4>3. CASE r = c
        BY <3>1, <4>3
      <4>4. CASE r \in Below[c]
        <5>1. c \in P
          BY <2>1, <3>1, <3>3, <4>4, IndexAssumption
        <5> QED
          BY <3>3, <4>4, <5>1 DEF PropagateTo
      <4> QED
        BY <4>2, <4>3, <4>4
    <3>4. d \in P
      BY <1>1, <3>2, <3>3 DEF PropagateTo
    <3> QED
      BY <1>13, <3>4
  <2>2. rows'[d] = rows[d]
    BY <1>6, <1>13
  <2>3. f = g
    BY <1>10, <2>1
  <2> QED
    BY <1>5, <1>11, <2>2, <2>3 DEF SumFunction
<1> QED
  BY <1>12, <1>13

LEMMA NextRollup ==
    ASSUME NoWildcards, SInv, [Next]_vars
    PROVE  RollupConsistent'
<1> DEFINE Exact(d) == rows'[d].total = SumFunction([c \in ChildRows(d)' |-> Counted(rows'[c])])
<1>1. ASSUME NEW w \in Procs, IngestScan(w) \/ Replace(w) PROVE RollupConsistent'
  <2> DEFINE p == op[w].path
             tree == op[w].tree
             parent == IF pc[w] = "ingest" THEN Null ELSE op[w].parent
             gone == IF pc[w] = "ingest" THEN {} ELSE Deleted(p)
  <2>1. Writes(p, tree, parent, gone)
    BY <1>1, IngestWrites, ReplaceWrites DEF IngestScan, Replace, SInv, RInv
  <2>2. Rolled(p, tree)
    BY <1>1 DEF IngestScan, Replace, SInv, RInv, Trees
  <2>3. ASSUME NEW d \in DOMAIN rows', rows'[d].kind = "dir" PROVE Exact(d)
    <3>1. CASE d \in DOMAIN tree
      <4>1. tree[d].kind = "dir"
        BY <2>1, <2>3, <3>1, NewRow DEF Writes
      <4> HIDE DEF p, tree, parent, gone
      <4> QED
        BY <2>1, <2>2, <3>1, <4>1, NewTotals DEF SInv
    <3>2. CASE d \notin DOMAIN tree
      <4>1. d \in Indexed \ (gone \cup DOMAIN tree)
        BY <2>1, <3>2 DEF Writes, Written
      <4>2. rows[d].kind = "dir"
        <5> HIDE DEF p, tree, parent, gone
        <5> QED
          BY <2>1, <2>3, <4>1, KeptRow DEF SInv, RInv, IInv, Writes
      <4>3. CASE IngestScan(w)
        BY <4>1, <4>2, <4>3, IngestTotals DEF SInv
      <4>4. CASE Replace(w)
        BY <4>1, <4>2, <4>4, ReplaceTotals DEF Replace
      <4> QED
        BY <1>1, <4>3, <4>4
    <3> QED
      BY <3>1, <3>2
  <2> QED
    BY <2>3 DEF RollupConsistent, Indexed
<1>2. CASE rows' = rows
  BY <1>2 DEF SInv, RollupConsistent, ChildRows, Indexed
<1>3. rows' = rows \/ \E w \in Procs : IngestScan(w) \/ Replace(w)
  BY DEF Next, vars, Change, Scan, Rescan, Walked, LookupNode, LookupNothing, Fail
<1> QED
  BY <1>1, <1>2, <1>3

(* Every directory's stored total is what its child rows add up to, after   *)
(* any sequence of scans and rescans at any level by any number of          *)
(* processes: the deltas Rescan propagates (db.go:153-159, 203-220) keep    *)
(* the ancestors exact, if no other call writes between the lookup of a     *)
(* rescan and its transaction, no name holds a wildcard of LIKE and no path *)
(* that was a file becomes a directory.                                     *)
THEOREM TotalsAddUp ==
    NoWildcards /\ KindsKept /\ Spec /\ [][Undisturbed]_vars => []RollupConsistent
<1>1. NoWildcards /\ KindsKept /\ SInv /\ RInv' /\ [Next]_vars /\ [Undisturbed]_vars => SInv'
  <2> SUFFICES ASSUME NoWildcards, KindsKept, SInv, RInv', [Next]_vars, [Undisturbed]_vars
               PROVE  SInv'
    OBVIOUS
  <2>1. Fresh'
    <3>1. CASE Undisturbed
      BY <3>1, NextFresh DEF SInv
    <3>2. CASE UNCHANGED vars
      BY <3>2 DEF vars, SInv, Fresh, Indexed
    <3> QED
      BY <3>1, <3>2
  <2> QED
    BY <2>1, NextOneKind, NextRollup DEF SInv
<1>2. SInv => RollupConsistent
  BY DEF SInv
<1>3. NoWildcards => NoWildcards'
  BY DEF NoWildcards
<1>4. KindsKept => KindsKept'
  BY DEF KindsKept
<1> QED
  BY <1>1, <1>2, <1>3, <1>4, InitSInv, RowsInvariance, PTL DEF Spec

(* One process alone never disturbs its rescans.                            *)
THEOREM OneProcessAddsUp ==
    (\A v, w \in Procs : v = w) /\ NoWildcards /\ KindsKept /\ Spec => []RollupConsistent
<1> DEFINE Alone == \A v, w \in Procs : v = w
<1>1. Alone /\ RInv /\ [Next]_vars => [Undisturbed]_vars
  <2> SUFFICES ASSUME Alone, RInv, [Next]_vars, runs' # runs,
                      NEW w \in Procs, pc[w] = "replace"
               PROVE  pc'[w] = "idle"
    BY DEF Undisturbed
  <2>1. PICK v \in Procs : IngestScan(v) \/ Replace(v)
    BY DEF Next, vars, Change, Scan, Rescan, Walked, LookupNode, LookupNothing, Fail
  <2>2. Finish(v) /\ v = w
    BY <2>1 DEF IngestScan, Replace
  <2> QED
    BY <2>2 DEF Finish, RInv, IInv, Shapes
<1>2. Alone => Alone'
  OBVIOUS
<1> HIDE DEF Alone
<1>3. Alone /\ Spec => [][Undisturbed]_vars
  BY <1>1, <1>2, RowsInvariance, PTL DEF Spec
<1>4. Alone /\ NoWildcards /\ KindsKept /\ Spec => []RollupConsistent
  BY <1>3, TotalsAddUp, PTL
<1> QED
  BY <1>4 DEF Alone
=============================================================================
