--------------------------- MODULE QueriesProofs ---------------------------
(***************************************************************************)
(* What a query says of its result, for any index, any number of writers   *)
(* and any interleaving of their calls with its SQL queries. A row         *)
(* replaced since is of a later run than any that was there                *)
(* (RowsOfLaterRuns): so nothing a tree still has to read is older than    *)
(* its root (TreeInv), what a result holds is what its run wrote           *)
(* (SeenInv), and what hangs from the root is not older than the date      *)
(* (DatedInv). Of a tree made while nothing is recorded, all it has to     *)
(* show is shown or below what it has still to list (HiddenInv), since a   *)
(* directory whose total adds up is no smaller than what is in it          *)
(* (LargerAbove).                                                          *)
(***************************************************************************)
EXTENDS Queries, IndexProofs, FiniteSetTheorems

Base == reader.shown[reader.ask.root].run

TreeStep == [do : {"locate", "list"}, path : Paths, depth : Int]

(* The directories still to be located are, if they are indexed, no older   *)
(* than the root; so is the one located to be listed.                       *)
TreeInv ==
    /\ Asked =>
        DOMAIN reader = {"call", "ask", "since", "id", "date", "status", "shown", "todo"}
    /\ Asked /\ reader.call = "tree" =>
        /\ reader.ask.root \in DOMAIN reader.shown
        /\ Base \in 1..Len(runs)
        /\ \A q \in DOMAIN reader.shown :
              reader.shown[q].run \in Nat /\ reader.shown[q].run >= Base
        /\ reader.id \in Nat
        /\ reader.todo \in Seq(TreeStep)
        /\ \A i \in DOMAIN reader.todo :
              reader.todo[i].path \in Indexed /\ reader.todo[i].do = "locate"
                => rows[reader.todo[i].path].run >= Base
        /\ \A i \in DOMAIN reader.todo :
              reader.todo[i].do = "list" => i = 1 /\ reader.id >= Base

QInv == IInv /\ TreeInv

(* Runs are only ever added.                                                *)
LEMMA RunsOnlyGrow ==
    ASSUME IInv, [Next]_vars
    PROVE  Len(runs) \in Nat /\ Len(runs') \in Nat /\ Len(runs) <= Len(runs')
<1>1. runs \in Seq([root : Paths, status : {"complete", "partial"}])
  BY DEF IInv, Shapes
<1>2. ASSUME NEW w \in Procs, Finish(w), op[w].path \in Paths
      PROVE  Len(runs) \in Nat /\ Len(runs') \in Nat /\ Len(runs) <= Len(runs')
  <2>1. PICK run \in [root : Paths, status : {"complete", "partial"}] :
            runs' = Append(runs, run)
    BY <1>2 DEF Finish, statusFor
  <2> QED
    BY <1>1, <2>1
<1>3. ASSUME NEW w \in Procs, IngestScan(w) \/ Replace(w)
      PROVE  Finish(w) /\ op[w].path \in Paths
  BY <1>3 DEF IngestScan, Replace, IInv, Calls
<1>4. UNCHANGED runs \/ \E w \in Procs : IngestScan(w) \/ Replace(w)
  BY DEF Next, vars, Change, Scan, Rescan, Walked, LookupNode, LookupNothing, Fail
<1>5. CASE UNCHANGED runs
  BY <1>1, <1>5
<1> QED
  BY <1>2, <1>3, <1>4, <1>5

(* A row is the one that was there, but for fields a run does not date, or  *)
(* of the run just recorded.                                                *)
LEMMA RowsOfLaterRuns ==
    ASSUME IInv, [Next]_vars, NEW q \in DOMAIN rows'
    PROVE  \/ q \in Indexed /\ rows'[q].run = rows[q].run
           \/ rows'[q].run = Len(runs) + 1
<1>1. ASSUME UNCHANGED <<rows, runs>> PROVE q \in Indexed /\ rows'[q].run = rows[q].run
  BY <1>1 DEF Indexed
<1>3. ASSUME NEW w \in Procs, IngestScan(w)
      PROVE  \/ q \in Indexed /\ rows'[q].run = rows[q].run
             \/ rows'[q].run = Len(runs) + 1
  <2> DEFINE new == RowsOf(op[w].path, op[w].tree, Null)
  <2>1. rows' = [r \in Indexed \cup DOMAIN new |-> IF r \in DOMAIN new THEN new[r] ELSE rows[r]]
    BY <1>3 DEF IngestScan
  <2>2. CASE q \in DOMAIN new
    <3>1. rows'[q] = new[q]
      BY <2>1, <2>2
    <3>2. new[q].run = NextRun
      BY <2>2 DEF RowsOf
    <3> QED
      BY <3>1, <3>2 DEF NextRun
  <2>3. CASE q \notin DOMAIN new
    <3>1. q \in Indexed /\ rows'[q] = rows[q]
      BY <2>1, <2>3
    <3> QED
      BY <3>1
  <2> QED
    BY <2>2, <2>3
<1>4. ASSUME NEW w \in Procs, Replace(w)
      PROVE  \/ q \in Indexed /\ rows'[q].run = rows[q].run
             \/ rows'[q].run = Len(runs) + 1
  <2> DEFINE p == op[w].path
             new == RowsOf(p, op[w].tree, op[w].parent)
             delta == op[w].tree[p].total - op[w].total
  <2>1. rows' = [r \in Kept(p) \cup DOMAIN new |->
                IF r \in DOMAIN new THEN new[r]
                ELSE IF r \in PropagateTo(p, op[w].parent)
                THEN [rows[r] EXCEPT !.total = @ + delta]
                ELSE rows[r]]
    BY <1>4 DEF Replace
  <2>2. CASE q \in DOMAIN new
    <3>1. rows'[q] = new[q]
      BY <2>1, <2>2
    <3>2. new[q].run = NextRun
      BY <2>2 DEF RowsOf
    <3> QED
      BY <3>1, <3>2 DEF NextRun
  <2>3. CASE q \notin DOMAIN new
    <3>1. q \in Kept(p) /\ q \in Indexed
      BY <2>1, <2>3 DEF Kept
    <3>2. DOMAIN rows[q] = RowFields
      BY <3>1 DEF IInv, Shapes
    <3>3. rows'[q].run = rows[q].run
      BY <2>1, <2>3, <3>1, <3>2 DEF RowFields
    <3> QED
      BY <3>1, <3>3
  <2> QED
    BY <2>2, <2>3
<1> QED
  BY <1>1, <1>3, <1>4 DEF Next, vars, Change, Scan, Rescan, Walked, LookupNode,
                          LookupNothing, Fail

LEMMA WriterStep == ASSUME QInv, Next, UNCHANGED reader PROVE QInv'
<1>1. IInv'
  BY NextIInv DEF QInv
<1>2. \A q \in DOMAIN rows' :
        \/ q \in Indexed /\ rows'[q].run = rows[q].run
        \/ rows'[q].run = Len(runs) + 1
  BY RowsOfLaterRuns DEF QInv
<1>3. Len(runs) \in Nat /\ Len(runs') \in Nat /\ Len(runs) <= Len(runs')
  BY RunsOnlyGrow DEF QInv
<1>4. TreeInv'
  <2> SUFFICES ASSUME Asked, reader.call = "tree" PROVE TreeInv'
    BY DEF QInv, TreeInv, Asked
  <2>1. Base \in 1..Len(runs')
    BY <1>3 DEF QInv, TreeInv
  <2>2. ASSUME NEW i \in DOMAIN reader.todo, reader.todo[i].path \in DOMAIN rows',
               reader.todo[i].do = "locate"
        PROVE  rows'[reader.todo[i].path].run >= Base
    BY <1>2, <2>1, <2>2 DEF QInv, TreeInv, Indexed
  <2> QED
    BY <2>1, <2>2 DEF QInv, TreeInv, Asked, Base, Indexed
<1> QED
  BY <1>1, <1>4 DEF QInv

LEMMA InitQInv == QInit => QInv
  BY InitIInv DEF QInit, QInv, TreeInv, Asked

(* Sequences put together.                                                  *)
LEMMA Sequences ==
    ASSUME NEW S, NEW e \in S, NEW t \in Seq(S)
    PROVE  /\ <<e>> \in Seq(S)
           /\ <<e>> \o t \in Seq(S)
           /\ \A i \in DOMAIN (<<e>> \o t) :
                 \/ i = 1 /\ (<<e>> \o t)[i] = e
                 \/ i # 1 /\ i - 1 \in DOMAIN t /\ (<<e>> \o t)[i] = t[i - 1]
           /\ t # <<>> => /\ 1 \in DOMAIN t /\ Head(t) = t[1] /\ t[1] \in S
                          /\ Tail(t) \in Seq(S)
                          /\ \A i \in DOMAIN Tail(t) :
                                i + 1 \in DOMAIN t /\ i + 1 # 1 /\ Tail(t)[i] = t[i + 1]
  OBVIOUS

LEMMA Concatenated ==
    ASSUME NEW S, NEW n \in Nat, NEW f \in [1..n -> S], NEW t \in Seq(S)
    PROVE  /\ f \o t \in Seq(S)
           /\ \A i \in DOMAIN (f \o t) :
                 \/ i \in 1..n /\ (f \o t)[i] = f[i]
                 \/ i - n \in DOMAIN t /\ (f \o t)[i] = t[i - n]
  OBVIOUS

(* The step at the head of what a tree has left to do.                      *)
LEMMA HeadOfTree ==
    ASSUME TreeInv, Asked, reader.call = "tree", NEW do, Todo(do)
    PROVE  /\ reader.todo \in Seq(TreeStep)
           /\ reader.todo # <<>> /\ 1 \in DOMAIN reader.todo
           /\ Current = reader.todo[1] /\ Current.do = do
           /\ Current \in TreeStep
           /\ Tail(reader.todo) \in Seq(TreeStep)
           /\ \A i \in DOMAIN Tail(reader.todo) :
                 i + 1 \in DOMAIN reader.todo /\ Tail(reader.todo)[i] = reader.todo[i + 1]
           /\ \A i \in DOMAIN Tail(reader.todo) : Tail(reader.todo)[i].do = "locate"
<1>1. /\ reader.todo \in Seq(TreeStep)
      /\ reader.todo # <<>>
  BY DEF TreeInv, Todo
<1>2. /\ 1 \in DOMAIN reader.todo /\ Head(reader.todo) = reader.todo[1]
      /\ reader.todo[1] \in TreeStep
      /\ Tail(reader.todo) \in Seq(TreeStep)
      /\ \A i \in DOMAIN Tail(reader.todo) :
            /\ i + 1 \in DOMAIN reader.todo /\ i + 1 # 1
            /\ Tail(reader.todo)[i] = reader.todo[i + 1]
  <2>1. PICK e \in TreeStep : TRUE
    BY <1>1
  <2> QED
    BY <1>1, <2>1, Sequences
<1>3. Current = reader.todo[1] /\ Current.do = do
  BY <1>2 DEF Current, Todo
<1>4. ASSUME NEW i \in DOMAIN Tail(reader.todo) PROVE Tail(reader.todo)[i].do = "locate"
  <2>1. reader.todo[i + 1] \in TreeStep
    BY <1>1, <1>2
  <2>2. reader.todo[i + 1].do # "list"
    BY <1>2 DEF TreeInv
  <2> QED
    BY <1>2, <2>1, <2>2 DEF TreeStep
<1> QED
  BY <1>1, <1>2, <1>3, <1>4

(* What the rows of the index say of their runs.                            *)
LEMMA RowsHaveRuns ==
    ASSUME IInv
    PROVE  /\ Len(runs) \in Nat
           /\ \A q \in Indexed : q \in Paths /\ rows[q].run \in 1..Len(runs)
                                /\ rows[q].parent <= rows[q].run
<1>1. RunsNested /\ Indexed \subseteq Paths
  BY DEF IInv, Shapes
<1>2. Len(runs) \in Nat
  BY DEF IInv, Shapes
<1> QED
  BY <1>1, <1>2 DEF RunsNested

(* A query of a tree.                                                       *)
LEMMA ReadStep == ASSUME QInv, Read, UNCHANGED vars PROVE QInv'
<1>1. IInv'
  BY NextIInv DEF QInv
<1>2. /\ Len(runs) \in Nat
      /\ \A q \in Indexed : q \in Paths /\ rows[q].run \in 1..Len(runs)
                           /\ rows[q].parent <= rows[q].run
  BY RowsHaveRuns DEF QInv
<1> SUFFICES TreeInv'
  BY <1>1 DEF QInv
<1>3. ASSUME reader' = Idle PROVE TreeInv'
  BY <1>3 DEF TreeInv, Asked
<1>4. ASSUME NEW r \in Requests, Ask(r), r.call = "tree" PROVE TreeInv'
  <2> DEFINE root == r.root
  <2>1. /\ reader'.call = "tree"
        /\ reader'.ask = r /\ reader'.id = rows[root].run
        /\ reader'.shown = [q \in {root} |-> Seen(q, root)] /\ reader'.todo = Plan(r)
        /\ DOMAIN reader' = {"call", "ask", "since", "id", "date", "status", "shown", "todo"}
    BY <1>4 DEF Ask
  <2>2. root \in Indexed /\ root \in Paths
    BY <1>2, <1>4 DEF Ask
  <2>3. DOMAIN reader'.shown = {root} /\ reader'.shown[root].run = rows[root].run
    BY <2>1 DEF Seen
  <2>4. r.depth \in Int
    <3>1. r \in [call : {"tree"}, root : Roots, depth : Depths, min : MinSizes]
      BY <1>4 DEF Requests
    <3>2. r.depth \in Depths
      BY <3>1
    <3>3. Depths \subseteq Nat
      BY QueriesAssumption
    <3>4. r.depth \in Nat
      BY <3>2, <3>3, Zenon
    <3> QED
      BY <3>4
  <2>5. \/ reader'.todo = <<>>
        \/ reader'.todo = <<[do |-> "locate", path |-> root, depth |-> r.depth]>>
    BY <1>4, <2>1, Zenon DEF Plan, Step
  <2>6. rows' = rows /\ runs' = runs /\ Base' = rows[root].run
    BY <2>1, <2>3 DEF vars, Base
  <2>7. reader'.todo \in Seq(TreeStep)
    <3>1. [do |-> "locate", path |-> root, depth |-> r.depth] \in TreeStep
      BY <2>2, <2>4 DEF TreeStep
    <3> HIDE DEF root
    <3>2. <<>> \in Seq(TreeStep)
      OBVIOUS
    <3>3. <<[do |-> "locate", path |-> root, depth |-> r.depth]>> \in Seq(TreeStep)
      BY <3>1, <3>2, Sequences
    <3> QED
      BY <2>5, <3>2, <3>3
  <2>8. \A i \in DOMAIN reader'.todo :
          reader'.todo[i].path = root /\ reader'.todo[i].do = "locate"
    BY <2>5
  <2> QED
    BY <1>2, <2>1, <2>2, <2>3, <2>6, <2>7, <2>8 DEF TreeInv, Indexed
<1>5. ASSUME Asked, reader.call = "tree", Locate PROVE TreeInv'
  <2>0. TreeInv /\ Todo("locate")
    BY <1>5 DEF QInv, Locate
  <2>1. /\ Current.path \in Indexed /\ Current.path \in Paths
        /\ rows[Current.path].run >= Base /\ rows[Current.path].run \in Nat
    BY <1>2, <1>5, <2>0, HeadOfTree DEF Locate, TreeInv
  <2> DEFINE first == [Current EXCEPT !.do = "list"]
             rest == Tail(reader.todo)
  <2>2. /\ reader' = [reader EXCEPT !.id = rows[Current.path].run, !.todo = <<first>> \o rest]
    BY <1>5 DEF Locate
  <2>3. /\ first \in TreeStep
        /\ first.do = "list"
        /\ rest \in Seq(TreeStep)
    <3>1. Current \in TreeStep /\ rest \in Seq(TreeStep)
      BY <1>5, <2>0, HeadOfTree
    <3> QED
      BY <3>1 DEF TreeStep
  <2>4. /\ <<first>> \o rest \in Seq(TreeStep)
        /\ \A i \in DOMAIN (<<first>> \o rest) :
              \/ i = 1 /\ (<<first>> \o rest)[i] = first
              \/ i # 1 /\ i - 1 \in DOMAIN rest /\ (<<first>> \o rest)[i] = rest[i - 1]
    BY <2>3, Sequences
  <2>5. /\ DOMAIN reader' = DOMAIN reader
        /\ reader'.id = rows[Current.path].run
        /\ reader'.todo = <<first>> \o rest
        /\ reader'.ask = reader.ask /\ reader'.shown = reader.shown
    BY <1>5, <2>0, <2>2 DEF TreeInv
  <2>6. ASSUME NEW i \in DOMAIN reader'.todo
        PROVE  /\ reader'.todo[i].path \in Indexed /\ reader'.todo[i].do = "locate"
                    => rows[reader'.todo[i].path].run >= Base
               /\ reader'.todo[i].do = "list" => i = 1
    <3>1. CASE i = 1 /\ reader'.todo[i] = first
      BY <2>3, <3>1
    <3>2. CASE i # 1 /\ i - 1 \in DOMAIN rest /\ reader'.todo[i] = rest[i - 1]
      <4>1. /\ rest[i - 1].do = "locate"
            /\ \E j \in DOMAIN reader.todo : rest[i - 1] = reader.todo[j]
        BY <1>5, <2>0, <3>2, HeadOfTree
      <4> QED
        BY <1>5, <2>0, <3>2, <4>1 DEF TreeInv
    <3> QED
      BY <2>4, <2>5, <2>6, <3>1, <3>2
  <2>7. rows' = rows /\ runs' = runs /\ Base' = Base
    BY <2>5 DEF vars, Base
  <2> QED
    BY <1>5, <2>0, <2>1, <2>4, <2>5, <2>6, <2>7 DEF TreeInv, Indexed
<1>6. ASSUME Asked, reader.call = "tree", List PROVE TreeInv'
  <2> DEFINE d    == Current.path
             root == reader.ask.root
             kept == {c \in RowsWithParent(d, reader.id) : Large(c, reader.ask.min)}
             dirs == {c \in kept : rows[c].kind = "dir" /\ Current.depth > 1}
             rest == Tail(reader.todo)
             n    == Cardinality(dirs)
  <2>0. TreeInv /\ Todo("list")
    BY <1>6 DEF QInv, List
  <2>1. PICK order \in SetToSeqs(dirs) :
          reader' = [reader EXCEPT
             !.shown = AddTo(@, kept),
             !.todo = [i \in DOMAIN order |-> Step("locate", order[i], Current.depth - 1)] \o rest]
    BY <1>6 DEF List
  <2> DEFINE steps == [i \in DOMAIN order |-> Step("locate", order[i], Current.depth - 1)]
  <2>2. /\ Current \in TreeStep /\ rest \in Seq(TreeStep)
        /\ \A i \in DOMAIN rest :
              rest[i].do = "locate" /\ \E j \in DOMAIN reader.todo : rest[i] = reader.todo[j]
        /\ reader.id \in Nat /\ reader.id >= Base
    <3>1. /\ 1 \in DOMAIN reader.todo /\ Current = reader.todo[1] /\ Current.do = "list"
          /\ Current \in TreeStep /\ rest \in Seq(TreeStep)
          /\ \A i \in DOMAIN rest :
                rest[i].do = "locate" /\ \E j \in DOMAIN reader.todo : rest[i] = reader.todo[j]
      BY <1>6, <2>0, HeadOfTree
    <3> QED
      BY <1>6, <2>0, <3>1 DEF TreeInv
  <2>3. \A c \in kept : c \in Indexed /\ c \in Paths /\ rows[c].run \in Nat /\ rows[c].run >= Base
    <3> SUFFICES ASSUME NEW c \in kept
                 PROVE  c \in Indexed /\ c \in Paths /\ rows[c].run \in Nat /\ rows[c].run >= Base
      OBVIOUS
    <3>1. c \in Indexed /\ rows[c].parent = reader.id
      BY DEF RowsWithParent
    <3>2. Base \in Nat
      BY <1>6, <2>0 DEF TreeInv
    <3> QED
      BY <1>2, <2>2, <3>1, <3>2
  <2>4. n \in Nat /\ order \in [1..n -> dirs]
    <3>1. IsFiniteSet(Indexed)
      BY <1>2, IndexAssumption, FS_Subset
    <3>2. dirs \subseteq Indexed
      BY DEF RowsWithParent
    <3>3. n \in Nat
      BY <3>1, <3>2, FS_Subset, FS_CardinalityType
    <3> QED
      BY <2>1, <3>3 DEF SetToSeqs
  <2>5. steps \in [1..n -> TreeStep]
    <3>1. ASSUME NEW i \in 1..n
          PROVE  Step("locate", order[i], Current.depth - 1) \in TreeStep
      BY <2>2, <2>3, <2>4, <3>1 DEF Step, TreeStep
    <3> QED
      BY <2>4, <3>1
  <2>6. /\ DOMAIN reader' = DOMAIN reader
        /\ reader'.id = reader.id /\ reader'.ask = reader.ask
        /\ reader'.todo = steps \o rest
        /\ reader'.shown = AddTo(reader.shown, kept)
    BY <1>6, <2>0, <2>1 DEF TreeInv
  <2>7. /\ steps \o rest \in Seq(TreeStep)
        /\ \A i \in DOMAIN (steps \o rest) :
              \/ i \in 1..n /\ (steps \o rest)[i] = steps[i]
              \/ i - n \in DOMAIN rest /\ (steps \o rest)[i] = rest[i - n]
    <3> HIDE DEF steps, rest, n
    <3> QED
      BY <2>2, <2>4, <2>5, Concatenated
  <2>8. ASSUME NEW i \in DOMAIN reader'.todo
        PROVE  /\ reader'.todo[i].path \in Indexed /\ reader'.todo[i].do = "locate"
                    => rows[reader'.todo[i].path].run >= Base
               /\ reader'.todo[i].do # "list"
    <3>1. CASE i \in 1..n /\ reader'.todo[i] = steps[i]
      <4>1. reader'.todo[i] = Step("locate", order[i], Current.depth - 1) /\ order[i] \in kept
        BY <2>4, <3>1
      <4> QED
        BY <2>3, <4>1 DEF Step
    <3>2. CASE i - n \in DOMAIN rest /\ reader'.todo[i] = rest[i - n]
      <4> HIDE DEF n, rest
      <4>1. reader'.todo[i].do = "locate" /\ \E j \in DOMAIN reader.todo : reader'.todo[i] = reader.todo[j]
        BY <2>2, <3>2
      <4> QED
        BY <1>6, <2>0, <4>1 DEF TreeInv
    <3> QED
      BY <2>6, <2>7, <2>8, <3>1, <3>2
  <2>9. root \in DOMAIN reader.shown
    BY <1>6, <2>0 DEF TreeInv
  <2>10. /\ DOMAIN reader'.shown = DOMAIN reader.shown \cup kept
         /\ \A q \in DOMAIN reader.shown : reader'.shown[q] = reader.shown[q]
         /\ \A q \in kept \ DOMAIN reader.shown : reader'.shown[q].run = rows[q].run
    <3> HIDE DEF kept
    <3> QED
      BY <2>6 DEF AddTo, Seen
  <2>11. rows' = rows /\ runs' = runs /\ Base' = Base
    BY <2>6, <2>9, <2>10 DEF vars, Base
  <2>12. \A q \in DOMAIN reader'.shown :
            reader'.shown[q].run \in Nat /\ reader'.shown[q].run >= Base
    <3> HIDE DEF kept
    <3> QED
      BY <1>6, <2>0, <2>3, <2>10 DEF TreeInv
  <2> HIDE DEF steps, rest, n, kept
  <2> QED
    BY <1>6, <2>0, <2>2, <2>6, <2>7, <2>8, <2>9, <2>10, <2>11, <2>12 DEF TreeInv, Indexed
<1>7. ASSUME Asked, reader.call = "tree" PROVE ~Row_ /\ ~Run_ /\ ~Known /\ ~Top
  <2>1. ASSUME NEW do \in {"row", "run", "known", "top"}, Todo(do) PROVE FALSE
    <3>1. TreeInv
      BY DEF QInv
    <3>2. Current.do = do /\ Current \in TreeStep
      BY <1>7, <2>1, <3>1, HeadOfTree
    <3> QED
      BY <3>2 DEF TreeStep
  <2> QED
    BY <2>1 DEF Row_, Run_, Known, Top
<1>8. ASSUME NEW r \in Requests, Ask(r), r.call # "tree" PROVE TreeInv'
  BY <1>8 DEF Ask, TreeInv
<1>9. ASSUME Asked, reader.call # "tree", Row_ \/ Run_ \/ Known \/ Top \/ Locate \/ List
      PROVE  TreeInv'
  <2>1. /\ DOMAIN reader = {"call", "ask", "since", "id", "date", "status", "shown", "todo"}
        /\ DOMAIN reader' = DOMAIN reader
        /\ reader'.call = reader.call
    <3>1. DOMAIN reader = {"call", "ask", "since", "id", "date", "status", "shown", "todo"}
      BY <1>9 DEF QInv, TreeInv
    <3> QED
      BY <1>9, <3>1 DEF Row_, Run_, Known, Top, Locate, List
  <2> QED
    BY <1>9, <2>1 DEF TreeInv
<1> QED
  BY <1>3, <1>4, <1>5, <1>6, <1>7, <1>8, <1>9
     DEF Read, Abandon, Answer, Row_, Run_, Known, Top, Locate, List, Todo

(* The invariant of the readers and the writers together.                   *)
THEOREM QueriesInvariance == QSpec => [](QInv /\ RInv)
<1>1. QInv /\ RInv /\ [QNext]_qvars => QInv' /\ RInv'
  <2>1. ASSUME QInv, UNCHANGED qvars PROVE QInv'
    <3>1. IInv'
      BY <2>1, NextIInv DEF QInv, qvars, vars
    <3>2. TreeInv'
      BY <2>1 DEF QInv, TreeInv, Asked, Base, Indexed, qvars
    <3> QED
      BY <3>1, <3>2 DEF QInv
  <2>2. ASSUME [QNext]_qvars PROVE [Next]_vars
    BY <2>2 DEF QNext, qvars, vars
  <2> QED
    BY <2>1, <2>2, WriterStep, ReadStep, NextRInv DEF QNext
<1> QED
  BY InitQInv, InitRInv, <1>1, PTL DEF QSpec, QInit

(* Nothing a tree shows was measured before its root, whatever any number   *)
(* of processes scan and rescan between the queries that build it           *)
(* (tree.go:38-77, query.go:79-108).                                        *)
THEOREM TreesNotOlder == QSpec => []TreeNotOlder
<1>1. QInv => TreeNotOlder
  BY DEF QInv, TreeInv, TreeNotOlder, Base
<1> QED
  BY <1>1, QueriesInvariance, PTL

-----------------------------------------------------------------------------
(* The run that dates a result                                              *)

(* What is shown was recorded by a run, and is complete if that run is; the *)
(* status is that of the run of the date.                                   *)
SeenInv ==
    Asked =>
      /\ reader.id \in 1..Len(runs)
      /\ \A q \in DOMAIN reader.shown :
           /\ reader.shown[q].run \in 1..Len(runs)
           /\ runs[reader.shown[q].run].status = "complete"
                => reader.shown[q].state \in {"", "complete"}
      /\ reader.status = "complete" =>
           reader.date \in 1..Len(runs) /\ runs[reader.date].status = "complete"

(* Runs stay as they were recorded, and rows change only with a new one.    *)
LEMMA RunsAreKept ==
    ASSUME IInv, [Next]_vars
    PROVE  /\ Len(runs) \in Nat /\ Len(runs') \in Nat /\ Len(runs) <= Len(runs')
           /\ \A i \in 1..Len(runs) : runs'[i] = runs[i]
           /\ Len(runs') = Len(runs) => rows' = rows
<1>1. runs \in Seq([root : Paths, status : {"complete", "partial"}])
  BY DEF IInv, Shapes
<1>2. ASSUME NEW w \in Procs, IngestScan(w) \/ Replace(w)
      PROVE  /\ Len(runs') = Len(runs) + 1
             /\ \A i \in 1..Len(runs) : runs'[i] = runs[i]
  <2>1. PICK new : runs' = Append(runs, new)
    BY <1>2 DEF IngestScan, Replace, Finish
  <2> QED
    BY <1>1, <2>1
<1>3. UNCHANGED <<rows, runs>> \/ \E w \in Procs : IngestScan(w) \/ Replace(w)
  BY DEF Next, vars, Change, Scan, Rescan, Walked, LookupNode, LookupNothing, Fail
<1> QED
  BY <1>1, <1>2, <1>3, RunsOnlyGrow

LEMMA SeenRow ==
    ASSUME RInv, NEW q \in Indexed, NEW root
    PROVE  /\ Seen(q, root).run = rows[q].run
           /\ Seen(q, root).run \in 1..Len(runs)
           /\ runs[Seen(q, root).run].status = "complete"
                => Seen(q, root).state \in {"", "complete"}
           /\ Seen(q, root).linked => q = root \/ q \in Linked(root)
  BY DEF Seen, RInv, CompleteRuns, IInv, RunsNested

(* What a query after the first changes of the reader.                      *)
Queried ==
    /\ Asked' /\ DOMAIN reader' = DOMAIN reader
    /\ reader'.call = reader.call /\ reader'.ask = reader.ask /\ reader'.since = reader.since
    /\ \/ reader'.id = reader.id
       \/ /\ Todo("row") \/ Todo("locate")
          /\ Current.path \in Indexed /\ reader'.id = rows[Current.path].run
    /\ \/ reader'.date = reader.date /\ reader'.status = reader.status
       \/ /\ Todo("run")
          /\ reader'.date = reader.id /\ reader'.status = runs[reader.id].status
    /\ \E S \in SUBSET Indexed :
         /\ DOMAIN reader'.shown = DOMAIN reader.shown \cup S
         /\ \A q \in DOMAIN reader.shown : reader'.shown[q] = reader.shown[q]
         /\ \A q \in S \ DOMAIN reader.shown : reader'.shown[q] = Seen(q, reader.ask.root)

LEMMA ReaderStep ==
    ASSUME QInv, Row_ \/ Run_ \/ Known \/ Top \/ Locate \/ List
    PROVE  /\ Asked /\ Queried
           /\ Row_ \/ Run_ \/ Known \/ Top => reader'.todo = Tail(reader.todo)
<1>0. Asked
  BY DEF Row_, Run_, Known, Top, Locate, List, Todo
<1>1. DOMAIN reader = {"call", "ask", "since", "id", "date", "status", "shown", "todo"}
  BY <1>0 DEF QInv, TreeInv
<1>2. DOMAIN Idle = {"call"}
  BY DEF Idle
<1>3. DOMAIN reader' = DOMAIN reader
  BY <1>1 DEF Row_, Run_, Known, Top, Locate, List
<1>4. Asked'
  BY <1>1, <1>2, <1>3 DEF Asked
<1>5. ASSUME NEW S, S \subseteq Indexed, reader'.shown = AddTo(reader.shown, S)
      PROVE  \E T \in SUBSET Indexed :
               /\ DOMAIN reader'.shown = DOMAIN reader.shown \cup T
               /\ \A q \in DOMAIN reader.shown : reader'.shown[q] = reader.shown[q]
               /\ \A q \in T \ DOMAIN reader.shown : reader'.shown[q] = Seen(q, reader.ask.root)
  <2>1. /\ DOMAIN reader'.shown = DOMAIN reader.shown \cup S
        /\ \A q \in DOMAIN reader.shown : reader'.shown[q] = reader.shown[q]
        /\ \A q \in S \ DOMAIN reader.shown : reader'.shown[q] = Seen(q, reader.ask.root)
    BY <1>5 DEF AddTo
  <2> QED
    BY <1>5, <2>1
<1>6. ASSUME reader'.shown = reader.shown
      PROVE  \E T \in SUBSET Indexed :
               /\ DOMAIN reader'.shown = DOMAIN reader.shown \cup T
               /\ \A q \in DOMAIN reader.shown : reader'.shown[q] = reader.shown[q]
               /\ \A q \in T \ DOMAIN reader.shown : reader'.shown[q] = Seen(q, reader.ask.root)
  <2>1. {} \in SUBSET Indexed /\ DOMAIN reader'.shown = DOMAIN reader.shown \cup {}
    BY <1>6
  <2> QED
    BY <1>6, <2>1
<1>7. CASE Row_
  BY <1>0, <1>1, <1>3, <1>4, <1>6, <1>7 DEF Row_, Queried
<1>8. CASE Run_
  BY <1>0, <1>1, <1>3, <1>4, <1>6, <1>8 DEF Run_, Queried
<1>9. CASE Known
  <2>1. reader'.shown = AddTo(reader.shown, {Current.path} \cap Indexed)
    BY <1>1, <1>9 DEF Known
  <2> QED
    BY <1>0, <1>1, <1>3, <1>4, <1>5, <1>9, <2>1 DEF Known, Queried
<1>10. CASE Top
  <2>1. PICK S \in SUBSET {q \in Indexed \cap (Below[reader.ask.root] \cup LikeAlso[reader.ask.root]) :
                             Kind \in {"", rows[q].kind}} :
          reader' = [reader EXCEPT !.shown = AddTo(@, S), !.todo = Tail(@)]
    BY <1>10 DEF Top
  <2>2. S \subseteq Indexed /\ reader'.shown = AddTo(reader.shown, S)
    BY <1>1, <2>1
  <2> QED
    BY <1>0, <1>1, <1>3, <1>4, <1>5, <2>1, <2>2 DEF Queried
<1>11. CASE Locate
  BY <1>0, <1>1, <1>3, <1>4, <1>6, <1>11 DEF Locate, Queried, Row_, Run_, Known, Top, Todo
<1>12. CASE List
  <2> DEFINE kept == {c \in RowsWithParent(Current.path, reader.id) : Large(c, reader.ask.min)}
  <2>1. reader'.shown = AddTo(reader.shown, kept) /\ kept \subseteq Indexed
    BY <1>1, <1>12 DEF List, RowsWithParent
  <2>2. reader'.id = reader.id /\ reader'.date = reader.date /\ reader'.status = reader.status
        /\ reader'.call = reader.call /\ reader'.ask = reader.ask /\ reader'.since = reader.since
    BY <1>1, <1>12 DEF List
  <2> HIDE DEF kept
  <2> QED
    BY <1>0, <1>3, <1>4, <1>5, <1>12, <2>1, <2>2 DEF Queried, List, Row_, Run_, Known, Top, Todo
<1> QED
  BY <1>7, <1>8, <1>9, <1>10, <1>11, <1>12

LEMMA NextSeen == QInv /\ RInv /\ SeenInv /\ [QNext]_qvars => SeenInv'
<1> SUFFICES ASSUME QInv, RInv, SeenInv, [QNext]_qvars PROVE SeenInv'
  OBVIOUS
<1>1. CASE UNCHANGED reader /\ [Next]_vars
  <2>1. /\ Len(runs) \in Nat /\ Len(runs') \in Nat /\ Len(runs) <= Len(runs')
        /\ \A i \in 1..Len(runs) : i \in 1..Len(runs') /\ runs'[i] = runs[i]
    BY <1>1, RunsAreKept DEF QInv
  <2> QED
    BY <1>1, <2>1 DEF SeenInv, Asked
<1>2. ASSUME UNCHANGED vars, reader' = Idle PROVE SeenInv'
  BY <1>2 DEF SeenInv, Asked
<1>3. ASSUME UNCHANGED vars, NEW r \in Requests, Ask(r) PROVE SeenInv'
  <2> DEFINE root == r.root
             first == IF r.call \in {"tree", "summary"} THEN {root} ELSE {}
  <2>1. /\ root \in Indexed
        /\ reader'.id = rows[root].run /\ reader'.status = ""
        /\ DOMAIN reader'.shown = first
        /\ \A q \in first : reader'.shown[q] = Seen(q, root)
    BY <1>3 DEF Ask
  <2>2. rows[root].run \in 1..Len(runs)
    BY <2>1 DEF RInv, IInv, RunsNested
  <2>3. ASSUME NEW q \in DOMAIN reader'.shown
        PROVE  /\ reader'.shown[q].run \in 1..Len(runs)
               /\ runs[reader'.shown[q].run].status = "complete"
                    => reader'.shown[q].state \in {"", "complete"}
    <3>1. q \in Indexed /\ reader'.shown[q] = Seen(q, root)
      BY <2>1
    <3> QED
      BY <3>1, SeenRow
  <2> HIDE DEF first, root
  <2> QED
    BY <1>3, <2>1, <2>2, <2>3 DEF SeenInv, vars
<1>4. ASSUME UNCHANGED vars, Row_ \/ Run_ \/ Known \/ Top \/ Locate \/ List PROVE SeenInv'
  <2>1. Asked /\ Queried
    BY <1>4, ReaderStep
  <2>2. \A q \in Indexed : rows[q].run \in 1..Len(runs)
    BY DEF RInv, IInv, RunsNested
  <2>3. reader'.id \in 1..Len(runs)
    BY <2>1, <2>2 DEF Queried, SeenInv
  <2>4. reader'.status = "complete" =>
           reader'.date \in 1..Len(runs) /\ runs[reader'.date].status = "complete"
    BY <2>1 DEF Queried, SeenInv
  <2>5. ASSUME NEW q \in DOMAIN reader'.shown
        PROVE  /\ reader'.shown[q].run \in 1..Len(runs)
               /\ runs[reader'.shown[q].run].status = "complete"
                    => reader'.shown[q].state \in {"", "complete"}
    <3>1. CASE q \in DOMAIN reader.shown
      BY <2>1, <3>1 DEF Queried, SeenInv
    <3>2. CASE q \notin DOMAIN reader.shown
      <4>1. q \in Indexed /\ reader'.shown[q] = Seen(q, reader.ask.root)
        BY <2>1, <2>5, <3>2 DEF Queried
      <4> QED
        BY <4>1, SeenRow
    <3> QED
      BY <3>1, <3>2
  <2> QED
    BY <1>4, <2>3, <2>4, <2>5 DEF SeenInv, vars
<1> QED
  BY <1>1, <1>2, <1>3, <1>4 DEF QNext, qvars, vars, Read, Abandon, Answer

-----------------------------------------------------------------------------
(* The age of a result                                                      *)

(* The steps of a call: its row is read at its own path.                    *)
DoOf(call) == CASE call = "tree"    -> {"locate", "list"}
                [] call = "summary" -> {"run", "known"}
                [] call = "largest" -> {"top"}
                [] call = "report"  -> {"known", "top", "row", "run"}

CallStep(call, root) ==
    {s \in [do : DoOf(call), path : Paths, depth : Int] : s.do = "row" => s.path = root}

(* Nothing was recorded since a report was begun; a summary does not care.  *)
Dated ==
    \/ reader.call = "summary"
    \/ reader.call = "report" /\ Len(runs) = reader.since

(* The run a summary or an undisturbed report is dated by is the root's     *)
(* when the call was made, and nothing shown that hangs from it is older.   *)
DatedInv ==
    Asked =>
      /\ reader.call \in {"tree", "summary", "largest", "report"}
      /\ reader.ask.root \in Paths
      /\ reader.todo \in Seq(CallStep(reader.call, reader.ask.root))
      /\ reader.since \in Nat /\ reader.since <= Len(runs)
      /\ reader.call \in {"tree", "largest"} => reader.date = Null
      /\ Dated =>
           /\ reader.date \in {Null, reader.id}
           /\ reader.ask.root \in Indexed => rows[reader.ask.root].run >= reader.id
           /\ reader.call = "report" =>
                reader.ask.root \in Indexed /\ rows[reader.ask.root].run = reader.id
           /\ \A q \in DOMAIN reader.shown :
                reader.shown[q].linked => reader.shown[q].run >= reader.id

(* What hangs from a row is not older than it.                              *)
LEMMA LinkedNotOlder ==
    ASSUME RInv, NEW p \in Paths, NEW q \in Linked(p)
    PROVE  p \in Indexed /\ rows[q].run >= rows[p].run
<1> DEFINE Good(a) == p \in Indexed /\ rows[a].run >= rows[p].run
           A == {a \in Below[p] : (a = q \/ q \in Below[a]) /\ ~Good(a)}
<1>0. \A r \in Indexed : rows[r].run \in Nat /\ rows[r].parent \in Nat
                         /\ rows[r].parent <= rows[r].run
  BY DEF RInv, RowTypes, Row, IInv, RunsNested
<1>1. /\ q \in Indexed /\ q \in Below[p]
      /\ \A a \in Below[p] : (a = q \/ q \in Below[a]) =>
            a \in Indexed /\ rows[a].parent # Null
  BY DEF Linked
<1>2. ASSUME A # {} PROVE FALSE
  <2>1. A \in SUBSET Paths
    BY IndexAssumption
  <2>2. PICK a \in A : \A b \in A : a \notin Below[b]
    <3> HIDE DEF A
    <3> QED
      BY <1>2, <2>1, TopMost
  <2>3. a \in Below[p] /\ a \in Indexed /\ rows[a].parent # Null /\ a \in Paths
    BY <1>1, <2>1, <2>2
  <2>4. /\ ParentOf[a] \in Indexed /\ ParentOf[a] \in Paths
        /\ rows[ParentOf[a]].run = rows[a].parent
    BY <2>3 DEF RInv, IInv, ParentsExist, Shapes
  <2>5. CASE ParentOf[a] = p
    BY <1>0, <2>2, <2>3, <2>4, <2>5
  <2>6. CASE ParentOf[a] # p
    <3>1. ParentOf[a] \in Below[p] /\ a \in Below[ParentOf[a]]
      BY <2>3, <2>4, <2>6, EntriesBelow, IndexAssumption
    <3>2. q \in Below[ParentOf[a]]
      BY <2>2, <2>4, <3>1, IndexAssumption
    <3>3. Good(ParentOf[a])
      BY <2>2, <3>1, <3>2
    <3> QED
      BY <1>0, <2>2, <2>3, <2>4, <3>3
  <2> QED
    BY <2>5, <2>6
<1> QED
  BY <1>1, <1>2

(* A row is never replaced by an older one.                                 *)
LEMMA WriterDated ==
    ASSUME RInv, DatedInv, SeenInv, [Next]_vars, UNCHANGED reader
    PROVE  DatedInv'
<1> SUFFICES ASSUME Asked PROVE DatedInv'
  BY DEF DatedInv, Asked
<1>1. /\ Len(runs) \in Nat /\ Len(runs') \in Nat /\ Len(runs) <= Len(runs')
      /\ Len(runs') = Len(runs) => rows' = rows
  BY RunsAreKept DEF RInv
<1>2. \A q \in DOMAIN rows' :
        \/ q \in Indexed /\ rows'[q].run = rows[q].run
        \/ rows'[q].run = Len(runs) + 1
  BY RowsOfLaterRuns DEF RInv
<1>3. reader.since \in Nat /\ reader.since <= Len(runs) /\ reader.id \in 1..Len(runs)
  BY DEF DatedInv, SeenInv
<1>4. Dated' => Dated
  BY <1>1, <1>3 DEF Dated
<1>5. ASSUME Dated', reader.ask.root \in DOMAIN rows'
      PROVE  rows'[reader.ask.root].run >= reader.id
  BY <1>1, <1>2, <1>3, <1>4, <1>5 DEF DatedInv
<1>6. ASSUME Dated', reader.call = "report"
      PROVE  reader.ask.root \in DOMAIN rows' /\ rows'[reader.ask.root].run = reader.id
  <2>1. rows' = rows
    BY <1>1, <1>3, <1>6 DEF Dated
  <2> QED
    BY <1>4, <1>6, <2>1 DEF DatedInv, Indexed
<1> QED
  BY <1>1, <1>3, <1>4, <1>5, <1>6 DEF DatedInv, Asked, Indexed

(* The steps a call begins with.                                            *)
LEMMA KnownStepsType ==
    ASSUME NEW p \in Paths, NEW S, \A q \in Paths : Step("known", q, 0) \in S
    PROVE  KnownSteps(p) \in Seq(S)
<1> DEFINE T == KnownPaths \cap ({p} \cup Below[p])
           n == Cardinality(T)
           at == SetToSeq(T)
<1>1. T \subseteq Paths /\ IsFiniteSet(T)
  <2>1. T \subseteq Paths
    BY QueriesAssumption
  <2>2. IsFiniteSet(Paths)
    BY IndexAssumption
  <2> HIDE DEF T
  <2> QED
    BY <2>1, <2>2, FS_Subset
<1> HIDE DEF T
<1>2. n \in Nat /\ \E f \in [1..n -> T] : IsInjective(f)
  BY <1>1, FS_CardinalityType
     DEF ExistsBijection, Bijection, Injection, IsInjective
<1>3. at \in [1..n -> T]
  BY <1>2 DEF SetToSeq
<1>4. [i \in DOMAIN at |-> Step("known", at[i], 0)] \in [1..n -> S]
  BY <1>1, <1>3
<1>5. KnownSteps(p) = [i \in DOMAIN at |-> Step("known", at[i], 0)]
  BY DEF KnownSteps, T
<1> QED
  BY <1>2, <1>4, <1>5

LEMMA Joined ==
    ASSUME NEW S, NEW s \in Seq(S), NEW t \in Seq(S)
    PROVE  s \o t \in Seq(S)
  OBVIOUS

LEMMA PlanType ==
    ASSUME NEW r \in Requests
    PROVE  /\ r.root \in Paths /\ r.call \in {"tree", "summary", "largest", "report"}
           /\ Plan(r) \in Seq(CallStep(r.call, r.root))
<1> DEFINE S == CallStep(r.call, r.root)
<1>1. r.root \in Paths /\ r.call \in {"tree", "summary", "largest", "report"}
  BY QueriesAssumption DEF Requests
<1>2. <<>> \in Seq(S) /\ \A s \in S : <<s>> \in Seq(S)
  OBVIOUS
<1>3. ASSUME NEW do \in DoOf(r.call), NEW n \in Int PROVE Step(do, r.root, n) \in S
  BY <1>1, <1>3 DEF Step, CallStep
<1>4. CASE r.call = "tree"
  <2>1. r.depth \in Int
    <3>1. r.depth \in Depths
      BY <1>4 DEF Requests
    <3>2. Depths \subseteq Nat
      BY QueriesAssumption
    <3>3. r.depth \in Nat
      BY <3>1, <3>2, Zenon
    <3> QED
      BY <3>3
  <2>2. Step("locate", r.root, r.depth) \in S
    BY <1>3, <1>4, <2>1 DEF DoOf
  <2>3. Plan(r) \in {<<>>, <<Step("locate", r.root, r.depth)>>}
    BY <1>4 DEF Plan
  <2> HIDE DEF S
  <2> QED
    BY <1>1, <1>2, <2>2, <2>3 DEF S
<1>5. CASE r.call \in {"summary", "report"}
  <2>1. KnownSteps(r.root) \in Seq(S)
    <3>1. \A q \in Paths : Step("known", q, 0) \in S
      BY <1>5 DEF Step, CallStep, DoOf
    <3> HIDE DEF S
    <3> QED
      BY <1>1, <3>1, KnownStepsType
  <2>2. CASE r.call = "summary"
    <3>1. Step("run", r.root, 0) \in S
      BY <1>3, <2>2 DEF DoOf
    <3>2. Plan(r) = <<Step("run", r.root, 0)>> \o KnownSteps(r.root)
      BY <2>2 DEF Plan
    <3>3. <<Step("run", r.root, 0)>> \in Seq(S)
      BY <1>2, <3>1
    <3> HIDE DEF S
    <3>4. Plan(r) \in Seq(S)
      BY <2>1, <3>2, <3>3, Joined
    <3> QED
      BY <1>1, <3>4 DEF S
  <2>3. CASE r.call = "report"
    <3>1. Step("top", r.root, 0) \in S /\ Step("row", r.root, 0) \in S
          /\ Step("run", r.root, 0) \in S
      BY <1>3, <2>3 DEF DoOf
    <3>2. Plan(r) = KnownSteps(r.root) \o <<Step("top", r.root, 0)>> \o FreshnessSteps(r.root)
      BY <2>3 DEF Plan
    <3>3. FreshnessSteps(r.root) \in Seq(S) /\ <<Step("top", r.root, 0)>> \in Seq(S)
      BY <3>1 DEF FreshnessSteps
    <3> HIDE DEF S
    <3>4. KnownSteps(r.root) \o <<Step("top", r.root, 0)>> \in Seq(S)
      BY <2>1, <3>3, Joined
    <3>5. Plan(r) \in Seq(S)
      BY <3>2, <3>3, <3>4, Joined
    <3> QED
      BY <1>1, <3>5 DEF S
  <2> QED
    BY <1>5, <2>2, <2>3
<1>6. CASE r.call = "largest"
  <2>1. Step("top", r.root, 0) \in S
    BY <1>3, <1>6 DEF DoOf
  <2>2. Plan(r) = <<Step("top", r.root, 0)>>
    BY <1>6 DEF Plan
  <2> QED
    BY <1>1, <1>2, <2>1, <2>2
<1> QED
  BY <1>1, <1>4, <1>5, <1>6

(* A call's next step.                                                      *)
LEMMA HeadOfCall ==
    ASSUME DatedInv, Asked, NEW do, Todo(do)
    PROVE  /\ Current \in CallStep(reader.call, reader.ask.root) /\ Current.do = do
           /\ do \in DoOf(reader.call)
           /\ Tail(reader.todo) \in Seq(CallStep(reader.call, reader.ask.root))
<1> DEFINE S == CallStep(reader.call, reader.ask.root)
<1>1. reader.todo \in Seq(S) /\ reader.todo # <<>>
  BY DEF DatedInv, Todo
<1>2. Head(reader.todo) \in S /\ Tail(reader.todo) \in Seq(S)
  <2> HIDE DEF S
  <2> QED
    BY <1>1
<1>3. Current.do = do /\ Current \in S
  BY <1>2 DEF Current, Todo
<1> QED
  BY <1>2, <1>3 DEF CallStep

(* A query after the first leaves steps of its call to do.                  *)
LEMMA TodoType ==
    ASSUME QInv, DatedInv, Row_ \/ Run_ \/ Known \/ Top \/ Locate \/ List
    PROVE  reader'.todo \in Seq(CallStep(reader.call, reader.ask.root))
<1> DEFINE S == CallStep(reader.call, reader.ask.root)
           rest == Tail(reader.todo)
<1>1. Asked
  BY ReaderStep
<1>2. DOMAIN reader = {"call", "ask", "since", "id", "date", "status", "shown", "todo"}
  BY <1>1 DEF QInv, TreeInv
<1>3. CASE Row_ \/ Run_ \/ Known \/ Top
  <2>1. reader'.todo = rest
    BY <1>3, ReaderStep
  <2>2. \E do : Todo(do)
    BY <1>3 DEF Row_, Run_, Known, Top
  <2> QED
    BY <1>1, <2>1, <2>2, HeadOfCall
<1>4. CASE Locate
  <2>1. /\ Current \in S /\ Current.do = "locate" /\ "locate" \in DoOf(reader.call)
        /\ rest \in Seq(S)
    BY <1>1, <1>4, HeadOfCall DEF Locate
  <2>2. reader.call = "tree"
    BY <1>1, <2>1 DEF DatedInv, DoOf
  <2>3. [Current EXCEPT !.do = "list"] \in S
    BY <2>1, <2>2 DEF CallStep, DoOf
  <2>4. reader'.todo = <<[Current EXCEPT !.do = "list"]>> \o rest
    BY <1>2, <1>4 DEF Locate
  <2> HIDE DEF S
  <2>5. <<[Current EXCEPT !.do = "list"]>> \o rest \in Seq(S)
    BY <2>1, <2>3, Sequences
  <2> QED
    BY <2>4, <2>5 DEF S
<1>5. CASE List
  <2>1. /\ Current \in S /\ Current.do = "list" /\ "list" \in DoOf(reader.call)
        /\ rest \in Seq(S)
    BY <1>1, <1>5, HeadOfCall DEF List
  <2>2. reader.call = "tree"
    BY <1>1, <2>1 DEF DatedInv, DoOf
  <2> DEFINE kept == {c \in RowsWithParent(Current.path, reader.id) : Large(c, reader.ask.min)}
             dirs == {c \in kept : rows[c].kind = "dir" /\ Current.depth > 1}
             n    == Cardinality(dirs)
  <2>3. PICK order \in SetToSeqs(dirs) :
          reader' = [reader EXCEPT
             !.shown = AddTo(@, kept),
             !.todo = [i \in DOMAIN order |-> Step("locate", order[i], Current.depth - 1)] \o rest]
    BY <1>5 DEF List
  <2> DEFINE steps == [i \in DOMAIN order |-> Step("locate", order[i], Current.depth - 1)]
  <2>4. dirs \subseteq Paths
    BY RowsHaveRuns DEF QInv, RowsWithParent
  <2>5. n \in Nat /\ order \in [1..n -> dirs]
    <3>1. IsFiniteSet(dirs)
      <4>1. IsFiniteSet(Paths)
        BY IndexAssumption
      <4> HIDE DEF dirs
      <4> QED
        BY <2>4, <4>1, FS_Subset
    <3> HIDE DEF dirs
    <3> QED
      BY <2>3, <3>1, FS_CardinalityType DEF SetToSeqs
  <2>6. \A c \in dirs : Step("locate", c, Current.depth - 1) \in S
    BY <2>1, <2>2, <2>4 DEF Step, CallStep, DoOf
  <2>7. reader'.todo = steps \o rest
    BY <1>2, <2>3
  <2> HIDE DEF S, dirs, n
  <2>8. steps \in [1..n -> S]
    BY <2>5, <2>6
  <2> HIDE DEF steps
  <2>9. steps \o rest \in Seq(S)
    BY <2>1, <2>5, <2>8, Concatenated
  <2> QED
    BY <2>7, <2>9 DEF S
<1> QED
  BY <1>3, <1>4, <1>5

(* The first query of a call, and each that follows.                        *)
LEMMA AskDated ==
    ASSUME RInv, NEW r \in Requests, Ask(r), UNCHANGED vars
    PROVE  DatedInv'
<1> DEFINE root == r.root
           first == IF r.call \in {"tree", "summary"} THEN {root} ELSE {}
<1>1. /\ root \in Indexed /\ reader'.call = r.call /\ reader'.ask = r
      /\ reader'.since = Len(runs) /\ reader'.id = rows[root].run /\ reader'.date = Null
      /\ DOMAIN reader'.shown = first /\ reader'.todo = Plan(r)
      /\ \A q \in first : reader'.shown[q] = Seen(q, root)
  BY DEF Ask
<1>2. rows[root].run \in Nat /\ Len(runs) \in Nat
  BY <1>1, RowsHaveRuns DEF RInv
<1>3. ASSUME NEW q \in DOMAIN reader'.shown PROVE reader'.shown[q].run = rows[root].run
  <2>1. q \in first
    BY <1>1
  <2>2. q = root
    BY <2>1
  <2> HIDE DEF first
  <2>3. reader'.shown[q] = Seen(q, root)
    BY <1>1, <2>1
  <2> QED
    BY <2>2, <2>3 DEF Seen
<1>4. /\ r.root \in Paths /\ r.call \in {"tree", "summary", "largest", "report"}
      /\ Plan(r) \in Seq(CallStep(r.call, r.root))
  BY PlanType
<1>5. rows' = rows /\ runs' = runs
  BY DEF vars
<1> HIDE DEF first
<1> QED
  BY <1>1, <1>2, <1>3, <1>4, <1>5 DEF DatedInv, Indexed

LEMMA ReadDated ==
    ASSUME QInv, RInv, SeenInv, DatedInv, UNCHANGED vars,
           Row_ \/ Run_ \/ Known \/ Top \/ Locate \/ List
    PROVE  DatedInv'
<1> DEFINE root == reader.ask.root
<1>1. Asked /\ Queried
  BY ReaderStep
<1>2. rows' = rows /\ runs' = runs
  BY DEF vars
<1>3. /\ reader'.call = reader.call /\ reader'.ask = reader.ask /\ reader'.since = reader.since
  BY <1>1 DEF Queried
<1>4. reader'.todo \in Seq(CallStep(reader.call, root))
  BY TodoType
<1>5. /\ reader.call \in {"tree", "summary", "largest", "report"} /\ root \in Paths
      /\ reader.since \in Nat /\ reader.since <= Len(runs)
      /\ reader.call \in {"tree", "largest"} => reader.date = Null
      /\ reader.id \in Nat
  <2>1. reader.id \in 1..Len(runs) /\ Len(runs) \in Nat
    BY <1>1, RowsHaveRuns DEF SeenInv, RInv
  <2> QED
    BY <1>1, <2>1 DEF DatedInv
<1>6. reader.call \in {"tree", "largest"} => reader'.date = Null
  <2>1. ASSUME Todo("run") PROVE reader.call \notin {"tree", "largest"}
    <3>1. "run" \in DoOf(reader.call)
      BY <1>1, <2>1, HeadOfCall
    <3> QED
      BY <3>1 DEF DoOf
  <2> QED
    BY <1>1, <1>5, <2>1 DEF Queried
<1>7. ASSUME Dated
      PROVE  /\ reader'.id = reader.id
             /\ reader'.date \in {Null, reader.id}
  <2>1. ASSUME Todo("row") PROVE reader.call = "report" /\ Current.path = root
    <3>1. "row" \in DoOf(reader.call) /\ Current \in CallStep(reader.call, root)
          /\ Current.do = "row"
      BY <1>1, <2>1, HeadOfCall
    <3> QED
      BY <1>5, <3>1 DEF DoOf, CallStep
  <2>2. ASSUME Todo("locate") PROVE FALSE
    <3>1. "locate" \in DoOf(reader.call)
      BY <1>1, <2>2, HeadOfCall
    <3> QED
      BY <1>7, <3>1 DEF DoOf, Dated
  <2>3. /\ reader.date \in {Null, reader.id}
        /\ reader.call = "report" => rows[root].run = reader.id
    BY <1>1, <1>7 DEF DatedInv
  <2> QED
    BY <1>1, <2>1, <2>2, <2>3 DEF Queried
<1>8. ASSUME Dated, NEW q \in DOMAIN reader'.shown, reader'.shown[q].linked
      PROVE  reader'.shown[q].run >= reader.id
  <2>1. CASE q \in DOMAIN reader.shown
    BY <1>1, <1>8, <2>1 DEF Queried, DatedInv
  <2>2. CASE q \notin DOMAIN reader.shown
    <3>1. q \in Indexed /\ reader'.shown[q] = Seen(q, root)
      BY <1>1, <1>8, <2>2 DEF Queried
    <3>2. reader'.shown[q].run = rows[q].run /\ (q = root \/ q \in Linked(root))
      BY <1>8, <3>1, SeenRow
    <3>3. root \in Indexed /\ rows[q].run >= rows[root].run
      <4>1. rows[q].run \in Nat
        BY <3>1, RowsHaveRuns DEF RInv
      <4>2. CASE q = root
        BY <3>1, <4>1, <4>2
      <4>3. CASE q \in Linked(root)
        BY <1>5, <4>3, LinkedNotOlder
      <4> QED
        BY <3>2, <4>2, <4>3
    <3>4. rows[root].run \in Nat /\ rows[q].run \in Nat
      BY <3>1, <3>3, RowsHaveRuns DEF RInv
    <3>5. rows[root].run >= reader.id
      BY <1>1, <1>8, <3>3 DEF DatedInv
    <3> QED
      BY <1>5, <3>2, <3>3, <3>4, <3>5
  <2> QED
    BY <2>1, <2>2
<1>9. Dated' = Dated
  BY <1>2, <1>3 DEF Dated
<1>10. ASSUME Dated
       PROVE  /\ root \in Indexed => rows[root].run >= reader.id
              /\ reader.call = "report" => root \in Indexed /\ rows[root].run = reader.id
  BY <1>1, <1>10 DEF DatedInv
<1> QED
  BY <1>2, <1>3, <1>4, <1>5, <1>6, <1>7, <1>8, <1>9, <1>10 DEF DatedInv, Indexed

LEMMA NextDated == QInv /\ RInv /\ SeenInv /\ DatedInv /\ [QNext]_qvars => DatedInv'
<1> SUFFICES ASSUME QInv, RInv, SeenInv, DatedInv, [QNext]_qvars PROVE DatedInv'
  OBVIOUS
<1>1. CASE UNCHANGED reader /\ [Next]_vars
  BY <1>1, WriterDated
<1>2. ASSUME UNCHANGED vars, reader' = Idle PROVE DatedInv'
  BY <1>2 DEF DatedInv, Asked
<1>3. ASSUME UNCHANGED vars, NEW r \in Requests, Ask(r) PROVE DatedInv'
  BY <1>3, AskDated
<1>4. ASSUME UNCHANGED vars, Row_ \/ Run_ \/ Known \/ Top \/ Locate \/ List PROVE DatedInv'
  BY <1>4, ReadDated
<1> QED
  BY <1>1, <1>2, <1>3, <1>4 DEF QNext, qvars, vars, Read, Abandon, Answer

(* A summary is dated by the row it reads first (summary.go:27-64), and     *)
(* nothing it shows that hangs from this row was measured before it,        *)
(* whatever is recorded between its queries; a report, which reads its date *)
(* last (opportunities.go:163), if nothing is recorded while it is made.    *)
THEOREM DateHolds == QSpec => []DatedByOldest
<1>1. QInit => DatedInv
  BY DEF QInit, DatedInv, Asked
<1>2. RInv /\ SeenInv /\ DatedInv => DatedByOldest
  <2> SUFFICES ASSUME RInv, SeenInv, DatedInv, Asked, reader.date # Null,
                      ~(reader.call = "report" /\ Len(runs) # reader.since),
                      NEW q \in DOMAIN reader.shown, reader.shown[q].linked
               PROVE  reader.shown[q].run >= reader.date
    BY DEF DatedByOldest
  <2>1. reader.call \in {"summary", "report"}
    BY DEF DatedInv
  <2>2. Dated
    BY <2>1 DEF Dated
  <2> QED
    BY <2>2 DEF DatedInv
<1>3. QInit => SeenInv
  BY DEF QInit, SeenInv, Asked
<1> QED
  BY <1>1, <1>2, <1>3, NextSeen, NextDated, QueriesInvariance, PTL DEF QSpec

(* A directory that was not measured completely is not of the run that      *)
(* dates a result with status "complete"; if it hangs from the row the      *)
(* result is about, and the result is no report something was recorded      *)
(* under, a later run has measured it again (db.go:161, 245-252,            *)
(* freshness.go:41-46).                                                     *)
THEOREM StatusHolds == QSpec => []StatusOfItsRun
<1>1. QInit => SeenInv /\ DatedInv
  BY DEF QInit, SeenInv, DatedInv, Asked
<1>2. ASSUME QInv, RInv, SeenInv, DatedInv, Asked, reader.status = "complete",
             NEW q \in DOMAIN reader.shown
      PROVE  /\ Len(runs) \in Nat /\ reader.date \in 1..Len(runs)
             /\ reader.shown[q].run \in 1..Len(runs)
             /\ reader.shown[q].run = reader.date => reader.shown[q].state \in {"", "complete"}
  BY <1>2, RowsHaveRuns DEF QInv, SeenInv
<1>3. ASSUME QInv, RInv, SeenInv, DatedInv, Asked, reader.status = "complete",
             NEW q \in DOMAIN reader.shown, reader.shown[q].linked,
             ~(reader.call = "report" /\ Len(runs) # reader.since)
      PROVE  reader.shown[q].run >= reader.date
  <2>1. reader.date # Null
    <3>1. Len(runs) \in Nat /\ reader.date \in 1..Len(runs)
      BY <1>2, <1>3
    <3> QED
      BY <3>1 DEF Null
  <2>2. reader.call \in {"summary", "report"}
    BY <1>3, <2>1 DEF DatedInv
  <2>3. Dated
    BY <1>3, <2>2 DEF Dated
  <2> QED
    BY <1>3, <2>1, <2>3 DEF DatedInv
<1>4. \A n \in Nat : \A i, j \in 1..n : i >= j /\ i # j => i > j
  OBVIOUS
<1>5. ASSUME QInv, RInv, SeenInv, DatedInv PROVE StatusOfItsRun
  <2> SUFFICES ASSUME Asked, reader.status = "complete", NEW q \in DOMAIN reader.shown,
                      ~(reader.shown[q].state \in {"", "complete"})
               PROVE  /\ reader.shown[q].run # reader.date
                      /\ \/ ~reader.shown[q].linked
                         \/ reader.call = "report" /\ Len(runs) # reader.since
                         \/ reader.shown[q].run > reader.date
    BY DEF StatusOfItsRun
  <2>1. /\ Len(runs) \in Nat /\ reader.date \in 1..Len(runs)
        /\ reader.shown[q].run \in 1..Len(runs) /\ reader.shown[q].run # reader.date
    BY <1>2, <1>5
  <2>2. \/ ~reader.shown[q].linked
        \/ reader.call = "report" /\ Len(runs) # reader.since
        \/ reader.shown[q].run >= reader.date
    BY <1>3, <1>5
  <2> QED
    BY <1>4, <2>1, <2>2, Zenon
<1> QED
  BY <1>1, <1>5, NextSeen, NextDated, QueriesInvariance, PTL DEF QSpec

-----------------------------------------------------------------------------
(* What a tree leaves out                                                   *)

(* The entries that hang from a directory hang from all above it.           *)
LEMMA LinkedUp ==
    ASSUME RInv, NEW p \in Paths, NEW q \in Linked(p)
    PROVE  /\ q \in Indexed /\ q \in Paths /\ q \in Below[p]
           /\ ParentOf[q] \in Indexed /\ ParentOf[q] \in Paths
           /\ rows[ParentOf[q]].kind = "dir" /\ q \in ChildRows(ParentOf[q])
           /\ ParentOf[q] = p \/ ParentOf[q] \in Linked(p)
           /\ \A a \in Below[p] : q \in Below[a] => a \in Linked(p)
<1>1. /\ q \in Indexed /\ q \in Below[p] /\ q \in Paths
      /\ \A a \in Below[p] : (a = q \/ q \in Below[a]) =>
            a \in Indexed /\ rows[a].parent # Null
  BY IndexAssumption DEF Linked
<1>2. /\ ParentOf[q] \in Indexed /\ rows[ParentOf[q]].run = rows[q].parent
      /\ rows[ParentOf[q]].kind = "dir" /\ ParentOf[q] \in Paths
  BY <1>1 DEF RInv, IInv, ParentsExist, Shapes
<1>3. q \in ChildRows(ParentOf[q])
  BY <1>1, <1>2 DEF ChildRows
<1>4. \A a \in Below[p] : q \in Below[a] => a \in Linked(p)
  <2> SUFFICES ASSUME NEW a \in Below[p], q \in Below[a] PROVE a \in Linked(p)
    OBVIOUS
  <2>1. ASSUME NEW b \in Below[p], b = a \/ a \in Below[b] PROVE q \in Below[b]
    BY <2>1, <1>1, IndexAssumption
  <2> QED
    BY <1>1, <2>1 DEF Linked
<1>5. ParentOf[q] = p \/ ParentOf[q] \in Linked(p)
  BY <1>1, <1>2, <1>4, EntriesBelow, IndexAssumption
<1> QED
  BY <1>1, <1>2, <1>3, <1>4, <1>5

LEMMA LinkedDown ==
    ASSUME RInv, NEW p \in Paths, NEW d, d = p \/ d \in Linked(p),
           d \in Indexed, NEW c \in ChildRows(d)
    PROVE  c \in Linked(p)
<1>1. /\ c \in Indexed /\ c \in Paths /\ ParentOf[c] = d /\ d \in Paths
      /\ rows[c].parent = rows[d].run /\ rows[d].run # Null
  BY DEF ChildRows, RInv, IInv, Shapes, RunsNested, Null
<1>2. d = p \/ d \in Below[p]
  BY DEF Linked
<1>3. c \in Below[d] /\ c \in Below[p]
  BY <1>1, <1>2, EntriesBelow, IndexAssumption
<1>4. ASSUME NEW a \in Below[p], a = c \/ c \in Below[a]
      PROVE  a \in Indexed /\ rows[a].parent # Null
  <2>1. CASE a = c
    BY <1>1, <2>1
  <2>2. CASE c \in Below[a]
    <3>1. a \in Paths /\ (a = d \/ d \in Below[a])
      BY <1>1, <2>2, IndexAssumption
    <3>2. d # p
      BY <3>1, IndexAssumption
    <3> QED
      BY <3>1, <3>2 DEF Linked
  <2> QED
    BY <1>4, <2>1, <2>2
<1> QED
  BY <1>1, <1>3, <1>4 DEF Linked

(* What hangs from a path hangs by one of the entries of the path.          *)
LEMMA LinkedFirst ==
    ASSUME RInv, NEW p \in Paths, NEW d, d = p \/ d \in Linked(p),
           NEW q \in Linked(p), q \in Below[d]
    PROVE  /\ d \in Indexed /\ rows[d].kind = "dir" /\ d \in Paths
           /\ \E c \in ChildRows(d) : c \in Linked(p) /\ (q = c \/ q \in Below[c])
<1>1. d \in Paths /\ (d = p \/ d \in Below[p])
  BY IndexAssumption DEF Linked
<1>2. PICK c \in Below[d] : ParentOf[c] = d /\ (q = c \/ q \in Below[c])
  BY <1>1, FirstBelow
<1>3. c \in Below[p]
  BY <1>1, <1>2, IndexAssumption
<1>4. c \in Linked(p)
  BY <1>2, <1>3, LinkedUp
<1> QED
  BY <1>1, <1>2, <1>4, LinkedUp

(* The level of an entry is one more than that of its directory.            *)
LEMMA Levels ==
    ASSUME NEW p \in Paths, NEW q \in Below[p]
    PROVE  /\ Level(p, p) = 0 /\ Level(q, p) \in Nat
           /\ Level(q, p) = Level(ParentOf[q], p) + 1
           /\ \A c \in Below[p] : q \in Below[c] => Level(c, p) < Level(q, p)
<1> DEFINE Above(x) == {a \in Below[p] : a = x \/ x \in Below[a]}
<1>0. IsFiniteSet(Paths) /\ Below[p] \subseteq Paths
  BY IndexAssumption
<1>1. \A x : IsFiniteSet(Above(x)) /\ Cardinality(Above(x)) \in Nat
  BY <1>0, FS_Subset, FS_CardinalityType
<1>2. Above(p) = {}
  BY <1>0, IndexAssumption
<1>3. Above(q) = Above(ParentOf[q]) \cup {q} /\ q \notin Above(ParentOf[q])
  BY <1>0, IndexAssumption
<1>4. ASSUME NEW c \in Below[p], q \in Below[c] PROVE Cardinality(Above(c)) < Cardinality(Above(q))
  <2>1. Above(c) \subseteq Above(q) /\ q \in Above(q) /\ q \notin Above(c)
    BY <1>0, <1>4, IndexAssumption
  <2> HIDE DEF Above
  <2>2. Above(c) \subseteq Above(q) /\ Above(c) # Above(q)
    BY <2>1
  <2> QED
    BY <1>1, <2>2, FS_Subset
<1>5. \A x : Level(x, p) = Cardinality(Above(x))
  BY DEF Level
<1> HIDE DEF Above
<1>6. Cardinality(Above(q)) = Cardinality(Above(ParentOf[q])) + 1
  BY <1>1, <1>3, FS_AddElement
<1> QED
  BY <1>1, <1>2, <1>4, <1>5, <1>6, FS_EmptySet

(* Totals that add up are no less than any size they count.                 *)
LEMMA ChildrenCount ==
    ASSUME RInv, RollupConsistent
    PROVE  \A d \in Indexed : rows[d].kind = "dir" =>
             /\ rows[d].total \in Nat
             /\ \A c \in ChildRows(d) : Counted(rows[c]) <= rows[d].total
<1> DEFINE dirs == {d \in Indexed : rows[d].kind = "dir"}
           bad == {d \in dirs : rows[d].total \notin Nat}
           f(d) == [c \in ChildRows(d) |-> Counted(rows[c])]
<1>0. dirs \subseteq Paths /\ \A q \in Indexed : q \in Paths /\ rows[q] \in Row
  BY DEF RInv, IInv, Shapes, RowTypes
<1>1. ASSUME NEW d \in dirs
      PROVE  /\ IsFiniteSet(ChildRows(d)) /\ \A c \in ChildRows(d) : c \in Below[d]
             /\ rows[d].total = SumFunctionOnSet(f(d), ChildRows(d))
  <2>1. d \in Paths /\ \A c \in ChildRows(d) : c \in Below[d]
    BY <1>0, IndexAssumption DEF ChildRows
  <2>2. ChildRows(d) \subseteq Paths
    BY <1>0 DEF ChildRows
  <2>3. IsFiniteSet(ChildRows(d))
    <3>1. IsFiniteSet(Paths)
      BY IndexAssumption
    <3> QED
      BY <2>2, <3>1, FS_Subset
  <2> QED
    BY <2>1, <2>3 DEF RollupConsistent, SumFunction
<1>2. ASSUME NEW d \in dirs, \A c \in ChildRows(d) \cap dirs : rows[c].total \in Nat
      PROVE  \A c \in ChildRows(d) : f(d)[c] \in Nat
  BY <1>0, <1>2 DEF ChildRows, Counted, Row
<1>3. ASSUME bad # {} PROVE FALSE
  <2>1. PICK d \in bad : \A b \in bad : b \notin Below[d]
    <3>1. bad \in SUBSET Paths
      BY <1>0
    <3> HIDE DEF bad
    <3> QED
      BY <1>3, <3>1, LowMost
  <2>2. \A c \in ChildRows(d) : f(d)[c] \in Nat
    <3>1. d \in dirs /\ \A c \in ChildRows(d) \cap dirs : rows[c].total \in Nat
      BY <1>1, <2>1
    <3> QED
      BY <1>2, <3>1
  <2> HIDE DEF f
  <2> QED
    BY <1>1, <2>1, <2>2, SumNat
<1>4. ASSUME NEW d \in dirs, NEW c \in ChildRows(d) PROVE Counted(rows[c]) <= rows[d].total
  <2>1. \A x \in ChildRows(d) : f(d)[x] \in Nat
    BY <1>2, <1>3
  <2>2. f(d)[c] = Counted(rows[c])
    OBVIOUS
  <2> HIDE DEF f, dirs
  <2>3. IsFiniteSet(ChildRows(d) \ {c}) /\ \A x \in ChildRows(d) \ {c} : f(d)[x] \in Nat
    BY <1>1, <2>1, FS_RemoveElement
  <2>4. SumFunctionOnSet(f(d), ChildRows(d) \ {c}) \in Nat
    BY <2>3, SumNat
  <2>5. SumFunctionOnSet(f(d), ChildRows(d))
          = f(d)[c] + SumFunctionOnSet(f(d), ChildRows(d) \ {c})
    <3>1. \A x \in ChildRows(d) : f(d)[x] \in Int
      BY <2>1
    <3> QED
      BY <1>1, <3>1, SumRemove
  <2> QED
    BY <1>1, <2>1, <2>2, <2>4, <2>5
<1> QED
  BY <1>3, <1>4

(* Nothing hangs from a directory that is larger than it, but second links. *)
LEMMA LargerAbove ==
    ASSUME RInv, RollupConsistent, NEW p \in Paths,
           NEW c \in Linked(p), NEW q \in Linked(p), q = c \/ q \in Below[c],
           ~rows[q].duplicate
    PROVE  AllocatedSizeFor(c) >= AllocatedSizeFor(q)
<1> DEFINE A == {a \in Linked(p) : (q = a \/ q \in Below[a])
                                   /\ ~(AllocatedSizeFor(a) >= AllocatedSizeFor(q))}
<1>0. \A a \in Linked(p) : AllocatedSizeFor(a) \in Int /\ a \in Indexed /\ a \in Paths
                           /\ rows[a] \in Row
  BY LinkedUp DEF AllocatedSizeFor, RInv, RowTypes, Row
<1>1. ASSUME A # {} PROVE FALSE
  <2>1. PICK a \in A : \A b \in A : b \notin Below[a]
    <3>1. A \in SUBSET Paths
      BY <1>0
    <3> HIDE DEF A
    <3> QED
      BY <1>1, <3>1, LowMost
  <2>2. a \in Linked(p) /\ q \in Below[a] /\ ~(AllocatedSizeFor(a) >= AllocatedSizeFor(q))
    BY <1>0, <2>1
  <2>3. /\ a \in Indexed /\ rows[a].kind = "dir" /\ a \in Paths
        /\ \E b \in ChildRows(a) : b \in Linked(p) /\ (q = b \/ q \in Below[b])
    BY <2>2, LinkedFirst
  <2>4. PICK b \in ChildRows(a) : b \in Linked(p) /\ (q = b \/ q \in Below[b])
    BY <2>3
  <2>5. b \in Below[a]
    BY <1>0, <2>3, <2>4, IndexAssumption DEF ChildRows
  <2>6. AllocatedSizeFor(b) >= AllocatedSizeFor(q)
    BY <2>1, <2>4, <2>5
  <2>7. Counted(rows[b]) = AllocatedSizeFor(b)
    <3>1. q # b => rows[b].kind = "dir"
      BY <2>4, LinkedFirst
    <3> QED
      BY <1>0, <2>4, <3>1 DEF Counted, AllocatedSizeFor
  <2>8. Counted(rows[b]) <= rows[a].total /\ AllocatedSizeFor(a) = rows[a].total
    BY <2>3, ChildrenCount DEF AllocatedSizeFor
  <2> QED
    BY <1>0, <2>2, <2>4, <2>6, <2>7, <2>8
<1> QED
  BY <1>1

(* The tree of a directory while nothing is recorded: what has still to be  *)
(* listed is a directory that hangs from the root, at the depth left to it, *)
(* listed by the id of its row; and all that is large and not too deep is   *)
(* shown or below one of them.                                              *)
Root == reader.ask.root

Pending(i) ==
    /\ reader.todo[i].path = Root \/ reader.todo[i].path \in Linked(Root)
    /\ reader.todo[i].path \in Indexed
    /\ reader.todo[i].depth >= 1
    /\ Level(reader.todo[i].path, Root) + reader.todo[i].depth = reader.ask.depth
    /\ reader.todo[i].do = "list" => i = 1 /\ reader.id = rows[reader.todo[i].path].run

Wanted(q) ==
    /\ Level(q, Root) <= reader.ask.depth
    /\ AllocatedSizeFor(q) >= reader.ask.min
    /\ ~rows[q].duplicate

UndisturbedTree == Asked /\ reader.call = "tree" /\ Len(runs) = reader.since

HiddenInv ==
    UndisturbedTree =>
        /\ reader.ask.depth \in Nat /\ reader.ask.min \in Nat
        /\ \A i \in DOMAIN reader.todo : Pending(i)
        /\ RollupConsistent =>
             \A q \in Linked(Root) :
                \/ ~Wanted(q) \/ q \in DOMAIN reader.shown
                \/ \E i \in DOMAIN reader.todo : q \in Below[reader.todo[i].path]

LEMMA WriterHidden ==
    ASSUME RInv, DatedInv, HiddenInv, [Next]_vars, UNCHANGED reader
    PROVE  HiddenInv'
<1> SUFFICES ASSUME UndisturbedTree' PROVE HiddenInv'
  BY DEF HiddenInv
<1>1. Len(runs) = Len(runs') /\ rows' = rows
  BY RunsAreKept DEF RInv, UndisturbedTree, DatedInv, Asked
<1>2. UndisturbedTree
  BY <1>1 DEF UndisturbedTree, Asked
<1>3. (\A q : Wanted(q)' <=> Wanted(q))
      /\ (RollupConsistent' <=> RollupConsistent) /\ Linked(Root)' = Linked(Root)
      /\ \A i : Pending(i)' <=> Pending(i)
  BY <1>1 DEF Wanted, RollupConsistent, Linked, Root, Pending, AllocatedSizeFor,
              ChildRows, Indexed, Level, Counted
<1> QED
  BY <1>1, <1>2, <1>3 DEF HiddenInv

LEMMA AskHidden ==
    ASSUME RInv, NEW r \in Requests, Ask(r), UNCHANGED vars
    PROVE  HiddenInv'
<1> SUFFICES ASSUME UndisturbedTree' PROVE HiddenInv'
  BY DEF HiddenInv
<1> DEFINE root == r.root
<1>1. /\ root \in Indexed /\ reader'.call = r.call /\ reader'.ask = r
      /\ reader'.todo = Plan(r) /\ DOMAIN reader'.shown = {root}
      /\ r.call = "tree"
  BY DEF Ask, UndisturbedTree
<1>2. rows' = rows /\ runs' = runs /\ root \in Paths
  BY PlanType DEF vars
<1>3. r.depth \in Nat /\ r.min \in Nat
  <2>1. r.depth \in Depths /\ r.min \in MinSizes
    BY <1>1 DEF Requests
  <2>2. Depths \subseteq Nat /\ MinSizes \subseteq Nat
    BY QueriesAssumption
  <2> QED
    BY <2>1, <2>2, Zenon
<1>4. Plan(r) = IF r.depth > 0 /\ rows[root].kind = "dir"
                THEN <<Step("locate", root, r.depth)>> ELSE <<>>
  BY <1>1 DEF Plan
<1>5. ASSUME NEW i \in DOMAIN reader'.todo PROVE Pending(i)'
  <2>1. /\ r.depth > 0 /\ i = 1
        /\ reader'.todo[i] = [do |-> "locate", path |-> root, depth |-> r.depth]
    BY <1>1, <1>4, <1>5 DEF Step
  <2>2. Level(root, root) = 0
    <3>1. {a \in Below[root] : a = root \/ root \in Below[a]} = {}
      BY <1>2, IndexAssumption
    <3> QED
      BY <3>1, FS_EmptySet DEF Level
  <2> QED
    BY <1>1, <1>2, <1>3, <2>1, <2>2 DEF Pending, Root, Indexed
<1>6. ASSUME NEW q \in Linked(root), Level(q, root) <= r.depth
      PROVE  \E i \in DOMAIN Plan(r) : q \in Below[Plan(r)[i].path]
  <2>1. q \in Below[root]
    BY DEF Linked
  <2>2. r.depth > 0
    <3>1. Level(q, root) = Level(ParentOf[q], root) + 1 /\ ParentOf[q] \in {root} \cup Below[root]
      BY <1>2, <2>1, Levels, IndexAssumption
    <3>2. Level(ParentOf[q], root) \in Nat /\ Level(root, root) = 0
      BY <1>2, <2>1, <3>1, Levels
    <3> QED
      BY <1>3, <1>6, <3>1, <3>2
  <2>3. rows[root].kind = "dir"
    BY <1>2, <1>6, <2>1, LinkedFirst
  <2>4. Plan(r) = <<[do |-> "locate", path |-> root, depth |-> r.depth]>>
    BY <1>4, <2>2, <2>3 DEF Step
  <2> QED
    BY <2>1, <2>4
<1>7. Linked(Root)' = Linked(root) /\ \A q : Wanted(q)' => Level(q, root) <= r.depth
  BY <1>1, <1>2 DEF Linked, Root, Indexed, Wanted, Level
<1> QED
  BY <1>1, <1>2, <1>3, <1>5, <1>6, <1>7 DEF HiddenInv

LEMMA ConcatenatedAt ==
    ASSUME NEW S, NEW n \in Nat, NEW f \in [1..n -> S], NEW t \in Seq(S)
    PROVE  /\ \A i \in 1..n : i \in DOMAIN (f \o t) /\ (f \o t)[i] = f[i]
           /\ \A i \in DOMAIN t : i + n \in DOMAIN (f \o t) /\ (f \o t)[i + n] = t[i]
  OBVIOUS

(* Listing a directory shows of its entries all that are large, and leaves  *)
(* those of them to be listed that may hold more.                           *)
LEMMA ListHidden ==
    ASSUME QInv, RInv, DatedInv, HiddenInv, List, UNCHANGED vars
    PROVE  HiddenInv'
<1> SUFFICES ASSUME UndisturbedTree' PROVE HiddenInv'
  BY DEF HiddenInv
<1> DEFINE d    == Current.path
           kept == {c \in RowsWithParent(d, reader.id) : Large(c, reader.ask.min)}
           dirs == {c \in kept : rows[c].kind = "dir" /\ Current.depth > 1}
           rest == Tail(reader.todo)
           n    == Cardinality(dirs)
<1>1. Asked /\ Queried
  BY ReaderStep
<1>2. /\ rows' = rows /\ runs' = runs /\ UndisturbedTree
      /\ reader'.call = reader.call /\ reader'.ask = reader.ask
  BY <1>1 DEF Queried, vars, UndisturbedTree
<1>3. /\ DOMAIN reader = {"call", "ask", "since", "id", "date", "status", "shown", "todo"}
      /\ Root \in Paths /\ reader.ask.depth \in Nat
  BY <1>1, <1>2 DEF QInv, TreeInv, DatedInv, Root, HiddenInv
<1>4. /\ 1 \in DOMAIN reader.todo /\ Current = reader.todo[1] /\ Current.do = "list"
      /\ Current \in TreeStep /\ rest \in Seq(TreeStep)
      /\ \A i \in DOMAIN rest : /\ i + 1 \in DOMAIN reader.todo
                                /\ rest[i] = reader.todo[i + 1] /\ rest[i].do = "locate"
  BY <1>1, <1>2, HeadOfTree DEF List, QInv, UndisturbedTree
<1>5. /\ d = Root \/ d \in Linked(Root)
      /\ d \in Indexed /\ d \in Paths /\ Current.depth >= 1 /\ Current.depth \in Int
      /\ Level(d, Root) + Current.depth = reader.ask.depth
      /\ reader.id = rows[d].run
  BY <1>2, <1>4 DEF HiddenInv, Pending, TreeStep
<1>6. RowsWithParent(d, reader.id) = ChildRows(d)
  BY <1>5 DEF RowsWithParent, ChildRows
<1>7. PICK order \in SetToSeqs(dirs) :
          reader' = [reader EXCEPT
             !.shown = AddTo(@, kept),
             !.todo = [i \in DOMAIN order |-> Step("locate", order[i], Current.depth - 1)] \o rest]
  BY DEF List
<1> DEFINE steps == [i \in DOMAIN order |-> Step("locate", order[i], Current.depth - 1)]
<1>8. /\ reader'.todo = steps \o rest /\ reader'.id = reader.id
      /\ DOMAIN reader'.shown = DOMAIN reader.shown \cup kept
  <2> HIDE DEF kept
  <2> QED
    BY <1>3, <1>7 DEF AddTo
<1>9. \A c \in kept : c \in ChildRows(d) /\ c \in Paths /\ c \in Linked(Root) /\ c \in Indexed
  <2>1. \A c \in ChildRows(d) : c \in Linked(Root)
    BY <1>3, <1>5, LinkedDown
  <2> QED
    BY <1>3, <1>6, <2>1, LinkedUp
<1>10. n \in Nat /\ order \in [1..n -> dirs] /\ \A c \in dirs : \E i \in 1..n : order[i] = c
  <2>1. IsFiniteSet(dirs)
    <3>1. dirs \subseteq Paths
      BY <1>9
    <3>2. IsFiniteSet(Paths)
      BY IndexAssumption
    <3> HIDE DEF dirs
    <3> QED
      BY <3>1, <3>2, FS_Subset
  <2> HIDE DEF dirs
  <2>2. n \in Nat
    BY <2>1, FS_CardinalityType
  <2>3. order \in Injection(1..n, dirs)
    BY <1>7 DEF SetToSeqs, Injection, IsInjective
  <2>4. Cardinality(1..n) = n
    BY <2>2, FS_Interval
  <2>5. order \in Surjection(1..n, dirs)
    BY <2>1, <2>3, <2>4, FS_Injection
  <2> QED
    BY <2>2, <2>3, <2>5 DEF Surjection, Injection
<1>11. steps \in [1..n -> TreeStep] /\ DOMAIN steps = 1..n
       /\ \A i \in 1..n : steps[i].path = order[i] /\ steps[i].depth = Current.depth - 1
                         /\ steps[i].do = "locate"
  <2>1. \A c \in dirs : c \in Paths
    BY <1>9
  <2> HIDE DEF dirs, n
  <2> QED
    BY <1>5, <1>10, <2>1 DEF Step, TreeStep
<1>12. \A i \in DOMAIN (steps \o rest) :
          \/ i \in 1..n /\ (steps \o rest)[i] = steps[i]
          \/ i - n \in DOMAIN rest /\ (steps \o rest)[i] = rest[i - n]
  <2> HIDE DEF steps, n
  <2> QED
    BY <1>4, <1>10, <1>11, Concatenated
<1>13. /\ \A i \in 1..n : i \in DOMAIN (steps \o rest) /\ (steps \o rest)[i] = steps[i]
       /\ \A i \in DOMAIN rest :
             i + n \in DOMAIN (steps \o rest) /\ (steps \o rest)[i + n] = rest[i]
  <2> HIDE DEF steps, n
  <2> QED
    BY <1>4, <1>10, <1>11, ConcatenatedAt
<1>14. Linked(Root)' = Linked(Root) /\ Root' = Root
       /\ (RollupConsistent' <=> RollupConsistent) /\ \A q : Wanted(q)' <=> Wanted(q)
  BY <1>2 DEF Wanted, RollupConsistent, Linked, Root, AllocatedSizeFor,
              ChildRows, Indexed, Level, Counted
<1>15. ASSUME NEW i \in DOMAIN reader'.todo PROVE Pending(i)'
  <2>1. CASE i \in 1..n /\ reader'.todo[i] = steps[i]
    <3>1. order[i] \in dirs
      BY <1>10, <2>1
    <3> DEFINE c == order[i]
    <3>2. c \in Linked(Root) /\ c \in Indexed /\ Current.depth > 1 /\ ParentOf[c] = d
          /\ c \in Below[Root]
      BY <1>9, <3>1 DEF ChildRows, Linked
    <3>3. Level(c, Root) = Level(d, Root) + 1
      BY <1>3, <3>2, Levels
    <3>4. Level(d, Root) \in Nat
      BY <1>3, <1>5, <3>2, Levels DEF Linked
    <3>5. reader'.todo[i].path = c /\ reader'.todo[i].depth = Current.depth - 1
          /\ reader'.todo[i].do # "list"
      BY <1>11, <2>1
    <3> HIDE DEF dirs, c, n, steps
    <3>6. /\ Current.depth - 1 >= 1 /\ Level(c, Root) + (Current.depth - 1) = reader.ask.depth
      BY <1>3, <1>5, <3>2, <3>3, <3>4
    <3> QED
      BY <1>2, <1>14, <3>2, <3>5, <3>6 DEF Pending, Indexed
  <2>2. CASE i - n \in DOMAIN rest /\ reader'.todo[i] = rest[i - n]
    <3>1. PICK j \in DOMAIN reader.todo : reader'.todo[i] = reader.todo[j]
      BY <1>4, <2>2
    <3>2. Pending(j) /\ reader'.todo[i].do # "list"
      BY <1>2, <1>4, <2>2, <3>1 DEF HiddenInv
    <3> HIDE DEF steps, rest, n
    <3> QED
      BY <1>2, <1>14, <3>1, <3>2 DEF Pending, Indexed, Level
  <2> HIDE DEF steps, rest, n
  <2> QED
    BY <1>8, <1>12, <1>15, <2>1, <2>2
<1>16. ASSUME RollupConsistent, NEW q \in Linked(Root), Wanted(q),
              q \notin DOMAIN reader'.shown
       PROVE  \E i \in DOMAIN reader'.todo : q \in Below[reader'.todo[i].path]
  <2>1. PICK j \in DOMAIN reader.todo : q \in Below[reader.todo[j].path]
    BY <1>2, <1>8, <1>16 DEF HiddenInv
  <2>2. CASE j # 1
    <3>1. j - 1 \in DOMAIN rest /\ rest[j - 1] = reader.todo[j]
      <4>1. reader.todo \in Seq(TreeStep)
        BY <1>2 DEF QInv, TreeInv, UndisturbedTree
      <4> QED
        BY <1>4, <2>2, <4>1
    <3>2. (j - 1) + n \in DOMAIN reader'.todo /\ reader'.todo[(j - 1) + n] = reader.todo[j]
      BY <1>8, <1>13, <3>1
    <3> HIDE DEF steps, rest, n
    <3> QED
      BY <2>1, <3>2
  <2>3. CASE j = 1
    <3>1. q \in Below[d]
      BY <1>4, <2>1, <2>3
    <3>2. PICK c \in ChildRows(d) : c \in Linked(Root) /\ (q = c \/ q \in Below[c])
      BY <1>3, <1>5, <3>1, LinkedFirst
    <3>3. AllocatedSizeFor(c) >= AllocatedSizeFor(q)
      BY <1>3, <1>16, <3>2, LargerAbove DEF Wanted
    <3>4. /\ AllocatedSizeFor(c) \in Int /\ AllocatedSizeFor(q) \in Int
          /\ reader.ask.min \in Nat
      <4>1. c \in Indexed /\ q \in Indexed
        BY <3>2 DEF Linked
      <4> QED
        BY <1>2, <4>1 DEF HiddenInv, AllocatedSizeFor, RInv, RowTypes, Row
    <3>5. c \in kept
      BY <1>6, <1>16, <3>2, <3>3, <3>4 DEF Large, Wanted
    <3>6. q \in Below[c]
      BY <1>8, <1>16, <3>2, <3>5
    <3>7. c \in Below[Root] /\ q \in Below[Root] /\ ParentOf[c] = d
      BY <3>2 DEF Linked, ChildRows
    <3>8. rows[c].kind = "dir"
      BY <1>3, <3>2, <3>6, LinkedFirst
    <3>9. Current.depth > 1
      <4>1. Level(c, Root) < Level(q, Root) /\ Level(c, Root) = Level(d, Root) + 1
            /\ Level(q, Root) \in Nat
        BY <1>3, <3>6, <3>7, Levels
      <4>2. Level(d, Root) \in Nat
        BY <1>3, <1>5, <3>7, Levels DEF Linked
      <4> QED
        BY <1>3, <1>5, <1>16, <4>1, <4>2 DEF Wanted
    <3>10. PICK i \in 1..n : order[i] = c
      BY <1>10, <3>5, <3>8, <3>9
    <3>11. i \in DOMAIN reader'.todo /\ reader'.todo[i].path = c
      BY <1>8, <1>11, <1>13, <3>10
    <3> HIDE DEF steps, rest, n
    <3> QED
      BY <3>6, <3>11
  <2> QED
    BY <2>2, <2>3
<1> HIDE DEF kept, steps, rest
<1> QED
  BY <1>2, <1>14, <1>15, <1>16 DEF HiddenInv

LEMMA ReadHidden ==
    ASSUME QInv, RInv, DatedInv, HiddenInv, UNCHANGED vars,
           Row_ \/ Run_ \/ Known \/ Top \/ Locate
    PROVE  HiddenInv'
<1> SUFFICES ASSUME UndisturbedTree' PROVE HiddenInv'
  BY DEF HiddenInv
<1>1. Asked /\ Queried
  BY ReaderStep
<1>2. /\ rows' = rows /\ runs' = runs /\ UndisturbedTree
      /\ reader'.call = reader.call /\ reader'.ask = reader.ask
      /\ DOMAIN reader.shown \subseteq DOMAIN reader'.shown
  BY <1>1 DEF Queried, vars, UndisturbedTree
<1>3. DOMAIN reader = {"call", "ask", "since", "id", "date", "status", "shown", "todo"}
  BY <1>1 DEF QInv, TreeInv
<1>4. Locate
  <2>1. ASSUME NEW do \in {"row", "run", "known", "top"}, Todo(do) PROVE FALSE
    <3>1. Current.do = do /\ Current \in TreeStep
      BY <1>1, <1>2, <2>1, HeadOfTree DEF QInv, UndisturbedTree
    <3> QED
      BY <3>1 DEF TreeStep
  <2> QED
    BY <2>1 DEF Row_, Run_, Known, Top
<1> DEFINE first == [Current EXCEPT !.do = "list"]
           rest == Tail(reader.todo)
<1>5. /\ 1 \in DOMAIN reader.todo /\ Current = reader.todo[1] /\ Current.do = "locate"
      /\ Current \in TreeStep /\ rest \in Seq(TreeStep) /\ reader.todo \in Seq(TreeStep)
      /\ \A i \in DOMAIN rest : /\ i + 1 \in DOMAIN reader.todo
                                /\ rest[i] = reader.todo[i + 1] /\ rest[i].do = "locate"
  BY <1>1, <1>2, <1>4, HeadOfTree DEF Locate, QInv, UndisturbedTree
<1>6. /\ first \in TreeStep /\ first.do = "list" /\ first.path = Current.path
      /\ first.depth = Current.depth
  BY <1>5 DEF TreeStep
<1>7. reader'.todo = <<first>> \o rest /\ reader'.id = rows[Current.path].run
  BY <1>3, <1>4 DEF Locate
<1>8. /\ DOMAIN reader'.todo = DOMAIN reader.todo
      /\ \A i \in DOMAIN reader'.todo :
            \/ i = 1 /\ reader'.todo[i] = first
            \/ i # 1 /\ reader'.todo[i] = reader.todo[i] /\ reader.todo[i].do = "locate"
  <2>1. DOMAIN (<<first>> \o rest) = DOMAIN reader.todo
    <3> HIDE DEF first
    <3> QED
      BY <1>5, <1>6
  <2>2. \A i \in DOMAIN (<<first>> \o rest) :
              \/ i = 1 /\ (<<first>> \o rest)[i] = first
              \/ i # 1 /\ i - 1 \in DOMAIN rest /\ (<<first>> \o rest)[i] = rest[i - 1]
    <3> HIDE DEF first, rest
    <3> QED
      BY <1>5, <1>6, Sequences
  <2> HIDE DEF first
  <2> QED
    BY <1>5, <1>7, <2>1, <2>2
<1>9. Linked(Root)' = Linked(Root) /\ Root' = Root
       /\ (RollupConsistent' <=> RollupConsistent) /\ \A q : Wanted(q)' <=> Wanted(q)
  BY <1>2 DEF Wanted, RollupConsistent, Linked, Root, AllocatedSizeFor,
              ChildRows, Indexed, Level, Counted
<1> HIDE DEF first, rest
<1>10. ASSUME NEW i \in DOMAIN reader'.todo PROVE Pending(i)'
  <2>1. Pending(i)
    BY <1>2, <1>8, <1>10 DEF HiddenInv
  <2>2. reader'.todo[i].path = reader.todo[i].path /\ reader'.todo[i].depth = reader.todo[i].depth
    BY <1>5, <1>6, <1>8, <1>10
  <2>3. reader'.todo[i].do = "list" => i = 1 /\ reader'.id = rows[reader'.todo[i].path].run
    BY <1>6, <1>7, <1>8, <1>10
  <2> QED
    BY <1>2, <1>9, <2>1, <2>2, <2>3 DEF Pending, Indexed, Level
<1>11. \A i \in DOMAIN reader.todo : reader'.todo[i].path = reader.todo[i].path
  BY <1>5, <1>6, <1>8
<1> QED
  BY <1>2, <1>8, <1>9, <1>10, <1>11 DEF HiddenInv

LEMMA NextHidden ==
    QInv /\ RInv /\ DatedInv /\ HiddenInv /\ [QNext]_qvars => HiddenInv'
<1> SUFFICES ASSUME QInv, RInv, DatedInv, HiddenInv, [QNext]_qvars PROVE HiddenInv'
  OBVIOUS
<1>1. CASE UNCHANGED reader /\ [Next]_vars
  BY <1>1, WriterHidden
<1>2. ASSUME UNCHANGED vars, reader' = Idle PROVE HiddenInv'
  BY <1>2 DEF HiddenInv, UndisturbedTree, Asked
<1>3. ASSUME UNCHANGED vars, NEW r \in Requests, Ask(r) PROVE HiddenInv'
  BY <1>3, AskHidden
<1>4. ASSUME UNCHANGED vars, Row_ \/ Run_ \/ Known \/ Top \/ Locate \/ List PROVE HiddenInv'
  BY <1>4, ReadHidden, ListHidden
<1> QED
  BY <1>1, <1>2, <1>3, <1>4 DEF QNext, qvars, vars, Read, Abandon, Answer

(* While no other call writes between the lookup of a rescan and its        *)
(* transaction, no name holds a wildcard of LIKE and no file's path becomes *)
(* a directory, a tree made while nothing is recorded shows all that is as  *)
(* large as asked for and not too deep, but second links: dropping a        *)
(* directory with all that is in it hides nothing larger (tree.go:61-64).   *)
THEOREM NothingHidden ==
    NoWildcards /\ KindsKept /\ QSpec /\ [][Undisturbed]_vars => []NothingLargeHidden
<1>1. QInit => SeenInv /\ DatedInv /\ HiddenInv
  BY DEF QInit, SeenInv, DatedInv, HiddenInv, UndisturbedTree, Asked
<1>2. RInv /\ DatedInv /\ HiddenInv /\ RollupConsistent => NothingLargeHidden
  <2> SUFFICES ASSUME RInv, DatedInv, HiddenInv, Done, reader.call = "tree",
                      Len(runs) = reader.since, RollupConsistent,
                      NEW q \in Linked(Root)
               PROVE  \/ q \in DOMAIN reader.shown
                      \/ Level(q, Root) > reader.ask.depth
                      \/ AllocatedSizeFor(q) < reader.ask.min
                      \/ rows[q].duplicate
    BY DEF NothingLargeHidden, Root
  <2>1. UndisturbedTree /\ reader.todo = <<>>
    BY DEF Done, UndisturbedTree
  <2>2. ~Wanted(q) \/ q \in DOMAIN reader.shown
    BY <2>1 DEF HiddenInv
  <2>3. AllocatedSizeFor(q) \in Int /\ Level(q, Root) \in Nat
    <3>1. q \in Indexed /\ q \in Below[Root] /\ Root \in Paths
      BY <2>1 DEF Linked, DatedInv, UndisturbedTree, Root
    <3> QED
      BY <3>1, Levels DEF AllocatedSizeFor, RInv, RowTypes, Row
  <2> QED
    BY <2>1, <2>2, <2>3 DEF Wanted, HiddenInv
<1>3. QInit => Init
  BY DEF QInit
<1>4. [QNext]_qvars => [Next]_vars
  BY DEF QNext, qvars, vars
<1>5. QSpec => Spec
  BY <1>3, <1>4, PTL DEF QSpec, Spec
<1>6. NoWildcards /\ KindsKept /\ QSpec /\ [][Undisturbed]_vars => []RollupConsistent
  BY <1>5, TotalsAddUp, PTL
<1>7. QSpec => [](RInv /\ DatedInv /\ HiddenInv)
  BY <1>1, NextSeen, NextDated, NextHidden, QueriesInvariance, PTL DEF QSpec
<1> QED
  BY <1>2, <1>6, <1>7, PTL
=============================================================================
