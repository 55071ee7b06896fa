------------------------------ MODULE Queries ------------------------------
(***************************************************************************)
(* A reader beside the processes that write the index: the queries of the  *)
(* service that list rows and date them (src/service/tree.go, summary.go,  *)
(* largest.go, freshness.go, opportunities.go), as any process runs them   *)
(* while others scan and rescan.                                           *)
(*                                                                         *)
(* Atomicity.  A call is a sequence of SQL queries (src/index/query.go) in *)
(* no transaction: each is one action here, and any call of Index may be   *)
(* recorded between two of them.  The queries left to do are in todo.      *)
(*                                                                         *)
(* Data.  Of the detectors' queries in a report two stand for all: the row *)
(* of a known location by its path, and the largest directories by LIKE.   *)
(* A run stands for the time its scan finished.  The volume in a summary   *)
(* is not the index's and left out.                                        *)
(***************************************************************************)
EXTENDS Index, SequencesExt

CONSTANTS
    KnownPaths, (* the data paths of the registry's known locations         *)
    Roots,      (* bound: the paths that are asked about                    *)
    Depths,     (* the depths a tree is asked for with                      *)
    MinSizes,   (* the least sizes a tree is asked for with                 *)
    Limits      (* the limits the largest are asked for with                *)

ASSUME QueriesAssumption ==
    /\ KnownPaths \subseteq Paths
    /\ Roots \subseteq Paths
    /\ Depths \subseteq Nat
    /\ MinSizes \subseteq Nat
    /\ Limits \subseteq Int

VARIABLE reader

qvars == <<disk, rows, runs, pc, op, reader>>

Idle == [call |-> "none"]

(* What is asked: TreeQuery, Summary's path, LargestQuery, OpportunityQuery. *)
Requests ==
    [call : {"tree"}, root : Roots, depth : Depths, min : MinSizes]
    \cup [call : {"summary", "report"}, root : Roots]
    \cup [call : {"largest"}, root : Roots, limit : Limits, kind : Kinds \cup {""}]

(* AllocatedSizeFor: the total of a directory, a file's own size.           *)
AllocatedSizeFor(q) == IF rows[q].kind = "dir" THEN rows[q].total ELSE rows[q].size

(* The rows that hang by their parent_id from the row of p.                 *)
Linked(p) ==
    {q \in Indexed \cap Below[p] :
        \A a \in Below[p] : (a = q \/ q \in Below[a]) =>
            a \in Indexed /\ rows[a].parent # Null}

(* A row as a result shows it, with its run and whether a tree of the root  *)
(* would show it too.                                                       *)
Seen(q, root) == [size |-> AllocatedSizeFor(q), state |-> rows[q].state, run |-> rows[q].run,
                  linked |-> q = root \/ q \in Linked(root)]

(* What is shown, with the rows of S added.                                 *)
AddTo(shown, S) ==
    [q \in DOMAIN shown \cup S |-> IF q \in DOMAIN shown THEN shown[q]
                                   ELSE Seen(q, reader.ask.root)]

Step(do, path, depth) == [do |-> do, path |-> path, depth |-> depth]

(* KnownLocationDetector: one NodeByPath for each location under the root.  *)
KnownSteps(p) ==
    LET at == SetToSeq(KnownPaths \cap ({p} \cup Below[p]))
    IN  [i \in DOMAIN at |-> Step("known", at[i], 0)]

(* freshness: the row of the path, then its run.                            *)
FreshnessSteps(p) == <<Step("row", p, 0), Step("run", p, 0)>>

(* Mutant of Plan: a summary reads its row after the known locations.       *)
PlanRowLast(r) ==
    CASE r.call = "tree"    -> <<Step("locate", r.root, r.depth)>>
      [] r.call = "summary" -> KnownSteps(r.root) \o FreshnessSteps(r.root)
      [] r.call = "largest" -> <<Step("top", r.root, 0)>>
      [] r.call = "report"  -> KnownSteps(r.root) \o <<Step("top", r.root, 0)>>
                               \o FreshnessSteps(r.root)

(* The queries a call makes after the one that finds its root.              *)
Plan(r) ==
    CASE r.call = "tree"    -> IF r.depth > 0 /\ rows[r.root].kind = "dir"
                               THEN <<Step("locate", r.root, r.depth)>> ELSE <<>>
      [] r.call = "summary" -> <<Step("run", r.root, 0)>> \o KnownSteps(r.root)
      [] r.call = "largest" -> <<Step("top", r.root, 0)>>
      [] r.call = "report"  -> KnownSteps(r.root) \o <<Step("top", r.root, 0)>>
                               \o FreshnessSteps(r.root)

Asked == reader # Idle
Todo(do) == Asked /\ reader.todo # <<>> /\ Head(reader.todo).do = do
Current == Head(reader.todo)
Done == Asked /\ reader.todo = <<>>

-----------------------------------------------------------------------------

(* NodeByPath finds the root; tree and summary keep its row.  A root that   *)
(* is not indexed is an error at once and not a step here.                  *)
Ask(r) ==
    /\ ~Asked
    /\ r.root \in Indexed
    /\ reader' = [call |-> r.call, ask |-> r, since |-> Len(runs),
                  id |-> rows[r.root].run, date |-> Null, status |-> "",
                  shown |-> [q \in IF r.call \in {"tree", "summary"} THEN {r.root} ELSE {}
                              |-> Seen(q, r.root)],
                  todo |-> Plan(r)]

Row_ == /\ Todo("row")
        /\ Current.path \in Indexed
        /\ reader' = [reader EXCEPT !.id = rows[Current.path].run, !.todo = Tail(@)]

(* ScanRunByID: runs are only ever added to.                                *)
Run_ == /\ Todo("run")
        /\ reader' = [reader EXCEPT !.date = reader.id, !.status = runs[reader.id].status,
                                    !.todo = Tail(@)]

(* A known location that is not indexed is passed over.                     *)
Known ==
    /\ Todo("known")
    /\ reader' = [reader EXCEPT !.shown = AddTo(@, {Current.path} \cap Indexed),
                                !.todo = Tail(@)]

(* The limit and the kind asked for; the report's is the detector's.        *)
Limit == IF reader.call # "largest" THEN 20
         ELSE IF reader.ask.limit <= 0 THEN 20 ELSE reader.ask.limit
Kind == IF reader.call = "largest" THEN reader.ask.kind ELSE "dir"

(* Largest: the first Limit rows by size, of rows of one size any.          *)
Top ==
    /\ Todo("top")
    /\ LET p == reader.ask.root
           all == {q \in Indexed \cap (Below[p] \cup LikeAlso[p]) : Kind \in {"", rows[q].kind}}
       IN  \E S \in SUBSET all :
            /\ Cardinality(S) = IF Cardinality(all) < Limit THEN Cardinality(all) ELSE Limit
            /\ \A a \in S, b \in all \ S : AllocatedSizeFor(a) >= AllocatedSizeFor(b)
            /\ reader' = [reader EXCEPT !.shown = AddTo(@, S), !.todo = Tail(@)]

(* Children, first query: the directory's row, by its path again.           *)
Locate ==
    /\ Todo("locate")
    /\ Current.path \in Indexed
    /\ reader' = [reader EXCEPT !.id = rows[Current.path].run,
                                !.todo = <<[Current EXCEPT !.do = "list"]>> \o Tail(@)]

(* Mutant of RowsWithParent: children are found by their path.              *)
RowsWithParentPath(d, id) == {c \in Indexed : ParentOf[c] = d}

(* The rows that have id, a row of d, for parent_id.                        *)
RowsWithParent(d, id) == {c \in Indexed : ParentOf[c] = d /\ rows[c].parent = id}

(* Mutant of Large: sizes are compared with the total column.               *)
LargeByTotal(c, min) == rows[c].total >= min

Large(c, min) == AllocatedSizeFor(c) >= min

(* Children, second query, and the loop over its rows, largest first: those *)
(* below the least size are dropped with all below them, directories are    *)
(* expanded depth first.                                                    *)
List ==
    /\ Todo("list")
    /\ LET here == Current.path
           kept == {c \in RowsWithParent(here, reader.id) : Large(c, reader.ask.min)}
           dirs == {c \in kept : rows[c].kind = "dir" /\ Current.depth > 1}
       IN  \E order \in SetToSeqs(dirs) :
            /\ \A i, j \in DOMAIN order :
                 i < j => AllocatedSizeFor(order[i]) >= AllocatedSizeFor(order[j])
            /\ reader' = [reader EXCEPT
                 !.shown = AddTo(@, kept),
                 !.todo = [i \in DOMAIN order |-> Step("locate", order[i], Current.depth - 1)]
                          \o Tail(@)]

(* A query fails: its row is gone ("not indexed"), the database is busy or  *)
(* the context is cancelled.  The call returns the error and nothing else.  *)
Abandon == Asked /\ reader.todo # <<>> /\ reader' = Idle

(* The result is returned.                                                  *)
Answer == Done /\ reader' = Idle

Read == \/ \E r \in Requests : Ask(r)
        \/ Row_ \/ Run_ \/ Known \/ Top \/ Locate \/ List
        \/ Abandon \/ Answer

QInit == Init /\ reader = Idle

QNext == \/ Next /\ UNCHANGED reader
         \/ Read /\ UNCHANGED vars

QSpec == QInit /\ [][QNext]_qvars

-----------------------------------------------------------------------------
(* Properties                                                               *)

(* Nothing a tree shows was measured before its root, whatever is scanned   *)
(* and rescanned between the queries that build it (tree.go:38-77): the     *)
(* age of the root is a bound for the age of all of it.                     *)
TreeNotOlder ==
    Asked /\ reader.call = "tree" =>
        \A q \in DOMAIN reader.shown :
            reader.shown[q].run >= reader.shown[reader.ask.root].run

(* A summary (summary.go:27-64) is dated by the row it reads first, and     *)
(* nothing it shows that hangs from this row is older; a report (which      *)
(* reads its date last, opportunities.go:163) promises this only if nothing *)
(* was recorded while it was made.                                          *)
DatedByOldest ==
    Asked /\ reader.date # Null =>
        \/ reader.call = "report" /\ Len(runs) # reader.since
        \/ \A q \in DOMAIN reader.shown :
              reader.shown[q].linked => reader.shown[q].run >= reader.date

(* "Freshness says when the data behind a result was measured" (service/    *)
(* freshness.go:14): no row behind a result is older than its date.         *)
DatedByAll ==
    Asked /\ reader.date # Null =>
        \A q \in DOMAIN reader.shown : reader.shown[q].run >= reader.date

(* Where the run that dates a result was complete, a directory shown that   *)
(* was not is not of this run: a later one measured it again, if it hangs   *)
(* from the root's row and the result is no report that something was       *)
(* recorded under (db.go:161, 245-252, freshness.go:41-46).                 *)
StatusOfItsRun ==
    Asked /\ reader.status = "complete" =>
        \A q \in DOMAIN reader.shown : reader.shown[q].state \notin {"", "complete"} =>
            /\ reader.shown[q].run # reader.date
            /\ \/ ~reader.shown[q].linked
               \/ reader.call = "report" /\ Len(runs) # reader.since
               \/ reader.shown[q].run > reader.date

(* "status is complete only when every directory was measured" (scanning.md *)
(* :38, freshness.go:21), of the directories a summary shows and nothing    *)
(* was recorded under: not kept above a rescan.                             *)
StatusOfAll ==
    /\ Asked /\ reader.call = "summary" /\ Len(runs) = reader.since
    /\ reader.status = "complete"
    => \A q \in DOMAIN reader.shown :
          reader.shown[q].linked => reader.shown[q].state \in {"", "complete"}

(* Levels below root.                                                       *)
Level(q, root) == Cardinality({a \in Below[root] : a = q \/ q \in Below[a]})

(* Dropping a directory below the least size, and so all that is in it,     *)
(* hides nothing that is as large (tree.go:61-64), but for second links,    *)
(* which no total holds, in a tree made while nothing was recorded.  This   *)
(* rests on totals that do not fall short: with two processes they may.     *)
NothingLargeHidden ==
    Done /\ reader.call = "tree" /\ Len(runs) = reader.since =>
        \A q \in Linked(reader.ask.root) :
            \/ q \in DOMAIN reader.shown
            \/ Level(q, reader.ask.root) > reader.ask.depth
            \/ AllocatedSizeFor(q) < reader.ask.min
            \/ rows[q].duplicate

=============================================================================
