------------------------------ MODULE Collapse ------------------------------
(***************************************************************************)
(* rollup.Collapse: the paths of a finding are rolled up to the directories*)
(* it covers (src/rollup/rollup.go), for the index as Children and         *)
(* NodeByPath show it (src/index/query.go).                                *)
(*                                                                         *)
(* The loop ranges over a Go map that it changes: the order is open, an    *)
(* entry deleted before it is reached is not produced, an entry added may  *)
(* or may not be.                                                          *)
(*                                                                         *)
(* Data.  A path is an element of Paths, ParentOf its directory, as in     *)
(* Index.  What the index holds does not change during the call.           *)
(***************************************************************************)
EXTENDS Naturals, FiniteSets

CONSTANTS
    Paths,      (* the indexed paths                                        *)
    Dirs,       (* those of them whose row is of a directory                *)
    ParentOf,   (* the directory each path is in; NoPath if it has no row   *)
    NoPath,
    Below       (* for each path, the paths strictly below it               *)

ASSUME CollapseAssumption ==
    /\ IsFiniteSet(Paths) /\ NoPath \notin Paths
    /\ Dirs \subseteq Paths
    /\ ParentOf \in [Paths -> Paths \cup {NoPath}]
    /\ Below \in [Paths -> SUBSET Paths]
    /\ \A f \in Paths \ Dirs : ParentOf[f] # NoPath /\ Below[f] = {}
    /\ \A p \in Paths :
        /\ p \notin Below[p]
        /\ \A q \in Paths : ParentOf[q] = p =>
            /\ q \in Below[p]
            /\ Below[q] \subseteq Below[p]
            /\ \A r \in Below[p] : q \in Below[r] => FALSE
        /\ \A q \in Below[p] :
            \E c \in Paths : ParentOf[c] = p /\ (q = c \/ q \in Below[c])
        /\ \A q, r \in Paths : p \in Below[q] /\ p \in Below[r] =>
            q = r \/ q \in Below[r] \/ r \in Below[q]

VARIABLES
    attached,   (* the paths whose row has a parent_id                      *)
    finding,    (* the paths Collapse is called with                        *)
    covered,    (* the map                                                  *)
    todo,       (* the entries the pass over the map has not reached yet    *)
    changed,    (* whether this pass has replaced anything                  *)
    pc          (* "pass", or "done": covered is returned                   *)

vars == <<attached, finding, covered, todo, changed, pc>>

Files == Paths \ Dirs

TypeOK ==
    /\ attached \subseteq {p \in Paths : ParentOf[p] # NoPath}
    /\ Files \subseteq attached
    /\ finding \subseteq Files
    /\ covered \subseteq Paths
    /\ todo \subseteq covered
    /\ changed \in BOOLEAN
    /\ pc \in {"pass", "done"}

(* db.Children(d)                                                           *)
Children(d) == {c \in attached : ParentOf[c] = d}

(* Mutant of AllCovered: one child covered is enough.                       *)
AllCoveredSome(d) == Children(d) \cap covered # {}

(* The directory d has children, and all of them are covered.               *)
AllCovered(d) == Children(d) # {} /\ Children(d) \subseteq covered

(* p's directory can take the place of its children.                        *)
Collapsible(p) ==
    LET parent == ParentOf[p]
    IN  parent \in Dirs \ covered /\ AllCovered(parent)

(* A row has no parent_id if a scan or rescan was called on its path, which *)
(* must be a directory.  A finding of more than one path, an artifact       *)
(* family, is of files; a finding of one path comes back as it is.          *)
Init ==
    /\ \E apart \in SUBSET Dirs :
         attached = {p \in Paths : ParentOf[p] # NoPath} \ apart
    /\ finding \in SUBSET Files
    /\ covered = finding
    /\ todo = finding
    /\ changed = FALSE
    /\ pc = IF Cardinality(finding) <= 1 THEN "done" ELSE "pass"

(* p stays as it is.                                                        *)
Keep(p) ==
    /\ pc = "pass"
    /\ p \in todo
    /\ ~Collapsible(p)
    /\ todo' = todo \ {p}
    /\ UNCHANGED <<attached, finding, covered, changed, pc>>

(* The children of p's directory are replaced by the directory, which the   *)
(* pass may or may not come to.                                             *)
Replace(p) ==
    /\ pc = "pass"
    /\ p \in todo
    /\ Collapsible(p)
    /\ LET kids == Children(ParentOf[p]) IN
        /\ covered' = (covered \ kids) \cup {ParentOf[p]}
        /\ todo' \in {todo \ (kids \cup {p}),
                      (todo \ (kids \cup {p})) \cup {ParentOf[p]}}
    /\ changed' = TRUE
    /\ UNCHANGED <<attached, finding, pc>>

(* Mutants of EndPass: one pass only; changed is not reset.                 *)
EndPassAlways ==
    /\ pc = "pass"
    /\ todo = {}
    /\ pc' = "done"
    /\ UNCHANGED <<attached, finding, covered, todo, changed>>

EndPassUnreset ==
    /\ pc = "pass"
    /\ todo = {}
    /\ IF changed THEN todo' = covered /\ UNCHANGED pc
                  ELSE pc' = "done" /\ UNCHANGED todo
    /\ UNCHANGED <<attached, finding, covered, changed>>

(* A pass that replaced something is followed by another.                   *)
EndPass ==
    /\ pc = "pass"
    /\ todo = {}
    /\ changed' = FALSE
    /\ IF changed THEN todo' = covered /\ UNCHANGED pc
                  ELSE pc' = "done" /\ UNCHANGED todo
    /\ UNCHANGED <<attached, finding, covered>>

Returned == pc = "done" /\ UNCHANGED vars

Next ==
    \/ \E p \in Paths : Keep(p) \/ Replace(p)
    \/ EndPass
    \/ Returned

Spec == Init /\ [][Next]_vars

(* A sequential loop: it takes its next step.                               *)
FairSpec == Spec /\ WF_vars(Next)

-----------------------------------------------------------------------------
(* Properties                                                               *)

(* q is d or below it along parent_id.                                      *)
Linked(q, d) ==
    \/ q = d
    \/ /\ q \in Below[d]
       /\ \A r \in Below[d] : q = r \/ q \in Below[r] => r \in attached

(* The rows nothing is linked to: files, and directories without children.  *)
Leaves == {p \in Paths : Children(p) = {}}

LeavesOf(paths) == {f \in Leaves : \E d \in paths : Linked(f, d)}

(* The same rows along parent_id, which is all Collapse looks at.           *)
CoversLinked == LeavesOf(covered) = LeavesOf(finding)

(* What a deletion of the paths removes: the files at or below them.        *)
FilesUnder(paths) == {f \in Files : \E d \in paths : f = d \/ f \in Below[d]}

(* What the map covers beyond the finding is below a row without parent_id. *)
BeyondIsUnlinked ==
    \A d \in covered : \A f \in (Files \cap Below[d]) \ finding :
        \E r \in Below[d] \ attached : f \in Below[r]

(* At every point of the loop the map covers, along parent_id, exactly the  *)
(* rows of the finding (rollup.go:12-18, 61-65), and by path every file of  *)
(* the finding; a file below a path of the map that the finding does not    *)
(* hold is below a directory without a parent_id, strictly below that path, *)
(* which Children does not return (rollup.go:49).                           *)
CoversTheFinding ==
    /\ CoversLinked
    /\ finding \subseteq FilesUnder(covered)
    /\ BeyondIsUnlinked

(* "The smallest set of paths that together cover exactly the same nodes as *)
(* paths" (rollup.go:12-13), of the files at or below them: not kept where  *)
(* a directory below has no parent_id.                                      *)
CoversExactly == FilesUnder(covered) = FilesUnder(finding)

(* A directory every leaf linked to which is in the finding, or a path of   *)
(* it.                                                                      *)
Full(d) == LeavesOf({d}) \subseteq LeavesOf(finding)

(* Whatever the order in which the map is ranged over, the result is the    *)
(* highest directories all of whose linked leaves are in the finding, and   *)
(* none linked to another (rollup.go:13-18, 33-37).  A directory one of     *)
(* whose subdirectories has no parent_id is among them when the rest is     *)
(* covered: CoversExactly is about that.  A single path is returned as it   *)
(* is.                                                                      *)
HighestDirectories ==
    pc = "done" /\ Cardinality(finding) > 1 =>
        covered = {d \in Paths : Full(d) /\ ~(d \in attached /\ Full(ParentOf[d]))}

(* The loop ends.                                                           *)
CollapseReturns == <>(pc = "done")

=============================================================================
