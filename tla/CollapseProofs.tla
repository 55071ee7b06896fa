--------------------------- MODULE CollapseProofs ---------------------------
(***************************************************************************)
(* Theorems about Collapse, for any tree, any finding and any order of the *)
(* map.                                                                    *)
(*                                                                         *)
(* CoversLinked and the types are inductive, and imply CoversTheFinding.  That the result is the   *)
(* highest directories rests on two more facts: no path in the map is      *)
(* linked to another one (Apart), and what a pass has left alone, as long  *)
(* as nothing was replaced in it, cannot be replaced (Settled).  From them *)
(* it follows by induction over the paths below a directory that one whose *)
(* leaves are all in the finding is linked to a path in the map.           *)
(***************************************************************************)
EXTENDS Collapse, FiniteSums

IInv == TypeOK /\ CoversLinked

LEMMA InitIInv == Init => IInv
  BY CollapseAssumption DEF Init, IInv, TypeOK, CoversLinked, Files

LEMMA NextTypeOK == TypeOK /\ [Next]_vars => TypeOK'
<1> SUFFICES ASSUME TypeOK, [Next]_vars PROVE TypeOK'
  OBVIOUS
<1> USE DEF TypeOK
<1>1. ASSUME NEW p \in Paths, Keep(p) PROVE TypeOK'
  BY <1>1 DEF Keep
<1>2. ASSUME NEW p \in Paths, Replace(p) PROVE TypeOK'
  BY <1>2, CollapseAssumption DEF Replace, Collapsible
<1>3. CASE EndPass
  BY <1>3 DEF EndPass
<1>4. CASE UNCHANGED vars
  BY <1>4 DEF vars
<1> QED
  BY <1>1, <1>2, <1>3, <1>4 DEF Next, Returned

(* A child is linked to its directory, and so is what is linked to it.      *)
LEMMA LinkedUp ==
    ASSUME TypeOK, NEW d \in Paths, NEW c \in Children(d), NEW q \in Paths,
           Linked(q, c)
    PROVE  Linked(q, d)
<1>1. c \in Paths /\ ParentOf[c] = d /\ c \in Below[d] /\ c \in attached
  BY CollapseAssumption DEF Children, TypeOK
<1>2. q \in Below[d]
  BY <1>1, CollapseAssumption DEF Linked
<1>3. ASSUME NEW r \in Below[d], q = r \/ q \in Below[r]
      PROVE  r \in attached
  <2>0. r \in Paths
    BY CollapseAssumption
  <2>1. CASE r = c
    BY <1>1, <2>1
  <2>2. CASE r \in Below[c]
    BY <1>3, <2>2, <1>1, CollapseAssumption DEF Linked
  <2>3. CASE r # c /\ r \notin Below[c]
    <3>1. c \notin Below[r]
      BY <1>1, <2>0, CollapseAssumption
    <3>2. q # r
      BY <2>3 DEF Linked
    <3>3. q \in Below[r] /\ (q = c \/ q \in Below[c])
      BY <1>3, <3>2 DEF Linked
    <3>4. q \in Below[c]
      BY <3>1, <3>3
    <3> QED
      BY <1>1, <2>0, <2>3, <3>1, <3>3, <3>4, CollapseAssumption
  <2> QED
    BY <2>1, <2>2, <2>3
<1> QED
  BY <1>2, <1>3 DEF Linked

(* What is linked to a directory, other than itself, is linked to one of    *)
(* its children.                                                            *)
LEMMA LinkedDown ==
    ASSUME TypeOK, NEW d \in Paths, NEW q \in Paths, Linked(q, d), q # d
    PROVE  \E c \in Children(d) : Linked(q, c)
<1>1. q \in Below[d] /\ \A r \in Below[d] : q = r \/ q \in Below[r] => r \in attached
  BY DEF Linked
<1>2. PICK c \in Paths : ParentOf[c] = d /\ (q = c \/ q \in Below[c])
  BY <1>1, CollapseAssumption
<1>3. c \in Below[d] /\ Below[c] \subseteq Below[d]
  BY <1>2, CollapseAssumption
<1>4. c \in Children(d)
  BY <1>1, <1>2, <1>3 DEF Children
<1>5. Linked(q, c)
  BY <1>1, <1>2, <1>3 DEF Linked
<1> QED
  BY <1>4, <1>5

(* A directory with children covers the leaves its children cover.          *)
LEMMA SameLeaves ==
    ASSUME TypeOK, NEW d \in Paths, Children(d) # {}, NEW others
    PROVE  LeavesOf(others \cup Children(d)) = LeavesOf(others \cup {d})
<1>1. ASSUME NEW f \in Leaves, NEW c \in Children(d), Linked(f, c)
      PROVE  Linked(f, d)
  BY <1>1, LinkedUp DEF Leaves
<1>2. ASSUME NEW f \in Leaves, Linked(f, d)
      PROVE  \E c \in Children(d) : Linked(f, c)
  BY <1>2, LinkedDown DEF Leaves
<1> QED
  BY <1>1, <1>2 DEF LeavesOf

LEMMA NextCovers == IInv /\ [Next]_vars => CoversLinked'
<1> SUFFICES ASSUME IInv, [Next]_vars PROVE CoversLinked'
  OBVIOUS
<1>1. ASSUME attached' = attached, finding' = finding,
             LeavesOf(covered') = LeavesOf(covered)
      PROVE  CoversLinked'
  <2>1. \A paths : LeavesOf(paths)' = LeavesOf(paths)
    BY <1>1 DEF LeavesOf, Leaves, Children, Linked
  <2> QED
    BY <1>1, <2>1 DEF IInv, CoversLinked, LeavesOf, Leaves, Children, Linked
<1>2. ASSUME NEW p \in Paths, Replace(p) PROVE CoversLinked'
  <2> DEFINE d == ParentOf[p]
  <2>1. d \in Paths /\ Children(d) # {} /\ Children(d) \subseteq covered
    BY <1>2, CollapseAssumption DEF Replace, Collapsible, AllCovered
  <2>2. LeavesOf((covered \ Children(d)) \cup Children(d))
          = LeavesOf((covered \ Children(d)) \cup {d})
    BY <2>1, SameLeaves DEF IInv
  <2>3. (covered \ Children(d)) \cup Children(d) = covered
    BY <2>1
  <2>4. covered' = (covered \ Children(d)) \cup {d}
    BY <1>2 DEF Replace
  <2>5. LeavesOf(covered') = LeavesOf(covered)
    BY <2>2, <2>3, <2>4
  <2> QED
    BY <1>1, <1>2, <2>5 DEF Replace
<1>3. CASE UNCHANGED <<attached, finding, covered>>
  BY <1>1, <1>3
<1> QED
  BY <1>2, <1>3 DEF Next, Keep, EndPass, Returned, vars

(* Every reachable state is well typed: the pass never comes to an entry    *)
(* that is no longer in the map (rollup.go:36-70).                          *)
THEOREM CollapseTypeCorrect == Spec => []TypeOK
  BY InitIInv, NextTypeOK, PTL DEF Spec, IInv

(* On paths: what the map covers beyond the finding is below a directory    *)
(* without a parent_id.                                                     *)
LEMMA CoversByPath == IInv => CoversTheFinding
<1> SUFFICES ASSUME IInv PROVE CoversTheFinding
  OBVIOUS
<1>1. TypeOK /\ CoversLinked /\ finding \subseteq Files /\ Files \subseteq attached
  BY DEF IInv, TypeOK
<1>2. ASSUME NEW f \in Files
      PROVE  f \in Paths /\ f \in Leaves /\ Below[f] = {} /\ Linked(f, f)
  BY <1>1, CollapseAssumption DEF Files, Leaves, Children, Linked, TypeOK
<1>3. ASSUME NEW f \in finding PROVE f \in FilesUnder(covered)
  <2>1. f \in LeavesOf(finding)
    BY <1>1, <1>2, <1>3 DEF LeavesOf
  <2>2. PICK d \in covered : Linked(f, d)
    BY <1>1, <2>1 DEF CoversLinked, LeavesOf
  <2> QED
    BY <1>1, <2>2 DEF Linked, FilesUnder
<1>4. ASSUME NEW d \in covered, NEW f \in (Files \cap Below[d]) \ finding
      PROVE  \E r \in Below[d] \ attached : f \in Below[r]
  <2>1. ~Linked(f, d)
    <3>1. ASSUME Linked(f, d) PROVE FALSE
      <4>1. f \in LeavesOf(finding)
        BY <1>1, <1>2, <1>4, <3>1 DEF CoversLinked, LeavesOf
      <4>2. PICK e \in finding : Linked(f, e)
        BY <4>1 DEF LeavesOf
      <4> QED
        BY <1>1, <1>2, <1>4, <4>2 DEF Linked
    <3> QED
      BY <3>1
  <2>2. PICK r \in Below[d] : (f = r \/ f \in Below[r]) /\ r \notin attached
    BY <1>4, <2>1 DEF Linked
  <2> QED
    BY <1>1, <1>4, <2>2
<1> QED
  BY <1>1, <1>3, <1>4 DEF CoversTheFinding, BeyondIsUnlinked

(* In every order and at every point the rows linked to the paths in the    *)
(* map are those linked to the finding (rollup.go:12-18, 61-65), and a file *)
(* below them that the finding does not hold is below a directory without a *)
(* parent_id, which Children does not show (rollup.go:49).                  *)
THEOREM CollapseCovers == Spec => []CoversTheFinding
<1>1. IInv /\ [Next]_vars => IInv'
  BY NextTypeOK, NextCovers DEF IInv
<1> QED
  BY <1>1, InitIInv, CoversByPath, PTL DEF Spec

-----------------------------------------------------------------------------
(* The result is the highest directories                                    *)

(* Below is transitive: among paths that are no exception, the one with the *)
(* fewest below it.                                                         *)
LEMMA BelowBelow == ASSUME NEW d \in Paths, NEW q \in Below[d] PROVE Below[q] \subseteq Below[d]
<1> DEFINE bad == {e \in Paths : \E r \in Below[e] : ~(Below[r] \subseteq Below[e])}
           F == {Below[e] : e \in bad}
<1>1. ASSUME bad # {} PROVE FALSE
  <2>1. PICK e \in bad : \A b \in bad : Below[b] \subseteq Below[e] => Below[b] = Below[e]
    <3>1. F \subseteq SUBSET Paths /\ F # {} /\ IsFiniteSet(Paths)
      BY <1>1, CollapseAssumption
    <3>2. \E U \in F : \A V \in F : V \subseteq U => V = U
      <4> HIDE DEF F
      <4> QED
        BY <3>1, SmallestSet
    <3>3. PICK U \in F : \A V \in F : V \subseteq U => V = U
      BY <3>2
    <3>4. PICK e \in bad : U = Below[e]
      BY <3>3
    <3>5. \A b \in bad : Below[b] \in F
      OBVIOUS
    <3> HIDE DEF bad, F
    <3> QED
      BY <3>3, <3>4, <3>5
  <2>2. PICK r \in Below[e] : ~(Below[r] \subseteq Below[e])
    BY <2>1
  <2>3. PICK c \in Paths : ParentOf[c] = e /\ (r = c \/ r \in Below[c])
    BY <2>1, <2>2, CollapseAssumption
  <2>4. c \in Below[e] /\ Below[c] \subseteq Below[e] /\ c \notin Below[c]
    BY <2>1, <2>3, CollapseAssumption
  <2>5. c \notin bad
    BY <2>1, <2>4
  <2> QED
    BY <2>2, <2>3, <2>4, <2>5
<1> QED
  BY <1>1, CollapseAssumption

LEMMA LinkedBelow ==
    ASSUME NEW f \in Paths, NEW p \in Paths, NEW e \in Paths, Linked(f, p), Linked(p, e)
    PROVE  Linked(f, e)
<1>1. CASE f = p \/ p = e
  BY <1>1
<1>2. CASE f # p /\ p # e
  <2>1. /\ f \in Below[p] /\ \A r \in Below[p] : f = r \/ f \in Below[r] => r \in attached
        /\ p \in Below[e] /\ \A r \in Below[e] : p = r \/ p \in Below[r] => r \in attached
    BY <1>2 DEF Linked
  <2>2. f \in Below[e]
    BY <2>1, BelowBelow
  <2>3. ASSUME NEW r \in Below[e], f = r \/ f \in Below[r] PROVE r \in attached
    <3>1. r \in Paths
      BY CollapseAssumption
    <3>2. r = p \/ r \in Below[p] \/ p \in Below[r]
      BY <2>1, <2>3, <3>1, CollapseAssumption
    <3> QED
      BY <2>1, <2>3, <3>2
  <2> QED
    BY <2>2, <2>3 DEF Linked
<1> QED
  BY <1>1, <1>2

(* What is linked to a path above it is so through its directory.           *)
LEMMA LinkedParent ==
    ASSUME NEW d \in Paths, NEW c \in Children(d), c \in Paths, NEW e \in Paths,
           Linked(c, e), c # e
    PROVE  Linked(d, e)
<1>1. /\ ParentOf[c] = d /\ c \in Below[d]
      /\ c \in Below[e] /\ \A r \in Below[e] : c = r \/ c \in Below[r] => r \in attached
  BY CollapseAssumption DEF Children, Linked
<1>2. e \notin Below[d]
  BY <1>1, CollapseAssumption
<1>3. d = e \/ d \in Below[e]
  BY <1>1, <1>2, CollapseAssumption
<1>4. ASSUME NEW r \in Below[e], d = r \/ d \in Below[r] PROVE r \in attached
  <2>1. r \in Paths
    BY CollapseAssumption
  <2>2. c \in Below[r]
    BY <1>1, <1>4, <2>1, BelowBelow
  <2> QED
    BY <1>1, <2>2
<1> QED
  BY <1>3, <1>4 DEF Linked

(* No path in the map is linked to another one.                             *)
Apart == \A p \in covered, q \in covered : Linked(p, q) => p = q

(* What a pass has left alone cannot be replaced, unless it has replaced    *)
(* something since.                                                         *)
Settled ==
    /\ pc = "pass" /\ ~changed => \A p \in covered \ todo : ~Collapsible(p)
    /\ pc = "done" /\ Cardinality(finding) > 1 => \A p \in covered : ~Collapsible(p)

HInv == IInv /\ Apart /\ Settled

LEMMA InitHInv == Init => HInv
<1> SUFFICES ASSUME Init PROVE HInv
  OBVIOUS
<1>1. finding \subseteq Files /\ covered = finding /\ todo = finding
  BY DEF Init
<1>2. Apart
  BY <1>1, CollapseAssumption DEF Apart, Linked, Files
<1>3. IsFiniteSet(finding) /\ Cardinality(finding) \in Nat
  BY <1>1, FS_Subset, FS_CardinalityType, CollapseAssumption DEF Files
<1>4. Settled
  BY <1>1, <1>3 DEF Init, Settled
<1> QED
  BY <1>2, <1>4, InitIInv DEF HInv

LEMMA ReplaceApart == ASSUME HInv, NEW p \in Paths, Replace(p) PROVE Apart'
<1> DEFINE d == ParentOf[p]
           kids == Children(d)
<1>1. /\ d \in Paths /\ d \notin covered /\ kids # {} /\ kids \subseteq covered
      /\ covered' = (covered \ kids) \cup {d} /\ attached' = attached
  BY CollapseAssumption DEF Replace, Collapsible, AllCovered
<1>2. covered \subseteq Paths /\ TypeOK
  BY DEF HInv, IInv, TypeOK
<1>3. ASSUME NEW q \in covered \ kids PROVE ~Linked(q, d) /\ ~Linked(d, q)
  <2>1. ASSUME Linked(q, d) PROVE FALSE
    <3>1. PICK c \in kids : Linked(q, c)
      BY <1>1, <1>2, <1>3, <2>1, LinkedDown
    <3> QED
      BY <1>1, <1>3, <3>1 DEF HInv, Apart
  <2>2. ASSUME Linked(d, q) PROVE FALSE
    <3>1. PICK c \in kids : TRUE
      BY <1>1
    <3>2. Linked(c, d)
      BY <1>1, <1>2, <3>1, LinkedUp DEF Linked
    <3>3. Linked(c, q)
      BY <1>1, <1>2, <2>2, <3>2, LinkedBelow
    <3> QED
      BY <1>1, <1>3, <3>3 DEF HInv, Apart
  <2> QED
    BY <2>1, <2>2
<1>4. \A q, r : Linked(q, r)' <=> Linked(q, r)
  BY <1>1 DEF Linked
<1> QED
  BY <1>1, <1>3, <1>4 DEF HInv, Apart

LEMMA NextHInv == HInv /\ [Next]_vars => HInv'
<1> SUFFICES ASSUME HInv, [Next]_vars PROVE HInv'
  OBVIOUS
<1>1. IInv'
  BY NextTypeOK, NextCovers DEF HInv, IInv
<1>2. ASSUME NEW p \in Paths, Keep(p) PROVE Apart' /\ Settled'
  BY <1>2 DEF Keep, HInv, Apart, Linked, Settled, Collapsible, AllCovered, Children
<1>3. ASSUME NEW p \in Paths, Replace(p) PROVE Apart' /\ Settled'
  BY <1>3, ReplaceApart DEF Replace, Settled
<1>4. CASE EndPass
  <2>1. UNCHANGED <<attached, finding, covered>> /\ pc = "pass" /\ todo = {}
    BY <1>4 DEF EndPass
  <2>2. \/ todo' = covered /\ pc' = "pass"
        \/ ~changed /\ pc' = "done"
    BY <1>4 DEF EndPass
  <2>3. Apart'
    BY <2>1 DEF HInv, Apart, Linked
  <2>4. \A p \in covered : Collapsible(p)' <=> Collapsible(p)
    BY <2>1 DEF Collapsible, AllCovered, Children
  <2>5. CASE todo' = covered /\ pc' = "pass"
    BY <1>1, <2>1, <2>3, <2>5 DEF HInv, Settled
  <2>6. CASE ~changed /\ pc' = "done"
    BY <1>1, <2>1, <2>3, <2>4, <2>6 DEF HInv, Settled
  <2> QED
    BY <2>2, <2>5, <2>6
<1>5. CASE UNCHANGED vars
  BY <1>1, <1>5 DEF vars, HInv, Apart, Linked, Settled, Collapsible, AllCovered, Children
<1> QED
  BY <1>1, <1>2, <1>3, <1>4, <1>5 DEF Next, Returned, HInv

LEMMA FullUp ==
    ASSUME TypeOK, NEW d \in Paths, NEW e \in Paths, Linked(d, e), Full(e) PROVE Full(d)
  BY LinkedBelow DEF Full, LeavesOf, Leaves

LEMMA CoveredFull == ASSUME HInv, NEW d \in covered PROVE Full(d)
  BY DEF Full, HInv, IInv, CoversLinked, LeavesOf

(* When nothing can be replaced any more, a path all of whose leaves are in *)
(* the finding is at or below one in the map.                               *)
LEMMA FullCovered ==
    ASSUME HInv, \A p \in covered : ~Collapsible(p), NEW d \in Paths, Full(d)
    PROVE  \E e \in covered : Linked(d, e)
<1> DEFINE bad == {b \in Paths : Full(b) /\ \A e \in covered : ~Linked(b, e)}
           F == {Below[b] : b \in bad}
<1>1. ASSUME bad # {} PROVE FALSE
  <2>1. PICK b \in bad : \A c \in bad : Below[c] \subseteq Below[b] => Below[c] = Below[b]
    <3>1. F \subseteq SUBSET Paths /\ F # {} /\ IsFiniteSet(Paths)
      BY <1>1, CollapseAssumption
    <3>2. \E U \in F : \A V \in F : V \subseteq U => V = U
      <4> HIDE DEF F
      <4> QED
        BY <3>1, SmallestSet
    <3> QED
      BY <3>2
  <2>2. b \notin covered
    BY <2>1 DEF Linked
  <2>3. TypeOK /\ covered \subseteq Paths
    BY DEF HInv, IInv, TypeOK
  <2>4. Children(b) # {}
    <3>1. ASSUME Children(b) = {} PROVE FALSE
      <4>1. b \in LeavesOf({b})
        BY <2>1, <3>1 DEF LeavesOf, Leaves, Linked
      <4>2. b \in LeavesOf(covered)
        BY <2>1, <4>1 DEF Full, HInv, IInv, CoversLinked
      <4> QED
        BY <2>1, <4>2 DEF LeavesOf
    <3> QED
      BY <3>1
  <2>5. ASSUME NEW c \in Children(b) PROVE c \in covered
    <3>1. c \in Paths /\ ParentOf[c] = b
      BY <2>3, CollapseAssumption DEF Children, TypeOK
    <3>2. Full(c)
      <4>1. Linked(c, b)
        BY <2>1, <2>3, <3>1, LinkedUp DEF Linked
      <4> QED
        BY <2>1, <2>3, <3>1, <4>1, FullUp
    <3>3. Below[c] \subseteq Below[b] /\ Below[c] # Below[b]
      BY <2>1, <3>1, CollapseAssumption
    <3>4. PICK e \in covered : Linked(c, e)
      BY <2>1, <3>1, <3>2, <3>3
    <3>5. c = e
      BY <2>1, <2>3, <3>1, <3>4, LinkedParent
    <3> QED
      BY <3>4, <3>5
  <2>6. b \in Dirs
    BY <2>1, <2>4, <2>3, CollapseAssumption DEF Children, TypeOK
  <2>7. PICK c \in Children(b) : TRUE
    BY <2>4
  <2>8. Collapsible(c) /\ c \in covered
    BY <2>2, <2>4, <2>5, <2>6, <2>7 DEF Collapsible, AllCovered, Children
  <2> QED
    BY <2>8
<1> QED
  BY <1>1

(* Whatever the order in which the map is ranged over, the result is the    *)
(* highest directories all of whose linked leaves are in the finding        *)
(* (rollup.go:13-18, 33-37), for every tree, finding and choice of rows     *)
(* without a parent_id.                                                     *)
THEOREM CollapseHighest == Spec => []HighestDirectories
<1>1. HInv => HighestDirectories
  <2> SUFFICES ASSUME HInv, pc = "done", Cardinality(finding) > 1
               PROVE  covered = {d \in Paths : Full(d) /\ ~(d \in attached /\ Full(ParentOf[d]))}
    BY DEF HighestDirectories
  <2>1. TypeOK /\ covered \subseteq Paths /\ \A p \in covered : ~Collapsible(p)
    BY DEF HInv, IInv, TypeOK, Settled
  <2>2. ASSUME NEW d \in attached
        PROVE  /\ d \in Paths /\ ParentOf[d] \in Paths /\ d \in Children(ParentOf[d])
               /\ d \in Below[ParentOf[d]] /\ Linked(d, ParentOf[d])
    <3>1. d \in Paths /\ ParentOf[d] \in Paths /\ d \in Children(ParentOf[d])
      BY <2>1, CollapseAssumption DEF TypeOK, Children
    <3>2. Linked(d, d)
      BY DEF Linked
    <3> QED
      BY <2>1, <3>1, <3>2, LinkedUp, CollapseAssumption
  <2>3. ASSUME NEW d \in covered, d \in attached, Full(ParentOf[d]) PROVE FALSE
    <3>1. PICK e \in covered : Linked(ParentOf[d], e)
      BY <2>1, <2>2, <2>3, FullCovered
    <3>2. Linked(d, e)
      BY <2>1, <2>2, <2>3, <3>1, LinkedBelow
    <3>3. d = e
      BY <3>2 DEF HInv, Apart
    <3> QED
      BY <2>1, <2>2, <2>3, <3>1, <3>3, CollapseAssumption DEF Linked
  <2>4. ASSUME NEW d \in Paths, Full(d), ~(d \in attached /\ Full(ParentOf[d])) PROVE d \in covered
    <3>1. PICK e \in covered : Linked(d, e)
      BY <2>1, <2>4, FullCovered
    <3>2. ASSUME d # e PROVE FALSE
      <4>1. d \in attached
        BY <3>1, <3>2 DEF Linked
      <4>2. Linked(ParentOf[d], e)
        BY <2>1, <2>2, <3>1, <3>2, <4>1, LinkedParent
      <4>3. Full(ParentOf[d])
        BY <2>1, <2>2, <4>1, <4>2, CoveredFull, FullUp
      <4> QED
        BY <2>4, <4>1, <4>3
    <3> QED
      BY <3>1, <3>2
  <2> QED
    BY <2>1, <2>3, <2>4, CoveredFull
<1> QED
  BY <1>1, InitHInv, NextHInv, PTL DEF Spec
=============================================================================
