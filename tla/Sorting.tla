------------------------------- MODULE Sorting -------------------------------
(***************************************************************************)
(* What the sorts of the detectors, the documents and the redaction come   *)
(* to: some elements of a sequence in an order of their indices.           *)
(***************************************************************************)
EXTENDS Naturals, FiniteSets

(* The elements of s at the indices I, in an order of them: the k-th is the *)
(* one with k - 1 before it.                                                *)
Arranged(s, I, order) ==
    LET places == {<<Cardinality({j \in I : <<j, i>> \in order}), i>> : i \in I}
    IN  [k \in 1..Cardinality(I) |-> s[(CHOOSE p \in places : p[1] = k - 1)[2]]]

(* A stable sort by a relation on the indices: by index where it has        *)
(* neither before the other.                                                *)
StableSort(s, less) ==
    LET I == DOMAIN s
        order == {e \in I \X I : e \in less \/ (<<e[2], e[1]>> \notin less /\ e[1] < e[2])}
    IN  Arranged(s, I, order)

=============================================================================
