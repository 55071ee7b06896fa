--------------------------- MODULE MCAttribution ---------------------------
(***************************************************************************)
(* A tree for Attribution in which all detectors meet.                     *)
(*                                                                         *)
(*     home/    cache/   lib/   dl/   work/                                *)
(*     cache/   kb/ (a bundle in a known location):  k                     *)
(*     lib/     inner/ (a bundle that is all of a bundle):  m (an archive) *)
(*     dl/      z1  z2 (two versions; z2 is named like a backup)           *)
(*              a (an archive)   s/ (its sibling):  t  u                   *)
(*     work/    g   x (a .dmg)   vm/ (a known location):  v                *)
(***************************************************************************)
EXTENDS Attribution, TLC

CONSTANTS home, cache, kb, lib, inner, dl, s, work, vm,
          k, m, z1, z2, a, t, u, g, x, v, z

CONSTANTS
    Absent,     (* the files that need not be there                         *)
    LinkSets,   (* the sets of files that may be the second links           *)
    Large       (* the sizes of g                                           *)

Under1 == cache :> {kb, k} @@ kb :> {k} @@ lib :> {inner, m} @@ inner :> {m}
          @@ dl :> {z1, z2, a, s, t, u} @@ s :> {t, u}
          @@ work :> {g, x, vm, v} @@ vm :> {v}

MCBelow == [p \in Paths |->
    IF p = home THEN Paths \ {home} ELSE IF p \in DOMAIN Under1 THEN Under1[p] ELSE {}]

SizesOf(rows, dup, large) ==
    LET own == [f \in Files |-> IF f = g THEN large ELSE IF f = t THEN 4
                               ELSE IF f = v THEN 2 ELSE 1]
    IN  [p \in Paths |-> IF p \in Files THEN own[p]
            ELSE MapThenSumSet(LAMBDA f : own[f], (MCBelow[p] \cap rows \cap Files) \ dup)]

MCIndexes ==
    {[rows |-> i.rows, duplicates |-> i.dup, size |-> SizesOf(i.rows, i.dup, i.large)] :
        i \in {j \in [rows : {Paths \ q : q \in SUBSET Absent}, dup : LinkSets, large : Large] :
                    j.dup \subseteq j.rows}}

MCKindOf == cache :> "cache" @@ vm :> "container"

MCDefaultOf == cache :> "safe_delete" @@ vm :> "safe_delete"

MCFamilyOf == z1 :> z @@ z2 :> z @@ a :> NoFamily @@ m :> NoFamily @@ x :> NoFamily

MCSiblingOf == z1 :> NoPath @@ z2 :> NoPath @@ a :> s @@ m :> NoPath @@ x :> vm

MCContents ==
    {[state |-> st, files |-> 0, bytes |-> 0] : st \in {"unsupported", "failed"}}
    \cup [state : {"read"}, files : {1, 2, 3}, bytes : {3}]

MCFilters == {NoFilter, [NoFilter EXCEPT !.class = "likely_safe"], [NoFilter EXCEPT !.kind = "unknown"],
              [NoFilter EXCEPT !.confidence = 70]}
=============================================================================
