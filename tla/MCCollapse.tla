----------------------------- MODULE MCCollapse -----------------------------
(***************************************************************************)
(* A tree of three levels for Collapse, with every choice of a finding and *)
(* of rows without a parent_id.                                            *)
(*                                                                         *)
(*     top/    left/   right/  x                                           *)
(*     left/   a   b   inner/                                              *)
(*     inner/  c                                                           *)
(*     right/  d                                                           *)
(***************************************************************************)
EXTENDS Collapse, TLC

CONSTANTS top, left, right, inner, a, b, c, d, x

Parents == top :> NoPath @@ left :> top @@ right :> top @@ x :> top
           @@ a :> left @@ b :> left @@ inner :> left @@ c :> inner @@ d :> right

Under == top :> {left, right, inner, a, b, c, d, x}
         @@ left :> {a, b, inner, c} @@ inner :> {c} @@ right :> {d}
         @@ a :> {} @@ b :> {} @@ c :> {} @@ d :> {} @@ x :> {}
=============================================================================
