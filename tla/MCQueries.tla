----------------------------- MODULE MCQueries -----------------------------
(***************************************************************************)
(* A small disk for Queries.                                               *)
(*                                                                         *)
(*     top/   f   d/                                                       *)
(*     d/     g   e/                                                       *)
(*     e/     h                                                            *)
(***************************************************************************)
EXTENDS Queries

CONSTANTS top, d, e, f, g, h

Parents == [p \in Paths |-> CASE p = top -> NoPath
                             [] p \in {f, d} -> top
                             [] p \in {g, e} -> d
                             [] p = h -> e]

Under == [p \in Paths |-> CASE p = top -> {d, e, f, g, h}
                           [] p = d -> {e, g, h}
                           [] p = e -> {h}
                           [] p \in {f, g, h} -> {}]

KindsOfPaths == [p \in Paths |-> IF p \in {top, d, e} THEN "dir" ELSE "file"]

(* In the beginning everything is there, each file of size 1.               *)
Disk == [p \in Paths |-> [kind |-> KindsOfPaths[p],
                          size |-> IF KindsOfPaths[p] = "file" THEN 1 ELSE 0]]

(* f and g are links of one inode.                                          *)
Links == [p \in Paths |-> IF p = g THEN f ELSE p]

(* No name holds a character that LIKE reads as a wildcard.                 *)
LikeExact == [p \in Paths |-> {}]
=============================================================================
