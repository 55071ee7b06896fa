------------------------------ MODULE MCIndex ------------------------------
(***************************************************************************)
(* A small disk for Index.                                                 *)
(*                                                                         *)
(*     top/   a_b/   aXb/                                                  *)
(*     a_b/   f   sub/                                                     *)
(*     sub/   g                                                            *)
(*     aXb/   h                                                            *)
(***************************************************************************)
EXTENDS Index, TLC

CONSTANTS top, a_b, f, sub, g, aXb, h

Parents == top :> NoPath @@ a_b :> top @@ aXb :> top
           @@ f :> a_b @@ sub :> a_b @@ g :> sub @@ h :> aXb

Under == top :> {a_b, aXb, f, sub, g, h} @@ a_b :> {f, sub, g} @@ sub :> {g}
         @@ aXb :> {h} @@ f :> {} @@ g :> {} @@ h :> {}

KindsOfPaths == [p \in Paths |-> IF p \in {top, a_b, sub, aXb} THEN "dir" ELSE "file"]

(* In the beginning everything is there, each file of size 1.               *)
Disk == [p \in Paths |-> [kind |-> KindsOfPaths[p],
                          size |-> IF KindsOfPaths[p] = "file" THEN 1 ELSE 0]]

(* Every file is an inode of its own.                                       *)
Alone == [p \in Paths |-> p]

(* No name holds a character that LIKE reads as a wildcard.                 *)
LikeExact == [p \in Paths |-> {}]

(* "a_b/%" also matches what is in aXb.                                     *)
LikeWild == [p \in Paths |-> IF p = a_b THEN {h} ELSE {}]
=============================================================================
