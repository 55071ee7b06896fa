----------------------------- MODULE MCProgress -----------------------------
(***************************************************************************)
(* A small tree for Progress.                                              *)
(*                                                                         *)
(*     root/   home/   etc/                                                *)
(*     home/   file                                                        *)
(***************************************************************************)
EXTENDS Progress, TLC

CONSTANTS root, home, etc, file, disk1

FewEntries == root :> {home, etc} @@ home :> {file} @@ etc :> {}

OneDevice == [d \in Dirs |-> disk1]

Inodes == [f \in Files |-> 1]
Sizes  == [l \in Leaves |-> 5]
=============================================================================
