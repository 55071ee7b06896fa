------------------------------- MODULE MCWalk -------------------------------
(***************************************************************************)
(* A small tree for Walk.                                                  *)
(*                                                                         *)
(* It has a priority path (etc) beside an ordinary directory (home), a     *)
(* mount point (mnt), two links to one inode in different directories, a   *)
(* symlink, and a directory (cache) that lies at the depth cap.            *)
(*                                                                         *)
(*     root/   home/   etc/   mnt/ (another volume)                        *)
(*     home/   link1   cache/                                              *)
(*     etc/    link2   sym                                                 *)
(***************************************************************************)
EXTENDS Walk, TLC

CONSTANTS root, home, etc, mnt, cache, link1, link2, sym, disk1, disk2

WideEntries == root  :> {home, etc, mnt} @@ home :> {link1, cache}
            @@ etc   :> {link2, sym}     @@ mnt  :> {} @@ cache :> {}

WideDevices == [d \in Dirs |-> IF d = mnt THEN disk2 ELSE disk1]

(* Both links are links to one inode, of size 5; the symlink's size is 1.   *)
Inodes == [f \in Files |-> 1]
Sizes  == [l \in Leaves |-> IF l \in Files THEN 5 ELSE 1]
=============================================================================
