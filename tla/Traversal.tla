----------------------------- MODULE Traversal -----------------------------
(***************************************************************************)
(* What scan.Walk promises of its traversal, with no worker, queue, lock   *)
(* or counter in it: directories are found from the root downwards, each   *)
(* found at most once and only while the directory that holds it is being  *)
(* worked on; each is worked on and settled once; the traversal ends, and  *)
(* it ends only when nothing found is left unsettled.                      *)
(* Walk.tla implements it with a closable priority queue and a WaitGroup.  *)
(***************************************************************************)
CONSTANTS Dirs,      (* the directories of the tree                        *)
          Root,      (* the directory the scan starts at                   *)
          Subdirs    (* for each directory, the directories directly in it *)

VARIABLES found,        (* directories handed to the traversal so far      *)
          outstanding,  (* those of them not settled yet                   *)
          over          (* the traversal has been declared at an end       *)

vars == <<found, outstanding, over>>

TypeOK ==
    /\ found \subseteq Dirs
    /\ outstanding \subseteq Dirs
    /\ over \in BOOLEAN

Init ==
    /\ found = {Root}
    /\ outstanding = {Root}
    /\ over = FALSE

(* Directory c turns up in d, which is being worked on.                    *)
Discover(d, c) ==
    /\ d \in outstanding
    /\ c \in Subdirs[d] \ found
    /\ found' = found \cup {c}
    /\ outstanding' = outstanding \cup {c}
    /\ UNCHANGED over

(* The work on d is done.                                                  *)
Settle(d) ==
    /\ d \in outstanding
    /\ outstanding' = outstanding \ {d}
    /\ UNCHANGED <<found, over>>

(* The end is declared.                                                    *)
Finish ==
    /\ outstanding = {}
    /\ over' = TRUE
    /\ UNCHANGED <<found, outstanding>>

Next ==
    \/ \E d \in Dirs, c \in Dirs : Discover(d, c)
    \/ \E d \in Dirs : Settle(d)
    \/ Finish

Spec == Init /\ [][Next]_vars /\ WF_vars(Next)

-----------------------------------------------------------------------------

(* The traversal is never declared over while work is outstanding.         *)
OverMeansSettled == over => outstanding = {}

(* The traversal ends.                                                     *)
Ends == <>over

=============================================================================
