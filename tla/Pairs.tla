-------------------------------- MODULE Pairs --------------------------------
(***************************************************************************)
(* An archive against the directory of the same name beside it: listing    *)
(* the archive, counting the directory's files, the verdict, and the loop  *)
(* over all pairs (src/detect/archive_pair.go, archive_read.go,            *)
(* src/service/pairs.go).                                                  *)
(*                                                                         *)
(* Data.  A candidate is a row of the archives under the query with the    *)
(* row beside it: the archive's format, sizes and members, and the files   *)
(* the index has in the directory, named as the members they came from.    *)
(* The order of the loop does not matter and is left out; of the numbers   *)
(* in a pair only the ones a verdict rests on are kept.                    *)
(***************************************************************************)
EXTENDS Naturals, FiniteSets, FiniteSetsExt, Redaction

CONSTANTS
    Members,    (* what archives may hold and directories have              *)
    TypeOf,     (* "regular", "directory" or "link"                         *)
    SizeOf,
    Sidecars,   (* those named "._*"                                        *)
    InLibrary,  (* those in a photos library                                *)
    Originals,  (* and those that are its original media                    *)
    MaxCompressed, (* the read limit (0: none)                              *)
    Candidates  (* the rows there may be                                    *)

ASSUME PairsAssumption ==
    /\ {"open", " ", ":"} \subseteq Pieces
    /\ IsFiniteSet(Members)
    /\ TypeOf \in [Members -> {"regular", "directory", "link"}]
    /\ SizeOf \in [Members -> Nat]
    /\ Sidecars \subseteq Members
    /\ Originals \subseteq InLibrary /\ InLibrary \subseteq Members
    /\ \A c \in Candidates :
        /\ c.archive \in Paths /\ c.dir \in Paths /\ c.alloc \in Nat
        /\ c.format \in {"zip", "tar", "compressed", "other"}
        /\ c.members \subseteq Members
        /\ c.files \subseteq {m \in Members : TypeOf[m] = "regular"}

(* The members a listing comes to: a zip names all but directories, a tar   *)
(* its regular files.                                                       *)
Listed(c) ==
    IF c.format = "zip" THEN {m \in c.members : TypeOf[m] # "directory"}
    ELSE {m \in c.members : TypeOf[m] = "regular"}

(* Mutant of Counted: the sidecars count.                                   *)
CountedAll(c) == Listed(c)

(* archiveSummary.add: sidecars do not count.                               *)
Counted(c) == Listed(c) \ Sidecars

HasLibrary(c) == Counted(c) \cap InLibrary # {}

(* How the listing of an archive ends.                                      *)
summarizeArchive(c) ==
    CASE c.format = "other" -> "unsupported"
      [] c.format = "compressed" /\ MaxCompressed > 0 /\ c.size > MaxCompressed -> "too_large"
      [] OTHER -> IF c.opens THEN "read" ELSE "failed"

TotalOf(ms) == MapThenSumSet(LAMBDA m : SizeOf[m], ms)

(* The archive's members and the directory's files that are compared: with  *)
(* a library in the archive, the original media.                            *)
Compared(c) == IF HasLibrary(c) THEN Counted(c) \cap Originals ELSE Counted(c)

FileTotals(c) == IF HasLibrary(c) THEN c.files \cap Originals ELSE c.files

comparePair(c) ==
    LET a == Cardinality(Compared(c))
        d == Cardinality(FileTotals(c))
    IN  CASE a > d -> "archive_has_more"
          [] a < d -> "dir_has_more"
          [] a = d /\ TotalOf(Compared(c)) = TotalOf(FileTotals(c)) -> "same"
          [] OTHER -> "same_count"

(* What is said of a read that failed names the archive: "open <path>: ..." *)
FailedRead(c) == <<"open", " ">> \o Spelling[c.archive] \o <<":">>

(* The pair of a candidate; the other texts that go with one name no path.  *)
comparePairFor(c) ==
    LET read == summarizeArchive(c) = "read"
        a == Cardinality(Compared(c))
        d == Cardinality(FileTotals(c))
    IN  [archive |-> Plain(c.archive), dir |-> Plain(c.dir), alloc |-> c.alloc,
         originals |-> read /\ HasLibrary(c),
         verdict |-> CASE summarizeArchive(c) = "too_large" -> "skipped"
                       [] summarizeArchive(c) = "failed" -> "unreadable"
                       [] summarizeArchive(c) = "read" -> comparePair(c),
         extra |-> IF read /\ a > d THEN a - d ELSE 0,
         detail |-> IF summarizeArchive(c) = "failed" THEN FailedRead(c) ELSE <<>>]

(* The candidates that become pairs.                                        *)
Paired(cs, min) ==
    {c \in cs : /\ c.alloc >= min
                /\ ~c.claimed
                /\ c.sibling = "dir"
                /\ summarizeArchive(c) # "unsupported"}

(* The pairs of the candidates in whatever order, sorted.                   *)
FindArchivePairs(cs, min) ==
    LET ps == SetToSeq({comparePairFor(c) : c \in Paired(cs, min)})
    IN  StableSort(ps, {e \in (DOMAIN ps) \X (DOMAIN ps) : ps[e[1]].alloc > ps[e[2]].alloc})

-----------------------------------------------------------------------------

(* What extracting an archive leaves in the index as files.                 *)
Extraction(c) == {m \in c.members : TypeOf[m] = "regular"} \ Sidecars

(* What the directory lacks of the extraction, as far as it is compared.    *)
Lacking(c) ==
    LET all == Extraction(c)
    IN  (IF all \cap InLibrary # {} THEN all \cap Originals ELSE all) \ c.files

(* The archive was read, the directory is its extraction or a part of it,   *)
(* and there is no link among its members or they do not count.             *)
IsExtraction(c) ==
    /\ summarizeArchive(c) = "read"
    /\ c.files \subseteq Extraction(c)
    /\ c.format # "zip" \/ \A m \in c.members : TypeOf[m] # "link"

=============================================================================
