---------------------------- MODULE Attribution ----------------------------
(***************************************************************************)
(* Opportunities and Hotspots: the detectors run one after the other over  *)
(* the index, each claiming paths, and what no detector explains is        *)
(* reported as the remainder of large directories                          *)
(* (src/service/opportunities.go, hotspots.go, explained.go, src/detect,   *)
(* src/policy/policy.go).                                                  *)
(*                                                                         *)
(* Data.  A path is an element of Paths; what a name says of a file (an    *)
(* archive, its version family, a backup word) is in the constants.  One   *)
(* size stands for the logical and the allocated one, which are computed   *)
(* alike.  Confidences are in hundredths.  The index is at rest during a   *)
(* report, and no name holds a LIKE wildcard (see Index for what happens   *)
(* if either is otherwise).  The order of the result, the texts, the       *)
(* rolled-up paths (see Collapse), the missing marks, the comparison of     *)
(* photo libraries by their originals, and the fetch limit of the last      *)
(* detector (at least 1000 directories) are left out.                       *)
(***************************************************************************)
EXTENDS Naturals, FiniteSets, FiniteSetsExt

CONSTANTS
    Paths,
    Dirs,
    Below,      (* for each path, the paths strictly below it               *)
    Indexes,    (* the indexes to report on: see AttributionAssumption      *)
    Known,      (* the expanded data paths of the relevant known locations  *)
    KindOf,     (* the entity kind of each                                  *)
    DefaultOf,  (* its default action class                                 *)
    Bundles,    (* the directories named like a managed bundle              *)
    Archives,   (* the files with an archive or installer suffix            *)
    Dmgs,       (* those with .dmg                                          *)
    FamilyOf,   (* directory and product of each archive, or NoFamily       *)
    NoFamily,
    SiblingOf,  (* the path named like the archive less its suffix, or      *)
    NoPath,     (* NoPath if it never has a row                             *)
    BackupLike, (* the files named like a deliberate backup                 *)
    Contents,   (* what the listing of an archive may yield                 *)
    Filters,    (* the queries' filters                                     *)
    MinSizes,   (* the cuts of the unexplained findings                     *)
    Cuts,       (* the cuts of the result (OpportunityQuery.MinSize)        *)
    DefaultLimit, (* the most unexplained findings of Opportunities         *)
    Limits      (* and those Hotspots may be asked for                      *)

Files == Paths \ Dirs

Classes == {"safe_delete", "likely_safe", "backup_then_delete", "review",
            "keep", "unknown"}

managedKinds == {"database", "container", "vm", "application", "managed_bundle"}

OtherKinds == {"cache", "archive", "installer", "artifact_family", "model", "project",
               "backup", "unknown"}

(* p is q or below it.                                                      *)
Under(p, q) == p = q \/ p \in Below[q]

(* The sum of the sizes of rows.                                            *)
SumOver(size, rows) == SumFunctionOnSet(size, rows)

(* The total of a directory is the sum of the sizes of the files below it   *)
(* that are no duplicate links (Index: RollupConsistent, if every row but a *)
(* scan's root has a parent).                                               *)
SumsUp(i) ==
    \A d \in Dirs :
        i.size[d] = SumOver(i.size, (Below[d] \cap i.rows \cap Files) \ i.duplicates)

(* It follows that a directory is no larger than the one it is in.          *)
Monotone(i) == \A d \in Dirs : \A e \in Dirs \cap Below[d] : i.size[e] <= i.size[d]

(* The paths are a tree with files for leaves.  The registry names          *)
(* directories, none in another nor in a bundle.  The archives of a family  *)
(* are in one directory.                                                    *)
ASSUME AttributionAssumption ==
    /\ Dirs \subseteq Paths
    /\ Below \in [Paths -> SUBSET Paths]
    /\ \A p \in Paths :
        /\ p \notin Below[p]
        /\ p \in Files => Below[p] = {}
        /\ \A q \in Below[p] : Below[q] \subseteq Below[p]
        /\ \A q, r \in Paths :
            p \in Below[q] /\ p \in Below[r] => Under(q, r) \/ Under(r, q)
    /\ \A i \in Indexes :
        /\ i.rows \subseteq Paths /\ IsFiniteSet(i.rows)
        /\ i.duplicates \subseteq i.rows \cap Files
        /\ i.size \in [Paths -> Nat]
        /\ SumsUp(i)
        /\ Monotone(i)
    /\ Known \subseteq Dirs
    /\ Bundles \subseteq Dirs
    /\ \A k \in Known :
        /\ \A l \in Known : k \notin Below[l]
        /\ \A b \in Bundles : k \notin Below[b]
    /\ KindOf \in [Known -> managedKinds \cup OtherKinds]
    /\ DefaultOf \in [Known -> Classes]
    /\ Archives \subseteq Files
    /\ Dmgs \subseteq Archives
    /\ SiblingOf \in [Archives -> Paths \cup {NoPath}]
    /\ NoPath \notin Paths
    /\ BackupLike \subseteq Files
    /\ Contents \subseteq
        [state : {"unsupported", "failed", "read"}, files : Nat, bytes : Nat]
    /\ \A a, b \in Archives : FamilyOf[a] = FamilyOf[b] /\ FamilyOf[a] # NoFamily =>
        \A d \in Dirs : a \in Below[d] <=> b \in Below[d]
    /\ DefaultLimit \in Nat \ {0} /\ Limits \subseteq Nat \ {0}
    /\ MinSizes \subseteq Nat /\ Cuts \subseteq Nat

VARIABLES
    index,      (* the index, an element of Indexes                         *)
    request,    (* the command and its arguments                            *)
    evidence,   (* for each archive: whether a newer app is installed, and  *)
                (* what its listing yields                                  *)
    pc,         (* the detector that runs next, or how the call ended       *)
    todo,       (* the rows its loop has not reached                        *)
    found,      (* the findings of the detectors but the last               *)
    unknown,    (* the unexplained directories                              *)
    report      (* the findings returned, and what the cut removed          *)

vars == <<index, request, evidence, pc, todo, found, unknown, report>>

-----------------------------------------------------------------------------
(* Policy                                                                   *)

rank == [c \in Classes |->
    CASE c = "safe_delete" -> 4 [] c = "likely_safe" -> 3
      [] c = "backup_then_delete" -> 2 [] c = "review" -> 1 [] OTHER -> 0]

MinConfidenceForSafeDelete == 80

capAt(proposed, ceiling) ==
    IF rank[proposed] > rank[ceiling] THEN ceiling ELSE proposed

Evaluate(proposed, kind, confidence) ==
    LET capped == IF kind \in managedKinds THEN capAt(proposed, "backup_then_delete")
                                           ELSE proposed
    IN  IF capped = "safe_delete" /\ confidence < MinConfidenceForSafeDelete
        THEN "likely_safe" ELSE capped

Finding(path, paths, size, kind, proposed, confidence) ==
    [path |-> path, paths |-> paths, size |-> size, kind |-> kind,
     confidence |-> confidence, class |-> Evaluate(proposed, kind, confidence)]

-----------------------------------------------------------------------------
(* The index, as the detectors query it                                     *)

(* The rows path = ? OR path LIKE ?.                                        *)
RowsUnder(p) == {r \in index.rows : Under(r, p)}

SizeOfAll(rows) == SumOver(index.size, rows)

(* Mutant of IsNext: ties in any order.                                     *)
IsNextBySize(r) == r \in todo /\ \A q \in todo : index.size[q] <= index.size[r]

(* r is what a loop over todo, the largest first, comes to.  Of two         *)
(* directories of one size, one in the other, the outer comes first.        *)
(* LargeUnexplainedDetector sorts ties so (large_unexplained.go:67-74); for *)
(* bundles ORDER BY subtree_allocated alone leaves them to SQLite, which    *)
(* takes them in row order (idx_nodes_subtree_allocated, schema.go:50), and *)
(* insertTree gives a directory the lower row id than what is in it         *)
(* (db.go:249-251).                                                         *)
IsNext(r) ==
    /\ r \in todo
    /\ \A q \in todo \ {r} :
        \/ index.size[q] < index.size[r]
        \/ index.size[q] = index.size[r] /\ r \notin Below[q]

InKnown(p) == \E k \in Known : Under(p, k)

BundleRows == RowsUnder(request.path) \cap Bundles

(* claimedPaths, withBundleRoots and isClaimed.                             *)
Claimed(p) == InKnown(p) \/ \E b \in BundleRows : Under(p, b)

ArchiveRows == RowsUnder(request.path) \cap Archives

(* groupArchiveFamilies, with at least minFamilyMembers.                    *)
Families ==
    {m \in {{b \in ArchiveRows : FamilyOf[b] = FamilyOf[a]} : a \in
            {a \in ArchiveRows : FamilyOf[a] # NoFamily}} : Cardinality(m) >= 2}

InFamily(a) == \E m \in Families : a \in m

-----------------------------------------------------------------------------
(* What is known of one archive                                             *)

ExtractedSibling(a) == SiblingOf[a] \in index.rows \cap Dirs

DirFiles(a) == index.rows \cap Files \cap Below[SiblingOf[a]]

(* Mutant of comparePair: the sides are swapped.                            *)
comparePairSwapped(a, c) ==
    LET files == Cardinality(DirFiles(a))
    IN  CASE c.files < files -> "archive_has_more"
          [] c.files > files -> "dir_has_more"
          [] OTHER -> IF c.bytes = SizeOfAll(DirFiles(a)) THEN "same" ELSE "same_count"

(* The archive's members against the files indexed in the directory.        *)
comparePair(a, c) ==
    LET files == Cardinality(DirFiles(a))
    IN  CASE c.files > files -> "archive_has_more"
          [] c.files < files -> "dir_has_more"
          [] OTHER -> IF c.bytes = SizeOfAll(DirFiles(a)) THEN "same" ELSE "same_count"

(* The verdict on a and its sibling; "none" if the format cannot be listed. *)
Verdict(a, e) ==
    CASE ~ExtractedSibling(a)                -> "no_sibling"
      [] ExtractedSibling(a) /\ e.contents.state = "unsupported" -> "none"
      [] ExtractedSibling(a) /\ e.contents.state = "failed"      -> "unread"
      [] ExtractedSibling(a) /\ e.contents.state = "read" -> comparePair(a, e.contents)

classifyArchive(a, e) ==
    LET P(c, n) == [class |-> c, confidence |-> n]
        verdict == Verdict(a, e)
    IN  IF a \in BackupLike THEN P("review", 20)
        ELSE IF e.newer THEN P("safe_delete", 90)
        ELSE CASE verdict = "archive_has_more"         -> P("review", 30)
               [] verdict = "same_count"               -> P("review", 40)
               [] verdict \in {"same", "dir_has_more"} -> P("likely_safe", 75)
               [] verdict \in {"unread", "none"}       -> P("likely_safe", 70)
               [] verdict = "no_sibling"               -> P("review", 30)

(* The finding on one archive.                                              *)
ArchiveFinding(a, e) ==
    LET p == classifyArchive(a, e)
    IN  Finding(a, {a}, index.size[a], "archive", p.class, p.confidence)

(* The directory a family is in.                                            *)
DirOf(m) == CHOOSE d \in Dirs : /\ m \subseteq Below[d]
                                /\ \A e \in Dirs : m \subseteq Below[e] => Under(d, e)

(* The finding on a family: one name like a backup holds it all back.       *)
FamilyFinding(m) ==
    LET backup == m \cap BackupLike # {}
    IN  Finding(DirOf(m), m, SizeOfAll(m), "artifact_family",
                IF backup THEN "review" ELSE "likely_safe", IF backup THEN 20 ELSE 75)

-----------------------------------------------------------------------------

NoFilter == [class |-> "any", confidence |-> 0, kind |-> "any"]

Requests ==
    [command : {"opportunities"}, path : Paths, filter : Filters, min : MinSizes,
     cut : Cuts, limit : {DefaultLimit}]
    \cup [command : {"hotspots"}, path : Paths, filter : {NoFilter}, min : MinSizes,
          cut : {0}, limit : Limits]

NoReport == [kept |-> {}, omitted |-> 0, omittedBytes |-> 0]

Init ==
    /\ index \in Indexes
    /\ request \in Requests
    /\ evidence \in [Archives -> {[newer |-> FALSE, contents |->
                        [state |-> "unsupported", files |-> 0, bytes |-> 0]]}]
    /\ pc = "known"
    /\ todo = {}
    /\ found = {}
    /\ unknown = {}
    /\ report = NoReport

(* The path of the query is not indexed.                                    *)
NotIndexed ==
    /\ pc = "known"
    /\ request.path \notin index.rows
    /\ pc' = "failed"
    /\ UNCHANGED <<index, request, evidence, todo, found, unknown, report>>

(* KnownLocationDetector.Detect; the rows of the next detector.             *)
KnownLocations ==
    /\ pc = "known"
    /\ request.path \in index.rows
    /\ found' = {Finding(k, {k}, index.size[k], KindOf[k], DefaultOf[k], 100) :
                    k \in Known \cap RowsUnder(request.path)}
    /\ todo' = BundleRows
    /\ pc' = "bundles"
    /\ UNCHANGED <<index, request, evidence, unknown, report>>

(* The bundles reported so far.                                             *)
Outer == {f.path : f \in {g \in found : g.kind = "managed_bundle"}}

(* One row of ManagedBundleDetector.Detect.                                 *)
ManagedBundle(r) ==
    /\ pc = "bundles"
    /\ IsNext(r)
    /\ todo' = todo \ {r}
    /\ found' = IF (\E o \in Outer : Under(r, o)) \/ InKnown(r) THEN found
                ELSE found \cup {Finding(r, {r}, index.size[r], "managed_bundle", "keep", 100)}
    /\ UNCHANGED <<index, request, evidence, pc, unknown, report>>

(* Largest: the directories below the query, for the last detector.         *)
LargestDirs == (RowsUnder(request.path) \cap Dirs) \ {request.path}

(* Hotspots runs neither archive detector.                                  *)
BundlesDone ==
    /\ pc = "bundles"
    /\ todo = {}
    /\ IF request.command = "hotspots"
       THEN pc' = "unexplained" /\ todo' = LargestDirs
       ELSE pc' = "archives" /\ todo' = ArchiveRows
    /\ UNCHANGED <<index, request, evidence, found, unknown, report>>

(* What may be found out about an archive: only a .dmg is looked up among   *)
(* the installed apps, and none is listed; the others are listed if there   *)
(* is a directory to compare them with.                                     *)
Evidence(a) ==
    [newer : IF a \in Dmgs THEN BOOLEAN ELSE {FALSE},
     contents : {c \in Contents :
        a \in Dmgs \/ ~ExtractedSibling(a) => c.state = "unsupported"}]

(* Mutant of Installer: family members are not left out.                    *)
InstallerOfFamily(a) ==
    /\ pc = "archives"
    /\ IsNext(a)
    /\ todo' = todo \ {a}
    /\ IF Claimed(a) THEN UNCHANGED <<evidence, found>>
       ELSE \E e \in Evidence(a) :
        /\ evidence' = [evidence EXCEPT ![a] = e]
        /\ found' = found \cup {ArchiveFinding(a, e)}
    /\ UNCHANGED <<index, request, pc, unknown, report>>

(* One row of ArchiveInstallerDetector.Detect.                              *)
Installer(a) ==
    /\ pc = "archives"
    /\ IsNext(a)
    /\ todo' = todo \ {a}
    /\ IF Claimed(a) \/ InFamily(a) THEN UNCHANGED <<evidence, found>>
       ELSE \E e \in Evidence(a) :
        /\ evidence' = [evidence EXCEPT ![a] = e]
        /\ found' = found \cup {ArchiveFinding(a, e)}
    /\ UNCHANGED <<index, request, pc, unknown, report>>

(* ArtifactFamilyDetector.Detect, once the archives are through; a family   *)
(* lies in one directory, so that all of it is claimed or none.             *)
ArtifactFamilies ==
    /\ pc = "archives"
    /\ todo = {}
    /\ found' = found \cup
        {FamilyFinding(m) : m \in {n \in Families : \A a \in n : ~Claimed(a)}}
    /\ pc' = "unexplained"
    /\ todo' = LargestDirs
    /\ UNCHANGED <<index, request, evidence, unknown, report>>

(* r, or a directory it is in, was selected.                                *)
IsNested(r) == \E f \in unknown : Under(r, f.path)

(* One row of LargeUnexplainedDetector.Detect.                              *)
Unexplained(r) ==
    /\ pc = "unexplained"
    /\ Cardinality(unknown) < request.limit
    /\ IsNext(r)
    /\ todo' = todo \ {r}
    /\ unknown' = IF index.size[r] < request.min \/ Claimed(r) \/ IsNested(r) THEN unknown
                  ELSE unknown \cup {Finding(r, {r}, index.size[r], "unknown", "unknown", 0)}
    /\ UNCHANGED <<index, request, evidence, pc, found, report>>

(* The filter of add in opportunities.                                      *)
Passes(f) ==
    /\ request.filter.class \in {"any", f.class}
    /\ f.confidence >= request.filter.confidence
    /\ request.filter.kind \in {"any", f.kind}

(* Mutant of Explained: what the filter drops is not explained.             *)
ExplainedShown == UNION {f.paths : f \in {g \in found : Passes(g)}}

(* The paths the detectors claim, shown or not.                             *)
Explained == UNION {f.paths : f \in found}

(* Mutant of Remainder: the rows of claimed files alone are subtracted.     *)
RemainderOfFiles(f) ==
    LET claimed == SizeOfAll({p \in Explained \cap index.rows \cap Files : Under(p, f.path)})
    IN  IF claimed < f.size THEN f.size - claimed ELSE 0

(* What is left of an unexplained directory.                                *)
Remainder(f) ==
    LET claimed == SizeOfAll({p \in Explained \cap index.rows : Under(p, f.path)})
    IN  IF claimed < f.size THEN f.size - claimed ELSE 0

(* excludeExplained.                                                        *)
ExcludeExplained ==
    /\ pc = "unexplained"
    /\ todo = {} \/ Cardinality(unknown) = request.limit
    /\ todo' = {}
    /\ unknown' = {f \in {[g EXCEPT !.size = Remainder(g)] :
                            g \in {h \in unknown : \A p \in Explained : ~Under(h.path, p)}} :
                        f.size >= request.min}
    /\ pc' = "report"
    /\ UNCHANGED <<index, request, evidence, found, report>>

Shown == {f \in found \cup unknown : Passes(f)}

Sum(findings) == SumFunction([f \in findings |-> f.size])

(* partitionBySize and OpportunitiesReportFrom.                             *)
Report ==
    /\ pc = "report"
    /\ LET kept == {f \in Shown : f.size >= request.cut}
       IN  report' = [kept |-> kept, omitted |-> Cardinality(Shown \ kept),
                      omittedBytes |-> Sum(Shown \ kept)]
    /\ pc' = "done"
    /\ UNCHANGED <<index, request, evidence, todo, found, unknown>>

(* SavingsFrom: the bytes of each tier, of the list before the cut.         *)
Tiers == [c \in Classes |-> Sum({f \in Shown : f.class = c})]

Reclaimable == SumFunctionOnSet(Tiers, Classes \ {"keep", "unknown"})

(* A query or the listing of a directory fails: the error is returned.      *)
Fail ==
    /\ pc \notin {"done", "failed"}
    /\ pc' = "failed"
    /\ UNCHANGED <<index, request, evidence, todo, found, unknown, report>>

Returned == pc \in {"done", "failed"} /\ UNCHANGED vars

Next ==
    \/ NotIndexed \/ KnownLocations
    \/ \E r \in Paths : ManagedBundle(r) \/ Installer(r) \/ Unexplained(r)
    \/ BundlesDone \/ ArtifactFamilies \/ ExcludeExplained \/ Report
    \/ Fail \/ Returned

Spec == Init /\ [][Next]_vars

-----------------------------------------------------------------------------
(* Properties                                                               *)

FindingType ==
    [path : Paths, paths : SUBSET Paths, size : Nat, kind : managedKinds \cup OtherKinds,
     confidence : 0..100, class : Classes]

TypeOK ==
    /\ index \in Indexes
    /\ request \in Requests
    /\ \A a \in Archives : evidence[a].contents \in Contents /\ evidence[a].newer \in BOOLEAN
    /\ pc \in {"known", "bundles", "archives", "unexplained", "report", "done", "failed"}
    /\ todo \subseteq index.rows
    /\ found \subseteq FindingType
    /\ unknown \subseteq FindingType
    /\ Cardinality(unknown) <= request.limit
    /\ report.kept \subseteq found \cup unknown

(* No path is claimed twice (docs/guides/concepts.md:68): two findings      *)
(* share no path, and none lies in what another claims, except that         *)
(* findings lie in an unexplained directory, whose size is a remainder.     *)
NoOverlap ==
    \A f, g \in found \cup unknown : f # g =>
        \A p \in f.paths, q \in g.paths :
            Under(p, q) => f \in found /\ g \in unknown

(* An archive in the query is part of exactly one finding, "never both and  *)
(* never neither" (detect/archive.go:15-19), unless the query lies in a     *)
(* known location.                                                          *)
ArchivesOnce ==
    /\ request.command = "opportunities"
    /\ pc \in {"unexplained", "report", "done"}
    /\ ~InKnown(request.path)
    => \A a \in ArchiveRows :
        Cardinality({f \in found : \E p \in f.paths : Under(a, p)}) = 1

(* The files whose bytes count and that no finding claims.                  *)
Uncovered(d) ==
    {p \in (RowsUnder(d) \cap Files) \ index.duplicates :
        \A f \in found : \A q \in f.paths : ~Under(p, q)}

(* Second links that are claimed by themselves: their bytes are reported,   *)
(* although no directory total has them.                                    *)
LinkClaims == {p \in index.duplicates : \E f \in found : p \in f.paths}

(* An unexplained directory is reported with the bytes below it that no     *)
(* detector claims, whatever the filter shows of them (explained.go:12-20), *)
(* less the links below it that are claimed.                                *)
RemainderExact ==
    pc \in {"report", "done"} => \A f \in unknown :
        LET bytes == SizeOfAll(Uncovered(f.path))
            links == SizeOfAll(LinkClaims \cap Below[f.path])
        IN  f.size = IF links < bytes THEN bytes - links ELSE 0

(* The tiers, summed before the cut, are what the report lists and what its *)
(* account says was cut (opportunities.go:180-201, 241-258), and all        *)
(* findings come to no more than the query holds, but for second links.     *)
TiersBounded ==
    pc = "done" =>
        LET tiers == SumFunctionOnSet(Tiers, Classes)
        IN  /\ tiers = Sum(report.kept) + report.omittedBytes
            /\ Reclaimable <= tiers
            /\ Sum(found \cup unknown) <= index.size[request.path]
                    + SizeOfAll(LinkClaims \cap Below[request.path])

(* What is recommended never goes beyond what is known (policy.go:40-60,    *)
(* archive_installer.go:91-97): managed data is not past backup_then_delete,*)
(* safe_delete has a confidence, a backup is not past review, nor is an     *)
(* archive on its own that lists more files than its directory holds.       *)
Conservative ==
    \A f \in found \cup unknown :
        /\ f.kind \in managedKinds => rank[f.class] <= rank["backup_then_delete"]
        /\ f.class = "safe_delete" => f.confidence >= MinConfidenceForSafeDelete
        /\ f.paths \cap BackupLike # {} => rank[f.class] <= rank["review"]
        /\ \A a \in Archives :
            /\ f.paths = {a}
            /\ evidence[a].contents.state = "read"
            /\ evidence[a].contents.files > Cardinality(DirFiles(a))
            => rank[f.class] <= rank["review"]

(* docs/guides/concepts.md:68: "No finding overlaps another, so tier totals *)
(* add up and never exceed what the scanned folder holds".                  *)
NeverExceed ==
    pc = "done" => Sum(Shown) <= index.size[request.path]

=============================================================================
