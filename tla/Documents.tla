------------------------------ MODULE Documents ------------------------------
(***************************************************************************)
(* Report documents: built from the index or read back from a saved file,  *)
(* redacted, rendered, and written by the commands export, report and      *)
(* review, one after the other, into one directory                         *)
(* (src/reportdoc, src/report, src/cmd/diskwise/document.go, export.go,    *)
(* report.go, review.go).                                                  *)
(*                                                                         *)
(* Atomicity.  A command loads its document in one step (Queries has the   *)
(* queries of a report apart), renders all it writes in another, and then  *)
(* truncates and writes one file after the other.  It may fail at any of   *)
(* them and be interrupted between any two, and what the index holds       *)
(* changes from one command to the next.  Commands at the same time on the *)
(* same files are left out, and so are freshness (see Queries), texts      *)
(* other than those that redaction changes, and formatting.                *)
(***************************************************************************)
EXTENDS Integers, Pairs

CONSTANTS
    Results,    (* what the detectors may find, the largest first and those *)
                (* of one size in any order, and the archives there may be  *)
    Requests,   (* the commands with their flags                            *)
    Off,        (* no redaction, which is not redaction without a prefix    *)
    HotspotLimit,
    PairsMinSize, (* the smallest archives a document compares              *)
    PathRank,   (* the order of the paths as strings                        *)
    Commands    (* bound: the commands that are run                         *)

Tiers == <<"safe_delete", "likely_safe", "backup_then_delete", "review", "keep", "unknown">>

TierNames == Range(Tiers)

(* A finding as the detectors make one: every path as it is, and its name   *)
(* and texts of any pieces.                                                 *)
IsFound(f) ==
    /\ f = [x \in DOMAIN f |-> f[x]]
    /\ DOMAIN f = {"path", "paths", "actionable", "tier", "kind", "detector", "size",
                   "confidence", "name", "reason", "scenario", "missing"}
    /\ {f.path} \cup f.paths \cup f.actionable \subseteq {Plain(p) : p \in Paths}
    /\ IsFiniteSet(f.paths)
    /\ f.name.as = "text"
    /\ f.reason \in Seq(Pieces) /\ f.scenario \in Seq(Pieces)
    /\ f.tier \in TierNames /\ f.size \in Nat /\ f.missing \in BOOLEAN

ASSUME DocumentsAssumption ==
    /\ \A r \in Results :
        /\ r.archives \subseteq Candidates /\ IsFiniteSet(r.archives)
        /\ r.findings \in Seq(Range(r.findings))
        /\ \A i \in DOMAIN r.findings :
            /\ IsFound(r.findings[i])
            /\ i > 1 => r.findings[i].size <= r.findings[i - 1].size
    /\ \A r \in Requests :
        r.command \in {"report", "review"} => r.format \in {"json", "html", "md", "xlsx"}
    /\ \A r \in Requests :
        /\ r.command \in {"export", "report", "review", "pairs"} /\ r.min \in Int
        /\ r.deny = Off \/ r.deny \in Seq(Paths)
    /\ HotspotLimit \in Nat \ {0}
    /\ PathRank \in [Paths -> Nat]
    /\ Commands \in Nat

VARIABLES
    result,     (* what a report would find now                             *)
    files,      (* the files in the directory                               *)
    pc,         (* where the command is                                     *)
    request,    (* its flags                                                *)
    doc,        (* its document                                             *)
    rendered,   (* what it is going to write, in order                      *)
    written,    (* how many files it has written                            *)
    before,     (* the files when it began                                  *)
    count       (* the commands run so far                                  *)

vars == <<result, files, pc, request, doc, rendered, written, before, count>>

None == [none |-> TRUE]

SizesOf(fs) == SumFunction([i \in DOMAIN fs |-> fs[i].size])

(* The elements of s that pass the test, as they come.                      *)
Where(s, Test(_)) ==
    LET I == {i \in DOMAIN s : Test(s[i])}
    IN  Arranged(s, I, {e \in I \X I : e[1] < e[2]})

-----------------------------------------------------------------------------
(* Building a document                                                      *)

reclaimable(t) == t \notin {"keep", "unknown"}

(* partitionBySize and OpportunitiesReportFrom.                             *)
OpportunitiesReportFrom(all, min) ==
    [kept    |-> Where(all, LAMBDA f : f.size >= min),
     omitted |-> Where(all, LAMBDA f : f.size < min)]

(* Mutant of SavingsFrom: what is missing from the disk is left out.        *)
SavingsFromPresent(all) ==
    [t \in {f.tier : f \in Range(all)} |->
        SizesOf(Where(all, LAMBDA f : f.tier = t /\ ~f.missing))]

(* The total of each tier that has findings.                                *)
SavingsFrom(all) ==
    [t \in {f.tier : f \in Range(all)} |-> SizesOf(Where(all, LAMBDA f : f.tier = t))]

(* Reclaimable: what the tiers hold that a user could get back.             *)
Reclaimable(tiers) ==
    SumFunctionOnSet(tiers, {t \in DOMAIN tiers : reclaimable(t)})

FromService(root, all, min, pairs) ==
    LET rep   == OpportunitiesReportFrom(all, min)
        gone  == Where(all, LAMBDA f : f.missing)
        tiers == SavingsFrom(all)
    IN  [root |-> Plain(root), tiers |-> tiers, reclaimable |-> Reclaimable(tiers),
         missing |-> [count |-> Len(gone), bytes |-> SizesOf(gone)],
         filter |-> [min |-> min, count |-> Len(rep.omitted), bytes |-> SizesOf(rep.omitted)],
         findings |-> rep.kept, pairs |-> pairs]

Validate(d) ==
    /\ DOMAIN d.tiers \subseteq TierNames
    /\ \A i \in DOMAIN d.findings : d.findings[i].tier \in TierNames
    /\ \A i \in DOMAIN d.findings : d.findings[i].confidence \in 0..100
    /\ \A i \in DOMAIN d.pairs :
        d.pairs[i].verdict \in {"same", "same_count", "archive_has_more", "dir_has_more",
                                "skipped", "unreadable"}

(* The document of what the index has, if it is valid.                      *)
Build ==
    LET pairs == IF request.pairs THEN FindArchivePairs(result.archives, PairsMinSize) ELSE <<>>
    IN  {d \in {FromService(Home, result.findings, request.min, pairs)} : Validate(d)}

-----------------------------------------------------------------------------
(* Rendering                                                                *)

tierRank == [t \in TierNames |-> CHOOSE i \in 1..Len(Tiers) : Tiers[i] = t]

(* The order of paths as they are written: plain, then tokens, then "~".    *)
formRank(v) ==
    <<CASE v.as = "plain" -> 1 [] v.as = "token" -> 2 [] v.as = "home" -> 3, PathRank[v.path]>>

Precedes(f, g) ==
    \/ tierRank[f.tier] < tierRank[g.tier]
    \/ /\ f.tier = g.tier
       /\ \/ f.size > g.size
          \/ /\ f.size = g.size
             /\ \/ formRank(f.path)[1] < formRank(g.path)[1]
                \/ /\ formRank(f.path)[1] = formRank(g.path)[1]
                   /\ formRank(f.path)[2] < formRank(g.path)[2]

(* Mutant of Rows: the rows stay as the index had them.                     *)
RowsUnsorted(d) == d.findings

(* RowsFromDocument with sortRows.                                          *)
Rows(d) ==
    LET fs == d.findings
    IN  StableSort(fs, {e \in (DOMAIN fs) \X (DOMAIN fs) : Precedes(fs[e[1]], fs[e[2]])})

(* The tiers of the rows in the order they come in.                         *)
TierOrder(rows) ==
    LET I == {i \in DOMAIN rows : \A j \in 1..(i - 1) : rows[j].tier # rows[i].tier}
    IN  Arranged([i \in DOMAIN rows |-> rows[i].tier], I, {e \in I \X I : e[1] < e[2]})

(* WriteMarkdown: a section for each tier, with its bytes and its rows.     *)
Worklist(d) ==
    LET rows == Rows(d)
        Of(t) == Where(rows, LAMBDA r : r.tier = t)
    IN  [total |-> SizesOf(Where(rows, LAMBDA r : reclaimable(r.tier))),
         sections |-> [i \in DOMAIN TierOrder(rows) |->
            [tier |-> TierOrder(rows)[i], bytes |-> SizesOf(Of(TierOrder(rows)[i])),
             items |-> Of(TierOrder(rows)[i])]],
         omitted |-> d.filter, missing |-> d.missing.count, pairs |-> d.pairs]

(* The largest rows of a hotspot table.                                     *)
Mini(rows) ==
    LET s == StableSort(rows, {e \in (DOMAIN rows) \X (DOMAIN rows) :
                                rows[e[1]].size > rows[e[2]].size})
    IN  SubSeq(s, 1, IF Len(s) > HotspotLimit THEN HotspotLimit ELSE Len(s))

IsUnexplained(r) == r.tier = "unknown"

IsKnown(r) ==
    r.tier # "unknown" /\ (r.kind = "managed_bundle" \/ r.detector = "known-location")

(* WriteHTMLDocument.                                                       *)
Page(d) ==
    [rows |-> Rows(d), tiers |-> d.tiers, grand |-> d.reclaimable,
     banners |-> {b \in {"missing", "omitted"} :
                    IF b = "missing" THEN d.missing.count > 0 ELSE d.filter.count > 0},
     known |-> Mini(Where(Rows(d), IsKnown)),
     unexplained |-> Mini(Where(Rows(d), IsUnexplained)),
     pairs |-> d.pairs]

(* reportFormats.                                                           *)
Render(format, d) ==
    CASE format = "json" -> d
      [] format = "html" -> Page(d)
      [] format = "md"   -> Worklist(d)
      [] format = "xlsx" -> Rows(d)

-----------------------------------------------------------------------------
(* The commands                                                             *)

(* The files a command writes, in order, named by their formats.            *)
Outputs ==
    CASE request.command = "export" -> <<"json", "html", "md">>
      [] request.command = "pairs"  -> <<>>
      [] OTHER -> <<request.format>>

Absent == [state |-> "absent"]
Torn == [state |-> "torn"]
Whole(r) == [state |-> "whole", shows |-> r]

Init ==
    /\ result \in Results
    /\ files = [f \in {"json", "html", "md", "xlsx"} |-> Absent]
    /\ pc = "idle"
    /\ request = None
    /\ doc = None
    /\ rendered = <<>>
    /\ written = 0
    /\ before = files
    /\ count = 0

(* A command begins, on an index that may have changed.                     *)
Begin ==
    /\ pc = "idle"
    /\ count < Commands
    /\ count' = count + 1
    /\ result' \in Results
    /\ request' \in Requests
    /\ pc' = "load"
    /\ before' = files
    /\ UNCHANGED <<files, doc, rendered, written>>

(* Flags, the index, the listing or the saved file cannot be read.          *)
LoadFails ==
    /\ pc = "load"
    /\ pc' = "failed"
    /\ UNCHANGED <<result, files, request, doc, rendered, written, before, count>>

(* Parse: what is not a whole document is refused.                          *)
Saved == IF files["json"].state = "whole" THEN {files["json"].shows} ELSE {}

(* loadDocument: the document, already redacted.                            *)
LoadDocument ==
    /\ pc = "load"
    /\ request.command # "pairs"
    /\ \E d \in IF request.from THEN {s \in Saved : Validate(s)} ELSE Build :
        doc' = IF request.deny = Off THEN d ELSE Document(request.deny, d)
    /\ pc' = "render"
    /\ UNCHANGED <<result, files, request, rendered, written, before, count>>

(* The command pairs: whatever is beside one archive, printed.              *)
ListPairs ==
    /\ pc = "load"
    /\ request.command = "pairs"
    /\ \E c \in Candidates :
        LET ps == FindArchivePairs({c}, request.min)
        IN  doc' = [archives |-> {c},
                    pairs |-> IF request.deny = Off THEN ps
                              ELSE [i \in DOMAIN ps |-> Pair(request.deny, ps[i])]]
    /\ pc' = "done"
    /\ UNCHANGED <<result, files, request, rendered, written, before, count>>

(* All is rendered before anything is written.                              *)
RenderAll ==
    /\ pc = "render"
    /\ rendered' = [i \in DOMAIN Outputs |-> Render(Outputs[i], doc)]
    /\ pc' = "open"
    /\ UNCHANGED <<result, files, request, doc, written, before, count>>

(* The directory cannot be made, or a renderer fails.                       *)
RenderFails ==
    /\ pc = "render"
    /\ pc' = "failed"
    /\ UNCHANGED <<result, files, request, doc, rendered, written, before, count>>

NextOutput == Outputs[written + 1]

(* The next file is opened, and with that emptied.                          *)
Truncate ==
    /\ pc = "open"
    /\ files' = [files EXCEPT ![NextOutput] = Torn]
    /\ pc' = "write"
    /\ UNCHANGED <<result, request, doc, rendered, written, before, count>>

(* Mutant of WriteFile: the first file is written last.                     *)
WriteFileSwapped ==
    /\ pc = "write"
    /\ files' = [files EXCEPT ![NextOutput] = Whole(rendered[Len(Outputs) - written])]
    /\ written' = written + 1
    /\ pc' = IF written' = Len(Outputs) THEN "done" ELSE "open"
    /\ UNCHANGED <<result, request, doc, rendered, before, count>>

WriteFile ==
    /\ pc = "write"
    /\ files' = [files EXCEPT ![NextOutput] = Whole(rendered[written + 1])]
    /\ written' = written + 1
    /\ pc' = IF written' = Len(Outputs) THEN "done" ELSE "open"
    /\ UNCHANGED <<result, request, doc, rendered, before, count>>

(* A file cannot be opened, or not be written to the end.                   *)
WriteFails ==
    /\ pc \in {"open", "write"}
    /\ pc' = "failed"
    /\ UNCHANGED <<result, files, request, doc, rendered, written, before, count>>

(* The command returns, or is interrupted anywhere.                         *)
End ==
    /\ pc # "idle"
    /\ pc' = "idle"
    /\ request' = None
    /\ doc' = None
    /\ rendered' = <<>>
    /\ written' = 0
    /\ before' = files
    /\ UNCHANGED <<result, files, count>>

Next ==
    \/ Begin
    \/ LoadFails
    \/ LoadDocument
    \/ ListPairs
    \/ RenderAll
    \/ RenderFails
    \/ Truncate
    \/ WriteFile
    \/ WriteFails
    \/ End

Spec == Init /\ [][Next]_vars

-----------------------------------------------------------------------------
(* Properties                                                               *)

Occurrences(s, e) == Cardinality({i \in DOMAIN s : s[i] = e})

Tier(fs, t) == Where(fs, LAMBDA f : f.tier = t)

(* A document accounts for every byte that was found, built or read back,   *)
(* redacted or not: what it lists and what the cut left out make up its     *)
(* totals, nothing is listed below the cut, and the savings its worklist    *)
(* announces fall short of its reclaimable bytes by no more than the cut    *)
(* (reportdoc/build.go:28-111, service/opportunities.go:59-73, 241-258,     *)
(* report/markdown.go:66-76).                                               *)
Accounted ==
    pc = "render" =>
        LET listed == doc.findings
            total  == Worklist(doc).total
            gone   == Len(Where(listed, LAMBDA f : f.missing))
        IN  /\ SumFunction(doc.tiers) = SizesOf(listed) + doc.filter.bytes
            /\ \A i \in DOMAIN listed :
                /\ listed[i].size >= doc.filter.min
                /\ listed[i].tier \in DOMAIN doc.tiers
            /\ \A t \in DOMAIN doc.tiers : SizesOf(Tier(listed, t)) <= doc.tiers[t]
            /\ total <= doc.reclaimable /\ doc.reclaimable <= total + doc.filter.bytes
            /\ gone <= doc.missing.count /\ doc.missing.count <= gone + doc.filter.count

(* No table of hotspots leaves out a row while it has room, or for one that *)
(* is smaller.                                                              *)
LargestOf(table, rows) ==
    /\ \A r \in Range(table) : Occurrences(table, r) <= Occurrences(rows, r)
    /\ \A r \in Range(rows) : Occurrences(table, r) < Occurrences(rows, r) =>
        Len(table) = HotspotLimit /\ \A q \in Range(table) : q.size >= r.size

(* The renderings of one document list each of its findings as often as it  *)
(* does: the worklist under the heading of its tier, the headings once each *)
(* and the most actionable first, with the bytes of what is under them; the *)
(* page in its table, and the largest again as hotspots                     *)
(* (report/markdown.go:96-132, report.go:80-94, document.go:84-184).        *)
RenderingsComplete ==
    pc = "render" =>
        LET s == Worklist(doc).sections
            p == Page(doc)
        IN  /\ \A i \in DOMAIN s :
                /\ s[i].bytes = SizesOf(Tier(doc.findings, s[i].tier))
                /\ \A j \in DOMAIN s : i < j => tierRank[s[i].tier] < tierRank[s[j].tier]
            /\ \A f \in Range(doc.findings) :
                /\ \E i \in DOMAIN s :
                    /\ s[i].tier = f.tier
                    /\ Occurrences(s[i].items, f) = Occurrences(doc.findings, f)
                /\ Occurrences(p.rows, f) = Occurrences(doc.findings, f)
            /\ LargestOf(p.known, Where(doc.findings, IsKnown))
            /\ LargestOf(p.unexplained, Where(doc.findings, IsUnexplained))

(* Every path that is written as one in a document, and every text.         *)
FormsIn(d) ==
    {d.root}
    \cup (UNION {{f.path} \cup f.paths \cup f.actionable : f \in Range(d.findings)})
    \cup (UNION {{p.archive, p.dir} : p \in Range(d.pairs)})

TextsIn(d) ==
    (UNION {{f.reason, f.scenario} : f \in Range(d.findings)})
    \cup {p.detail : p \in Range(d.pairs)}

(* Where a path of vs is a token no text of ts has the path, nor its base   *)
(* name unless it is shorter than three characters.                         *)
Unnamed(vs, ts) ==
    \A v \in vs : v.as = "token" => \A s \in ts :
        /\ ~Shows(s, Spelling[v.path])
        /\ LengthOf(NameOf[v.path]) >= 3 => ~Shows(s, NameOf[v.path])

(* Where a path of the finding is a token, so is its name.                  *)
Nameless(f) == \A v \in {f.path} \cup f.paths : v.as = "token" => f.name.as = "token"

(* A redacted document, built or read back, shows no path under a prefix or *)
(* the home directory as it is; built from the index it shows a token for   *)
(* every path under a prefix; in no text is there a prefix or the home      *)
(* directory, and of the index no prefix that is abbreviated either; a      *)
(* finding or a pair with a token for a path has neither the path nor its   *)
(* base name as a whole in its texts, and the finding no name; and to       *)
(* redact it again changes nothing (redact/redact.go:81-171, 212-281).      *)
Redacted ==
    pc = "render" /\ request.deny # Off =>
        /\ \A v \in FormsIn(doc) :
            /\ v.as = "plain" => ~denied(request.deny, v) /\ ~under(v.path, Home)
            /\ ~request.from /\ denied(request.deny, Plain(v.path)) => v.as = "token"
        /\ \A s \in TextsIn(doc) : \A p \in Range(request.deny) \cup {Home} :
            /\ ~Shows(s, Spelling[p])
            /\ ~request.from /\ p # Home => ~Shows(s, Written(Path(<<>>, Plain(p))))
        /\ \A f \in Range(doc.findings) :
            Unnamed({f.path} \cup f.paths, {f.reason, f.scenario}) /\ Nameless(f)
        /\ \A p \in Range(doc.pairs) : Unnamed({p.archive, p.dir}, {p.detail})
        /\ Document(request.deny, doc) = doc

(* Of a path under a prefix the code promises that nothing of its file name *)
(* stays in a text about it, tail and all (redact/redact.go:10-12, 33-35):  *)
(* where a pair of the index shows a token no piece of the path's base name *)
(* is left in its detail.                                                   *)
NoTailLeft ==
    pc = "render" /\ request.deny # Off /\ ~request.from =>
        \A p \in Range(doc.pairs) : \A v \in {p.archive, p.dir} :
            v.as = "token" => Range(NameOf[v.path]) \cap Range(p.detail) \subseteq Stops

(* One saved document can produce a shareable copy under a prefix           *)
(* (docs/guides/sharing.md:37-42): every path under a prefix is a token, in *)
(* a document that is read back as in one of the index.                     *)
SavedRedacted ==
    pc = "render" /\ request.deny # Off =>
        \A v \in FormsIn(doc) : denied(request.deny, Plain(v.path)) => v.as = "token"

(* Whatever fails, and however often: a file is as it was before the        *)
(* command, or a whole rendering of the command's document, or the one file *)
(* it was about to write; and the files an export leaves are those that the *)
(* document it saved gives when it is rendered again                        *)
(* (cmd/diskwise/export.go:44-66, report.go:67-81).                         *)
FilesInOrder ==
    /\ pc # "idle" => \A f \in DOMAIN files :
        \/ files[f] = before[f]
        \/ \E i \in 1..written : Outputs[i] = f /\ files[f] = Whole(rendered[i])
        \/ pc \in {"write", "failed"} /\ f = NextOutput /\ files[f] = Torn
    /\ pc = "done" => \A i \in DOMAIN Outputs :
        /\ files[Outputs[i]] = Whole(rendered[i])
        /\ request.command = "export" =>
            files[Outputs[i]].shows = Render(Outputs[i], files["json"].shows)

(* A directory that holds what was extracted from the archive beside it, or *)
(* a part of it, and nothing else, is called the same exactly if nothing of *)
(* it is lacking, and otherwise said to lack as many files as it does:      *)
(* neither sidecars nor directories make a difference, nor what is in a     *)
(* photos library besides its originals (detect/archive_pair.go:93-183,     *)
(* archive_read.go:54-143).                                                 *)
VerdictOfExtraction ==
    pc = "done" /\ request.command = "pairs" =>
        \A c \in Paired(doc.archives, request.min) : \E p \in Range(doc.pairs) :
            /\ p.archive.path = c.archive
            /\ IsExtraction(c) =>
                /\ p.verdict = IF Lacking(c) = {} THEN "same" ELSE "archive_has_more"
                /\ p.extra = Cardinality(Lacking(c))

=============================================================================
