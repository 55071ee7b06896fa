------------------------- MODULE AttributionProofs -------------------------
(***************************************************************************)
(* Theorems about Attribution, for any tree, any index of which the        *)
(* directories are as large as the files below them, any registry and any  *)
(* query: no two findings overlap (IInv), the policy holds of every class, *)
(* each archive is in one finding (CoverInv), and the sizes, the           *)
(* remainders and the tiers add up (BytesInv and the sums of FiniteSums).  *)
(***************************************************************************)
EXTENDS Attribution, FiniteSums

(* Where a finding comes from determines what it is.                        *)
KnownOne(f) ==
    \E k \in Known \cap RowsUnder(request.path) :
        f = Finding(k, {k}, index.size[k], KindOf[k], DefaultOf[k], 100)

BundleOne(f) ==
    \E r \in BundleRows : /\ ~InKnown(r)
                          /\ f = Finding(r, {r}, index.size[r], "managed_bundle", "keep", 100)

ArchiveOne(f) ==
    \E a \in ArchiveRows : /\ ~Claimed(a) /\ ~InFamily(a)
                           /\ evidence[a] \in Evidence(a)
                           /\ f = ArchiveFinding(a, evidence[a])

FamilyOne(f) ==
    \E m \in Families : (\A a \in m : ~Claimed(a)) /\ f = FamilyFinding(m)

Origin == \A f \in found : KnownOne(f) \/ BundleOne(f) \/ ArchiveOne(f) \/ FamilyOne(f)

(* No bundle that is reported lies in another.                              *)
BundlesApart ==
    \A f, g \in found : BundleOne(f) /\ BundleOne(g) => f.path \notin Below[g.path]

(* The rows the loop is through with lie in none of those it will come to.  *)
Descends(rows) == todo \subseteq rows /\ \A r \in todo, p \in rows \ todo : p \notin Below[r]

BundlesPhase ==
    pc = "bundles" =>
        /\ Descends(BundleRows)
        /\ \A f \in found : KnownOne(f) \/ (BundleOne(f) /\ f.path \notin todo)

ArchivesPhase ==
    pc = "archives" =>
        /\ todo \subseteq ArchiveRows
        /\ \A f \in found : ArchiveOne(f) => f.path \notin todo

UnknownShape ==
    \A u \in unknown :
        /\ u.path \in LargestDirs
        /\ ~Claimed(u.path)
        /\ u = Finding(u.path, {u.path}, u.size, "unknown", "unknown", 0)

UnknownApart == \A u, v \in unknown : Under(u.path, v.path) => u = v

UnexplainedPhase ==
    pc = "unexplained" =>
        /\ Descends(LargestDirs)
        /\ \A u \in unknown : u.path \notin todo

IInv ==
    /\ index \in Indexes
    /\ evidence = [a \in Archives |-> evidence[a]]
    /\ pc = "known" => found = {}
    /\ pc \in {"known", "bundles", "archives"} => unknown = {}
    /\ Origin
    /\ BundlesApart
    /\ BundlesPhase
    /\ ArchivesPhase
    /\ UnknownShape
    /\ UnknownApart
    /\ UnexplainedPhase

(* The fields of a finding.                                                 *)
LEMMA Fields ==
    ASSUME NEW p, NEW q, NEW s, NEW k, NEW c, NEW n
    PROVE  LET f == Finding(p, q, s, k, c, n) IN
           /\ f.path = p /\ f.paths = q /\ f.size = s /\ f.kind = k
           /\ f.confidence = n /\ f.class = Evaluate(c, k, n)
  BY DEF Finding

(* The rows of the detectors are of the kinds they ask for.                 *)
LEMMA RowKinds ==
    ASSUME index \in Indexes
    PROVE  /\ RowsUnder(request.path) \subseteq Paths
           /\ BundleRows \subseteq Dirs
           /\ ArchiveRows \subseteq Files
           /\ LargestDirs \subseteq Dirs
           /\ Known \subseteq Dirs
           /\ \A m \in Families : m \subseteq ArchiveRows
  BY AttributionAssumption DEF RowsUnder, BundleRows, ArchiveRows, LargestDirs, Families

(* What a query returns depends on the index and the request only.          *)
LEMMA Stable ==
    ASSUME UNCHANGED <<index, request>>
    PROVE  /\ RowsUnder(request.path)' = RowsUnder(request.path)
           /\ BundleRows' = BundleRows
           /\ ArchiveRows' = ArchiveRows
           /\ LargestDirs' = LargestDirs
           /\ Families' = Families
           /\ \A p : Claimed(p)' <=> Claimed(p)
           /\ \A a : InFamily(a)' <=> InFamily(a)
           /\ \A a : Evidence(a)' = Evidence(a)
           /\ \A f : KnownOne(f)' <=> KnownOne(f)
           /\ \A f : BundleOne(f)' <=> BundleOne(f)
           /\ \A a, e : ArchiveFinding(a, e)' = ArchiveFinding(a, e)
           /\ \A f : FamilyOne(f)' <=> FamilyOne(f)
<1>1. /\ RowsUnder(request.path)' = RowsUnder(request.path)
      /\ BundleRows' = BundleRows
      /\ ArchiveRows' = ArchiveRows
      /\ LargestDirs' = LargestDirs
      /\ Families' = Families
  BY DEF RowsUnder, BundleRows, ArchiveRows, LargestDirs, Families
<1>2. /\ \A p : Claimed(p)' <=> Claimed(p)
      /\ \A a : InFamily(a)' <=> InFamily(a)
      /\ \A a : Evidence(a)' = Evidence(a)
  BY <1>1 DEF Claimed, InFamily, Evidence, ExtractedSibling
<1>3. /\ \A f : KnownOne(f)' <=> KnownOne(f)
      /\ \A f : BundleOne(f)' <=> BundleOne(f)
  BY <1>1 DEF KnownOne, BundleOne
<1>4. \A a, e : ArchiveFinding(a, e)' = ArchiveFinding(a, e)
  BY DEF ArchiveFinding, classifyArchive, Verdict, comparePair, ExtractedSibling,
         DirFiles, SizeOfAll
<1>5. \A f : FamilyOne(f)' <=> FamilyOne(f)
  BY <1>1, <1>2 DEF FamilyOne, FamilyFinding, SizeOfAll
<1> QED
  BY <1>1, <1>2, <1>3, <1>4, <1>5

(* The loop over rows, the largest first, keeps its order.                  *)
LEMMA NextDescends ==
    ASSUME index \in Indexes, NEW rows \in SUBSET (Dirs \cap Paths),
           Descends(rows), NEW r, IsNext(r)
    PROVE  \A q \in todo \ {r}, p \in rows \ (todo \ {r}) : p \notin Below[q]
<1> SUFFICES ASSUME NEW q \in todo \ {r}, r \in Below[q]
             PROVE  FALSE
  BY DEF Descends
<1>1. q \in Dirs /\ r \in Dirs /\ r \in todo /\ q \in Paths /\ r \in Paths
  BY DEF Descends, IsNext
<1>2. index.size[r] <= index.size[q]
  BY <1>1, AttributionAssumption DEF Monotone
<1>3. index.size[q] \in Nat /\ index.size[r] \in Nat
  BY <1>1, AttributionAssumption
<1>4. index.size[q] < index.size[r] \/ r \notin Below[q]
  BY DEF IsNext
<1> QED
  BY <1>2, <1>3, <1>4

LEMMA InitIInv == Init => IInv
<1> SUFFICES ASSUME Init PROVE IInv
  OBVIOUS
<1> QED
  BY DEF Init, IInv, Origin, BundlesApart, BundlesPhase, ArchivesPhase, UnknownShape,
         UnknownApart, UnexplainedPhase

(* The paths that one finding each claims.                                  *)
LEMMA Shapes ==
    ASSUME index \in Indexes, NEW f
    PROVE  /\ KnownOne(f) => f.path \in Known \cap RowsUnder(request.path)
                             /\ f.paths = {f.path}
           /\ BundleOne(f) => f.path \in BundleRows /\ ~InKnown(f.path)
                              /\ f.paths = {f.path} /\ f.kind = "managed_bundle"
           /\ ArchiveOne(f) => f.path \in ArchiveRows /\ ~Claimed(f.path)
                               /\ ~InFamily(f.path) /\ f.paths = {f.path}
           /\ FamilyOne(f) => f.paths \in Families /\ \A a \in f.paths : ~Claimed(a)
<1>1. KnownOne(f) => f.path \in Known \cap RowsUnder(request.path) /\ f.paths = {f.path}
  BY Fields DEF KnownOne
<1>2. BundleOne(f) => f.path \in BundleRows /\ ~InKnown(f.path)
                      /\ f.paths = {f.path} /\ f.kind = "managed_bundle"
  BY Fields DEF BundleOne
<1>3. ArchiveOne(f) => f.path \in ArchiveRows /\ ~Claimed(f.path)
                       /\ ~InFamily(f.path) /\ f.paths = {f.path}
  BY Fields DEF ArchiveOne, ArchiveFinding
<1>4. FamilyOne(f) => f.paths \in Families /\ \A a \in f.paths : ~Claimed(a)
  BY Fields DEF FamilyOne, FamilyFinding
<1> QED
  BY <1>1, <1>2, <1>3, <1>4

(* Its path tells all of a finding that is not on a family.                 *)
LEMMA Determined ==
    ASSUME NEW f, NEW g, f.path = g.path
    PROVE  /\ KnownOne(f) /\ KnownOne(g) => f = g
           /\ BundleOne(f) /\ BundleOne(g) => f = g
           /\ ArchiveOne(f) /\ ArchiveOne(g) => f = g
<1>1. ASSUME KnownOne(f), KnownOne(g) PROVE f = g
  <2>1. PICK k : f = Finding(k, {k}, index.size[k], KindOf[k], DefaultOf[k], 100)
    BY <1>1 DEF KnownOne
  <2>2. PICK l : g = Finding(l, {l}, index.size[l], KindOf[l], DefaultOf[l], 100)
    BY <1>1 DEF KnownOne
  <2>3. k = l
    BY <2>1, <2>2, Fields
  <2> QED
    BY <2>1, <2>2, <2>3
<1>2. ASSUME BundleOne(f), BundleOne(g) PROVE f = g
  <2>1. PICK r : f = Finding(r, {r}, index.size[r], "managed_bundle", "keep", 100)
    BY <1>2 DEF BundleOne
  <2>2. PICK t : g = Finding(t, {t}, index.size[t], "managed_bundle", "keep", 100)
    BY <1>2 DEF BundleOne
  <2>3. r = t
    BY <2>1, <2>2, Fields
  <2> QED
    BY <2>1, <2>2, <2>3
<1>3. ASSUME ArchiveOne(f), ArchiveOne(g) PROVE f = g
  <2>1. PICK a : f = ArchiveFinding(a, evidence[a])
    BY <1>3 DEF ArchiveOne
  <2>2. PICK b : g = ArchiveFinding(b, evidence[b])
    BY <1>3 DEF ArchiveOne
  <2>3. f.path = a /\ g.path = b
    BY <2>1, <2>2, Fields DEF ArchiveFinding
  <2> QED
    BY <2>1, <2>2, <2>3
<1> QED
  BY <1>1, <1>2, <1>3

LEMMA KnownStep == IInv /\ KnownLocations => IInv'
<1> SUFFICES ASSUME IInv, KnownLocations PROVE IInv'
  OBVIOUS
<1>0. index' = index /\ request' = request /\ evidence' = evidence
      /\ unknown' = {} /\ todo' = BundleRows /\ pc' = "bundles"
  BY DEF KnownLocations, IInv
<1>1. \A f \in found' : KnownOne(f)'
  BY <1>0, Stable DEF KnownLocations, KnownOne
<1>2. Origin' /\ ArchivesPhase' /\ UnknownShape' /\ UnknownApart' /\ UnexplainedPhase'
  BY <1>0, <1>1 DEF Origin, ArchivesPhase, UnknownShape, UnknownApart, UnexplainedPhase
<1>3. BundlesPhase'
  <2>1. todo' = BundleRows'
    BY <1>0, Stable
  <2>2. Descends(BundleRows)'
    BY <2>1 DEF Descends
  <2> QED
    BY <1>1, <2>2 DEF BundlesPhase
<1>4. BundlesApart'
  <2> SUFFICES ASSUME NEW f \in found', BundleOne(f)' PROVE FALSE
    BY DEF BundlesApart
  <2>1. KnownOne(f) /\ BundleOne(f)
    BY <1>0, <1>1, Stable
  <2>2. f.path \in Known /\ ~InKnown(f.path)
    BY <2>1, Shapes DEF IInv
  <2> QED
    BY <2>2 DEF InKnown, Under
<1> QED
  BY <1>0, <1>2, <1>3, <1>4 DEF IInv

LEMMA BundleStep == \A r \in Paths : IInv /\ ManagedBundle(r) => IInv'
<1> SUFFICES ASSUME IInv, NEW r \in Paths, ManagedBundle(r) PROVE IInv'
  OBVIOUS
<1> DEFINE new == Finding(r, {r}, index.size[r], "managed_bundle", "keep", 100)
<1>0. /\ index' = index /\ request' = request /\ evidence' = evidence
      /\ unknown = {} /\ unknown' = {} /\ todo' = todo \ {r}
      /\ pc = "bundles" /\ pc' = "bundles" /\ index \in Indexes
      /\ IsNext(r) /\ r \in todo /\ r \in BundleRows
  BY DEF ManagedBundle, IInv, IsNext, BundlesPhase, Descends
<1>1. /\ Descends(BundleRows)
      /\ \A f \in found : KnownOne(f) \/ (BundleOne(f) /\ f.path \notin todo)
  BY <1>0 DEF IInv, BundlesPhase
<1>2. \/ found' = found
      \/ /\ found' = found \cup {new}
         /\ ~InKnown(r)
         /\ \A o \in Outer : ~Under(r, o)
  BY DEF ManagedBundle
<1>3. new.path = r
  BY Fields
<1>4. ~InKnown(r) => BundleOne(new)
  BY <1>0 DEF BundleOne
<1>5. \A f \in found' : KnownOne(f)' \/ (BundleOne(f)' /\ f.path \notin todo')
  BY <1>0, <1>1, <1>2, <1>3, <1>4, Stable
<1>6. Descends(BundleRows)'
  BY <1>0, <1>1, Stable, NextDescends, RowKinds, AttributionAssumption DEF Descends
<1>7. BundlesApart'
  <2> SUFFICES ASSUME NEW f \in found', NEW g \in found', BundleOne(f), BundleOne(g),
                      f.path \in Below[g.path]
               PROVE  FALSE
    BY <1>0, Stable DEF BundlesApart
  <2>1. CASE f \in found /\ g \in found
    BY <2>1 DEF IInv, BundlesApart
  <2>2. CASE f = new /\ g = new
    BY <1>0, <1>3, <2>2, AttributionAssumption
  <2>3. CASE f = new /\ f \notin found /\ g \in found
    <3>1. g.path \in Outer
      BY <2>3, <1>0, Shapes DEF Outer
    <3> QED
      BY <3>1, <2>3, <1>2, <1>3 DEF Under
  <2>4. CASE g = new /\ g \notin found /\ f \in found
    <3>1. ~KnownOne(f)
      BY <1>0, Shapes DEF InKnown, Under
    <3>2. f.path \in BundleRows \ todo
      BY <3>1, <1>0, <1>1, <2>4, Shapes
    <3> QED
      BY <3>2, <1>0, <1>1, <1>3, <2>4 DEF Descends
  <2> QED
    BY <1>2, <2>1, <2>2, <2>3, <2>4
<1>8. Origin' /\ BundlesPhase'
  BY <1>0, <1>5, <1>6 DEF Origin, BundlesPhase
<1> QED
  BY <1>0, <1>7, <1>8 DEF IInv, ArchivesPhase, UnknownShape, UnknownApart, UnexplainedPhase

(* A finding on an archive is on a file, the others are on directories.     *)
LEMMA BundlesDoneStep == IInv /\ BundlesDone => IInv'
<1> SUFFICES ASSUME IInv, BundlesDone PROVE IInv'
  OBVIOUS
<1>0. /\ index' = index /\ request' = request /\ evidence' = evidence /\ found' = found
      /\ unknown = {} /\ unknown' = {} /\ index \in Indexes
      /\ pc = "bundles"
      /\ \/ pc' = "unexplained" /\ todo' = LargestDirs
         \/ pc' = "archives" /\ todo' = ArchiveRows
  BY DEF BundlesDone, IInv
<1>1. \A f \in found : KnownOne(f) \/ BundleOne(f)
  BY <1>0 DEF IInv, BundlesPhase
<1>2. Origin' /\ BundlesApart'
  BY <1>0, <1>1, Stable DEF Origin, BundlesApart, IInv
<1>3. \A f \in found' : ~ArchiveOne(f)'
  <2> SUFFICES ASSUME NEW f \in found, ArchiveOne(f)' PROVE FALSE
    BY <1>0
  <2>1. f.path \in ArchiveRows
    BY <1>0, Stable, Fields DEF ArchiveOne, ArchiveFinding
  <2>2. f.path \in Dirs
    BY <1>0, <1>1, Shapes, RowKinds
  <2> QED
    BY <2>1, <2>2, <1>0, RowKinds DEF Files
<1>4. ArchivesPhase'
  BY <1>0, <1>3, Stable DEF ArchivesPhase
<1>5. UnexplainedPhase'
  BY <1>0, Stable DEF UnexplainedPhase, Descends
<1> QED
  BY <1>0, <1>2, <1>4, <1>5 DEF IInv, BundlesPhase, UnknownShape, UnknownApart

LEMMA InstallerStep == \A a \in Paths : IInv /\ Installer(a) => IInv'
<1> SUFFICES ASSUME IInv, NEW a \in Paths, Installer(a) PROVE IInv'
  OBVIOUS
<1>0. /\ index' = index /\ request' = request
      /\ unknown = {} /\ unknown' = {} /\ todo' = todo \ {a}
      /\ pc = "archives" /\ pc' = "archives" /\ index \in Indexes
      /\ a \in todo /\ a \in ArchiveRows /\ todo \subseteq ArchiveRows
      /\ \A f \in found : ArchiveOne(f) => f.path \notin todo
      /\ Origin /\ BundlesApart
      /\ evidence = [b \in Archives |-> evidence[b]]
  BY DEF Installer, IInv, IsNext, ArchivesPhase
<1>1. todo' \subseteq ArchiveRows'
  BY <1>0, Stable
<1>2. CASE UNCHANGED <<evidence, found>>
  <2>1. \A f \in found : ArchiveOne(f)' <=> ArchiveOne(f)
    BY <1>0, <1>2, Stable DEF ArchiveOne
  <2>2. Origin' /\ BundlesApart' /\ ArchivesPhase'
    BY <1>0, <1>1, <1>2, <2>1, Stable DEF Origin, BundlesApart, ArchivesPhase
  <2> QED
    BY <1>0, <1>2, <2>2 DEF IInv, BundlesPhase, UnknownShape, UnknownApart, UnexplainedPhase
<1>3. ASSUME ~Claimed(a), ~InFamily(a), NEW e \in Evidence(a),
             evidence' = [evidence EXCEPT ![a] = e],
             found' = found \cup {ArchiveFinding(a, e)}
      PROVE  IInv'
  <2> DEFINE new == ArchiveFinding(a, e)
  <2>1. new.path = a
    BY Fields DEF ArchiveFinding
  <2>2. evidence'[a] = e /\ \A b \in Archives \ {a} : evidence'[b] = evidence[b]
    BY <1>0, <1>3 DEF ArchiveRows
  <2>3. ArchiveOne(new)'
    BY <1>0, <1>3, <2>2, Stable DEF ArchiveOne
  <2>4. \A f \in found : ArchiveOne(f) => ArchiveOne(f)'
    <3> SUFFICES ASSUME NEW f \in found, ArchiveOne(f) PROVE ArchiveOne(f)'
      OBVIOUS
    <3>1. PICK b \in ArchiveRows : /\ ~Claimed(b) /\ ~InFamily(b)
                                   /\ evidence[b] \in Evidence(b)
                                   /\ f = ArchiveFinding(b, evidence[b])
      BY DEF ArchiveOne
    <3>2. f.path = b /\ b # a
      BY <3>1, <1>0, Fields DEF ArchiveFinding
    <3>3. evidence'[b] = evidence[b]
      BY <2>2, <3>2 DEF ArchiveRows
    <3> QED
      BY <3>1, <3>3, <1>0, Stable DEF ArchiveOne
  <2>5. Origin'
    BY <1>0, <1>3, <2>3, <2>4, Stable DEF Origin
  <2>6. ~BundleOne(new)
    BY <1>0, <2>1, Shapes, RowKinds DEF Files
  <2>7. BundlesApart'
    BY <1>0, <1>3, <2>6, Stable DEF BundlesApart
  <2>8. ArchivesPhase'
    <3> SUFFICES ASSUME NEW f \in found', ArchiveOne(f)' PROVE f.path \notin todo'
      BY <1>1 DEF ArchivesPhase
    <3>1. CASE f = new
      BY <3>1, <2>1, <1>0
    <3>2. CASE f \in found /\ f.path # a
      <4>1. PICK b \in ArchiveRows : /\ ~Claimed(b) /\ ~InFamily(b)
                                     /\ evidence'[b] \in Evidence(b)
                                     /\ f = ArchiveFinding(b, evidence'[b])
        BY <1>0, Stable DEF ArchiveOne
      <4>2. b = f.path
        BY <4>1, Fields DEF ArchiveFinding
      <4>3. evidence'[b] = evidence[b]
        BY <2>2, <3>2, <4>2 DEF ArchiveRows
      <4>4. ArchiveOne(f)
        BY <4>1, <4>3 DEF ArchiveOne
      <4> QED
        BY <4>4, <3>2, <1>0
    <3> QED
      BY <1>0, <1>3, <3>1, <3>2
  <2>9. evidence' = [b \in Archives |-> evidence'[b]]
    BY <1>0, <1>3
  <2> QED
    BY <1>0, <2>5, <2>7, <2>8, <2>9
       DEF IInv, BundlesPhase, UnknownShape, UnknownApart, UnexplainedPhase
<1> QED
  BY <1>2, <1>3 DEF Installer

LEMMA FamiliesStep == IInv /\ ArtifactFamilies => IInv'
<1> SUFFICES ASSUME IInv, ArtifactFamilies PROVE IInv'
  OBVIOUS
<1>0. /\ index' = index /\ request' = request /\ evidence' = evidence
      /\ unknown = {} /\ unknown' = {} /\ pc' = "unexplained" /\ todo' = LargestDirs
      /\ index \in Indexes /\ Origin /\ BundlesApart
  BY DEF ArtifactFamilies, IInv
<1>1. \A f \in found' : f \in found \/ FamilyOne(f)
  BY DEF ArtifactFamilies, FamilyOne
<1>2. \A f : ArchiveOne(f)' <=> ArchiveOne(f)
  BY <1>0, Stable DEF ArchiveOne
<1>3. Origin'
  BY <1>0, <1>1, <1>2, Stable DEF Origin
<1>4. \A f : FamilyOne(f) => ~BundleOne(f)
  <2> SUFFICES ASSUME NEW f, FamilyOne(f), BundleOne(f) PROVE FALSE
    OBVIOUS
  <2>1. f.paths \in Families /\ f.path \in f.paths /\ f.path \in BundleRows
    BY <1>0, Shapes
  <2> QED
    BY <2>1, <1>0, RowKinds DEF Files
<1>5. BundlesApart'
  BY <1>0, <1>1, <1>4, Stable DEF BundlesApart
<1>6. UnexplainedPhase'
  <2>1. todo' = LargestDirs'
    BY <1>0, Stable
  <2> QED
    BY <1>0, <2>1 DEF UnexplainedPhase, Descends
<1> QED
  BY <1>0, <1>3, <1>5, <1>6
     DEF IInv, BundlesPhase, ArchivesPhase, UnknownShape, UnknownApart

LEMMA UnexplainedStep == \A r \in Paths : IInv /\ Unexplained(r) => IInv'
<1> SUFFICES ASSUME IInv, NEW r \in Paths, Unexplained(r) PROVE IInv'
  OBVIOUS
<1> DEFINE new == Finding(r, {r}, index.size[r], "unknown", "unknown", 0)
<1>0. /\ index' = index /\ request' = request /\ evidence' = evidence /\ found' = found
      /\ todo' = todo \ {r} /\ index \in Indexes
      /\ pc = "unexplained" /\ pc' = "unexplained"
      /\ IsNext(r) /\ r \in todo /\ r \in LargestDirs
      /\ Descends(LargestDirs) /\ \A u \in unknown : u.path \notin todo
      /\ Origin /\ BundlesApart /\ UnknownShape /\ UnknownApart
  BY DEF Unexplained, IInv, IsNext, UnexplainedPhase, Descends
<1>1. \/ unknown' = unknown
      \/ /\ unknown' = unknown \cup {new}
         /\ ~Claimed(r)
         /\ \A u \in unknown : ~Under(r, u.path)
  BY DEF Unexplained, IsNested
<1>2. new.path = r /\ new = Finding(new.path, {new.path}, new.size, "unknown", "unknown", 0)
  BY Fields
<1>3. UnknownShape'
  <2> SUFFICES ASSUME NEW u \in unknown'
               PROVE  /\ u.path \in LargestDirs
                      /\ ~Claimed(u.path)
                      /\ u = Finding(u.path, {u.path}, u.size, "unknown", "unknown", 0)
    BY <1>0, Stable DEF UnknownShape
  <2>1. CASE u \in unknown
    BY <1>0, <2>1 DEF UnknownShape
  <2>2. CASE u = new /\ ~Claimed(r)
    BY <1>0, <1>2, <2>2
  <2> QED
    BY <1>1, <2>1, <2>2
<1>4. UnknownApart'
  <2> SUFFICES ASSUME NEW u \in unknown', NEW v \in unknown', Under(u.path, v.path), u # v
               PROVE  FALSE
    BY DEF UnknownApart
  <2>1. CASE u \in unknown /\ v \in unknown
    BY <1>0, <2>1 DEF UnknownApart
  <2>2. CASE u = new /\ u \notin unknown /\ v \in unknown
    BY <2>2, <1>1, <1>2
  <2>3. CASE v = new /\ v \notin unknown /\ u \in unknown
    <3>1. u.path \in LargestDirs /\ u.path \notin todo /\ v.path = r
      BY <1>0, <1>2, <2>3 DEF UnknownShape
    <3>2. u.path \in Below[r]
      BY <3>1, <1>0 DEF Under
    <3> QED
      BY <3>1, <3>2, <1>0 DEF Descends
  <2> QED
    BY <1>1, <2>1, <2>2, <2>3
<1>5. Descends(LargestDirs)'
  BY <1>0, Stable, NextDescends, RowKinds, AttributionAssumption DEF Descends
<1>6. UnexplainedPhase'
  BY <1>0, <1>1, <1>2, <1>5 DEF UnexplainedPhase
<1>7. Origin' /\ BundlesApart'
  BY <1>0, Stable DEF Origin, BundlesApart, ArchiveOne
<1> QED
  BY <1>0, <1>3, <1>4, <1>6, <1>7 DEF IInv, BundlesPhase, ArchivesPhase

(* Subtracting the explained bytes changes sizes only.                      *)
LEMMA ExcludeStep == IInv /\ ExcludeExplained => IInv'
<1> SUFFICES ASSUME IInv, ExcludeExplained PROVE IInv'
  OBVIOUS
<1>0. /\ index' = index /\ request' = request /\ evidence' = evidence /\ found' = found
      /\ pc' = "report" /\ index \in Indexes
      /\ Origin /\ BundlesApart /\ UnknownShape /\ UnknownApart
  BY DEF ExcludeExplained, IInv
<1>1. \A u \in unknown' : \E h \in unknown : u = [h EXCEPT !.size = Remainder(h)]
  BY DEF ExcludeExplained
<1>2. \A h \in unknown : \A n :
        /\ [h EXCEPT !.size = n] = Finding(h.path, {h.path}, n, "unknown", "unknown", 0)
        /\ [h EXCEPT !.size = n].path = h.path
        /\ [h EXCEPT !.size = n].size = n
  <2> SUFFICES ASSUME NEW h \in unknown, NEW n
               PROVE  /\ [h EXCEPT !.size = n] = Finding(h.path, {h.path}, n, "unknown", "unknown", 0)
                      /\ [h EXCEPT !.size = n].path = h.path
                      /\ [h EXCEPT !.size = n].size = n
    OBVIOUS
  <2>1. PICK q, s : h = Finding(q, {q}, s, "unknown", "unknown", 0)
    BY <1>0 DEF UnknownShape
  <2>2. h.path = q
    BY <2>1, Fields
  <2> QED
    BY <2>1, <2>2 DEF Finding
<1>3. UnknownShape'
  <2> SUFFICES ASSUME NEW u \in unknown'
               PROVE  /\ u.path \in LargestDirs
                      /\ ~Claimed(u.path)
                      /\ u = Finding(u.path, {u.path}, u.size, "unknown", "unknown", 0)
    BY <1>0, Stable DEF UnknownShape
  <2>1. PICK h \in unknown : u = [h EXCEPT !.size = Remainder(h)]
    BY <1>1
  <2>2. h.path \in LargestDirs /\ ~Claimed(h.path)
    BY <1>0 DEF UnknownShape
  <2>3. /\ u = Finding(h.path, {h.path}, Remainder(h), "unknown", "unknown", 0)
        /\ u.path = h.path /\ u.size = Remainder(h)
    BY <1>2, <2>1
  <2> QED
    BY <2>2, <2>3
<1>4. UnknownApart'
  <2> SUFFICES ASSUME NEW u \in unknown', NEW v \in unknown', Under(u.path, v.path)
               PROVE  u = v
    BY DEF UnknownApart
  <2>1. PICK g \in unknown : u = [g EXCEPT !.size = Remainder(g)]
    BY <1>1
  <2>2. PICK h \in unknown : v = [h EXCEPT !.size = Remainder(h)]
    BY <1>1
  <2>3. u.path = g.path /\ v.path = h.path
    BY <1>2, <2>1, <2>2
  <2>4. g = h
    BY <1>0, <2>3 DEF UnknownApart
  <2> QED
    BY <2>1, <2>2, <2>4
<1>5. Origin' /\ BundlesApart'
  BY <1>0, Stable DEF Origin, BundlesApart, ArchiveOne
<1> QED
  BY <1>0, <1>3, <1>4, <1>5 DEF IInv, BundlesPhase, ArchivesPhase, UnexplainedPhase

(* The steps that neither add nor change a finding.                         *)
LEMMA OtherStep ==
    ASSUME IInv, UNCHANGED <<index, request, evidence, found, unknown>>,
           pc' \in {"done", "failed"} \/ UNCHANGED <<pc, todo>>
    PROVE  IInv'
<1>1. \A f : ArchiveOne(f)' <=> ArchiveOne(f)
  BY Stable DEF ArchiveOne
<1>2. Origin' /\ BundlesApart' /\ UnknownShape' /\ UnknownApart'
  BY <1>1, Stable DEF Origin, BundlesApart, UnknownShape, UnknownApart, IInv
<1>3. CASE pc' \in {"done", "failed"}
  BY <1>2, <1>3 DEF IInv, BundlesPhase, ArchivesPhase, UnexplainedPhase
<1>4. CASE UNCHANGED <<pc, todo>>
  BY <1>1, <1>2, <1>4, Stable
     DEF IInv, BundlesPhase, ArchivesPhase, UnexplainedPhase, Descends
<1> QED
  BY <1>3, <1>4

LEMMA NextIInv == IInv /\ [Next]_vars => IInv'
<1> SUFFICES ASSUME IInv, [Next]_vars PROVE IInv'
  OBVIOUS
<1>1. CASE NotIndexed
  BY <1>1, OtherStep DEF NotIndexed
<1>2. CASE KnownLocations
  BY <1>2, KnownStep
<1>3. ASSUME NEW r \in Paths, ManagedBundle(r) PROVE IInv'
  BY <1>3, BundleStep
<1>4. ASSUME NEW r \in Paths, Installer(r) PROVE IInv'
  BY <1>4, InstallerStep
<1>5. ASSUME NEW r \in Paths, Unexplained(r) PROVE IInv'
  BY <1>5, UnexplainedStep
<1>6. CASE BundlesDone
  BY <1>6, BundlesDoneStep
<1>7. CASE ArtifactFamilies
  BY <1>7, FamiliesStep
<1>8. CASE ExcludeExplained
  BY <1>8, ExcludeStep
<1>9. CASE Report
  BY <1>9, OtherStep DEF Report
<1>10. CASE Fail
  BY <1>10, OtherStep DEF Fail
<1>11. CASE UNCHANGED vars
  BY <1>11, OtherStep DEF vars
<1> QED
  BY <1>1, <1>2, <1>3, <1>4, <1>5, <1>6, <1>7, <1>8, <1>9, <1>10, <1>11 DEF Next, Returned

(* What a finding of each detector claims lies in nothing that another one  *)
(* claims.                                                                  *)
LEMMA FoundApart ==
    ASSUME IInv, NEW f \in found, NEW g \in found,
           NEW p \in f.paths, NEW q \in g.paths, Under(p, q)
    PROVE  f = g
<1>0. index \in Indexes /\ Origin /\ BundlesApart
  BY DEF IInv
<1>1. /\ p \in Files => ~Claimed(p)
      /\ q \in Files => p = q
  <2>1. p \in Files => ArchiveOne(f) \/ FamilyOne(f)
    BY <1>0, Shapes, RowKinds DEF Origin, Files
  <2>2. q \in Files => q \in Paths /\ Below[q] = {}
    BY AttributionAssumption DEF Files
  <2> QED
    BY <1>0, <2>1, <2>2, Shapes DEF Under
<1>2. CASE KnownOne(g)
  <2>1. q \in Known /\ InKnown(p)
    BY <1>0, <1>2, Shapes DEF InKnown
  <2>2. p \notin Files
    BY <1>1, <2>1 DEF Claimed
  <2>3. KnownOne(f) \/ BundleOne(f)
    BY <1>0, <2>2, Shapes, RowKinds DEF Origin
  <2>4. KnownOne(f) /\ p \in Known
    BY <1>0, <2>1, <2>3, Shapes
  <2>5. p = q
    BY <2>1, <2>4, AttributionAssumption DEF Under
  <2> QED
    BY <1>0, <1>2, <2>4, <2>5, Shapes, Determined
<1>3. CASE BundleOne(g)
  <2>1. q \in BundleRows /\ ~InKnown(q) /\ q = g.path
    BY <1>0, <1>3, Shapes
  <2>2. p \notin Files
    BY <1>1, <2>1 DEF Claimed
  <2>3. KnownOne(f) \/ BundleOne(f)
    BY <1>0, <2>2, Shapes, RowKinds DEF Origin
  <2>4. ~KnownOne(f)
    <3> SUFFICES ASSUME KnownOne(f) PROVE FALSE
      OBVIOUS
    <3>1. p \in Known
      BY <1>0, Shapes
    <3>2. p # q
      BY <2>1, <3>1 DEF InKnown, Under
    <3>3. q \in Bundles
      BY <2>1 DEF BundleRows
    <3> QED
      BY <3>1, <3>2, <3>3, AttributionAssumption DEF Under
  <2>5. BundleOne(f) /\ p = f.path
    BY <1>0, <2>3, <2>4, Shapes
  <2>6. p = q
    BY <1>0, <1>3, <2>1, <2>5 DEF BundlesApart, Under
  <2> QED
    BY <1>3, <2>1, <2>5, <2>6, Determined
<1>4. CASE ArchiveOne(g) \/ FamilyOne(g)
  <2>1. q \in ArchiveRows /\ q \in Files /\ p = q
    BY <1>0, <1>1, <1>4, Shapes, RowKinds
  <2>2. ArchiveOne(f) \/ FamilyOne(f)
    BY <1>0, <2>1, Shapes, RowKinds DEF Origin, Files
  <2>3. CASE ArchiveOne(f) /\ ArchiveOne(g)
    BY <2>1, <2>3, <1>0, Shapes, Determined
  <2>4. CASE FamilyOne(f) /\ FamilyOne(g)
    <3>1. PICK m \in Families : f = FamilyFinding(m) /\ f.paths = m
      BY <2>4, Fields DEF FamilyOne, FamilyFinding
    <3>2. PICK n \in Families : g = FamilyFinding(n) /\ g.paths = n
      BY <2>4, Fields DEF FamilyOne, FamilyFinding
    <3>3. p \in m /\ p \in n
      BY <2>1, <3>1, <3>2
    <3>4. m = n
      BY <3>3 DEF Families
    <3> QED
      BY <3>1, <3>2, <3>4
  <2>5. CASE ArchiveOne(f) /\ FamilyOne(g)
    BY <2>1, <2>5, <1>0, Shapes DEF InFamily
  <2>6. CASE FamilyOne(f) /\ ArchiveOne(g)
    BY <2>1, <2>6, <1>0, Shapes DEF InFamily
  <2> QED
    BY <1>4, <2>2, <2>3, <2>4, <2>5, <2>6
<1> QED
  BY <1>0, <1>2, <1>3, <1>4 DEF Origin

(* An unexplained directory lies in no claimed path.                        *)
LEMMA UnknownOutside ==
    ASSUME IInv, NEW u \in unknown, NEW g \in found, NEW q \in g.paths
    PROVE  ~Under(u.path, q)
<1>0. index \in Indexes /\ Origin /\ UnknownShape
  BY DEF IInv
<1>1. u.path \in Dirs /\ ~Claimed(u.path)
  BY <1>0, RowKinds DEF UnknownShape
<1>2. CASE KnownOne(g)
  BY <1>0, <1>1, <1>2, Shapes DEF Claimed, InKnown
<1>3. CASE BundleOne(g)
  BY <1>0, <1>1, <1>3, Shapes DEF Claimed
<1>4. CASE ArchiveOne(g) \/ FamilyOne(g)
  <2>1. q \in Files
    BY <1>0, <1>4, Shapes, RowKinds
  <2>2. Below[q] = {}
    BY <2>1, AttributionAssumption DEF Files
  <2> QED
    BY <1>1, <2>1, <2>2 DEF Under, Files
<1> QED
  BY <1>0, <1>2, <1>3, <1>4 DEF Origin

LEMMA InvNoOverlap == IInv => NoOverlap
<1> SUFFICES ASSUME IInv, NEW f \in found \cup unknown, NEW g \in found \cup unknown,
                    f # g, NEW p \in f.paths, NEW q \in g.paths, Under(p, q)
             PROVE  f \in found /\ g \in unknown
  BY DEF NoOverlap
<1>1. \A u \in unknown : u.paths = {u.path}
  <2> SUFFICES ASSUME NEW u \in unknown PROVE u.paths = {u.path}
    OBVIOUS
  <2>1. u = Finding(u.path, {u.path}, u.size, "unknown", "unknown", 0)
    BY DEF IInv, UnknownShape
  <2> QED
    BY <2>1, Fields
<1>2. CASE f \in unknown /\ g \in unknown
  BY <1>1, <1>2 DEF IInv, UnknownApart
<1>3. CASE f \in unknown /\ g \in found
  BY <1>1, <1>3, UnknownOutside
<1>4. CASE f \in found /\ g \in found
  BY <1>4, FoundApart
<1> QED
  BY <1>2, <1>3, <1>4

(* No two findings of a report claim the same bytes, whatever the tree, the *)
(* registry and the query are: one lies in another only if that one is an   *)
(* unexplained directory.                                                   *)
THEOREM NoBytesTwice == Spec => []NoOverlap
<1>1. Init => IInv
  BY InitIInv
<1>2. IInv /\ [Next]_vars => IInv'
  BY NextIInv
<1>3. IInv => NoOverlap
  BY InvNoOverlap
<1> QED
  BY <1>1, <1>2, <1>3, PTL DEF Spec

(* The policy never makes a proposal more aggressive, and its cap and its   *)
(* threshold hold of what it returns.                                       *)
LEMMA EvaluateBounds ==
    ASSUME NEW c \in Classes, NEW k, NEW n \in Nat
    PROVE  /\ Evaluate(c, k, n) \in Classes
           /\ rank[Evaluate(c, k, n)] <= rank[c]
           /\ k \in managedKinds => rank[Evaluate(c, k, n)] <= rank["backup_then_delete"]
           /\ Evaluate(c, k, n) = "safe_delete" => n >= MinConfidenceForSafeDelete
<1>1. /\ rank["safe_delete"] = 4 /\ rank["likely_safe"] = 3
      /\ rank["backup_then_delete"] = 2 /\ rank["review"] = 1
      /\ rank["keep"] = 0 /\ rank["unknown"] = 0
  BY DEF rank, Classes
<1> QED
  BY <1>1 DEF Evaluate, capAt, Classes, MinConfidenceForSafeDelete

(* What an archive on its own is recommended for.                           *)
LEMMA ArchiveBounds ==
    ASSUME index \in Indexes, NEW a \in Archives, NEW e \in Evidence(a)
    PROVE  LET f == ArchiveFinding(a, e) IN
           /\ f.paths = {a} /\ f.kind = "archive" /\ f.class \in Classes
           /\ f.class = "safe_delete" => f.confidence >= MinConfidenceForSafeDelete
           /\ a \in BackupLike => rank[f.class] <= rank["review"]
           /\ (e.contents.state = "read" /\ e.contents.files > Cardinality(DirFiles(a)))
                => rank[f.class] <= rank["review"]
<1> DEFINE f == ArchiveFinding(a, e)
           p == classifyArchive(a, e)
<1>1. /\ f.paths = {a} /\ f.kind = "archive"
      /\ f.class = Evaluate(p.class, "archive", p.confidence)
      /\ f.confidence = p.confidence
  BY Fields DEF ArchiveFinding
<1>0. e.contents \in [state : {"unsupported", "failed", "read"}, files : Nat, bytes : Nat]
  BY AttributionAssumption DEF Evidence
<1>2. Verdict(a, e) \in {"no_sibling", "none", "unread", "archive_has_more", "dir_has_more",
                         "same", "same_count"}
  <2>1. comparePair(a, e.contents) \in {"archive_has_more", "dir_has_more", "same", "same_count"}
    BY DEF comparePair
  <2> QED
    BY <1>0, <2>1 DEF Verdict
<1>3. p.class \in Classes /\ p.confidence \in Nat
  BY <1>2 DEF classifyArchive, Classes
<1>4. ASSUME p.class = "review" PROVE rank[f.class] <= rank["review"]
  BY <1>1, <1>3, <1>4, EvaluateBounds
<1>5. a \in BackupLike => p.class = "review"
  BY DEF classifyArchive
<1>6. ASSUME e.contents.state = "read", e.contents.files > Cardinality(DirFiles(a))
      PROVE  p.class = "review"
  <2>1. e.newer = FALSE /\ ExtractedSibling(a)
    BY <1>6 DEF Evidence
  <2>2. Cardinality(DirFiles(a)) \in Nat
    <3>1. IsFiniteSet(DirFiles(a))
      BY AttributionAssumption, FS_Subset DEF DirFiles
    <3> QED
      BY <3>1, FS_CardinalityType
  <2>3. comparePair(a, e.contents) = "archive_has_more"
    BY <1>0, <1>6, <2>2 DEF comparePair
  <2>4. Verdict(a, e) = "archive_has_more"
    BY <1>6, <2>1, <2>3 DEF Verdict
  <2> QED
    BY <2>1, <2>4 DEF classifyArchive
<1> QED
  BY <1>1, <1>3, <1>4, <1>5, <1>6, EvaluateBounds

(* What a family is recommended for.                                        *)
LEMMA FamilyBounds ==
    ASSUME NEW m
    PROVE  LET f == FamilyFinding(m) IN
           /\ f.paths = m /\ f.kind = "artifact_family" /\ f.class \in Classes
           /\ f.class = "safe_delete" => f.confidence >= MinConfidenceForSafeDelete
           /\ m \cap BackupLike # {} => rank[f.class] <= rank["review"]
<1> DEFINE f == FamilyFinding(m)
           proposed == IF m \cap BackupLike # {} THEN "review" ELSE "likely_safe"
           confidence == IF m \cap BackupLike # {} THEN 20 ELSE 75
<1>1. /\ f.paths = m /\ f.kind = "artifact_family"
      /\ f.class = Evaluate(proposed, "artifact_family", confidence)
      /\ f.confidence = confidence
  BY Fields DEF FamilyFinding
<1>2. proposed \in Classes /\ confidence \in Nat
  BY DEF Classes
<1> QED
  BY <1>1, <1>2, EvaluateBounds

LEMMA InvConservative == IInv => Conservative
<1> SUFFICES ASSUME IInv, NEW f \in found \cup unknown
             PROVE  /\ f.kind \in managedKinds => rank[f.class] <= rank["backup_then_delete"]
                    /\ f.class = "safe_delete" => f.confidence >= MinConfidenceForSafeDelete
                    /\ f.paths \cap BackupLike # {} => rank[f.class] <= rank["review"]
                    /\ \A a \in Archives :
                        (f.paths = {a} /\ evidence[a].contents.state = "read"
                         /\ evidence[a].contents.files > Cardinality(DirFiles(a)))
                        => rank[f.class] <= rank["review"]
  BY DEF Conservative
<1>0. index \in Indexes /\ Origin /\ UnknownShape
  BY DEF IInv
<1> DEFINE Bounded ==
             /\ f.kind \in managedKinds => rank[f.class] <= rank["backup_then_delete"]
             /\ f.class = "safe_delete" => f.confidence >= MinConfidenceForSafeDelete
             /\ f.paths \cap BackupLike = {}
             /\ \A a \in Archives : f.paths # {a}
<1>1. ASSUME NEW d \in Dirs, NEW s, NEW k, NEW c \in Classes, NEW n \in Nat,
             f = Finding(d, {d}, s, k, c, n)
      PROVE  Bounded
  <2>1. f.paths = {d} /\ f.kind = k /\ f.class = Evaluate(c, k, n) /\ f.confidence = n
    BY <1>1, Fields
  <2>2. d \notin BackupLike /\ d \notin Archives
    BY AttributionAssumption DEF Files
  <2>3. f.paths \cap BackupLike = {} /\ \A a \in Archives : f.paths # {a}
    BY <2>1, <2>2
  <2>4. /\ f.kind \in managedKinds => rank[f.class] <= rank["backup_then_delete"]
        /\ f.class = "safe_delete" => f.confidence >= MinConfidenceForSafeDelete
    BY <2>1, EvaluateBounds
  <2> QED
    BY <2>3, <2>4
<1>2. CASE f \in unknown
  <2>1. f = Finding(f.path, {f.path}, f.size, "unknown", "unknown", 0) /\ f.path \in Dirs
    BY <1>0, <1>2, RowKinds DEF UnknownShape
  <2>2. Bounded
    <3>1. "unknown" \in Classes /\ 0 \in Nat
      BY DEF Classes
    <3> QED
      <4> HIDE DEF Bounded
      <4> QED
        BY <1>1, <2>1, <3>1
  <2> QED
    BY <2>2
<1>3. CASE KnownOne(f)
  <2>1. PICK k \in Known : f = Finding(k, {k}, index.size[k], KindOf[k], DefaultOf[k], 100)
    BY <1>3 DEF KnownOne
  <2>2. k \in Dirs /\ DefaultOf[k] \in Classes /\ 100 \in Nat
    BY AttributionAssumption
  <2>3. Bounded
    <3> HIDE DEF Bounded
    <3> QED
      BY <1>1, <2>1, <2>2
  <2> QED
    BY <2>3
<1>4. CASE BundleOne(f)
  <2>1. PICK r \in BundleRows : f = Finding(r, {r}, index.size[r], "managed_bundle", "keep", 100)
    BY <1>4 DEF BundleOne
  <2>2. r \in Dirs /\ "keep" \in Classes /\ 100 \in Nat
    BY <1>0, RowKinds DEF Classes
  <2>3. Bounded
    <3> HIDE DEF Bounded
    <3> QED
      BY <1>1, <2>1, <2>2
  <2> QED
    BY <2>3
<1>5. CASE ArchiveOne(f)
  <2>1. PICK b \in Archives : evidence[b] \in Evidence(b) /\ f = ArchiveFinding(b, evidence[b])
    BY <1>5 DEF ArchiveOne, ArchiveRows
  <2>2. "archive" \notin managedKinds
    BY DEF managedKinds
  <2> QED
    BY <1>0, <2>1, <2>2, ArchiveBounds
<1>6. CASE FamilyOne(f)
  <2>1. PICK m \in Families : f = FamilyFinding(m)
    BY <1>6 DEF FamilyOne
  <2>2. "artifact_family" \notin managedKinds
    BY DEF managedKinds
  <2>3. \A a : m # {a}
    <3>1. Cardinality(m) >= 2
      BY DEF Families
    <3>2. \A a : Cardinality({a}) = 1
      BY FS_Singleton
    <3> QED
      BY <3>1, <3>2
  <2> QED
    BY <2>1, <2>2, <2>3, FamilyBounds
<1> QED
  BY <1>0, <1>2, <1>3, <1>4, <1>5, <1>6 DEF Origin

(* No finding recommends more than is known: managed data is not past a     *)
(* backup, a deletion that is called safe has the confidence for it, and    *)
(* neither a backup nor an archive with more in it than was extracted is    *)
(* past a review.                                                           *)
THEOREM NeverBold == Spec => []Conservative
<1>1. Init => IInv
  BY InitIInv
<1>2. IInv /\ [Next]_vars => IInv'
  BY NextIInv
<1>3. IInv => Conservative
  BY InvConservative
<1> QED
  BY <1>1, <1>2, <1>3, PTL DEF Spec

-----------------------------------------------------------------------------
(* Every archive is part of a finding                                       *)

(* No directory is missing between two rows.  One can be if a directory is  *)
(* made in a scanned one, and then only a directory in it is scanned.       *)
Closed ==
    \A i \in Indexes : \A p, r \in i.rows, q \in Paths :
        q \in Below[p] /\ r \in Below[q] => q \in i.rows

Covered(a) == \E f \in found : \E p \in f.paths : Under(a, p)

(* The detectors that are through leave nothing uncovered that is theirs.   *)
KnownCovered ==
    pc \notin {"known", "failed"} =>
        \A k \in Known \cap RowsUnder(request.path) : Covered(k)

BundlesCovered ==
    pc \notin {"known", "failed"} =>
        \A b \in BundleRows : InKnown(b) \/ Covered(b) \/ (pc = "bundles" /\ b \in todo)

ArchivesCovered ==
    request.command = "opportunities" /\ pc \notin {"known", "failed", "bundles"} =>
        \A a \in ArchiveRows :
            Claimed(a) \/ Covered(a) \/ (pc = "archives" /\ (a \in todo \/ InFamily(a)))

Rooted == pc \notin {"known", "failed"} => request.path \in index.rows

CoverInv == Rooted /\ KnownCovered /\ BundlesCovered /\ ArchivesCovered

LEMMA UnderIsOrder ==
    ASSUME NEW p \in Paths, NEW q \in Paths, NEW r \in Paths
    PROVE  /\ Under(p, p)
           /\ Under(p, q) /\ Under(q, r) => Under(p, r)
           /\ Under(p, q) /\ Under(p, r) => Under(q, r) \/ Under(r, q)
  BY AttributionAssumption DEF Under

(* All archives of a family are claimed or none: they are in one directory. *)
LEMMA FamilyTogether ==
    ASSUME index \in Indexes, NEW m \in Families, NEW a \in m, NEW b \in m, Claimed(a)
    PROVE  Claimed(b)
<1>1. /\ a \in Archives /\ b \in Archives /\ FamilyOf[a] = FamilyOf[b]
      /\ FamilyOf[a] # NoFamily
  BY DEF Families, ArchiveRows
<1>2. a \in Files /\ b \in Files
  BY <1>1, AttributionAssumption
<1>3. ASSUME NEW d \in Dirs, Under(a, d) PROVE Under(b, d)
  BY <1>1, <1>2, <1>3, AttributionAssumption DEF Under, Files
<1>4. Known \subseteq Dirs /\ BundleRows \subseteq Dirs
  BY RowKinds
<1> QED
  BY <1>3, <1>4 DEF Claimed, InKnown

(* What the findings claim are rows of the query.                           *)
LEMMA ClaimsAreRows ==
    ASSUME index \in Indexes, Origin, NEW f \in found, NEW p \in f.paths
    PROVE  p \in RowsUnder(request.path) /\ p \in index.rows /\ p \in Paths
<1>1. p \in RowsUnder(request.path)
  BY Shapes, RowKinds DEF Origin, BundleRows, ArchiveRows
<1> QED
  BY <1>1, RowKinds DEF RowsUnder

(* Findings are only added to until the report.                             *)
LEMMA CoveredKept ==
    ASSUME UNCHANGED <<index, request>>, found \subseteq found'
    PROVE  /\ \A a : Covered(a) => Covered(a)'
           /\ \A b : InKnown(b)' <=> InKnown(b)
  BY DEF Covered, InKnown, Under

LEMMA NextCover == IInv /\ CoverInv /\ [Next]_vars => CoverInv'
<1> SUFFICES ASSUME IInv, CoverInv, [Next]_vars PROVE CoverInv'
  OBVIOUS
<1>0. index \in Indexes
  BY DEF IInv
<1>1. CASE KnownLocations
  <2>1. /\ index' = index /\ request' = request /\ found = {} /\ pc' = "bundles"
        /\ todo' = BundleRows
        /\ found' = {Finding(k, {k}, index.size[k], KindOf[k], DefaultOf[k], 100) :
                       k \in Known \cap RowsUnder(request.path)}
    BY <1>1 DEF KnownLocations, IInv
  <2>2. ASSUME NEW k \in Known \cap RowsUnder(request.path) PROVE Covered(k)'
    <3> DEFINE f == Finding(k, {k}, index.size[k], KindOf[k], DefaultOf[k], 100)
    <3>1. f \in found'
      BY <2>1
    <3>2. k \in f.paths
      BY Fields
    <3> HIDE DEF f
    <3> QED
      BY <3>1, <3>2 DEF Covered, Under
  <2> QED
    BY <1>1, <2>1, <2>2, Stable DEF KnownLocations, Rooted, CoverInv, KnownCovered, BundlesCovered, ArchivesCovered
<1>2. ASSUME NEW r \in Paths, ManagedBundle(r) PROVE CoverInv'
  <2> DEFINE new == Finding(r, {r}, index.size[r], "managed_bundle", "keep", 100)
  <2>1. /\ index' = index /\ request' = request /\ pc = "bundles" /\ pc' = "bundles"
        /\ todo' = todo \ {r} /\ found \subseteq found'
        /\ (\E o \in Outer : Under(r, o)) \/ InKnown(r) \/ new \in found'
    BY <1>2 DEF ManagedBundle
  <2>2. InKnown(r) \/ Covered(r)'
    <3>1. ASSUME NEW o \in Outer, Under(r, o) PROVE Covered(r)'
      <4>1. PICK f \in found : f.path = o
        BY <3>1 DEF Outer
      <4>2. f.paths = {f.path}
        BY <1>0, <2>1, <4>1, Shapes DEF IInv, BundlesPhase
      <4> QED
        BY <2>1, <3>1, <4>1, <4>2 DEF Covered, Under
    <3>2. new.paths = {r}
      BY Fields
    <3> QED
      BY <2>1, <3>1, <3>2 DEF Covered, Under
  <2> QED
    BY <2>1, <2>2, CoveredKept, Stable DEF CoverInv, Rooted, KnownCovered, BundlesCovered, ArchivesCovered
<1>3. ASSUME NEW a \in Paths, Installer(a) PROVE CoverInv'
  <2>1. /\ index' = index /\ request' = request /\ pc = "archives" /\ pc' = "archives"
        /\ todo' = todo \ {a}
        /\ \/ Claimed(a) \/ InFamily(a)
           \/ \E e : found' = found \cup {ArchiveFinding(a, e)}
        /\ found \subseteq found'
    BY <1>3 DEF Installer
  <2>2. Claimed(a) \/ InFamily(a) \/ Covered(a)'
    <3>1. ASSUME NEW e, found' = found \cup {ArchiveFinding(a, e)} PROVE Covered(a)'
      <4>1. a \in ArchiveFinding(a, e).paths
        BY Fields DEF ArchiveFinding
      <4> QED
        BY <3>1, <4>1 DEF Covered, Under
    <3> QED
      BY <2>1, <3>1
  <2> QED
    BY <2>1, <2>2, CoveredKept, Stable DEF CoverInv, Rooted, KnownCovered, BundlesCovered, ArchivesCovered
<1>4. ASSUME UNCHANGED <<index, request, found>>, pc' = "failed" \/ UNCHANGED <<pc, todo>>
      PROVE  CoverInv'
  BY <1>4, CoveredKept, Stable DEF CoverInv, Rooted, KnownCovered, BundlesCovered, ArchivesCovered
<1>5. CASE BundlesDone
  BY <1>5, CoveredKept, Stable
     DEF BundlesDone, CoverInv, Rooted, KnownCovered, BundlesCovered, ArchivesCovered
<1>6. CASE ArtifactFamilies
  <2>1. /\ index' = index /\ request' = request /\ pc = "archives" /\ pc' = "unexplained"
        /\ todo = {} /\ found \subseteq found'
        /\ \A m \in Families : (\A a \in m : ~Claimed(a)) => FamilyFinding(m) \in found'
    BY <1>6 DEF ArtifactFamilies
  <2>2. ASSUME NEW a, InFamily(a), ~Claimed(a) PROVE Covered(a)'
    <3>1. PICK m \in Families : a \in m
      BY <2>2 DEF InFamily
    <3>2. FamilyFinding(m) \in found'
      BY <1>0, <2>1, <2>2, <3>1, FamilyTogether
    <3>3. FamilyFinding(m).paths = m
      BY Fields DEF FamilyFinding
    <3> QED
      BY <3>1, <3>2, <3>3 DEF Covered, Under
  <2> QED
    BY <2>1, <2>2, CoveredKept, Stable DEF CoverInv, Rooted, KnownCovered, BundlesCovered, ArchivesCovered
<1>7. ASSUME UNCHANGED <<index, request, found>>, pc \in {"unexplained", "report"},
             pc' \in {"unexplained", "report", "done"}
      PROVE  CoverInv'
  BY <1>7, CoveredKept, Stable DEF CoverInv, Rooted, KnownCovered, BundlesCovered, ArchivesCovered
<1> QED
  BY <1>1, <1>2, <1>3, <1>4, <1>5, <1>6, <1>7
     DEF Next, Returned, vars, NotIndexed, Unexplained, ExcludeExplained, Report, Fail

(* Each archive of the query is part of exactly one finding, "never both    *)
(* and never neither" (detect/archive.go:15-19), whatever the names, the    *)
(* bundles and the registry: unless the query lies in a known location, and *)
(* if no directory is missing between two rows.                             *)
THEOREM EachArchiveOnce == Closed /\ Spec => []ArchivesOnce
<1>1. Init => CoverInv
  BY DEF Init, CoverInv, Rooted, KnownCovered, BundlesCovered, ArchivesCovered
<1>2. Closed /\ IInv /\ CoverInv => ArchivesOnce
  <2> SUFFICES ASSUME Closed, IInv, CoverInv, request.command = "opportunities",
                      pc \in {"unexplained", "report", "done"}, ~InKnown(request.path),
                      NEW a \in ArchiveRows
               PROVE  Cardinality({f \in found : \E p \in f.paths : Under(a, p)}) = 1
    BY DEF ArchivesOnce
  <2>0. /\ index \in Indexes /\ a \in Paths /\ a \in Files /\ a \in index.rows
        /\ Under(a, request.path)
    BY RowKinds DEF IInv, ArchiveRows, RowsUnder, Files
  <2>1. request.path \in index.rows /\ request.path \in Paths
    BY <2>0, AttributionAssumption DEF CoverInv, Rooted
  <2>2. ASSUME NEW q \in Paths, Covered(q), Under(a, q) PROVE Covered(a)
    <3>1. PICK f \in found : \E p \in f.paths : Under(q, p)
      BY <2>2 DEF Covered
    <3>2. PICK p \in f.paths : Under(q, p)
      BY <3>1
    <3>3. p \in Paths
      BY <2>0, ClaimsAreRows DEF IInv
    <3> QED
      BY <2>0, <2>2, <3>2, <3>3, UnderIsOrder DEF Covered
  <2>3. ASSUME InKnown(a) PROVE Covered(a)
    <3>1. PICK k \in Known : Under(a, k)
      BY <2>3 DEF InKnown
    <3>2. k \in Dirs /\ k \in Paths
      BY AttributionAssumption
    <3>3. Under(k, request.path) /\ k # request.path
      <4>1. ~Under(request.path, k)
        BY <3>1 DEF InKnown
      <4>2. Under(k, request.path)
        BY <2>0, <2>1, <3>1, <3>2, <4>1, UnderIsOrder
      <4> QED
        BY <4>1, <4>2 DEF Under
    <3>4. k \in index.rows
      BY <2>0, <2>1, <3>1, <3>2, <3>3 DEF Closed, Under, Files
    <3>5. Covered(k)
      BY <2>0, <3>2, <3>3, <3>4 DEF CoverInv, KnownCovered, RowsUnder
    <3> QED
      BY <2>2, <3>1, <3>2, <3>5
  <2>4. ASSUME NEW b \in BundleRows, Under(a, b) PROVE Covered(a)
    <3>1. b \in Paths
      BY <2>0, RowKinds, AttributionAssumption
    <3>2. InKnown(b) \/ Covered(b)
      BY <2>4 DEF CoverInv, BundlesCovered
    <3>3. InKnown(b) => InKnown(a)
      BY <2>0, <2>4, <3>1, UnderIsOrder, AttributionAssumption DEF InKnown
    <3> QED
      BY <2>2, <2>3, <2>4, <3>1, <3>2, <3>3
  <2>5. Covered(a)
    BY <2>3, <2>4 DEF Claimed, CoverInv, ArchivesCovered
  <2>6. PICK f \in found : \E p \in f.paths : Under(a, p)
    BY <2>5 DEF Covered
  <2>7. ASSUME NEW g \in found, NEW q \in g.paths, Under(a, q) PROVE g = f
    <3>1. PICK p \in f.paths : Under(a, p)
      BY <2>6
    <3>2. p \in Paths /\ q \in Paths
      BY <2>0, ClaimsAreRows DEF IInv
    <3>3. Under(p, q) \/ Under(q, p)
      BY <2>0, <2>7, <3>1, <3>2, UnderIsOrder
    <3> QED
      BY <3>1, <3>3, FoundApart
  <2>8. {g \in found : \E p \in g.paths : Under(a, p)} = {f}
    BY <2>6, <2>7
  <2> QED
    BY <2>8, FS_Singleton
<1>3. Closed => Closed'
  BY DEF Closed
<1> QED
  BY <1>1, <1>2, <1>3, InitIInv, NextIInv, NextCover, PTL DEF Spec

-----------------------------------------------------------------------------
(* Bytes                                                                    *)

(* The files whose bytes a row stands for.                                  *)
CountedIn(d) == (Below[d] \cap index.rows \cap Files) \ index.duplicates

Part(p) == IF p \in Dirs THEN CountedIn(p) ELSE {p}

(* Only the last step before the report changes the size of a directory.    *)
SizeInv ==
    pc \in {"known", "bundles", "archives", "unexplained"} =>
        \A u \in unknown : u.size = index.size[u.path]

FinInv == IsFiniteSet(found) /\ IsFiniteSet(unknown)

ReportInv ==
    pc = "done" => \E kept \in SUBSET Shown :
        /\ report.kept = kept
        /\ report.omittedBytes = Sum(Shown \ kept)

BytesInv == SizeInv /\ FinInv /\ ReportInv /\ RemainderExact

LEMMA RowSums ==
    ASSUME index \in Indexes, NEW p \in index.rows
    PROVE  /\ p \in Paths /\ index.size[p] \in Nat /\ IsFiniteSet(Part(p))
           /\ index.size[p] = SizeOfAll(Part(p))
           /\ \A x \in Part(p) : x \in Paths /\ index.size[x] \in Nat
<1>1. /\ p \in Paths /\ index.size \in [Paths -> Nat] /\ IsFiniteSet(index.rows)
      /\ index.rows \subseteq Paths
  BY AttributionAssumption
<1>2. CASE p \in Dirs
  <2>1. Part(p) = CountedIn(p) /\ CountedIn(p) \subseteq index.rows
    BY <1>2 DEF Part, CountedIn
  <2>2. index.size[p] = SumOver(index.size, CountedIn(p))
    BY <1>2, AttributionAssumption DEF SumsUp, CountedIn
  <2> QED
    BY <1>1, <2>1, <2>2, FS_Subset DEF SizeOfAll
<1>3. CASE p \notin Dirs
  <2>1. Part(p) = {p} /\ index.size[p] \in Nat
    BY <1>1, <1>3 DEF Part
  <2>2. IsFiniteSet({p})
    BY FS_Singleton
  <2>3. SizeOfAll({p}) = index.size[p]
    <3>1. index.size[p] \in Int
      BY <2>1
    <3>2. SumFunctionOnSet(index.size, {p}) = index.size[p]
      BY <3>1, SumOne
    <3> QED
      BY <3>2 DEF SizeOfAll, SumOver
  <2> QED
    BY <1>1, <2>1, <2>2, <2>3
<1> QED
  BY <1>2, <1>3

(* Of the claimed paths none lies in another, so that no two stand for the  *)
(* same bytes.                                                              *)
LEMMA ExplainedApart ==
    ASSUME IInv
    PROVE  /\ Explained \subseteq RowsUnder(request.path) \cap index.rows \cap Paths
           /\ \A p, q \in Explained : Under(p, q) => p = q
           /\ \A p, q \in Explained : p # q => Part(p) \cap Part(q) = {}
<1>0. index \in Indexes /\ Origin
  BY DEF IInv
<1>1. \A p \in Explained : p \in RowsUnder(request.path) /\ p \in index.rows /\ p \in Paths
  BY <1>0, ClaimsAreRows DEF Explained
<1>2. ASSUME NEW p \in Explained, NEW q \in Explained, Under(p, q) PROVE p = q
  <2>1. PICK f \in found : p \in f.paths
    BY DEF Explained
  <2>2. PICK g \in found : q \in g.paths
    BY DEF Explained
  <2>3. f = g
    BY <1>2, <2>1, <2>2, FoundApart
  <2>4. CASE FamilyOne(f)
    <3>1. q \in Files /\ Below[q] = {}
      BY <1>0, <1>1, <2>2, <2>3, <2>4, Shapes, RowKinds, AttributionAssumption
    <3> QED
      BY <1>2, <3>1 DEF Under
  <2>5. CASE ~FamilyOne(f)
    BY <1>0, <2>1, <2>2, <2>3, <2>5, Shapes DEF Origin
  <2> QED
    BY <2>4, <2>5
<1>3. ASSUME NEW p \in Explained, NEW q \in Explained, NEW x \in Part(p) \cap Part(q)
      PROVE  p = q
  <2>1. x \in Paths /\ Under(x, p) /\ Under(x, q)
    BY <1>0, <1>1, RowSums DEF Part, CountedIn, Under
  <2> QED
    BY <1>1, <1>2, <2>1, UnderIsOrder
<1> QED
  BY <1>1, <1>2, <1>3

(* What the claimed paths in a directory stand for: its bytes that are not  *)
(* uncovered, and the second links that are claimed by themselves.          *)
LEMMA ExplainedIn ==
    ASSUME IInv, NEW d \in Dirs \cap index.rows, \A p \in Explained : ~Under(d, p)
    PROVE  LET claimed == SizeOfAll({p \in Explained \cap index.rows : Under(p, d)})
               bytes   == SizeOfAll(Uncovered(d))
               links   == SizeOfAll(LinkClaims \cap Below[d])
           IN  /\ claimed \in Nat /\ bytes \in Nat /\ links \in Nat
               /\ index.size[d] \in Nat /\ bytes <= index.size[d]
               /\ claimed = (index.size[d] - bytes) + links
<1> DEFINE E == {p \in Explained \cap index.rows : Under(p, d)}
           V == CountedIn(d)
           N == Uncovered(d)
           C == V \ N
           L == LinkClaims \cap Below[d]
           S == [p \in E |-> Part(p)]
           size == index.size
<1>0. /\ index \in Indexes /\ d \in Paths /\ IsFiniteSet(index.rows)
      /\ size \in [Paths -> Nat] /\ index.rows \subseteq Paths
      /\ index.duplicates \subseteq index.rows \cap Files
  BY AttributionAssumption DEF IInv
<1>1. /\ Explained \subseteq index.rows \cap Paths
      /\ \A p, q \in Explained : p # q => Part(p) \cap Part(q) = {}
  BY ExplainedApart
<1>2. N \subseteq V
  BY <1>0 DEF Uncovered, CountedIn, RowsUnder, Under, Files
<1>3. /\ E \subseteq index.rows /\ V \subseteq index.rows /\ C \subseteq index.rows
      /\ N \subseteq index.rows /\ L \subseteq index.rows
  BY <1>0, <1>2 DEF CountedIn, LinkClaims
<1>4. /\ IsFiniteSet(E) /\ IsFiniteSet(V) /\ IsFiniteSet(C) /\ IsFiniteSet(N) /\ IsFiniteSet(L)
  <2> HIDE DEF E, V, C, N, L
  <2> QED
    BY <1>0, <1>3, FS_Subset
<1>5. \A x : x \in C \cup L <=> \E p \in E : x \in S[p]
  <2>1. ASSUME NEW p \in E, NEW x \in S[p] PROVE x \in C \cup L
    <3>0. PICK f \in found : p \in f.paths
      BY DEF Explained
    <3>1. x \in Files /\ x \in index.rows /\ x \in Paths /\ Under(x, p) /\ p \in Paths
      BY <1>0, <1>3 DEF Part, CountedIn, Under, Files
    <3>2. x \in Below[d]
      BY <1>0, <3>1, UnderIsOrder DEF Under, Files
    <3>3. CASE x \in index.duplicates
      <4>1. x = p
        BY <3>3 DEF Part, CountedIn
      <4> QED
        BY <3>0, <3>2, <3>3, <4>1 DEF LinkClaims
    <3>4. CASE x \notin index.duplicates
      <4>1. x \in V
        BY <3>1, <3>2, <3>4 DEF CountedIn
      <4>2. x \notin N
        BY <3>0, <3>1 DEF Uncovered
      <4> QED
        BY <4>1, <4>2
    <3> QED
      BY <3>3, <3>4
  <2>2. ASSUME NEW x \in C PROVE \E p \in E : x \in S[p]
    <3>1. /\ x \in Files /\ x \in Below[d] /\ x \in index.rows /\ x \notin index.duplicates
          /\ x \in Paths /\ x \in RowsUnder(d)
      BY <1>0 DEF CountedIn, RowsUnder, Under
    <3>2. PICK f \in found : \E q \in f.paths : Under(x, q)
      BY <3>1 DEF Uncovered
    <3>3. PICK q \in f.paths : Under(x, q)
      BY <3>2
    <3>4. q \in Explained /\ q \in index.rows /\ q \in Paths
      BY <1>1, <3>3 DEF Explained
    <3>5. Under(q, d)
      <4>1. Under(x, d) /\ ~Under(d, q)
        BY <3>1, <3>4 DEF Under
      <4> QED
        BY <1>0, <3>1, <3>3, <3>4, <4>1, UnderIsOrder
    <3>6. x \in Part(q)
      <4>1. q \notin Dirs => Below[q] = {}
        BY <3>4, AttributionAssumption DEF Files
      <4> QED
        BY <3>1, <3>3, <4>1 DEF Part, CountedIn, Under, Files
    <3> QED
      BY <3>4, <3>5, <3>6
  <2>3. ASSUME NEW x \in L PROVE \E p \in E : x \in S[p]
    <3>1. x \in Explained /\ x \in index.rows /\ x \in Files /\ x \in Below[d]
      BY <1>0 DEF LinkClaims, Explained
    <3> QED
      BY <3>1 DEF Part, Under, Files
  <2> QED
    BY <2>1, <2>2, <2>3
<1>6. /\ \A p \in E : IsFiniteSet(S[p]) /\ \A x \in S[p] : size[x] \in Int
      /\ \A p \in E : size[p] = SumFunctionOnSet(size, S[p])
      /\ \A p \in E, q \in E : p # q => S[p] \cap S[q] = {}
      /\ DOMAIN S = E
  <2>1. \A p \in E : S[p] = Part(p) /\ p \in index.rows /\ p \in Explained
    OBVIOUS
  <2>2. DOMAIN S = E
    OBVIOUS
  <2> HIDE DEF E, S
  <2> QED
    BY <1>0, <1>1, <2>1, <2>2, RowSums DEF SizeOfAll, SumOver
<1>7. SumFunctionOnSet(size, C \cup L) = SumFunctionOnSet(size, E)
  <2> DEFINE U == C \cup L
  <2>1. IsFiniteSet(E)
    BY <1>4
  <2>2. DOMAIN S = E
    BY <1>6
  <2>3. \A p \in E : IsFiniteSet(S[p]) /\ \A x \in S[p] : size[x] \in Int
    BY <1>6
  <2>4. \A p \in E, q \in E : p # q => S[p] \cap S[q] = {}
    BY <1>6
  <2>5. \A p \in E : size[p] = SumFunctionOnSet(size, S[p])
    BY <1>6
  <2>6. \A x : x \in U <=> \E p \in E : x \in S[p]
    BY <1>5
  <2> HIDE DEF E, S, U, size
  <2>7. SumFunctionOnSet(size, U) = SumFunctionOnSet(size, E)
    BY ONLY <2>1, <2>2, <2>3, <2>4, <2>5, <2>6, SumOfSums
  <2> QED
    BY <2>7 DEF U
<1>8. \A x \in index.rows : size[x] \in Nat
  BY <1>0
<1>9. SumFunctionOnSet(size, C \cup L) = SumFunctionOnSet(size, C) + SumFunctionOnSet(size, L)
  <2>1. C \cap L = {}
    BY DEF CountedIn, LinkClaims
  <2>2. \A x \in C \cup L : size[x] \in Int
    BY <1>3, <1>8
  <2> HIDE DEF C, L, size
  <2> QED
    BY <1>4, <2>1, <2>2, SumUnion
<1>10. SumFunctionOnSet(size, V) = SumFunctionOnSet(size, C) + SumFunctionOnSet(size, N)
  <2>1. C \cap N = {} /\ C \cup N = V
    BY <1>2
  <2>2. \A x \in C \cup N : size[x] \in Int
    BY <1>3, <1>8
  <2> HIDE DEF C, N, V, size
  <2>3. SumFunctionOnSet(size, C \cup N) = SumFunctionOnSet(size, C) + SumFunctionOnSet(size, N)
    BY <1>4, <2>1, <2>2, SumUnion
  <2> QED
    BY <2>1, <2>3
<1>11. size[d] = SumFunctionOnSet(size, V) /\ size[d] \in Nat
  BY <1>0, RowSums DEF Part, SizeOfAll, SumOver
<1>12. /\ SumFunctionOnSet(size, C) \in Nat /\ SumFunctionOnSet(size, N) \in Nat
       /\ SumFunctionOnSet(size, L) \in Nat
  <2>1. /\ \A x \in C : size[x] \in Nat
        /\ \A x \in N : size[x] \in Nat
        /\ \A x \in L : size[x] \in Nat
    BY <1>3, <1>8
  <2> HIDE DEF C, N, L, size
  <2> QED
    BY <1>4, <2>1, SumNat
<1>13. /\ SizeOfAll(E) = SumFunctionOnSet(size, E) /\ SizeOfAll(N) = SumFunctionOnSet(size, N)
       /\ SizeOfAll(L) = SumFunctionOnSet(size, L)
  BY DEF SizeOfAll, SumOver
<1> HIDE DEF C, V, size, S
<1>14. /\ SizeOfAll(E) \in Nat /\ SizeOfAll(N) \in Nat /\ SizeOfAll(L) \in Nat
       /\ size[d] \in Nat /\ SizeOfAll(N) <= size[d]
       /\ SizeOfAll(E) = (size[d] - SizeOfAll(N)) + SizeOfAll(L)
  <2> HIDE DEF E, N, L
  <2> QED
    BY <1>7, <1>9, <1>10, <1>11, <1>12, <1>13
<1> QED
  BY <1>14 DEF size

(* What is left of a directory when the explained bytes are subtracted.     *)
LEMMA RemainderIs ==
    ASSUME IInv, NEW u \in unknown, u.size = index.size[u.path]
    PROVE  LET bytes == SizeOfAll(Uncovered(u.path))
               links == SizeOfAll(LinkClaims \cap Below[u.path])
           IN  /\ Remainder(u) = IF links < bytes THEN bytes - links ELSE 0
               /\ Remainder(u) \in Nat /\ bytes \in Nat /\ Remainder(u) <= bytes
<1>1. u.path \in Dirs \cap index.rows
  BY RowKinds DEF IInv, UnknownShape, LargestDirs, RowsUnder
<1>2. \A p \in Explained : ~Under(u.path, p)
  BY UnknownOutside DEF Explained
<1> DEFINE claimed == SizeOfAll({p \in Explained \cap index.rows : Under(p, u.path)})
           bytes   == SizeOfAll(Uncovered(u.path))
           links   == SizeOfAll(LinkClaims \cap Below[u.path])
           size    == index.size[u.path]
<1>3. /\ claimed \in Nat /\ bytes \in Nat /\ links \in Nat /\ size \in Nat /\ bytes <= size
      /\ claimed = (size - bytes) + links
  BY <1>1, <1>2, ExplainedIn
<1>4. Remainder(u) = IF claimed < size THEN size - claimed ELSE 0
  BY DEF Remainder
<1> HIDE DEF claimed, bytes, links, size
<1>5. Remainder(u) = IF links < bytes THEN bytes - links ELSE 0
  BY <1>3, <1>4
<1> QED
  BY <1>3, <1>5 DEF bytes, links

(* The claims, and what they leave, depend on the index and the findings.   *)
LEMMA BytesStable ==
    ASSUME UNCHANGED <<index, found>>
    PROVE  /\ \A d : Uncovered(d)' = Uncovered(d)
           /\ LinkClaims' = LinkClaims
           /\ \A rows : SizeOfAll(rows)' = SizeOfAll(rows)
  BY DEF Uncovered, LinkClaims, SizeOfAll, RowsUnder, Under

(* A step adds only finitely many findings.                                 *)
LEMMA FiniteStep == IInv /\ FinInv /\ [Next]_vars => FinInv'
<1> SUFFICES ASSUME IInv, FinInv, [Next]_vars PROVE FinInv'
  OBVIOUS
<1>0. /\ index \in Indexes /\ IsFiniteSet(found) /\ IsFiniteSet(unknown)
      /\ IsFiniteSet(RowsUnder(request.path))
  <2>1. index \in Indexes /\ IsFiniteSet(index.rows)
    BY AttributionAssumption DEF IInv
  <2> QED
    BY <2>1, FS_Subset DEF RowsUnder, FinInv
<1>1. CASE KnownLocations
  <2> DEFINE T == Known \cap RowsUnder(request.path)
             h == [k \in T |-> Finding(k, {k}, index.size[k], KindOf[k], DefaultOf[k], 100)]
  <2>1. found' = {h[k] : k \in T} /\ unknown' = unknown
    BY <1>1 DEF KnownLocations
  <2>2. IsFiniteSet(T)
    BY <1>0, FS_Subset
  <2> HIDE DEF h, T
  <2>3. IsFiniteSet({h[k] : k \in T})
    BY <2>2, FiniteImage
  <2> QED
    BY <1>0, <2>1, <2>3 DEF FinInv
<1>2. ASSUME NEW r \in Paths, ManagedBundle(r) PROVE FinInv'
  BY <1>0, <1>2, FS_AddElement DEF ManagedBundle, FinInv
<1>3. ASSUME NEW a \in Paths, Installer(a) PROVE FinInv'
  <2>1. unknown' = unknown /\ (found' = found \/ \E f : found' = found \cup {f})
    BY <1>3 DEF Installer
  <2> QED
    BY <1>0, <2>1, FS_AddElement DEF FinInv
<1>4. ASSUME NEW r \in Paths, Unexplained(r) PROVE FinInv'
  BY <1>0, <1>4, FS_AddElement DEF Unexplained, FinInv
<1>5. CASE ArtifactFamilies
  <2> DEFINE T == {n \in Families : \A a \in n : ~Claimed(a)}
             h == [m \in T |-> FamilyFinding(m)]
  <2>1. found' = found \cup {h[m] : m \in T} /\ unknown' = unknown
    BY <1>5 DEF ArtifactFamilies
  <2>2. IsFiniteSet(T)
    <3>1. IsFiniteSet(ArchiveRows)
      BY <1>0, FS_Subset DEF ArchiveRows
    <3>2. IsFiniteSet(SUBSET ArchiveRows)
      BY <3>1, FS_SUBSET
    <3>3. T \subseteq SUBSET ArchiveRows
      BY <1>0, RowKinds
    <3> HIDE DEF T
    <3> QED
      BY <3>2, <3>3, FS_Subset
  <2> HIDE DEF h, T
  <2>3. IsFiniteSet({h[m] : m \in T})
    BY <2>2, FiniteImage
  <2> QED
    BY <1>0, <2>1, <2>3, FS_Union DEF FinInv
<1>6. CASE ExcludeExplained
  <2> DEFINE T == {h \in unknown : \A p \in Explained : ~Under(h.path, p)}
             h == [g \in T |-> [g EXCEPT !.size = Remainder(g)]]
  <2>1. unknown' \subseteq {h[g] : g \in T} /\ found' = found
    BY <1>6 DEF ExcludeExplained
  <2>2. IsFiniteSet(T)
    BY <1>0, FS_Subset
  <2> HIDE DEF h, T
  <2>3. IsFiniteSet({h[g] : g \in T})
    BY <2>2, FiniteImage
  <2> QED
    BY <1>0, <2>1, <2>3, FS_Subset DEF FinInv
<1>7. CASE UNCHANGED <<found, unknown>>
  BY <1>0, <1>7 DEF FinInv
<1> QED
  BY <1>1, <1>2, <1>3, <1>4, <1>5, <1>6, <1>7
     DEF Next, Returned, vars, NotIndexed, BundlesDone, Report, Fail

LEMMA NextBytes == IInv /\ BytesInv /\ [Next]_vars => BytesInv'
<1> SUFFICES ASSUME IInv, BytesInv, [Next]_vars PROVE BytesInv'
  OBVIOUS
<1>0. FinInv' /\ IInv' /\ index \in Indexes
  BY FiniteStep, NextIInv DEF BytesInv, IInv
<1>1. ASSUME UNCHANGED <<index, unknown>>,
             pc' \in {"known", "bundles", "archives", "unexplained"},
             pc \in {"known", "bundles", "archives", "unexplained"}
      PROVE  BytesInv'
  BY <1>0, <1>1 DEF BytesInv, SizeInv, ReportInv, RemainderExact
<1>2. CASE pc' = "failed"
  BY <1>0, <1>2 DEF BytesInv, SizeInv, ReportInv, RemainderExact
<1>3. ASSUME NEW r \in Paths, Unexplained(r) PROVE BytesInv'
  <2> DEFINE new == Finding(r, {r}, index.size[r], "unknown", "unknown", 0)
  <2>1. /\ pc = "unexplained" /\ pc' = "unexplained" /\ index' = index
        /\ unknown' \subseteq unknown \cup {new}
    BY <1>3 DEF Unexplained
  <2>2. new.size = index.size[new.path]
    BY Fields
  <2> HIDE DEF new
  <2>3. SizeInv'
    BY <2>1, <2>2 DEF BytesInv, SizeInv
  <2> QED
    BY <1>0, <2>1, <2>3 DEF BytesInv, ReportInv, RemainderExact
<1>4. CASE ExcludeExplained
  <2>1. /\ pc = "unexplained" /\ pc' = "report" /\ index' = index /\ found' = found
        /\ \A u \in unknown' : \E h \in unknown : u = [h EXCEPT !.size = Remainder(h)]
    BY <1>4 DEF ExcludeExplained
  <2>2. RemainderExact'
    <3> SUFFICES ASSUME NEW u \in unknown'
                 PROVE  LET bytes == SizeOfAll(Uncovered(u.path))
                            links == SizeOfAll(LinkClaims \cap Below[u.path])
                        IN  u.size = IF links < bytes THEN bytes - links ELSE 0
      BY <2>1, BytesStable DEF RemainderExact
    <3>1. PICK h \in unknown : u = [h EXCEPT !.size = Remainder(h)]
      BY <2>1
    <3>2. h.size = index.size[h.path]
      BY <2>1 DEF BytesInv, SizeInv
    <3>3. u.path = h.path /\ u.size = Remainder(h)
      <4>1. PICK q, s : h = Finding(q, {q}, s, "unknown", "unknown", 0)
        BY DEF IInv, UnknownShape
      <4> QED
        BY <3>1, <4>1 DEF Finding
    <3> QED
      BY <3>2, <3>3, RemainderIs
  <2> QED
    BY <1>0, <2>1, <2>2 DEF BytesInv, SizeInv, ReportInv
<1>5. ASSUME UNCHANGED <<index, found, unknown>>, RemainderExact, pc = "report" \/ pc = pc'
      PROVE  RemainderExact'
  BY <1>5, BytesStable DEF RemainderExact
<1>6. CASE Report
  <2>1. /\ pc = "report" /\ pc' = "done" /\ UNCHANGED <<index, request, found, unknown>>
        /\ report'.kept = {f \in Shown : f.size >= request.cut}
        /\ report'.omittedBytes = Sum(Shown \ {f \in Shown : f.size >= request.cut})
    BY <1>6 DEF Report
  <2>2. Shown' = Shown
    BY <2>1 DEF Shown, Passes
  <2>3. ReportInv'
    BY <2>1, <2>2 DEF ReportInv, Sum
  <2> QED
    BY <1>0, <1>5, <2>1, <2>3 DEF BytesInv, SizeInv
<1>7. CASE UNCHANGED vars
  <2>1. Shown' = Shown /\ ReportInv' /\ SizeInv'
    BY <1>7 DEF vars, Shown, Passes, ReportInv, Sum, SizeInv, BytesInv
  <2> QED
    BY <1>0, <1>5, <1>7, <2>1 DEF vars, BytesInv
<1>8. CASE NotIndexed \/ Fail
  BY <1>2, <1>8 DEF NotIndexed, Fail
<1>9. CASE KnownLocations \/ BundlesDone \/ ArtifactFamilies
            \/ \E r \in Paths : ManagedBundle(r) \/ Installer(r)
  BY <1>1, <1>9 DEF KnownLocations, BundlesDone, ArtifactFamilies, ManagedBundle, Installer
<1> QED
  BY <1>3, <1>4, <1>6, <1>7, <1>8, <1>9 DEF Next, Returned

LEMMA InitBytes == Init => BytesInv
  BY FS_EmptySet DEF Init, BytesInv, SizeInv, FinInv, ReportInv, RemainderExact

(* An unexplained directory is reported with the bytes below it that no     *)
(* finding claims, less the second links below it that are claimed: what    *)
(* the findings in it are subtracted with is exactly what they stand for.   *)
THEOREM RemaindersExact == Spec => []RemainderExact
<1>1. BytesInv => RemainderExact
  BY DEF BytesInv
<1> QED
  BY <1>1, InitIInv, NextIInv, InitBytes, NextBytes, PTL DEF Spec

-----------------------------------------------------------------------------
(* Totals                                                                   *)

(* The findings' sizes, as a function to sum.                               *)
SizeOf == [f \in found \cup unknown |-> f.size]

LEMMA SumOfSizes ==
    ASSUME NEW F, \A f \in F : f \in found \cup unknown, IsFiniteSet(F)
    PROVE  Sum(F) = SumFunctionOnSet(SizeOf, F)
<1> DEFINE sizes == [f \in F |-> f.size]
<1>1. Sum(F) = SumFunctionOnSet(sizes, F)
  BY DEF Sum, SumFunction
<1>2. \A f \in F : sizes[f] = SizeOf[f]
  BY DEF SizeOf
<1>3. IsFiniteSet(F)
  OBVIOUS
<1>4. SumFunctionOnSet(sizes, F) = SumFunctionOnSet(SizeOf, F)
  <2> HIDE DEF sizes
  <2> QED
    BY ONLY <1>2, <1>3, SumSame
<1> HIDE DEF sizes
<1> QED
  BY ONLY <1>1, <1>4

LEMMA FiniteClasses == IsFiniteSet(Classes)
<1>1. \A a, b, c : IsFiniteSet({a, b, c})
  <2> TAKE a, b, c
  <2>1. IsFiniteSet({a} \cup {b})
    BY FS_Singleton, FS_AddElement
  <2>2. IsFiniteSet(({a} \cup {b}) \cup {c})
    BY <2>1, FS_AddElement
  <2>3. ({a} \cup {b}) \cup {c} = {a, b, c}
    OBVIOUS
  <2> QED
    BY <2>2, <2>3
<1>2. Classes = {"safe_delete", "likely_safe", "backup_then_delete"}
                    \cup {"review", "keep", "unknown"}
  BY DEF Classes
<1> QED
  BY <1>1, <1>2, FS_Union

(* A finding of a detector has the bytes of the paths it claims.            *)
LEMMA FoundShape ==
    ASSUME IInv, NEW f \in found
    PROVE  /\ f.class \in Classes
           /\ f.paths \subseteq index.rows /\ IsFiniteSet(f.paths)
           /\ f.size = SizeOfAll(f.paths) /\ f.size \in Nat
<1>0. /\ index \in Indexes /\ Origin
      /\ index.size \in [Paths -> Nat] /\ index.rows \subseteq Paths /\ IsFiniteSet(index.rows)
  BY AttributionAssumption DEF IInv
<1>1. f.paths \subseteq index.rows
  BY <1>0, ClaimsAreRows
<1>2. IsFiniteSet(f.paths)
  BY <1>0, <1>1, FS_Subset
<1>3. SizeOfAll(f.paths) \in Nat
  <2>1. \A p \in f.paths : index.size[p] \in Nat
    BY <1>0, <1>1
  <2> QED
    BY <1>2, <2>1, SumNat DEF SizeOfAll, SumOver
<1>4. ASSUME NEW p \in Paths, f.paths = {p}, f.size = index.size[p]
      PROVE  f.size = SizeOfAll(f.paths)
  <2>1. index.size[p] \in Int
    BY <1>0
  <2>2. SumFunctionOnSet(index.size, {p}) = index.size[p]
    BY <2>1, SumOne
  <2> QED
    BY <1>4, <2>2 DEF SizeOfAll, SumOver
<1>5. CASE KnownOne(f)
  <2>1. PICK k \in Known : f = Finding(k, {k}, index.size[k], KindOf[k], DefaultOf[k], 100)
    BY <1>5 DEF KnownOne
  <2>2. k \in Paths /\ DefaultOf[k] \in Classes /\ 100 \in Nat
    BY AttributionAssumption
  <2>3. f.paths = {k} /\ f.size = index.size[k] /\ f.class = Evaluate(DefaultOf[k], KindOf[k], 100)
    BY <2>1, Fields
  <2>4. f.class \in Classes
    BY <2>2, <2>3, EvaluateBounds
  <2>5. f.size = SizeOfAll(f.paths)
    BY <1>4, <2>2, <2>3
  <2> QED
    BY <1>1, <1>2, <1>3, <2>4, <2>5
<1>6. CASE BundleOne(f)
  <2>1. PICK r \in BundleRows : f = Finding(r, {r}, index.size[r], "managed_bundle", "keep", 100)
    BY <1>6 DEF BundleOne
  <2>2. r \in Paths /\ "keep" \in Classes /\ 100 \in Nat
    BY <1>0, RowKinds DEF Classes, BundleRows
  <2>3. f.paths = {r} /\ f.size = index.size[r] /\ f.class = Evaluate("keep", "managed_bundle", 100)
    BY <2>1, Fields
  <2>4. f.class \in Classes
    BY <2>2, <2>3, EvaluateBounds
  <2>5. f.size = SizeOfAll(f.paths)
    BY <1>4, <2>2, <2>3
  <2> QED
    BY <1>1, <1>2, <1>3, <2>4, <2>5
<1>7. CASE ArchiveOne(f)
  <2>1. PICK a \in ArchiveRows : evidence[a] \in Evidence(a) /\ f = ArchiveFinding(a, evidence[a])
    BY <1>7 DEF ArchiveOne
  <2>2. a \in Paths /\ a \in Archives
    BY <1>0, RowKinds DEF ArchiveRows, Files
  <2>3. f.paths = {a} /\ f.size = index.size[a]
    BY <2>1, Fields DEF ArchiveFinding
  <2> QED
    BY <1>0, <1>1, <1>2, <1>3, <1>4, <2>1, <2>2, <2>3, ArchiveBounds
<1>8. CASE FamilyOne(f)
  <2>1. PICK m \in Families : f = FamilyFinding(m)
    BY <1>8 DEF FamilyOne
  <2>2. f.paths = m /\ f.size = SizeOfAll(m)
    BY <2>1, Fields DEF FamilyFinding
  <2> QED
    BY <1>1, <1>2, <1>3, <2>1, <2>2, FamilyBounds
<1> QED
  BY <1>0, <1>5, <1>6, <1>7, <1>8 DEF Origin

(* What no finding claims in a directory is finitely many files with sizes. *)
LEMMA UncoveredSize ==
    ASSUME index \in Indexes, NEW d
    PROVE  /\ Uncovered(d) \subseteq index.rows /\ IsFiniteSet(Uncovered(d))
           /\ \A p \in Uncovered(d) : index.size[p] \in Nat
           /\ SizeOfAll(Uncovered(d)) \in Nat
           /\ SizeOfAll(LinkClaims \cap Below[d]) \in Nat
<1>0. /\ index.size \in [Paths -> Nat] /\ index.rows \subseteq Paths /\ IsFiniteSet(index.rows)
      /\ index.duplicates \subseteq index.rows
  BY AttributionAssumption
<1> DEFINE N == Uncovered(d)
           L == LinkClaims \cap Below[d]
<1>1. N \subseteq index.rows /\ L \subseteq index.rows
  BY <1>0 DEF Uncovered, RowsUnder, LinkClaims
<1> HIDE DEF N, L
<1>2. IsFiniteSet(N) /\ IsFiniteSet(L)
  BY <1>0, <1>1, FS_Subset
<1>3. /\ \A p \in N : index.size[p] \in Nat
      /\ \A p \in L : index.size[p] \in Nat
  BY <1>0, <1>1
<1>4. SizeOfAll(N) \in Nat /\ SizeOfAll(L) \in Nat
  BY <1>2, <1>3, SumNat DEF SizeOfAll, SumOver
<1> QED
  BY <1>1, <1>2, <1>3, <1>4 DEF N, L

LEMMA UnknownPaths ==
    ASSUME IInv, NEW u \in unknown
    PROVE  /\ u.path \in Paths /\ u.path \in index.rows /\ u.path \in Dirs
           /\ u.path \in Below[request.path] /\ u.paths = {u.path} /\ u.class \in Classes
<1>1. u.path \in LargestDirs /\ u = Finding(u.path, {u.path}, u.size, "unknown", "unknown", 0)
  BY DEF IInv, UnknownShape
<1>2. u.paths = {u.path} /\ u.class = Evaluate("unknown", "unknown", 0)
  BY <1>1, Fields
<1>3. u.class \in Classes
  <2>1. "unknown" \in Classes /\ 0 \in Nat
    BY DEF Classes
  <2> QED
    BY <1>2, <2>1, EvaluateBounds
<1> QED
  BY <1>1, <1>2, <1>3, RowKinds, AttributionAssumption DEF IInv, LargestDirs, RowsUnder, Under

(* Every finding of the report has a tier and a size.                       *)
LEMMA Sized ==
    ASSUME IInv, BytesInv, pc = "done"
    PROVE  /\ \A f \in found \cup unknown : f.class \in Classes /\ f.size \in Nat
           /\ \A F \in SUBSET (found \cup unknown) :
                /\ IsFiniteSet(F) /\ Sum(F) = SumFunctionOnSet(SizeOf, F) /\ Sum(F) \in Nat
                /\ \A f \in F : SizeOf[f] \in Nat
           /\ found \cap unknown = {}
<1>0. index \in Indexes /\ IsFiniteSet(found) /\ IsFiniteSet(unknown) /\ RemainderExact
  BY DEF IInv, BytesInv, FinInv
<1>1. \A f \in found : f.class \in Classes /\ f.size \in Nat
  BY FoundShape
<1>2. ASSUME NEW u \in unknown PROVE u.class \in Classes /\ u.size \in Nat
  <2>1. u.class \in Classes
    BY UnknownPaths
  <2> DEFINE bytes == SizeOfAll(Uncovered(u.path))
             links == SizeOfAll(LinkClaims \cap Below[u.path])
  <2>2. bytes \in Nat /\ links \in Nat
    BY <1>0, UncoveredSize
  <2>3. u.size = IF links < bytes THEN bytes - links ELSE 0
    BY <1>0 DEF RemainderExact
  <2> HIDE DEF bytes, links
  <2> QED
    BY <2>1, <2>2, <2>3
<1>3. ASSUME NEW F \in SUBSET (found \cup unknown)
      PROVE  /\ IsFiniteSet(F) /\ Sum(F) = SumFunctionOnSet(SizeOf, F) /\ Sum(F) \in Nat
             /\ \A f \in F : SizeOf[f] \in Nat
  <2>0. IsFiniteSet(found \cup unknown)
    BY <1>0, FS_Union
  <2>1. IsFiniteSet(F)
    BY <2>0, FS_Subset
  <2>2. Sum(F) = SumFunctionOnSet(SizeOf, F)
    <3>1. \A f \in F : f \in found \cup unknown
      OBVIOUS
    <3> QED
      BY ONLY <2>1, <3>1, SumOfSizes
  <2>3. \A f \in F : SizeOf[f] \in Nat
    BY <1>1, <1>2 DEF SizeOf
  <2> QED
    BY <2>1, <2>2, <2>3, SumNat
<1>4. found \cap unknown = {}
  <2> SUFFICES ASSUME NEW u \in unknown, u \in found PROVE FALSE
    OBVIOUS
  <2>1. u.path \in u.paths
    BY UnknownPaths
  <2> QED
    BY <2>1, UnknownOutside DEF Under
<1> QED
  BY <1>1, <1>2, <1>3, <1>4

(* The tiers are what is listed and what was cut off.                       *)
LEMMA TiersAdd ==
    ASSUME IInv, BytesInv, pc = "done"
    PROVE  LET tiers == SumFunctionOnSet(Tiers, Classes)
           IN  tiers = Sum(report.kept) + report.omittedBytes /\ Reclaimable <= tiers
<1>1. PICK kept \in SUBSET Shown : report.kept = kept /\ report.omittedBytes = Sum(Shown \ kept)
  BY DEF BytesInv, ReportInv
<1>2. Shown \subseteq found \cup unknown
  BY DEF Shown
<1> DEFINE S == [c \in Classes |-> {f \in Shown : f.class = c}]
           cut == Shown \ kept
<1>3. \A F \in SUBSET Shown : /\ IsFiniteSet(F) /\ \A f \in F : SizeOf[f] \in Int
                              /\ Sum(F) = SumFunctionOnSet(SizeOf, F)
  <2>1. \A f \in Shown : SizeOf[f] \in Int
    BY <1>2, Sized
  <2> QED
    BY <1>2, <2>1, Sized
<1>4. SumFunctionOnSet(Tiers, Classes) = SumFunctionOnSet(SizeOf, Shown)
  <2>1. DOMAIN S = Classes
    OBVIOUS
  <2>2. \A c \in Classes : S[c] \in SUBSET Shown
    OBVIOUS
  <2>3. \A c \in Classes, d \in Classes : c # d => S[c] \cap S[d] = {}
    OBVIOUS
  <2>4. \A c \in Classes : Tiers[c] = Sum(S[c])
    BY DEF Tiers
  <2>5. \A f : f \in Shown <=> \E c \in Classes : f \in S[c]
    BY <1>2, Sized
  <2> HIDE DEF S
  <2>6. \A c \in Classes : IsFiniteSet(S[c]) /\ \A f \in S[c] : SizeOf[f] \in Int
    BY <1>3, <2>2
  <2>7. \A c \in Classes : Tiers[c] = SumFunctionOnSet(SizeOf, S[c])
    BY <1>3, <2>2, <2>4
  <2> QED
    BY ONLY <2>1, <2>3, <2>5, <2>6, <2>7, FiniteClasses, SumOfSums
<1>5. SumFunctionOnSet(SizeOf, Shown) = Sum(kept) + Sum(cut)
  <2>1. /\ IsFiniteSet(kept) /\ IsFiniteSet(cut)
        /\ Sum(cut) = SumFunctionOnSet(SizeOf, cut)
        /\ Sum(kept) = SumFunctionOnSet(SizeOf, kept)
    BY <1>2, Sized
  <2>2. kept \cup cut = Shown /\ kept \cap cut = {}
    OBVIOUS
  <2>3. \A f \in kept \cup cut : SizeOf[f] \in Int
    <3>1. \A f \in Shown : SizeOf[f] \in Nat
      BY <1>2, Sized
    <3> QED
      BY <2>2, <3>1
  <2> HIDE DEF cut
  <2>4. SumFunctionOnSet(SizeOf, kept \cup cut)
            = SumFunctionOnSet(SizeOf, kept) + SumFunctionOnSet(SizeOf, cut)
    BY <2>1, <2>2, <2>3, SumUnion
  <2> QED
    BY <2>1, <2>2, <2>4
<1>6. Reclaimable <= SumFunctionOnSet(Tiers, Classes)
  <2>1. \A c \in Classes : Tiers[c] \in Nat
    BY <1>2, Sized DEF Tiers
  <2>2. Classes \ {"keep", "unknown"} \in SUBSET Classes
    OBVIOUS
  <2>3. SumFunctionOnSet(Tiers, Classes \ {"keep", "unknown"}) <= SumFunctionOnSet(Tiers, Classes)
    BY <2>1, <2>2, FiniteClasses, SumPart
  <2> QED
    BY <2>3 DEF Reclaimable
<1> QED
  BY <1>1, <1>4, <1>5, <1>6

(* The detectors' findings have the bytes of the paths they claim, each     *)
(* once.                                                                    *)
LEMMA FoundSum ==
    ASSUME IInv, BytesInv, pc = "done"
    PROVE  IsFiniteSet(Explained) /\ Sum(found) = SizeOfAll(Explained)
<1> DEFINE S == [f \in found |-> f.paths]
           size == index.size
<1>1. IsFiniteSet(found) /\ Sum(found) = SumFunctionOnSet(SizeOf, found)
  BY Sized
<1>2. DOMAIN S = found
  OBVIOUS
<1>3. \A f \in found : IsFiniteSet(S[f]) /\ \A x \in S[f] : size[x] \in Int
  <2>1. index.size \in [Paths -> Nat] /\ index.rows \subseteq Paths
    BY AttributionAssumption DEF IInv
  <2> QED
    BY <2>1, FoundShape
<1>4. \A f \in found, g \in found : f # g => S[f] \cap S[g] = {}
  BY FoundApart DEF Under
<1>5. \A f \in found : SizeOf[f] = SumFunctionOnSet(size, S[f])
  BY FoundShape DEF SizeOf, SizeOfAll, SumOver
<1>6. \A x : x \in Explained <=> \E f \in found : x \in S[f]
  BY DEF Explained
<1> HIDE DEF S, size
<1>7. IsFiniteSet(Explained) /\ SumFunctionOnSet(size, Explained) = SumFunctionOnSet(SizeOf, found)
  BY ONLY <1>1, <1>2, <1>3, <1>4, <1>5, <1>6, SumOfSums
<1> QED
  BY <1>1, <1>7 DEF SizeOfAll, SumOver, size

(* The unexplained directories have no more bytes than no finding claims.   *)
LEMMA UnknownSum ==
    ASSUME IInv, CoverInv, BytesInv, pc = "done"
    PROVE  Sum(unknown) <= SizeOfAll(Uncovered(request.path))
<1> DEFINE S == [u \in unknown |-> Uncovered(u.path)]
           g == [u \in unknown |-> SizeOfAll(Uncovered(u.path))]
           size == index.size
           U == {x \in Uncovered(request.path) : \E u \in unknown : x \in S[u]}
           N == Uncovered(request.path)
<1>0. index \in Indexes /\ index.rows \subseteq Paths
  BY AttributionAssumption DEF IInv
<1>1. IsFiniteSet(unknown) /\ Sum(unknown) = SumFunctionOnSet(SizeOf, unknown)
  BY Sized
<1>2. DOMAIN S = unknown
  OBVIOUS
<1>3. \A u \in unknown : IsFiniteSet(S[u]) /\ \A x \in S[u] : size[x] \in Int
  <2> SUFFICES ASSUME NEW u \in unknown
               PROVE  /\ IsFiniteSet(Uncovered(u.path))
                      /\ \A x \in Uncovered(u.path) : index.size[x] \in Int
    OBVIOUS
  <2>1. \A x \in Uncovered(u.path) : index.size[x] \in Nat
    BY <1>0, UncoveredSize
  <2>2. IsFiniteSet(Uncovered(u.path))
    BY <1>0, UncoveredSize
  <2>3. \A x \in Uncovered(u.path) : index.size[x] \in Int
    BY <2>1
  <2> QED
    BY <2>2, <2>3
<1>4. \A u \in unknown, v \in unknown : u # v => S[u] \cap S[v] = {}
  <2> SUFFICES ASSUME NEW u \in unknown, NEW v \in unknown,
                      NEW x, x \in Uncovered(u.path), x \in Uncovered(v.path)
               PROVE  u = v
    OBVIOUS
  <2>1. x \in Paths /\ Under(x, u.path) /\ Under(x, v.path)
    BY <1>0 DEF Uncovered, RowsUnder
  <2>2. Under(u.path, v.path) \/ Under(v.path, u.path)
    BY <2>1, UnknownPaths, UnderIsOrder
  <2> QED
    BY <2>2 DEF IInv, UnknownApart
<1>5. \A u \in unknown : g[u] = SumFunctionOnSet(size, S[u])
  BY DEF SizeOfAll, SumOver
<1>6. \A x : x \in U <=> \E u \in unknown : x \in S[u]
  <2> SUFFICES ASSUME NEW u \in unknown, NEW x \in Uncovered(u.path)
               PROVE  x \in Uncovered(request.path)
    OBVIOUS
  <2>1. Under(x, u.path) /\ x \in index.rows /\ u.path \in Below[request.path]
    BY UnknownPaths DEF Uncovered, RowsUnder
  <2>2. request.path \in Paths
    BY <1>0 DEF CoverInv, Rooted
  <2>3. Under(x, request.path)
    BY <1>0, <2>1, <2>2, UnknownPaths, UnderIsOrder DEF Under
  <2> QED
    BY <2>1, <2>3 DEF Uncovered, RowsUnder
<1>7. SumFunctionOnSet(SizeOf, unknown) <= SumFunctionOnSet(g, unknown)
  <2>1. \A u \in unknown : SizeOf[u] \in Int /\ g[u] \in Int /\ SizeOf[u] <= g[u]
    <3> SUFFICES ASSUME NEW u \in unknown
                 PROVE  SizeOf[u] \in Int /\ g[u] \in Int /\ SizeOf[u] <= g[u]
      OBVIOUS
    <3> DEFINE bytes == SizeOfAll(Uncovered(u.path))
               links == SizeOfAll(LinkClaims \cap Below[u.path])
    <3>1. bytes \in Nat /\ links \in Nat
      BY <1>0, UncoveredSize
    <3>2. u.size = IF links < bytes THEN bytes - links ELSE 0
      BY DEF BytesInv, RemainderExact
    <3>3. SizeOf[u] = u.size /\ g[u] = bytes
      BY DEF SizeOf
    <3> HIDE DEF bytes, links, g
    <3> QED
      BY <3>1, <3>2, <3>3
  <2> HIDE DEF g
  <2> QED
    BY <1>1, <2>1, SumNotMore
<1>8. SumFunctionOnSet(size, U) = SumFunctionOnSet(g, unknown)
  <2>1. IsFiniteSet(unknown)
    BY <1>1
  <2> HIDE DEF S, g, size, U
  <2> QED
    BY ONLY <2>1, <1>2, <1>3, <1>4, <1>5, <1>6, SumOfSums
<1>9. /\ SumFunctionOnSet(size, U) <= SumFunctionOnSet(size, N)
      /\ SumFunctionOnSet(size, U) \in Nat /\ SumFunctionOnSet(size, N) \in Nat
  <2>1. U \in SUBSET N /\ IsFiniteSet(N) /\ \A x \in N : size[x] \in Nat
    BY <1>0, UncoveredSize
  <2> HIDE DEF U, N, size
  <2> QED
    BY <2>1, SumPart
<1>10. Sum(unknown) \in Nat /\ SizeOfAll(Uncovered(request.path)) = SumFunctionOnSet(size, N)
  BY Sized DEF SizeOfAll, SumOver
<1> HIDE DEF U, N, size, g
<1> QED
  BY <1>1, <1>7, <1>8, <1>9, <1>10

(* All findings together have no more bytes than the query holds, but for   *)
(* second links that are claimed.                                           *)
LEMMA SumBounded ==
    ASSUME IInv, CoverInv, BytesInv, pc = "done"
    PROVE  Sum(found \cup unknown) <= index.size[request.path]
                + SizeOfAll(LinkClaims \cap Below[request.path])
<1> DEFINE R == request.path
           links == SizeOfAll(LinkClaims \cap Below[R])
           bytes == SizeOfAll(Uncovered(R))
           size == index.size[R]
<1>0. /\ index \in Indexes /\ R \in index.rows /\ R \in Paths /\ size \in Nat
      /\ links \in Nat /\ bytes \in Nat
  <2>1. index \in Indexes /\ R \in index.rows
    BY DEF IInv, CoverInv, Rooted
  <2>2. R \in Paths /\ size \in Nat
    BY <2>1, AttributionAssumption
  <2>3. links \in Nat /\ bytes \in Nat
    BY <2>1, UncoveredSize
  <2> QED
    BY <2>1, <2>2, <2>3
<1>1. Sum(found \cup unknown) = Sum(found) + Sum(unknown)
  <2>1. \A f \in found \cup unknown : SizeOf[f] \in Int
    BY Sized
  <2>2. SumFunctionOnSet(SizeOf, found \cup unknown)
            = SumFunctionOnSet(SizeOf, found) + SumFunctionOnSet(SizeOf, unknown)
    BY <2>1, Sized, SumUnion
  <2> QED
    BY <2>2, Sized
<1>2. Sum(unknown) \in Nat /\ Sum(found) = SizeOfAll(Explained) /\ Sum(found) \in Nat
  BY Sized, FoundSum
<1>3. \A p \in Explained : p \in Paths /\ p \in index.rows /\ Under(p, R)
  BY ExplainedApart DEF RowsUnder
<1>4. ASSUME unknown = {} PROVE Sum(unknown) = 0
  <2>1. Sum({}) = SumFunctionOnSet(SizeOf, {})
    BY Sized
  <2>2. SumFunctionOnSet(SizeOf, {}) = 0
    BY SumEmpty
  <2> QED
    BY <1>4, <2>1, <2>2
<1>5. ASSUME R \in Explained PROVE Sum(found \cup unknown) <= size + links
  <2>1. Explained = {R}
    BY <1>3, <1>5, ExplainedApart
  <2>2. unknown = {}
    BY <1>5, UnknownPaths, UnknownOutside DEF Explained, Under
  <2>3. SizeOfAll({R}) = size
    <3>1. size \in Int
      BY <1>0
    <3> QED
      BY <3>1, SumOne DEF SizeOfAll, SumOver
  <2> HIDE DEF links, size
  <2> QED
    BY <1>0, <1>1, <1>2, <1>4, <2>1, <2>2, <2>3
<1>6. ASSUME R \notin Explained, R \in Files
      PROVE  Sum(found \cup unknown) <= size + links
  <2>1. Below[R] = {}
    BY <1>6, AttributionAssumption DEF Files
  <2>2. unknown = {} /\ Explained = {}
    BY <1>3, <1>6, <2>1, UnknownPaths DEF Under
  <2>3. SizeOfAll({}) = 0
    BY SumEmpty DEF SizeOfAll, SumOver
  <2> HIDE DEF links, size
  <2> QED
    BY <1>0, <1>1, <1>2, <1>4, <2>2, <2>3
<1>7. ASSUME R \notin Explained, R \in Dirs
      PROVE  Sum(found \cup unknown) <= size + links
  <2>1. \A p \in Explained : ~Under(R, p)
    <3> SUFFICES ASSUME NEW p \in Explained, R \in Below[p] PROVE FALSE
      BY <1>7 DEF Under
    <3> QED
      BY <1>0, <1>3, <1>7, AttributionAssumption DEF Under
  <2>2. {p \in Explained \cap index.rows : Under(p, R)} = Explained
    BY <1>3
  <2>3. SizeOfAll(Explained) = (size - bytes) + links
    BY <1>0, <1>7, <2>1, <2>2, ExplainedIn
  <2>4. Sum(unknown) <= bytes
    BY UnknownSum
  <2> HIDE DEF links, size, bytes
  <2> QED
    BY <1>0, <1>1, <1>2, <2>3, <2>4
<1>8. Sum(found \cup unknown) <= size + links
  BY <1>0, <1>5, <1>6, <1>7 DEF Files
<1> QED
  BY <1>8

(* The report accounts for every byte it shows: the tiers are what it lists *)
(* and what it says the cut omits, what can be reclaimed is part of them,   *)
(* and all findings together have no more than the query holds, but for the *)
(* second links that are claimed by themselves.                             *)
THEOREM TotalsBounded == Spec => []TiersBounded
<1>1. IInv /\ CoverInv /\ BytesInv => TiersBounded
  BY TiersAdd, SumBounded DEF TiersBounded
<1>2. Init => CoverInv
  BY DEF Init, CoverInv, Rooted, KnownCovered, BundlesCovered, ArchivesCovered
<1> QED
  BY <1>1, <1>2, InitIInv, NextIInv, NextCover, InitBytes, NextBytes, PTL DEF Spec
=============================================================================
