--------------------------- MODULE DocumentsProofs ---------------------------
(***************************************************************************)
(* What the commands write, for any findings, requests and number of       *)
(* commands: what the files are, what redaction makes of any document,     *)
(* that a document accounts for all that was found, and that its           *)
(* renderings list all that it does. A list is followed through filters    *)
(* and sorts as a choice of indices, each once (Lists): the lemmas of the  *)
(* first section are about what such a list sums to and how often it has   *)
(* an element. DInv holds on to the findings a document stands for, which  *)
(* no later command, redaction or cut may lose.                            *)
(***************************************************************************)
EXTENDS Documents, FiniteSums, FunctionTheorems, TLAPS

-----------------------------------------------------------------------------
(* Arranging, filtering and sorting                                         *)

(* r lists s at the indices I, each once: its k-th element from h[k].       *)
Lists(r, s, I, h) ==
    /\ IsFiniteSet(I) /\ Cardinality(I) \in Nat
    /\ h \in [1..Cardinality(I) -> I]
    /\ \A i \in I : \E k \in 1..Cardinality(I) : h[k] = i
    /\ \A j \in 1..Cardinality(I), k \in 1..Cardinality(I) : h[j] = h[k] => j = k
    /\ r = [k \in 1..Cardinality(I) |-> s[h[k]]]

LEMMA ArrangedLists ==
    ASSUME NEW s, NEW I, IsFiniteSet(I), NEW order, IsOrder(order, I)
    PROVE  \E h : /\ Lists(Arranged(s, I, order), s, I, h)
                  /\ \A j \in 1..Cardinality(I), k \in 1..Cardinality(I) :
                        j < k <=> <<h[j], h[k]>> \in order
<1> DEFINE n      == Cardinality(I)
           rank   == [i \in I |-> Cardinality({j \in I : <<j, i>> \in order})]
           places == {<<rank[i], i>> : i \in I}
           h      == [k \in 1..n |-> (CHOOSE p \in places : p[1] = k - 1)[2]]
<1>1. n \in Nat
  BY FS_CardinalityType
<1>2. /\ \A i \in I : rank[i] \in 0..(n - 1)
      /\ \A i \in I, j \in I : <<i, j>> \in order <=> rank[i] < rank[j]
      /\ \A i \in I, j \in I : rank[i] = rank[j] => i = j
      /\ \A m \in 0..(n - 1) : \E i \in I : rank[i] = m
  <2>1. rank = [i \in I |-> Cardinality({j \in I : <<j, i>> \in order})]
    OBVIOUS
  <2> HIDE DEF rank
  <2> QED
    BY <2>1, Ranked
<1>3. {<<Cardinality({j \in I : <<j, i>> \in order}), i>> : i \in I} = places
  OBVIOUS
<1>4. Arranged(s, I, order) = [k \in 1..n |-> s[h[k]]]
  <2>1. Arranged(s, I, order) = [k \in 1..n |-> s[(CHOOSE p \in places : p[1] = k - 1)[2]]]
    BY <1>3 DEF Arranged
  <2> HIDE DEF places
  <2> QED
    BY <2>1
<1>5. ASSUME NEW k \in 1..n PROVE h[k] \in I /\ rank[h[k]] = k - 1
  <2> HIDE DEF rank, n
  <2>1. k - 1 \in 0..(n - 1)
    BY <1>1
  <2>2. PICK i \in I : rank[i] = k - 1
    BY <1>2, <2>1
  <2>3. <<rank[i], i>> \in places /\ <<rank[i], i>>[1] = k - 1
    BY <2>2
  <2> DEFINE p == CHOOSE p \in places : p[1] = k - 1
  <2>4. p \in places /\ p[1] = k - 1
    BY <2>3
  <2>5. h[k] = p[2]
    OBVIOUS
  <2> HIDE DEF p, h
  <2> QED
    BY <2>4, <2>5
<1> HIDE DEF rank, places, h, n
<1>6. /\ h \in [1..n -> I]
      /\ \A i \in I : \E k \in 1..n : h[k] = i
      /\ \A j \in 1..n, k \in 1..n : h[j] = h[k] => j = k
  <2>1. h \in [1..n -> I]
    <3>1. h = [k \in 1..n |-> h[k]]
      BY DEF h
    <3> QED
      BY <1>5, <3>1
  <2>2. ASSUME NEW i \in I PROVE \E k \in 1..n : h[k] = i
    <3>1. rank[i] + 1 \in 1..n /\ (rank[i] + 1) - 1 = rank[i]
      BY <1>1, <1>2
    <3>2. h[rank[i] + 1] \in I /\ rank[h[rank[i] + 1]] = rank[i]
      BY <1>5, <3>1
    <3> QED
      BY <1>2, <3>1, <3>2
  <2>3. \A j \in 1..n, k \in 1..n : h[j] = h[k] => j = k
    BY <1>1, <1>5
  <2> QED
    BY <2>1, <2>2, <2>3
<1>7. \A j \in 1..n, k \in 1..n : j < k <=> <<h[j], h[k]>> \in order
  <2> SUFFICES ASSUME NEW j \in 1..n, NEW k \in 1..n PROVE j < k <=> <<h[j], h[k]>> \in order
    OBVIOUS
  <2>1. h[j] \in I /\ rank[h[j]] = j - 1 /\ h[k] \in I /\ rank[h[k]] = k - 1
    BY <1>5
  <2>2. <<h[j], h[k]>> \in order <=> rank[h[j]] < rank[h[k]]
    BY <1>2, <2>1
  <2> QED
    BY <1>1, <2>1, <2>2
<1>8. Lists(Arranged(s, I, order), s, I, h)
  BY <1>1, <1>4, <1>6 DEF Lists, n
<1> QED
  BY <1>7, <1>8 DEF n

(* By index.                                                                *)
LEMMA WhereLists ==
    ASSUME NEW s, NEW I, IsFiniteSet(I), I \subseteq Int
    PROVE  \E h : /\ Lists(Arranged(s, I, {e \in I \X I : e[1] < e[2]}), s, I, h)
                  /\ \A j \in 1..Cardinality(I), k \in 1..Cardinality(I) :
                        j < k <=> h[j] < h[k]
<1> DEFINE order == {e \in I \X I : e[1] < e[2]}
<1>1. \A i \in I, j \in I : <<i, j>> \in order <=> i < j
  OBVIOUS
<1> HIDE DEF order
<1>2. IsOrder(order, I)
  BY <1>1 DEF IsOrder
<1>3. PICK h : /\ Lists(Arranged(s, I, order), s, I, h)
               /\ \A j \in 1..Cardinality(I), k \in 1..Cardinality(I) :
                     j < k <=> <<h[j], h[k]>> \in order
  BY <1>2, ArrangedLists
<1>4. \A j \in 1..Cardinality(I), k \in 1..Cardinality(I) : j < k <=> h[j] < h[k]
  BY <1>1, <1>3 DEF Lists
<1> QED
  BY <1>3, <1>4 DEF order

(* By a relation that ranks the indices, ties and all.                      *)
IsRanking(less, I) ==
    /\ \A i \in I : <<i, i>> \notin less
    /\ \A i \in I, j \in I, k \in I :
        /\ <<i, j>> \in less /\ <<j, k>> \in less => <<i, k>> \in less
        /\ <<i, k>> \in less => <<i, j>> \in less \/ <<j, k>> \in less

LEMMA StableSortLists ==
    ASSUME NEW s, IsFiniteSet(DOMAIN s), DOMAIN s \subseteq Int,
           NEW less, IsRanking(less, DOMAIN s)
    PROVE  \E h : /\ Lists(StableSort(s, less), s, DOMAIN s, h)
                  /\ \A j \in 1..Cardinality(DOMAIN s), k \in 1..Cardinality(DOMAIN s) :
                        j < k => <<h[k], h[j]>> \notin less
<1> DEFINE I     == DOMAIN s
           order == {e \in I \X I : e \in less \/ (<<e[2], e[1]>> \notin less /\ e[1] < e[2])}
<1>1. /\ \A i \in I : <<i, i>> \notin less
      /\ \A i \in I, j \in I, k \in I :
          /\ <<i, j>> \in less /\ <<j, k>> \in less => <<i, k>> \in less
          /\ <<i, k>> \in less => <<i, j>> \in less \/ <<j, k>> \in less
  BY DEF IsRanking
<1>2. \A i \in I, j \in I :
        <<i, j>> \in order <=> <<i, j>> \in less \/ (<<j, i>> \notin less /\ i < j)
  OBVIOUS
<1>3. StableSort(s, less) = Arranged(s, I, order)
  BY DEF StableSort
<1>4. I \subseteq Int /\ IsFiniteSet(I) /\ \A i \in I : i \in Int
  OBVIOUS
<1> HIDE DEF order, I
<1>5. IsOrder(order, I)
  <2>1. \A i \in I : <<i, i>> \notin order
    <3>1. \A i \in I : ~(i < i)
      BY <1>4
    <3> QED
      BY ONLY <1>1, <1>2, <3>1
  <2>2. \A i \in I, j \in I : i # j => <<i, j>> \in order \/ <<j, i>> \in order
    <3>1. \A i \in I, j \in I : i # j => i < j \/ j < i
      BY <1>4
    <3> QED
      BY ONLY <1>1, <1>2, <3>1
  <2>3. ASSUME NEW i \in I, NEW j \in I, NEW k \in I, <<i, j>> \in order, <<j, k>> \in order
        PROVE  <<i, k>> \in order
    <3>1. CASE <<i, j>> \in less
      BY <1>1, <1>2, <2>3, <3>1
    <3>2. CASE <<j, k>> \in less
      BY <1>1, <1>2, <2>3, <3>2
    <3>3. CASE <<i, j>> \notin less /\ <<j, k>> \notin less
      <4>1. <<j, i>> \notin less /\ i < j /\ <<k, j>> \notin less /\ j < k
        BY <1>2, <2>3, <3>3
      <4>2. <<k, i>> \notin less /\ i < k
        BY <1>1, <1>4, <4>1
      <4> QED
        BY <1>2, <4>2
    <3> QED
      BY <3>1, <3>2, <3>3
  <2> QED
    BY <2>1, <2>2, <2>3 DEF IsOrder
<1>6. PICK h : /\ Lists(Arranged(s, I, order), s, I, h)
               /\ \A j \in 1..Cardinality(I), k \in 1..Cardinality(I) :
                     j < k <=> <<h[j], h[k]>> \in order
  BY <1>4, <1>5, ArrangedLists
<1>7. ASSUME NEW j \in 1..Cardinality(I), NEW k \in 1..Cardinality(I), j < k
      PROVE  <<h[k], h[j]>> \notin less
  <2>1. h[j] \in I /\ h[k] \in I /\ <<h[j], h[k]>> \in order
    BY <1>6, <1>7 DEF Lists
  <2> QED
    BY <1>1, <1>2, <2>1
<1>8. \A j \in 1..Cardinality(I), k \in 1..Cardinality(I) : j < k => <<h[k], h[j]>> \notin less
  BY <1>7
<1> QED
  BY <1>3, <1>6, <1>8 DEF I

LEMMA ListedElements ==
    ASSUME NEW r, NEW s, NEW I, NEW h, Lists(r, s, I, h)
    PROVE  /\ DOMAIN r = 1..Cardinality(I) /\ Len(r) = Cardinality(I) /\ r \in Seq(Range(r))
           /\ Range(r) = {s[i] : i \in I}
           /\ \A k \in DOMAIN r : h[k] \in I /\ r[k] = s[h[k]]
<1>1. /\ Cardinality(I) \in Nat /\ h \in [1..Cardinality(I) -> I]
      /\ \A i \in I : \E k \in 1..Cardinality(I) : h[k] = i
      /\ r = [k \in 1..Cardinality(I) |-> s[h[k]]]
  BY DEF Lists
<1>2. DOMAIN r = 1..Cardinality(I) /\ \A k \in DOMAIN r : h[k] \in I /\ r[k] = s[h[k]]
  BY <1>1
<1>3. Range(r) = {s[i] : i \in I}
  BY <1>1, <1>2 DEF Range
<1>4. r \in [1..Cardinality(I) -> Range(r)]
  BY <1>1, <1>2 DEF Range
<1>5. r \in Seq(Range(r)) /\ Len(r) = Cardinality(I)
  <2> DEFINE n == Cardinality(I)
             R == Range(r)
  <2>1. n \in Nat /\ r \in [1..n -> R]
    BY <1>1, <1>4
  <2> HIDE DEF n, R
  <2>2. r \in Seq(R) /\ Len(r) = n
    BY ONLY <2>1
  <2> QED
    BY <2>2 DEF n, R
<1> QED
  BY <1>2, <1>3, <1>5

(* A finite set is listed, each element once.                               *)
LEMMA SetListed ==
    ASSUME NEW S, IsFiniteSet(S)
    PROVE  LET s == SetToSeq(S)
           IN  /\ Cardinality(S) \in Nat /\ s \in [1..Cardinality(S) -> S]
               /\ DOMAIN s = 1..Cardinality(S) /\ Range(s) = S
<1> DEFINE s == SetToSeq(S)
           T == 1..Cardinality(S)
<1>1. Cardinality(S) \in Nat /\ ExistsBijection(T, S)
  BY FS_CardinalityType
<1>2. IsFiniteSet(T) /\ Cardinality(T) = Cardinality(S)
  BY <1>1, FS_Interval
<1> HIDE DEF T
<1>3. \E f \in [T -> S] : IsInjective(f)
  BY <1>1 DEF ExistsBijection, Bijection, Injection
<1>4. s \in [T -> S] /\ IsInjective(s)
  BY <1>3 DEF SetToSeq, T
<1>5. s \in Injection(T, S)
  BY <1>4 DEF Injection
<1> HIDE DEF s
<1>6. s \in Surjection(T, S)
  BY <1>2, <1>5, FS_Injection
<1>7. Range(s) = S
  BY <1>4, <1>6 DEF Surjection, Range
<1> QED
  BY <1>1, <1>4, <1>7 DEF T, s

(* What a list sums to, and how often it has an element.                    *)
LEMMA ListedSum ==
    ASSUME NEW r, NEW s, NEW I, NEW h, Lists(r, s, I, h), NEW g,
           \A i \in I : g[i] = s[i].size /\ g[i] \in Int
    PROVE  SizesOf(r) = SumFunctionOnSet(g, I)
<1> DEFINE T == 1..Cardinality(I)
           f == [k \in T |-> r[k].size]
<1>1. /\ Cardinality(I) \in Nat
      /\ \A k \in T : h[k] \in I /\ r[k] = s[h[k]]
      /\ \A i \in I : \E k \in T : h[k] = i
      /\ \A j \in T, k \in T : h[j] = h[k] => j = k
      /\ DOMAIN r = T
  BY ListedElements DEF Lists
<1>2. SizesOf(r) = SumFunctionOnSet(f, T)
  BY <1>1 DEF SizesOf, SumFunction
<1>3. \A k \in T : f[k] \in Int /\ g[h[k]] = f[k]
  BY <1>1
<1>4. IsFiniteSet(T)
  BY <1>1, FS_Interval
<1>5. {h[k] : k \in T} = I
  BY <1>1
<1> HIDE DEF f, T
<1>6. SumFunctionOnSet(f, T) = SumFunctionOnSet(g, {h[k] : k \in T})
  BY ONLY <1>1, <1>3, <1>4, SumImage
<1> QED
  BY <1>2, <1>5, <1>6

LEMMA ListedOccurrences ==
    ASSUME NEW r, NEW s, NEW I, NEW h, Lists(r, s, I, h), NEW e
    PROVE  /\ IsFiniteSet({i \in I : s[i] = e})
           /\ Occurrences(r, e) = Cardinality({i \in I : s[i] = e})
<1> DEFINE T == {k \in DOMAIN r : r[k] = e}
           U == {i \in I : s[i] = e}
           b == [k \in T |-> h[k]]
<1>1. /\ \A k \in DOMAIN r : h[k] \in I /\ r[k] = s[h[k]]
      /\ \A i \in I : \E k \in DOMAIN r : h[k] = i
      /\ \A j \in DOMAIN r, k \in DOMAIN r : h[j] = h[k] => j = k
      /\ IsFiniteSet(DOMAIN r)
  <2>1. DOMAIN r = 1..Cardinality(I) /\ \A k \in DOMAIN r : h[k] \in I /\ r[k] = s[h[k]]
    BY ListedElements
  <2>2. /\ Cardinality(I) \in Nat
        /\ \A i \in I : \E k \in 1..Cardinality(I) : h[k] = i
        /\ \A j \in 1..Cardinality(I), k \in 1..Cardinality(I) : h[j] = h[k] => j = k
    BY DEF Lists
  <2>3. IsFiniteSet(1..Cardinality(I))
    BY <2>2, FS_Interval
  <2> QED
    BY ONLY <2>1, <2>2, <2>3
<1>2. b \in [T -> U] /\ (\A j, k \in T : b[j] = b[k] => j = k) /\ \A i \in U : \E k \in T : b[k] = i
  BY <1>1
<1>3. IsFiniteSet(T)
  BY <1>1, FS_Subset
<1> HIDE DEF b, T, U
<1>4. b \in Bijection(T, U)
  BY <1>2, Fun_IsBij
<1>5. IsFiniteSet(U) /\ Cardinality(U) = Cardinality(T)
  BY <1>3, <1>4, FS_Bijection DEF ExistsBijection
<1> QED
  BY <1>5 DEF T, U, Occurrences

-----------------------------------------------------------------------------
(* The files                                                                *)

Formats == {"json", "html", "md", "xlsx"}

(* What is going to be written are the renderings of the document.          *)
AllRendered == rendered = [i \in DOMAIN Outputs |-> Render(Outputs[i], doc)]

(* Where a file may stand while a command runs.                             *)
Untouched(f) == files[f] = before[f]
Finished(f) == \E i \in 1..written : Outputs[i] = f /\ files[f] = Whole(rendered[i])
Broken(f) == f = NextOutput /\ files[f] = Torn

(* How far the command is, and with it the files.                           *)
FInv ==
    /\ DOMAIN files = Formats /\ files = [f \in Formats |-> files[f]]
    /\ pc \in {"idle", "load", "render", "open", "write", "done", "failed"}
    /\ pc # "idle" => request \in Requests
    /\ pc \in {"idle", "load", "render"} => written = 0 /\ before = files
    /\ pc \in {"render", "open", "write"} => request.command # "pairs"
    /\ pc \in {"open", "write"} => written \in 0..(Len(Outputs) - 1) /\ AllRendered
    /\ pc = "done" => request.command = "pairs" \/ (written = Len(Outputs) /\ AllRendered)
    /\ pc # "idle" => \A f \in Formats :
        \/ Untouched(f)
        \/ Finished(f)
        \/ pc \in {"write", "failed"} /\ Broken(f)
    /\ pc = "done" => \A i \in DOMAIN Outputs : files[Outputs[i]] = Whole(rendered[i])
    /\ pc \in {"open", "write"} => \A i \in 1..written : files[Outputs[i]] = Whole(rendered[i])

(* The files of a command have different names.                             *)
LEMMA OutputNames ==
    ASSUME request \in Requests, request.command # "pairs"
    PROVE  /\ Outputs \in Seq(Formats)
           /\ Len(Outputs) \in {1, 3} /\ DOMAIN Outputs = 1..Len(Outputs)
           /\ \A i, j \in 1..Len(Outputs) : Outputs[i] = Outputs[j] => i = j
           /\ request.command = "export" => Len(Outputs) = 3 /\ Outputs[1] = "json"
<1>1. CASE request.command = "export"
  <2>1. Outputs = <<"json", "html", "md">>
    BY <1>1 DEF Outputs
  <2> QED
    BY <1>1, <2>1 DEF Formats
<1>2. CASE request.command # "export"
  <2>1. Outputs = <<request.format>> /\ request.format \in Formats
    BY <1>2, DocumentsAssumption DEF Outputs, Formats
  <2> QED
    BY <1>2, <2>1
<1> QED
  BY <1>1, <1>2

LEMMA InitFInv == Init => FInv
BY DEF Init, FInv, Formats

(* Opening the next file empties it and leaves those written.               *)
LEMMA TruncateFInv == ASSUME FInv, Truncate PROVE FInv'
<1>1. /\ pc = "open" /\ pc' = "write" /\ request \in Requests /\ request.command # "pairs"
      /\ written \in 0..(Len(Outputs) - 1) /\ AllRendered
      /\ files' = [files EXCEPT ![NextOutput] = Torn]
      /\ UNCHANGED <<result, request, doc, rendered, written, before, count>>
  BY DEF FInv, Truncate
<1>2. Outputs' = Outputs /\ AllRendered' /\ NextOutput' = NextOutput
  BY <1>1 DEF Outputs, AllRendered, NextOutput
<1>3. /\ NextOutput \in Formats
      /\ \A i \in 1..written : Outputs[i] \in Formats /\ Outputs[i] # NextOutput
  BY <1>1, OutputNames DEF NextOutput
<1>4. \A i \in 1..written : files'[Outputs'[i]] = Whole(rendered'[i])
  BY <1>1, <1>2, <1>3 DEF FInv
<1>5. \A f \in Formats : Untouched(f)' \/ Finished(f)' \/ Broken(f)'
  <2> SUFFICES ASSUME NEW f \in Formats PROVE Untouched(f)' \/ Finished(f)' \/ Broken(f)'
    OBVIOUS
  <2>1. CASE f = NextOutput
    BY <1>1, <1>2, <1>3, <2>1 DEF Broken, FInv
  <2>2. CASE f # NextOutput
    <3>1. Untouched(f) \/ Finished(f)
      BY <1>1, <2>2 DEF FInv
    <3>2. files'[f] = files[f]
      BY <1>1, <1>3, <2>2 DEF FInv
    <3> QED
      BY <1>1, <1>2, <3>1, <3>2 DEF Untouched, Finished
  <2> QED
    BY <2>1, <2>2
<1>6. DOMAIN files' = Formats /\ files' = [f \in Formats |-> files'[f]]
  BY <1>1 DEF FInv
<1> QED
  BY <1>1, <1>2, <1>4, <1>5, <1>6 DEF FInv

(* Writing it makes it whole.                                               *)
LEMMA WriteFInv == ASSUME FInv, WriteFile PROVE FInv'
<1>1. /\ pc = "write" /\ request \in Requests /\ request.command # "pairs"
      /\ written \in 0..(Len(Outputs) - 1) /\ AllRendered
      /\ files' = [files EXCEPT ![NextOutput] = Whole(rendered[written + 1])]
      /\ written' = written + 1
      /\ pc' = IF written' = Len(Outputs) THEN "done" ELSE "open"
      /\ UNCHANGED <<result, request, doc, rendered, before, count>>
  BY DEF FInv, WriteFile
<1>2. Outputs' = Outputs /\ AllRendered'
  BY <1>1 DEF Outputs, AllRendered
<1>3. /\ Len(Outputs) \in {1, 3} /\ DOMAIN Outputs = 1..Len(Outputs)
      /\ written \in Nat /\ written + 1 \in 1..Len(Outputs) /\ written' \in 1..Len(Outputs)
      /\ NextOutput = Outputs[written'] /\ NextOutput \in Formats
      /\ \A i \in 1..written : Outputs[i] \in Formats /\ Outputs[i] # NextOutput
  <2>1. written \in 0..(Len(Outputs) - 1) /\ written' = written + 1
    BY <1>1
  <2>2. /\ Outputs \in Seq(Formats) /\ Len(Outputs) \in {1, 3} /\ DOMAIN Outputs = 1..Len(Outputs)
        /\ \A i, j \in 1..Len(Outputs) : Outputs[i] = Outputs[j] => i = j
    BY <1>1, OutputNames
  <2>3. written \in Nat /\ written + 1 \in 1..Len(Outputs) /\ written' \in 1..Len(Outputs)
    BY <2>1, <2>2
  <2>4. NextOutput = Outputs[written'] /\ NextOutput \in Formats
    BY <2>1, <2>2, <2>3 DEF NextOutput
  <2>5. \A i \in 1..written : Outputs[i] \in Formats /\ Outputs[i] # NextOutput
    BY <2>1, <2>2, <2>3, <2>4
  <2> QED
    BY <2>2, <2>3, <2>4, <2>5
<1>4. \A i \in 1..written' : files'[Outputs'[i]] = Whole(rendered'[i])
  <2>1. \A i \in 1..written : files'[Outputs[i]] = Whole(rendered[i])
    BY <1>1, <1>3 DEF FInv
  <2>2. files'[Outputs[written']] = Whole(rendered[written'])
    BY <1>1, <1>3 DEF FInv
  <2> QED
    BY <1>1, <1>2, <2>1, <2>2
<1>5. \A f \in Formats : Untouched(f)' \/ Finished(f)'
  <2> SUFFICES ASSUME NEW f \in Formats PROVE Untouched(f)' \/ Finished(f)'
    OBVIOUS
  <2>1. CASE f = NextOutput
    <3>1. written' \in 1..written' /\ Outputs'[written'] = f
      BY <1>2, <1>3, <2>1
    <3> QED
      BY <1>4, <3>1 DEF Finished
  <2>2. CASE f # NextOutput
    <3>1. Untouched(f) \/ Finished(f)
      BY <1>1, <2>2 DEF FInv, Broken
    <3>2. files'[f] = files[f]
      BY <1>1, <1>3, <2>2 DEF FInv
    <3> QED
      BY <1>1, <1>2, <3>1, <3>2 DEF Untouched, Finished
  <2> QED
    BY <2>1, <2>2
<1>6. DOMAIN files' = Formats /\ files' = [f \in Formats |-> files'[f]]
  BY <1>1 DEF FInv
<1> QED
  BY <1>1, <1>2, <1>3, <1>4, <1>5, <1>6 DEF FInv

LEMMA NextFInv == ASSUME FInv, [Next]_vars PROVE FInv'
<1>1. CASE UNCHANGED vars
  BY <1>1 DEF FInv, vars, AllRendered, Untouched, Finished, Broken, Outputs, NextOutput
<1>2. CASE Begin
  BY <1>2 DEF FInv, Begin, Untouched
<1>3. CASE LoadFails \/ RenderFails
  BY <1>3 DEF FInv, LoadFails, RenderFails, Untouched
<1>4. CASE LoadDocument
  BY <1>4 DEF FInv, LoadDocument, Untouched
<1>5. CASE ListPairs
  <2>1. Outputs' = <<>>
    BY <1>5 DEF ListPairs, Outputs, FInv
  <2> QED
    BY <1>5, <2>1 DEF FInv, ListPairs, Untouched
<1>6. CASE RenderAll
  <2>1. AllRendered' /\ Outputs' = Outputs
    BY <1>6 DEF RenderAll, AllRendered, Outputs
  <2>2. Len(Outputs) \in {1, 3}
    BY <1>6, OutputNames DEF FInv, RenderAll
  <2> QED
    <3>1. written = 0 /\ before = files /\ written' = 0 /\ before' = before /\ files' = files
      BY <1>6 DEF FInv, RenderAll
    <3>2. written' \in 0..(Len(Outputs') - 1)
      BY <2>1, <2>2, <3>1
    <3> QED
      BY <1>6, <2>1, <3>1, <3>2 DEF FInv, RenderAll, Untouched
<1>7. CASE WriteFails
  BY <1>7 DEF FInv, WriteFails, Untouched, Finished, Broken, Outputs, NextOutput
<1>8. CASE End
  BY <1>8 DEF FInv, End
<1> QED
  BY <1>1, <1>2, <1>3, <1>4, <1>5, <1>6, <1>7, <1>8, TruncateFInv, WriteFInv DEF Next

(* Whatever fails, however many commands have run: each file is as it was   *)
(* before the command, whole, or the one it was about to write; and what an *)
(* export leaves are renderings of the document it saved                    *)
(* (cmd/diskwise/export.go:44-66, report.go:67-81).                         *)
THEOREM FilesAlwaysInOrder == Spec => []FilesInOrder
<1>1. FInv => FilesInOrder
  <2> SUFFICES ASSUME FInv PROVE FilesInOrder
    OBVIOUS
  <2>1. ASSUME pc = "done", NEW i \in DOMAIN Outputs, request.command = "export"
        PROVE  files[Outputs[i]].shows = Render(Outputs[i], files["json"].shows)
    <3>0. request \in Requests /\ request.command # "pairs"
      BY <2>1 DEF FInv
    <3>1. 1 \in DOMAIN Outputs /\ Outputs[1] = "json"
      BY <2>1, <3>0, OutputNames
    <3>2. \A j \in DOMAIN Outputs : files[Outputs[j]].shows = Render(Outputs[j], doc)
      <4>1. AllRendered /\ \A j \in DOMAIN Outputs : files[Outputs[j]] = Whole(rendered[j])
        BY <2>1, <3>0 DEF FInv
      <4>2. \A r : Whole(r).shows = r
        BY DEF Whole
      <4> QED
        BY <4>1, <4>2 DEF AllRendered
    <3>3. files["json"].shows = doc
      BY <3>1, <3>2 DEF Render
    <3> QED
      BY <2>1, <3>2, <3>3
  <2> QED
    BY <2>1 DEF FInv, FilesInOrder, Untouched, Finished, Broken
<1> QED
  BY InitFInv, NextFInv, <1>1, PTL DEF Spec

-----------------------------------------------------------------------------
(* Texts                                                                    *)

Forms == [as : {"plain", "home", "token"}, path : Paths]

Texts == Seq(Symbols)

(* What is looked for in a text, and what takes its place.                  *)
IsPass(p) ==
    /\ p.find \in Texts /\ p.find # <<>>
    /\ p.put \in {Mark, Tilde} /\ p.tail \in BOOLEAN

LEMMA SymbolKinds ==
    /\ Mark \in Symbols /\ Tilde \in Symbols /\ Mark # Tilde
    /\ Mark \notin Pieces /\ Tilde \notin Pieces /\ Slash \in Pieces
    /\ Pieces \subseteq Symbols
BY RedactionAssumption DEF Symbols, Mark, Tilde, Slash

LEMMA PiecesAreTexts ==
    ASSUME NEW f \in Seq(Pieces)
    PROVE  f \in Texts /\ Len(f) \in Nat /\ DOMAIN f = 1..Len(f) /\ \A k \in 1..Len(f) : f[k] \in Pieces
BY SymbolKinds DEF Texts

(* The places of the matches: every occurrence begins at one, and each is   *)
(* in the match of an occurrence.                                           *)
LEMMA MatchedFacts ==
    ASSUME NEW s \in Texts, NEW p, IsPass(p)
    PROVE  /\ \A i \in DOMAIN s : Occurs(p.find, s, i) => i \in Matched(p, s)
           /\ \A x \in Matched(p, s) : \E i \in DOMAIN s :
                /\ Occurs(p.find, s, i) /\ x \in Match(p, s, i)
                /\ Match(p, s, i) \subseteq Matched(p, s)
<1> DEFINE n == Len(s)
           step(i, taken) ==
               IF i \notin taken /\ Occurs(p.find, s, i) THEN taken \cup Match(p, s, i) ELSE taken
           F == [i \in 1..n |-> [taken \in SUBSET Int |-> step(i, taken)]]
<1>1. n \in Nat /\ DOMAIN s = 1..n /\ Len(p.find) \in Nat /\ Len(p.find) > 0
  BY DEF Texts, IsPass
<1>2. \A i \in 1..n : Match(p, s, i) \subseteq Int /\ i \in Match(p, s, i)
  BY <1>1 DEF Match
<1>3. PICK g : Steps(g, n, {}, F)
  <2> HIDE DEF F, n
  <2> QED
    BY <1>1, StepsExist
<1>4. \A i \in 0..n : g[i] \in SUBSET Int
  <2> DEFINE P == {i \in 0..n : g[i] \in SUBSET Int}
  <2>1. 0 \in P
    BY <1>1, <1>3 DEF Steps
  <2>2. ASSUME NEW i \in 1..n, i - 1 \in P PROVE i \in P
    <3>1. g[i] = step(i, g[i - 1])
      BY <1>3, <2>2 DEF Steps
    <3> QED
      BY <1>2, <2>2, <3>1
  <2> HIDE DEF P
  <2>3. \A i \in 0..n : i \in P
    BY <1>1, <2>1, <2>2, UpToBound
  <2> QED
    BY <2>3 DEF P
<1>5. g[0] = {} /\ \A i \in 1..n : g[i - 1] \in SUBSET Int /\ g[i] = step(i, g[i - 1])
  <2>1. g[0] = {} /\ \A i \in 1..n : g[i] = F[i][g[i - 1]]
    BY <1>3 DEF Steps
  <2>2. \A i \in 1..n : i - 1 \in 0..n
    BY <1>1
  <2>3. \A i \in 1..n : g[i - 1] \in SUBSET Int
    BY <1>4, <2>2
  <2> QED
    BY <2>1, <2>3
<1>6. Matched(p, s) = g[n]
  <2> DEFINE value(u, i) ==
               IF i = 0 THEN {}
               ELSE LET taken == u[i - 1]
                    IN  IF i \notin taken /\ Occurs(p.find, s, i) THEN taken \cup Match(p, s, i)
                        ELSE taken
             Is(u) == u = [i \in 0..Len(s) |-> value(u, i)]
  <2>1. \A u : value(u, 0) = {} /\ \A i \in 1..n : value(u, i) = step(i, u[i - 1])
    BY <1>1
  <2>2. Matched(p, s) = (CHOOSE u : Is(u))[n]
    BY DEF Matched
  <2>3. \A u : Is(u) <=> u = [i \in 0..n |-> value(u, i)]
    OBVIOUS
  <2> HIDE DEF Is, value, step, F, n
  <2>4. \A i \in 0..n : i = 0 \/ i \in 1..n
    BY <1>1
  <2>5. \A i \in 0..n : g[i] = value(g, i)
    BY <1>5, <2>1, <2>4
  <2>6. Is(g)
    BY <1>3, <2>3, <2>5 DEF Steps
  <2>7. ASSUME NEW u, Is(u) PROVE u = g
    <3>1. u = [i \in 0..n |-> u[i]] /\ \A i \in 0..n : u[i] = value(u, i)
      BY <2>3, <2>7
    <3>2. 0 \in 0..n /\ \A i \in 1..n : i \in 0..n /\ i - 1 \in 0..n
      BY <1>1
    <3>3. u[0] = g[0] /\ \A i \in 1..n : u[i] = step(i, u[i - 1])
      BY <1>5, <2>1, <3>1, <3>2
    <3> DEFINE P == {i \in 0..n : u[i] = g[i]}
    <3>4. 0 \in P /\ \A i \in 1..n : i - 1 \in P => i \in P
      BY <1>5, <3>2, <3>3
    <3>5. \A i \in 0..n : i \in P
      <4> HIDE DEF P
      <4> QED
        BY <1>1, <3>4, UpToBound
    <3> QED
      BY <1>3, <3>1, <3>5 DEF Steps
  <2> QED
    BY <2>2, <2>6, <2>7
<1>7. \A i \in 0..n :
          /\ \A j \in 1..i : Occurs(p.find, s, j) => j \in g[i]
          /\ \A x \in g[i] : \E j \in 1..n :
               Occurs(p.find, s, j) /\ x \in Match(p, s, j) /\ Match(p, s, j) \subseteq g[i]
  <2> DEFINE Q(i) == /\ \A j \in 1..i : Occurs(p.find, s, j) => j \in g[i]
                     /\ \A x \in g[i] : \E j \in 1..n :
                          Occurs(p.find, s, j) /\ x \in Match(p, s, j) /\ Match(p, s, j) \subseteq g[i]
             P == {i \in 0..n : Q(i)}
  <2>1. 0 \in P
    BY <1>1, <1>5
  <2>2. ASSUME NEW i \in 1..n, i - 1 \in P PROVE i \in P
    <3>1. g[i - 1] \subseteq g[i] /\ (Occurs(p.find, s, i) => i \in g[i])
      BY <1>2, <1>5
    <3>2. \A j \in 1..i : Occurs(p.find, s, j) => j \in g[i]
      BY <1>1, <2>2, <3>1
    <3>3. ASSUME NEW x \in g[i]
          PROVE  \E j \in 1..n :
                    Occurs(p.find, s, j) /\ x \in Match(p, s, j) /\ Match(p, s, j) \subseteq g[i]
      <4>1. CASE x \in g[i - 1]
        BY <2>2, <3>1, <4>1
      <4>2. CASE x \notin g[i - 1]
        <5>1. Occurs(p.find, s, i) /\ g[i] = g[i - 1] \cup Match(p, s, i)
          BY <1>5, <3>3, <4>2
        <5> QED
          BY <3>3, <4>2, <5>1
      <4> QED
        BY <4>1, <4>2
    <3> QED
      BY <3>2, <3>3
  <2>3. \A i \in 0..n : i \in P
    <3> HIDE DEF P
    <3> QED
      BY <1>1, <2>1, <2>2, UpToBound
  <2> QED
    BY <2>3
<1>8. n \in 0..n
  BY <1>1
<1> HIDE DEF n, step, F
<1> QED
  BY <1>1, <1>6, <1>7, <1>8

(* A text some of whose pieces gave way to marks.                           *)
Coarser(t, s) ==
    t \in Texts /\ s \in Texts /\ Len(t) = Len(s) /\ \A i \in DOMAIN s : t[i] = s[i] \/ t[i] \notin Pieces

LEMMA CoarserSelf == ASSUME NEW s \in Texts PROVE Coarser(s, s)
BY DEF Coarser

LEMMA CoarserShows ==
    ASSUME NEW t, NEW s, Coarser(t, s), NEW f \in Seq(Pieces), Shows(t, f)
    PROVE  Shows(s, f)
<1>1. PICK i \in DOMAIN t : Occurs(f, t, i)
  BY DEF Shows
<1>2. Len(t) = Len(s) /\ Len(s) \in Nat /\ DOMAIN t = 1..Len(s) /\ DOMAIN s = 1..Len(s)
  BY DEF Coarser, Texts
<1>3. Len(f) \in Nat /\ \A k \in 1..Len(f) : f[k] \in Pieces
  BY PiecesAreTexts
<1>4. ASSUME NEW k \in 1..Len(f) PROVE s[i + k - 1] = f[k]
  <2>1. i + k - 1 \in DOMAIN s /\ t[i + k - 1] = f[k]
    BY <1>1, <1>2, <1>3 DEF Occurs
  <2> QED
    BY <1>3, <2>1 DEF Coarser
<1>5. Occurs(f, s, i)
  BY <1>1, <1>2, <1>4 DEF Occurs
<1> QED
  BY <1>2, <1>5 DEF Shows

(* One pass: what it looks for is gone, and if it is not there nothing is.  *)
LEMMA ReplacedFacts ==
    ASSUME NEW s \in Texts, NEW p, IsPass(p)
    PROVE  LET t == Replaced(p, s)
           IN  /\ Coarser(t, s) /\ \A i \in DOMAIN s : t[i] = s[i] \/ t[i] = p.put
               /\ p.find \in Seq(Pieces) => ~Shows(t, p.find)
               /\ ~Shows(s, p.find) => t = s
<1> DEFINE t == Replaced(p, s)
           M == Matched(p, s)
<1>1. Len(s) \in Nat /\ DOMAIN s = 1..Len(s) /\ Len(p.find) \in Nat /\ Len(p.find) > 0
  BY DEF Texts, IsPass
<1>2. /\ \A i \in DOMAIN s : Occurs(p.find, s, i) => i \in M
      /\ \A x \in M : \E i \in DOMAIN s : Occurs(p.find, s, i)
  BY MatchedFacts
<1> HIDE DEF M
<1>3. t = [i \in DOMAIN s |-> IF i \in M THEN p.put ELSE s[i]]
  BY DEF Replaced, M
<1>4. p.put \in Symbols /\ p.put \notin Pieces
  BY SymbolKinds DEF IsPass
<1> HIDE DEF t
<1>5. t \in [1..Len(s) -> Symbols]
  BY <1>1, <1>3, <1>4 DEF Texts
<1>6. t \in Texts /\ Len(t) = Len(s)
  BY <1>1, <1>5 DEF Texts
<1>7. \A i \in DOMAIN s : t[i] = s[i] \/ t[i] = p.put
  BY <1>3
<1>8. Coarser(t, s)
  BY <1>4, <1>6, <1>7 DEF Coarser
<1>9. ASSUME p.find \in Seq(Pieces), Shows(t, p.find) PROVE FALSE
  <2>1. PICK i \in DOMAIN t : Occurs(p.find, t, i)
    BY <1>9 DEF Shows
  <2>2. i \in DOMAIN s /\ t[i] = p.find[1] /\ p.find[1] \in Pieces
    BY <1>1, <1>3, <1>9, <2>1, PiecesAreTexts DEF Occurs
  <2>3. \A k \in 1..Len(p.find) : s[i + k - 1] = p.find[k]
    <3> SUFFICES ASSUME NEW k \in 1..Len(p.find) PROVE s[i + k - 1] = p.find[k]
      OBVIOUS
    <3>1. i + k - 1 \in DOMAIN s /\ t[i + k - 1] = p.find[k] /\ p.find[k] \in Pieces
      BY <1>1, <1>6, <1>9, <2>1, <2>2, PiecesAreTexts DEF Occurs
    <3> QED
      BY <1>4, <1>7, <3>1
  <2>4. Occurs(p.find, s, i)
    BY <1>6, <2>1, <2>3 DEF Occurs
  <2>5. t[i] = p.put
    BY <1>2, <1>3, <2>2, <2>4
  <2> QED
    BY <1>4, <2>2, <2>5
<1>10. ASSUME ~Shows(s, p.find) PROVE t = s
  <2>1. M = {}
    BY <1>2, <1>10 DEF Shows
  <2>2. s = [i \in DOMAIN s |-> s[i]]
    BY <1>1 DEF Texts
  <2> QED
    BY <1>3, <2>1, <2>2
<1> QED
  BY <1>7, <1>8, <1>9, <1>10 DEF t

LEMMA Concatenated ==
    ASSUME NEW I, NEW A \in Seq(I), NEW B \in Seq(I)
    PROVE  /\ A \o B \in Seq(I) /\ Len(A \o B) = Len(A) + Len(B)
           /\ \A i \in 1..Len(A) : (A \o B)[i] = A[i]
           /\ \A i \in 1..Len(B) : (A \o B)[Len(A) + i] = B[i]
OBVIOUS

Scrubs == Seq(Texts \ {<<>>})

LEMMA PassesFacts ==
    ASSUME NEW deny \in Seq(Paths), NEW scrub \in Scrubs
    PROVE  LET ps == Passes(deny, scrub)
           IN  /\ Len(ps) = Len(deny) + Len(scrub) + 1 /\ Len(ps) \in Nat
               /\ Len(deny) \in Nat /\ Len(scrub) \in Nat
               /\ \A k \in 1..Len(ps) : IsPass(ps[k])
               /\ \A i \in 1..Len(deny) : ps[i] = Prefix(deny[i])
               /\ \A i \in 1..Len(scrub) : ps[Len(deny) + i] = Fragment(scrub[i])
               /\ ps[Len(ps)] = Abbreviate
               /\ \A k \in 1..Len(ps) : k # Len(ps) => ps[k].put = Mark
<1> DEFINE A  == [i \in DOMAIN deny |-> Prefix(deny[i])]
           B  == [i \in DOMAIN scrub |-> Fragment(scrub[i])]
           I  == {p \in [find : Texts, tail : BOOLEAN, put : {Mark, Tilde}] : p.find # <<>>}
           ps == Passes(deny, scrub)
<1>1. \A p \in I : IsPass(p)
  BY DEF IsPass
<1>2. \A d \in Paths : Prefix(d) \in I /\ Prefix(d).put = Mark
  BY RedactionAssumption, PiecesAreTexts DEF Prefix
<1>3. \A f \in Texts \ {<<>>} : Fragment(f) \in I /\ Fragment(f).put = Mark
  BY DEF Fragment
<1>4. Abbreviate \in I
  BY RedactionAssumption, PiecesAreTexts DEF Abbreviate
<1> HIDE DEF I
<1>5. A \in Seq(I) /\ Len(A) = Len(deny) /\ \A i \in 1..Len(deny) : A[i] = Prefix(deny[i])
  BY <1>2
<1>6. B \in Seq(I) /\ Len(B) = Len(scrub) /\ \A i \in 1..Len(scrub) : B[i] = Fragment(scrub[i])
  BY <1>3 DEF Scrubs
<1>8. ps = Append(A \o B, Abbreviate)
  BY DEF Passes
<1>9. Len(deny) \in Nat /\ Len(scrub) \in Nat
  BY DEF Scrubs
<1>10. /\ \A i \in 1..Len(deny) : deny[i] \in Paths
       /\ \A i \in 1..Len(scrub) : scrub[i] \in Texts \ {<<>>}
  BY DEF Scrubs
<1> HIDE DEF A, B, ps
<1>11. /\ ps \in Seq(I) /\ Len(ps) = Len(A) + Len(B) + 1
       /\ \A i \in 1..Len(A) : ps[i] = A[i]
       /\ \A i \in 1..Len(B) : ps[Len(A) + i] = B[i]
       /\ ps[Len(A) + Len(B) + 1] = Abbreviate
  <2> DEFINE D == A \o B
  <2>1. D \in Seq(I) /\ Len(D) = Len(A) + Len(B)
        /\ (\A i \in 1..Len(A) : D[i] = A[i]) /\ \A i \in 1..Len(B) : D[Len(A) + i] = B[i]
    <3>1. A \in Seq(I) /\ B \in Seq(I)
      BY <1>5, <1>6
    <3> QED
      BY ONLY <3>1, Concatenated
  <2>2. ps = Append(D, Abbreviate)
    BY <1>8
  <2>3. Len(A) \in Nat /\ Len(B) \in Nat
    BY <1>5, <1>6
  <2> HIDE DEF D
  <2>4. /\ ps \in Seq(I) /\ Len(ps) = Len(D) + 1 /\ ps[Len(D) + 1] = Abbreviate
        /\ \A i \in 1..Len(D) : ps[i] = D[i]
    BY <1>4, <2>1, <2>2
  <2>5. /\ \A i \in 1..Len(A) : i \in 1..Len(D)
        /\ \A i \in 1..Len(B) : Len(A) + i \in 1..Len(D)
    BY <2>1, <2>3
  <2> QED
    BY <2>1, <2>4, <2>5
<1>12. \A k \in 1..Len(ps) : IsPass(ps[k])
  BY <1>1, <1>11
<1>13. ASSUME NEW k \in 1..Len(ps), k # Len(ps) PROVE ps[k].put = Mark
  <2>1. CASE k \in 1..Len(deny)
    BY <1>2, <1>5, <1>10, <1>11, <2>1
  <2>2. CASE k \notin 1..Len(deny)
    <3>1. k - Len(deny) \in 1..Len(scrub) /\ k = Len(A) + (k - Len(deny))
      <4>1. /\ Len(deny) \in Nat /\ Len(scrub) \in Nat /\ Len(ps) = Len(deny) + Len(scrub) + 1
            /\ Len(A) = Len(deny)
        BY <1>5, <1>6, <1>9, <1>11
      <4> QED
        BY ONLY <1>13, k \in 1..Len(ps), <2>2, <4>1
    <3>2. ps[k] = Fragment(scrub[k - Len(deny)])
      BY <1>6, <1>11, <3>1
    <3> QED
      BY <1>3, <1>10, <3>1, <3>2
  <2> QED
    BY <2>1, <2>2
<1>14. /\ Len(ps) = Len(deny) + Len(scrub) + 1 /\ Len(ps) \in Nat
       /\ ps[Len(ps)] = Abbreviate
  BY <1>5, <1>6, <1>9, <1>11
<1>15. /\ \A i \in 1..Len(deny) : ps[i] = Prefix(deny[i])
       /\ \A i \in 1..Len(scrub) : ps[Len(deny) + i] = Fragment(scrub[i])
  BY <1>5, <1>6, <1>11
<1> QED
  BY <1>9, <1>12, <1>13, <1>14, <1>15 DEF ps

(* The text after each pass.                                                *)
Stages(g, deny, s, scrub) ==
    LET ps == Passes(deny, scrub)
    IN  /\ g[0] = s /\ g[Len(ps)] = text(deny, s, scrub)
        /\ \A k \in 0..Len(ps) : g[k] \in Texts
        /\ \A k \in 1..Len(ps) : g[k] = Replaced(ps[k], g[k - 1])

LEMMA TextStages ==
    ASSUME NEW deny \in Seq(Paths), NEW scrub \in Scrubs, NEW s \in Texts
    PROVE  \E g : Stages(g, deny, s, scrub)
<1> DEFINE ps == Passes(deny, scrub)
           n  == Len(ps)
           F  == [k \in 1..n |-> [t \in Texts |-> Replaced(ps[k], t)]]
<1>1. n \in Nat /\ \A k \in 1..n : IsPass(ps[k])
  BY PassesFacts
<1>2. \A k \in 1..n : \A t \in Texts : Replaced(ps[k], t) \in Texts
  BY <1>1, ReplacedFacts DEF Coarser
<1>3. PICK g : Steps(g, n, s, F)
  <2> HIDE DEF F, n
  <2> QED
    BY <1>1, StepsExist
<1>4. g[0] = s /\ \A k \in 1..n : g[k] = F[k][g[k - 1]]
  BY <1>3 DEF Steps
<1>5. \A k \in 0..n : g[k] \in Texts
  <2> DEFINE P == {k \in 0..n : g[k] \in Texts}
  <2>1. 0 \in P
    BY <1>1, <1>4
  <2>2. ASSUME NEW k \in 1..n, k - 1 \in P PROVE k \in P
    <3>1. g[k] = Replaced(ps[k], g[k - 1])
      BY <1>4, <2>2
    <3>2. g[k] \in Texts
      BY <1>2, <2>2, <3>1
    <3> QED
      BY <1>1, <3>2
  <2> HIDE DEF P
  <2>3. \A k \in 0..n : k \in P
    BY <1>1, <2>1, <2>2, UpToBound
  <2> QED
    BY <2>3 DEF P
<1>6. \A k \in 1..n : g[k] = Replaced(ps[k], g[k - 1])
  <2>1. \A k \in 1..n : k - 1 \in 0..n
    BY <1>1
  <2> HIDE DEF ps
  <2> QED
    BY <1>4, <1>5, <2>1
<1>7. text(deny, s, scrub) = g[n]
  <2> DEFINE value(u, k) == IF k = 0 THEN s ELSE Replaced(ps[k], u[k - 1])
             Is(u) == u = [k \in 0..n |-> value(u, k)]
  <2>1. text(deny, s, scrub) = (CHOOSE u : Is(u))[n]
    BY DEF text
  <2>2. \A u : value(u, 0) = s /\ \A k \in 1..n : value(u, k) = Replaced(ps[k], u[k - 1])
    BY <1>1
  <2>3. \A k \in 0..n : k = 0 \/ k \in 1..n
    BY <1>1
  <2> HIDE DEF value, ps, F
  <2>4. \A k \in 0..n : g[k] = value(g, k)
    BY <1>4, <1>6, <2>2, <2>3
  <2>5. Is(g)
    BY <1>3, <2>4 DEF Steps
  <2>6. ASSUME NEW u, Is(u) PROVE u = g
    <3>1. u = [k \in 0..n |-> u[k]] /\ \A k \in 0..n : u[k] = value(u, k)
      BY <2>6
    <3>2. 0 \in 0..n /\ \A k \in 1..n : k \in 0..n /\ k - 1 \in 0..n
      BY <1>1
    <3>3. u[0] = g[0] /\ \A k \in 1..n : u[k] = Replaced(ps[k], u[k - 1])
      BY <1>4, <2>2, <3>1, <3>2
    <3> DEFINE P == {k \in 0..n : u[k] = g[k]}
    <3>4. 0 \in P /\ \A k \in 1..n : k - 1 \in P => k \in P
      BY <1>6, <3>2, <3>3
    <3>5. \A k \in 0..n : k \in P
      <4> HIDE DEF P, n
      <4> QED
        BY <1>1, <3>4, UpToBound
    <3> QED
      BY <1>3, <3>1, <3>5 DEF Steps
  <2> HIDE DEF Is
  <2> QED
    BY <2>1, <2>5, <2>6
<1> QED
  BY <1>4, <1>5, <1>6, <1>7 DEF Stages

(* What a pass has cut no later one brings back, and nothing appears that   *)
(* was not there.                                                           *)
LEMMA StagesFacts ==
    ASSUME NEW deny \in Seq(Paths), NEW scrub \in Scrubs, NEW s \in Texts,
           NEW g, Stages(g, deny, s, scrub)
    PROVE  LET ps == Passes(deny, scrub)
               n  == Len(ps)
           IN  /\ \A k \in 0..n : Coarser(g[k], s)
               /\ \A m \in 1..n : \A k \in m..n :
                    ps[m].find \in Seq(Pieces) => ~Shows(g[k], ps[m].find)
               /\ (\A i \in DOMAIN s : s[i] # Tilde) =>
                    \A k \in 0..(n - 1) : \A i \in DOMAIN g[k] : g[k][i] # Tilde
<1> DEFINE ps == Passes(deny, scrub)
           n  == Len(ps)
<1>1. /\ n \in Nat /\ n > 0 /\ \A k \in 1..n : IsPass(ps[k])
      /\ \A k \in 1..n : k # n => ps[k].put = Mark
  BY PassesFacts
<1>2. /\ g[0] = s /\ \A k \in 0..n : g[k] \in Texts
      /\ \A k \in 1..n : g[k] = Replaced(ps[k], g[k - 1])
  BY DEF Stages
<1> HIDE DEF ps, n
<1>3. \A k \in 1..n : g[k - 1] \in Texts
  BY <1>1, <1>2
<1>4. \A k \in 1..n : /\ Coarser(g[k], g[k - 1])
                      /\ \A i \in DOMAIN g[k - 1] : g[k][i] = g[k - 1][i] \/ g[k][i] = ps[k].put
                      /\ ps[k].find \in Seq(Pieces) => ~Shows(g[k], ps[k].find)
  BY <1>1, <1>2, <1>3, ReplacedFacts
<1>5. \A k \in 0..n : Coarser(g[k], s)
  <2> DEFINE P == {k \in 0..n : Coarser(g[k], s)}
  <2>1. 0 \in P
    BY <1>1, <1>2, CoarserSelf
  <2>2. ASSUME NEW k \in 1..n, k - 1 \in P PROVE k \in P
    <3>1. Coarser(g[k], g[k - 1]) /\ Coarser(g[k - 1], s)
      BY <1>4, <2>2
    <3>2. Coarser(g[k], s)
      BY <3>1 DEF Coarser, Texts
    <3> QED
      BY <1>1, <3>2
  <2> HIDE DEF P
  <2>3. \A k \in 0..n : k \in P
    BY <1>1, <2>1, <2>2, UpToBound
  <2> QED
    BY <2>3 DEF P
<1>6. ASSUME NEW m \in 1..n, ps[m].find \in Seq(Pieces), NEW k \in m..n
      PROVE  ~Shows(g[k], ps[m].find)
  <2> DEFINE P == {j \in 0..n : j >= m => ~Shows(g[j], ps[m].find)}
  <2>1. 0 \in P
    BY <1>1
  <2>2. ASSUME NEW j \in 1..n, j - 1 \in P PROVE j \in P
    <3>1. CASE j < m
      BY <1>1, <3>1
    <3>2. CASE j = m
      BY <1>1, <1>4, <1>6, <3>2
    <3>3. CASE j > m
      <4>1. ~Shows(g[j - 1], ps[m].find)
        BY <1>1, <2>2, <3>3
      <4>2. ~Shows(g[j], ps[m].find)
        BY <1>4, <1>6, <4>1, CoarserShows
      <4> QED
        BY <1>1, <4>2
    <3> QED
      BY <1>1, <3>1, <3>2, <3>3
  <2> HIDE DEF P
  <2>3. \A j \in 0..n : j \in P
    BY <1>1, <2>1, <2>2, UpToBound
  <2>4. k \in 0..n /\ k >= m
    BY <1>1
  <2> QED
    BY <2>3, <2>4 DEF P
<1>7. ASSUME \A i \in DOMAIN s : s[i] # Tilde, NEW k \in 0..(n - 1)
      PROVE  \A i \in DOMAIN g[k] : g[k][i] # Tilde
  <2> DEFINE P == {j \in 0..(n - 1) : \A i \in DOMAIN g[j] : g[j][i] # Tilde}
  <2>1. 0 \in P /\ n - 1 \in Nat
    BY <1>1, <1>2, <1>7
  <2>2. ASSUME NEW j \in 1..(n - 1), j - 1 \in P PROVE j \in P
    <3>1. j \in 1..n /\ j # n
      BY <1>1
    <3>2. DOMAIN g[j] = DOMAIN g[j - 1]
      BY <1>4, <3>1 DEF Coarser, Texts
    <3>3. ps[j].put # Tilde
      BY <1>1, <3>1, SymbolKinds
    <3> QED
      BY <1>4, <2>2, <3>1, <3>2, <3>3
  <2> HIDE DEF P
  <2>3. \A j \in 0..(n - 1) : j \in P
    BY <2>1, <2>2, UpToBound
  <2> QED
    BY <2>3 DEF P
<1> QED
  BY <1>5, <1>6, <1>7 DEF ps, n

(* The text of a form that is not a token.                                  *)
LEMMA WrittenText ==
    ASSUME NEW v \in Forms
    PROVE  /\ Written(v) \in Texts \ {<<>>} /\ Len(Written(v)) = Len(Spelling[v.path])
           /\ Written(v) \in Seq(Pieces \cup {Tilde})
           /\ v.as = "plain" => Written(v) = Spelling[v.path] /\ Written(v) \in Seq(Pieces)
<1> DEFINE w == Spelling[v.path]
<1>1. v.path \in Paths /\ w \in Seq(Pieces) /\ w # <<>>
  BY RedactionAssumption DEF Forms
<1>2. Len(w) \in Nat /\ Len(w) > 0 /\ DOMAIN w = 1..Len(w) /\ \A k \in 1..Len(w) : w[k] \in Pieces
  BY <1>1, PiecesAreTexts
<1>3. Written(v) = [i \in 1..Len(w) |->
                      IF v.as = "home" /\ i <= Len(Spelling[Home]) THEN Tilde ELSE w[i]]
  BY <1>2 DEF Written
<1> HIDE DEF w
<1>4. Written(v) \in [1..Len(w) -> Pieces \cup {Tilde}]
  BY <1>2, <1>3
<1>5. /\ Written(v) \in Texts /\ Len(Written(v)) = Len(w) /\ Written(v) # <<>>
      /\ Written(v) \in Seq(Pieces \cup {Tilde})
  <2>1. Written(v) \in [1..Len(w) -> Symbols]
    BY <1>4, SymbolKinds
  <2> QED
    BY <1>2, <1>4, <2>1 DEF Texts
<1>6. v.as = "plain" => Written(v) = w
  <2>1. w = [i \in 1..Len(w) |-> w[i]]
    BY <1>1, <1>2
  <2> QED
    BY <1>3, <2>1
<1> QED
  BY <1>1, <1>5, <1>6 DEF w

(* A path under another spells that one first, and then a slash.            *)
LEMMA UnderSpelling ==
    ASSUME NEW p \in Paths, NEW q \in Paths, under(p, q), p # q
    PROVE  /\ Len(Spelling[p]) > Len(Spelling[q])
           /\ \A k \in 1..Len(Spelling[q]) : Spelling[p][k] = Spelling[q][k]
           /\ Spelling[p][Len(Spelling[q]) + 1] = Slash
<1> DEFINE u == Spelling[p]
           w == Spelling[q]
           x == Append(w, Slash)
<1>1. u \in Seq(Pieces) /\ w \in Seq(Pieces) /\ Slash \in Pieces
  BY RedactionAssumption
<1>2. IsPrefix(x, u)
  BY DEF under
<1> HIDE DEF u, w
<1>3. /\ x \in Seq(Pieces) /\ Len(x) = Len(w) + 1 /\ x[Len(w) + 1] = Slash
      /\ Len(w) \in Nat /\ Len(u) \in Nat /\ \A k \in 1..Len(w) : x[k] = w[k]
  BY <1>1
<1> HIDE DEF x
<1>4. Len(x) <= Len(u) /\ SubSeq(x, 1, Len(x)) = SubSeq(u, 1, Len(x))
  BY <1>2 DEF IsPrefix
<1>5. \A k \in 1..Len(x) : SubSeq(x, 1, Len(x))[k] = x[k] /\ SubSeq(u, 1, Len(x))[k] = u[k]
  BY <1>1, <1>3, <1>4
<1>6. \A k \in 1..Len(x) : u[k] = x[k]
  BY <1>4, <1>5
<1> QED
  BY <1>3, <1>4, <1>6 DEF u, w

LEMMA NoTail ==
    ASSUME NEW p, ~p.tail, NEW s, NEW i \in Nat, Len(p.find) \in Nat
    PROVE  \A x : x \in Match(p, s, i) <=> x \in i..(i + Len(p.find) - 1)
<1> DEFINE n == i + Len(p.find)
           rest == {j \in n..Len(s) : /\ p.tail /\ s[n] = Slash
                                      /\ \A k \in n..j : s[k] \notin Stops}
<1>1. rest = {}
  OBVIOUS
<1>2. Match(p, s, i) = (i..(n - 1)) \cup rest
  BY DEF Match
<1>3. \A x : x \in Match(p, s, i) <=> x \in i..(n - 1)
  <2> HIDE DEF rest
  <2> QED
    BY <1>1, <1>2
<1> QED
  BY <1>3

(* Abbreviating the home directory does not hide a path below it: where the *)
(* path is found abbreviated it was spelled before.                         *)
LEMMA Abbreviated ==
    ASSUME NEW s \in Texts, \A i \in DOMAIN s : s[i] # Tilde,
           NEW d \in Paths, under(d, Home), d # Home,
           Shows(Replaced(Abbreviate, s), Written(Form("home", d)))
    PROVE  Shows(s, Spelling[d])
<1> DEFINE t == Replaced(Abbreviate, s)
           M == Matched(Abbreviate, s)
           h == Len(Spelling[Home])
           w == Written(Form("home", d))
           u == Spelling[d]
<1>1. Abbreviate.find = Spelling[Home] /\ Abbreviate.put = Tilde /\ ~Abbreviate.tail
      /\ IsPass(Abbreviate)
  BY RedactionAssumption, PiecesAreTexts DEF IsPass, Abbreviate
<1>2. /\ h \in Nat /\ h > 0 /\ Len(u) \in Nat /\ Len(u) > h /\ u[h + 1] = Slash
      /\ \A k \in 1..h : u[k] = Spelling[Home][k]
      /\ \A k \in 1..Len(u) : u[k] \in Pieces
  <2>1. Home \in Paths /\ Spelling[Home] \in Seq(Pieces) \ {<<>>} /\ u \in Seq(Pieces)
    BY RedactionAssumption
  <2>2. h \in Nat /\ h > 0 /\ Len(u) \in Nat /\ \A k \in 1..Len(u) : u[k] \in Pieces
    BY <2>1
  <2> QED
    BY <2>1, <2>2, UnderSpelling
<1>3. /\ Len(w) = Len(u) /\ \A k \in 1..h : w[k] = Tilde
      /\ \A k \in (h + 1)..Len(u) : w[k] = u[k]
  <2>1. w = [i \in DOMAIN u |-> IF i <= h THEN Tilde ELSE u[i]]
    BY DEF Written, Form
  <2>2. DOMAIN u = 1..Len(u)
    BY RedactionAssumption
  <2> HIDE DEF w, u, h
  <2>3. Len(w) = Len(u)
    BY <1>2, <2>1, <2>2
  <2> QED
    BY <1>2, <2>1, <2>2, <2>3
<1>4. DOMAIN s = 1..Len(s) /\ Len(s) \in Nat /\ t \in Texts /\ Len(t) = Len(s) /\ DOMAIN t = 1..Len(s)
  BY <1>1, ReplacedFacts DEF Coarser, Texts
<1>5. \A i \in DOMAIN s : t[i] = IF i \in M THEN Tilde ELSE s[i]
  BY <1>1 DEF Replaced
<1>6. \A x \in M : \E j \in DOMAIN s :
          /\ Occurs(Spelling[Home], s, j) /\ x \in j..(j + h - 1)
          /\ \A y \in j..(j + h - 1) : y \in M
  <2>1. ASSUME NEW j \in DOMAIN s PROVE Match(Abbreviate, s, j) = j..(j + h - 1)
    <3>1. Len(Abbreviate.find) = h /\ ~Abbreviate.tail /\ h \in Nat /\ j \in Nat
      BY <1>1, <1>2, <1>4
    <3> HIDE DEF h
    <3>2. \A x : x \in Match(Abbreviate, s, j) <=> x \in j..(j + h - 1)
      BY <3>1, NoTail
    <3> QED
      BY <3>2
  <2> HIDE DEF M, h
  <2> QED
    BY <1>1, <2>1, MatchedFacts DEF M
<1>7. PICK i \in DOMAIN t : Occurs(w, t, i)
  BY DEF Shows
<1> HIDE DEF t, M, h, w, u
<1>8. \A k \in 1..Len(u) : i + k - 1 \in DOMAIN s /\ t[i + k - 1] = w[k]
  BY <1>2, <1>3, <1>4, <1>7 DEF Occurs
<1>9. i + h - 1 \in DOMAIN s /\ t[i + h - 1] = Tilde /\ i + h \in DOMAIN s /\ t[i + h] = Slash
  <2>1. h \in 1..Len(u) /\ h + 1 \in 1..Len(u) /\ h \in 1..h /\ h + 1 \in (h + 1)..Len(u)
    BY <1>2
  <2>2. i + (h + 1) - 1 = i + h
    BY <1>2, <1>4
  <2> QED
    BY <1>2, <1>3, <1>8, <2>1, <2>2
<1>10. i + h - 1 \in M /\ i + h \notin M
  BY <1>5, <1>9, SymbolKinds
<1>11. PICK j \in DOMAIN s : /\ Occurs(Spelling[Home], s, j) /\ i + h - 1 \in j..(j + h - 1)
                             /\ \A y \in j..(j + h - 1) : y \in M
  BY <1>6, <1>10
<1>12. j = i
  <2>1. i + h \notin j..(j + h - 1)
    BY <1>10, <1>11
  <2> QED
    BY <1>2, <1>4, <1>11, <2>1
<1>13. \A k \in 1..h : s[i + k - 1] = u[k]
  BY <1>2, <1>11, <1>12 DEF Occurs, h
<1>14. ASSUME NEW k \in 1..Len(u) PROVE s[i + k - 1] = u[k]
  <2>1. CASE k \in 1..h
    BY <1>13, <2>1
  <2>2. CASE k \notin 1..h
    <3>1. k \in (h + 1)..Len(u) /\ i + k - 1 \in DOMAIN s
      BY <1>2, <1>8, <2>2
    <3>2. t[i + k - 1] = u[k] /\ u[k] \in Pieces
      BY <1>2, <1>3, <1>8, <3>1
    <3> QED
      BY <1>5, <3>1, <3>2, SymbolKinds
  <2> QED
    BY <2>1, <2>2
<1>15. Occurs(u, s, i)
  BY <1>3, <1>4, <1>7, <1>14 DEF Occurs
<1> QED
  BY <1>4, <1>7, <1>15 DEF Shows, u

(* A text that is redacted: nothing it is searched for is left; there was   *)
(* no less before; it does not change again; and if it came from the index, *)
(* no prefix is left abbreviated.                                           *)
LEMMA RedactedText ==
    ASSUME NEW deny \in Seq(Paths), NEW scrub \in Scrubs, NEW s \in Texts
    PROVE  LET t == text(deny, s, scrub)
           IN  /\ Coarser(t, s)
               /\ \A d \in Range(deny) \cup {Home} : ~Shows(t, Spelling[d])
               /\ \A f \in Range(scrub) : f \in Seq(Pieces) => ~Shows(t, f)
               /\ (\A i \in DOMAIN s : s[i] # Tilde) =>
                    \A d \in Range(deny) : d # Home => ~Shows(t, Written(Path(<<>>, Plain(d))))
<1> DEFINE ps == Passes(deny, scrub)
           n  == Len(ps)
           t  == text(deny, s, scrub)
<1>1. /\ n = Len(deny) + Len(scrub) + 1 /\ n \in Nat /\ Len(deny) \in Nat /\ Len(scrub) \in Nat
      /\ \A i \in 1..Len(deny) : ps[i] = Prefix(deny[i])
      /\ \A i \in 1..Len(scrub) : ps[Len(deny) + i] = Fragment(scrub[i])
      /\ ps[n] = Abbreviate
  BY PassesFacts
<1>2. PICK g : Stages(g, deny, s, scrub)
  BY TextStages
<1>3. /\ \A k \in 0..n : Coarser(g[k], s)
      /\ \A m \in 1..n : \A k \in m..n : ps[m].find \in Seq(Pieces) => ~Shows(g[k], ps[m].find)
      /\ (\A i \in DOMAIN s : s[i] # Tilde) =>
           \A k \in 0..(n - 1) : \A i \in DOMAIN g[k] : g[k][i] # Tilde
  BY <1>2, StagesFacts
<1>4. /\ g[n] = t /\ \A k \in 0..n : g[k] \in Texts
      /\ \A k \in 1..n : g[k] = Replaced(ps[k], g[k - 1])
  BY <1>2 DEF Stages
<1>5. \A d \in Paths : Spelling[d] \in Seq(Pieces)
  BY RedactionAssumption
<1>6. ASSUME NEW d \in Range(deny)
      PROVE  d \in Paths /\ \E m \in 1..n : m # n /\ ps[m].find = Spelling[d]
  <2>1. PICK m \in 1..Len(deny) : d = deny[m]
    BY DEF Range
  <2>2. d \in Paths /\ m \in 1..n /\ m # n /\ ps[m] = Prefix(d)
    BY <1>1, <2>1
  <2> QED
    BY <2>2 DEF Prefix
<1> HIDE DEF ps, n, t
<1>7. Coarser(t, s)
  BY <1>1, <1>3, <1>4
<1>8. ASSUME NEW m \in 1..n, ps[m].find \in Seq(Pieces) PROVE ~Shows(t, ps[m].find)
  <2>1. n \in m..n
    BY <1>1
  <2> QED
    BY <1>3, <1>4, <1>8, <2>1
<1>9. ASSUME NEW d \in Range(deny) \cup {Home} PROVE ~Shows(t, Spelling[d])
  <2>1. CASE d \in Range(deny)
    BY <1>5, <1>6, <1>8, <2>1
  <2>2. CASE d = Home
    <3>1. n \in 1..n /\ ps[n].find = Spelling[Home] /\ Home \in Paths
      BY <1>1, RedactionAssumption DEF Abbreviate
    <3> QED
      BY <1>5, <1>8, <2>2, <3>1
  <2> QED
    BY <2>1, <2>2
<1>10. ASSUME NEW f \in Range(scrub), f \in Seq(Pieces) PROVE ~Shows(t, f)
  <2>0. DOMAIN scrub = 1..Len(scrub)
    BY DEF Scrubs
  <2>1. PICK i \in 1..Len(scrub) : f = scrub[i]
    BY <2>0, <1>10 DEF Range
  <2>2. Len(deny) + i \in 1..n /\ ps[Len(deny) + i] = Fragment(f)
    BY <1>1, <2>1
  <2>3. ps[Len(deny) + i].find = f
    BY <2>2 DEF Fragment
  <2> QED
    BY <1>8, <1>10, <2>2, <2>3
<1>11. ASSUME \A i \in DOMAIN s : s[i] # Tilde, NEW d \in Range(deny), d # Home
       PROVE  ~Shows(t, Written(Path(<<>>, Plain(d))))
  <2>0. d \in Paths
    BY <1>6
  <2>1. CASE under(d, Home)
    <3>1. Path(<<>>, Plain(d)) = Form("home", d)
      BY <2>1 DEF Path, Plain, Form, denied, Range
    <3>2. PICK m \in 1..n : m # n /\ ps[m].find = Spelling[d]
      BY <1>6
    <3>3. n - 1 \in 0..n /\ n - 1 \in m..n /\ n - 1 \in 0..(n - 1) /\ n \in 1..n
      BY <1>1, <3>2
    <3>4. ~Shows(g[n - 1], Spelling[d])
      BY <1>3, <1>5, <2>0, <3>2, <3>3
    <3>5. g[n - 1] \in Texts /\ \A i \in DOMAIN g[n - 1] : g[n - 1][i] # Tilde
      BY <1>3, <1>4, <1>11, <3>3
    <3>6. t = Replaced(Abbreviate, g[n - 1])
      BY <1>1, <1>4, <3>3
    <3> QED
      BY <1>11, <2>0, <2>1, <3>1, <3>4, <3>5, <3>6, Abbreviated
  <2>2. CASE ~under(d, Home)
    <3>1. Path(<<>>, Plain(d)) = Plain(d)
      BY <2>2 DEF Path, Plain, Form, denied, Range
    <3>2. Plain(d) \in Forms /\ Plain(d).as = "plain" /\ Plain(d).path = d
      BY <2>0 DEF Plain, Form, Forms
    <3> QED
      BY <1>9, <3>1, <3>2, WrittenText
  <2> QED
    BY <2>1, <2>2
<1> QED
  BY <1>7, <1>9, <1>10, <1>11 DEF t

(* Where there is nothing to find a text stays as it is.                    *)
LEMMA TextUnchanged ==
    ASSUME NEW deny \in Seq(Paths), NEW s \in Texts,
           \A d \in Range(deny) \cup {Home} : ~Shows(s, Spelling[d])
    PROVE  text(deny, s, <<>>) = s
<1> DEFINE ps == Passes(deny, <<>>)
           n  == Len(ps)
<1>1. <<>> \in Scrubs /\ Len(<<>>) = 0
  BY DEF Scrubs
<1>2. /\ n = Len(deny) + 1 /\ n \in Nat /\ Len(deny) \in Nat
      /\ \A k \in 1..n : IsPass(ps[k])
      /\ \A i \in 1..Len(deny) : ps[i] = Prefix(deny[i])
      /\ ps[n] = Abbreviate
  BY <1>1, PassesFacts
<1>3. PICK g : Stages(g, deny, s, <<>>)
  BY <1>1, TextStages
<1>4. /\ g[0] = s /\ g[n] = text(deny, s, <<>>)
      /\ \A k \in 1..n : g[k] = Replaced(ps[k], g[k - 1])
  BY <1>3 DEF Stages
<1> HIDE DEF ps, n
<1>5. ASSUME NEW k \in 1..n PROVE ~Shows(s, ps[k].find)
  <2>1. CASE k = n
    BY <1>2, <2>1 DEF Abbreviate
  <2>2. CASE k # n
    <3>1. k \in 1..Len(deny)
      BY <1>2, <2>2
    <3>2. deny[k] \in Range(deny)
      BY <3>1 DEF Range
    <3>3. ps[k] = Prefix(deny[k])
      BY <1>2, <3>1
    <3>4. ps[k].find = Spelling[deny[k]]
      BY <3>3 DEF Prefix
    <3> QED
      BY <3>2, <3>4
  <2> QED
    BY <2>1, <2>2
<1>6. \A k \in 1..n : Replaced(ps[k], s) = s
  BY <1>2, <1>5, ReplacedFacts
<1> DEFINE P == {k \in 0..n : g[k] = s}
<1>7. 0 \in P /\ \A k \in 1..n : k - 1 \in P => k \in P
  BY <1>2, <1>4, <1>6
<1>8. n \in P
  <2> HIDE DEF P
  <2>1. \A k \in 0..n : k \in P
    BY <1>2, <1>7, UpToBound
  <2> QED
    BY <1>2, <2>1
<1> QED
  BY <1>4, <1>8

(* The fragments of some paths are listed, whatever their order.            *)
LEMMA LengthType ==
    ASSUME NEW s \in Seq(Pieces \cup {Tilde}) PROVE LengthOf(s) \in Int
<1> DEFINE g == [i \in DOMAIN s |-> Width[s[i]]]
<1>1. DOMAIN s = 1..Len(s) /\ Len(s) \in Nat /\ \A i \in DOMAIN s : s[i] \in Pieces \cup {Tilde}
  OBVIOUS
<1>2. IsFiniteSet(DOMAIN s) /\ DOMAIN g = DOMAIN s /\ \A i \in DOMAIN s : g[i] \in Int
  <2>1. IsFiniteSet(DOMAIN s)
    BY <1>1, FS_Interval
  <2>2. \A x \in Pieces \cup {Tilde} : Width[x] \in Int
    BY RedactionAssumption
  <2> QED
    BY <1>1, <2>1, <2>2
<1> HIDE DEF g
<1>3. SumFunctionOnSet(g, DOMAIN s) \in Int
  BY <1>2, SumType
<1> QED
  BY <1>2, <1>3 DEF LengthOf, SumFunction, g

LEMMA FragmentsFacts ==
    ASSUME NEW vs, vs \subseteq Forms, IsFiniteSet(vs)
    PROVE  /\ IsFiniteSet(FragmentsOf(vs))
           /\ \A f \in FragmentsOf(vs) : f \in Texts \ {<<>>} /\ LengthOf(f) \in Int
<1> DEFINE ws == {v \in vs : v.as # "token"}
           us == ws \ {Form("home", Home)}
           W  == [v \in ws |-> Written(v)]
           N  == [v \in us |-> NameOf[v.path]]
           A  == {W[v] : v \in ws}
           B  == {N[v] : v \in us}
<1>1. IsFiniteSet(ws) /\ IsFiniteSet(us)
  BY FS_Subset
<1>2. IsFiniteSet(A) /\ IsFiniteSet(B)
  <2> HIDE DEF ws, us, W, N
  <2> QED
    BY <1>1, FiniteImage
<1>3. FragmentsOf(vs) \subseteq A \cup B
  BY DEF FragmentsOf
<1>4. IsFiniteSet(FragmentsOf(vs))
  <2> HIDE DEF A, B
  <2>1. IsFiniteSet(A \cup B)
    BY <1>2, FS_Union
  <2> QED
    BY <1>3, <2>1, FS_Subset
<1>5. \A f \in A : f \in Texts \ {<<>>} /\ f \in Seq(Pieces \cup {Tilde})
  BY WrittenText
<1>6. \A f \in B : f \in Texts \ {<<>>} /\ f \in Seq(Pieces \cup {Tilde})
  <2> SUFFICES ASSUME NEW v \in us
               PROVE  NameOf[v.path] \in Texts \ {<<>>} /\ NameOf[v.path] \in Seq(Pieces \cup {Tilde})
    OBVIOUS
  <2> DEFINE f == NameOf[v.path]
  <2>1. f \in Seq(Pieces \ {Slash}) /\ f # <<>>
    BY RedactionAssumption DEF Forms
  <2> HIDE DEF f
  <2>2. f \in Seq(Pieces) /\ f \in Seq(Pieces \cup {Tilde})
    BY <2>1
  <2>3. f \in Texts
    BY <2>2, PiecesAreTexts
  <2> QED
    BY <2>1, <2>2, <2>3 DEF f
<1> HIDE DEF A, B
<1> QED
  BY <1>3, <1>4, <1>5, <1>6, LengthType

LEMMA FragmentsList ==
    ASSUME NEW vs, vs \subseteq Forms, IsFiniteSet(vs)
    PROVE  Fragments(vs) \in Scrubs /\ Range(Fragments(vs)) = FragmentsOf(vs)
<1> DEFINE S    == FragmentsOf(vs)
           fs   == SetToSeq(S)
           less == {e \in (DOMAIN fs) \X (DOMAIN fs) : LengthOf(fs[e[1]]) > LengthOf(fs[e[2]])}
           ps   == StableSort(fs, less)
<1>1. IsFiniteSet(S) /\ \A f \in S : f \in Texts \ {<<>>} /\ LengthOf(f) \in Int
  BY FragmentsFacts
<1> HIDE DEF S
<1>2. /\ DOMAIN fs = 1..Cardinality(S) /\ Cardinality(S) \in Nat
      /\ fs \in [1..Cardinality(S) -> S] /\ Range(fs) = S
  BY <1>1, SetListed
<1> HIDE DEF fs
<1>3. IsFiniteSet(DOMAIN fs) /\ DOMAIN fs \subseteq Int
  BY <1>2, FS_Interval
<1>4. IsRanking(less, DOMAIN fs)
  <2> DEFINE D == DOMAIN fs
             z == [i \in D |-> LengthOf(fs[i])]
  <2>1. \A i \in D, j \in D : <<i, j>> \in less <=> z[i] > z[j]
    OBVIOUS
  <2>2. \A i \in D : z[i] \in Int
    BY <1>1, <1>2
  <2> HIDE DEF D, z, less
  <2>3. IsRanking(less, D)
    BY ONLY <2>1, <2>2 DEF IsRanking
  <2> QED
    BY <2>3 DEF D
<1> HIDE DEF less
<1>5. PICK h : Lists(ps, fs, DOMAIN fs, h)
  BY <1>3, <1>4, StableSortLists
<1>6. ps \in Seq(Range(ps)) /\ Range(ps) = {fs[i] : i \in DOMAIN fs}
  BY <1>5, ListedElements
<1>7. Range(ps) = S
  BY <1>2, <1>6 DEF Range
<1>8. Fragments(vs) = ps
  BY DEF Fragments, S, fs, less
<1> HIDE DEF ps
<1>9. ps \in Seq(Texts \ {<<>>})
  <2>1. S \subseteq Texts \ {<<>>}
    BY <1>1
  <2> QED
    BY <1>6, <1>7, <2>1
<1> QED
  BY <1>7, <1>8, <1>9 DEF Scrubs, S

LEMMA NothingToScrub == Fragments({}) = <<>>
<1>1. FragmentsOf({}) = {}
  BY DEF FragmentsOf
<1>2. Fragments({}) \in Scrubs /\ Range(Fragments({})) = {}
  BY <1>1, FragmentsList, FS_EmptySet
<1> DEFINE s == Fragments({})
<1> HIDE DEF s
<1>3. s \in Seq(Texts \ {<<>>}) /\ \A i \in DOMAIN s : FALSE
  BY <1>2 DEF Scrubs, Range, s
<1>4. Len(s) = 0
  <2>1. DOMAIN s = 1..Len(s) /\ Len(s) \in Nat
    BY <1>3
  <2>2. 1 \notin 1..Len(s)
    BY <1>3, <2>1
  <2> QED
    BY <2>1, <2>2
<1>5. s = <<>>
  BY <1>3, <1>4
<1> QED
  BY <1>5 DEF s

(* No prefix is in the text, nor the home directory.                        *)
Clean(deny, s) == \A d \in Range(deny) \cup {Home} : ~Shows(s, Spelling[d])

(* Nothing in the text is abbreviated; and what comes of that.              *)
Rooted(s) == \A i \in DOMAIN s : s[i] # Tilde

Cleared(deny, s) == \A d \in Range(deny) : d # Home => ~Shows(s, Written(Path(<<>>, Plain(d))))

(* A text from which the fragments of some paths are cut out.               *)
LEMMA ScrubbedText ==
    ASSUME NEW deny \in Seq(Paths), NEW s \in Texts, NEW vs, vs \subseteq Forms, IsFiniteSet(vs)
    PROVE  LET t == text(deny, s, Fragments(vs))
           IN  /\ Coarser(t, s) /\ Clean(deny, t)
               /\ \A f \in FragmentsOf(vs) : f \in Seq(Pieces) => ~Shows(t, f)
               /\ Rooted(s) => Cleared(deny, t)
               /\ text(deny, t, Fragments({})) = t
<1> DEFINE t == text(deny, s, Fragments(vs))
<1>1. Fragments(vs) \in Scrubs /\ Range(Fragments(vs)) = FragmentsOf(vs)
  BY FragmentsList
<1>2. /\ Coarser(t, s)
      /\ \A d \in Range(deny) \cup {Home} : ~Shows(t, Spelling[d])
      /\ \A f \in FragmentsOf(vs) : f \in Seq(Pieces) => ~Shows(t, f)
      /\ (\A i \in DOMAIN s : s[i] # Tilde) =>
           \A d \in Range(deny) : d # Home => ~Shows(t, Written(Path(<<>>, Plain(d))))
  BY <1>1, RedactedText
<1> HIDE DEF t
<1>3. t \in Texts
  BY <1>2 DEF Coarser
<1>4. text(deny, t, Fragments({})) = t
  BY <1>2, <1>3, NothingToScrub, TextUnchanged
<1> QED
  BY <1>2, <1>4 DEF Clean, Rooted, Cleared, t

(* The names of the paths that become tokens are among what is cut out.     *)
LEMMA UnnamedKept ==
    ASSUME NEW deny \in Seq(Paths), NEW vs, vs \subseteq Forms, IsFiniteSet(vs),
           NEW us, us \subseteq Forms, NEW ss, ss \subseteq Texts, Unnamed(us, ss),
           NEW ws, \A w \in ws : w.as = "token" =>
                        \E u \in us : u.path = w.path /\ (u.as = "token" \/ (u.as = "plain" /\ u \in vs))
    PROVE  Unnamed(ws, {text(deny, s, Fragments(vs)) : s \in ss})
<1> SUFFICES ASSUME NEW w \in ws, w.as = "token", NEW s \in ss
             PROVE  LET t == text(deny, s, Fragments(vs))
                    IN  /\ ~Shows(t, Spelling[w.path])
                        /\ LengthOf(NameOf[w.path]) >= 3 => ~Shows(t, NameOf[w.path])
  BY DEF Unnamed
<1> DEFINE t == text(deny, s, Fragments(vs))
<1>1. PICK u \in us : u.path = w.path /\ (u.as = "token" \/ (u.as = "plain" /\ u \in vs))
  OBVIOUS
<1>2. Coarser(t, s) /\ \A f \in FragmentsOf(vs) : f \in Seq(Pieces) => ~Shows(t, f)
  BY ScrubbedText
<1>3. Spelling[w.path] \in Seq(Pieces) /\ NameOf[w.path] \in Seq(Pieces)
  <2>1. w.path \in Paths
    BY <1>1 DEF Forms
  <2>2. Spelling[w.path] \in Seq(Pieces) /\ NameOf[w.path] \in Seq(Pieces \ {Slash})
    BY <2>1, RedactionAssumption
  <2> QED
    BY <2>2
<1> HIDE DEF t
<1>4. CASE u.as = "token"
  <2>1. ~Shows(s, Spelling[w.path]) /\ (LengthOf(NameOf[w.path]) >= 3 => ~Shows(s, NameOf[w.path]))
    BY <1>1, <1>4 DEF Unnamed
  <2> QED
    BY <1>2, <1>3, <2>1, CoarserShows DEF t
<1>5. CASE u.as = "plain" /\ u \in vs
  <2>1. Written(u) = Spelling[w.path]
    BY <1>1, <1>5, WrittenText
  <2>2. u # Form("home", Home) /\ u.as # "token"
    BY <1>5 DEF Form
  <2>3. /\ Spelling[w.path] \in FragmentsOf(vs)
        /\ LengthOf(NameOf[w.path]) >= 3 => NameOf[w.path] \in FragmentsOf(vs)
    BY <1>1, <1>5, <2>1, <2>2 DEF FragmentsOf
  <2> QED
    BY <1>2, <1>3, <2>3 DEF t
<1> QED
  BY <1>1, <1>4, <1>5

-----------------------------------------------------------------------------
(* Redaction                                                                *)

(* Findings, pairs and documents as they are built or read back.            *)
IsFinding(f) ==
    /\ f = [x \in DOMAIN f |-> f[x]]
    /\ {"path", "paths", "actionable", "name", "reason", "scenario",
        "tier", "size", "missing"} \subseteq DOMAIN f
    /\ f.path \in Forms /\ f.paths \subseteq Forms /\ f.actionable \subseteq Forms
    /\ IsFiniteSet(f.paths)
    /\ f.reason \in Texts /\ f.scenario \in Texts

IsPair(p) ==
    /\ p = [x \in DOMAIN p |-> p[x]]
    /\ {"archive", "dir", "detail"} \subseteq DOMAIN p
    /\ p.archive \in Forms /\ p.dir \in Forms
    /\ p.detail \in Texts

IsDocument(d) ==
    /\ d = [x \in DOMAIN d |-> d[x]]
    /\ {"root", "findings", "pairs", "tiers", "reclaimable", "missing", "filter"} \subseteq DOMAIN d
    /\ d.root \in Forms
    /\ d.findings = [i \in DOMAIN d.findings |-> d.findings[i]]
    /\ d.pairs = [i \in DOMAIN d.pairs |-> d.pairs[i]]
    /\ \A i \in DOMAIN d.findings : IsFinding(d.findings[i])
    /\ \A i \in DOMAIN d.pairs : IsPair(d.pairs[i])

(* The form shows no path that must not be seen.                            *)
Hidden(deny, v) == v.as = "plain" => ~denied(deny, v) /\ ~under(v.path, Home)

(* What is a token in a finding, or a pair, is not named in it.             *)
KeepsFinding(f) == Unnamed({f.path} \cup f.paths, {f.reason, f.scenario}) /\ Nameless(f)

KeepsPair(p) == Unnamed({p.archive, p.dir}, {p.detail})

Keeps(d) ==
    (\A f \in Range(d.findings) : KeepsFinding(f)) /\ \A p \in Range(d.pairs) : KeepsPair(p)

LEMMA RedactedPath ==
    ASSUME NEW deny, NEW v \in Forms
    PROVE  /\ Path(deny, v) \in Forms /\ Path(deny, v).path = v.path
           /\ Hidden(deny, Path(deny, v)) /\ ~denied(deny, Path(deny, v))
           /\ Path(deny, Path(deny, v)) = Path(deny, v)
           /\ Path(deny, v).as = "token" => v.as = "token" \/ denied(deny, v)
           /\ denied(deny, v) => v.as = "plain"
BY DEF Path, Forms, Form, token, denied, Hidden

LEMMA RedactedPaths ==
    ASSUME NEW deny, NEW vs, vs \subseteq Forms
    PROVE  LET ws == RedactPaths(deny, vs)
           IN  /\ ws \subseteq Forms
               /\ \A w \in ws : Hidden(deny, w) /\ ~denied(deny, w)
               /\ RedactPaths(deny, ws) = ws
               /\ \A w \in ws : w.as = "token" =>
                    \E v \in vs : v.path = w.path /\ (v.as = "token" \/ denied(deny, v))
               /\ IsFiniteSet(vs) => IsFiniteSet(ws)
<1> DEFINE ws == RedactPaths(deny, vs)
<1>1. \A w \in ws : \E v \in vs : v \in Forms /\ w = Path(deny, v)
  BY DEF RedactPaths
<1>2. \A w \in ws : w \in Forms /\ Hidden(deny, w) /\ ~denied(deny, w) /\ Path(deny, w) = w
  BY <1>1, RedactedPath
<1>3. RedactPaths(deny, ws) = ws
  BY <1>2 DEF RedactPaths
<1>4. \A w \in ws : w.as = "token" =>
         \E v \in vs : v.path = w.path /\ (v.as = "token" \/ denied(deny, v))
  BY <1>1, RedactedPath
<1>5. ASSUME IsFiniteSet(vs) PROVE IsFiniteSet(ws)
  <2> DEFINE h == [v \in vs |-> Path(deny, v)]
  <2>1. ws = {h[v] : v \in vs}
    BY DEF RedactPaths
  <2> HIDE DEF h
  <2> QED
    BY <1>5, <2>1, FiniteImage
<1> QED
  BY <1>2, <1>3, <1>4, <1>5

(* A finding: the names of its denied paths are cut out of its texts, and   *)
(* its name gives way to a token if there are any.                          *)
LEMMA RedactedFinding ==
    ASSUME NEW deny \in Seq(Paths), NEW f, IsFinding(f)
    PROVE  LET g == Finding(deny, f)
           IN  /\ IsFinding(g)
               /\ \A v \in {g.path} \cup g.paths \cup g.actionable : Hidden(deny, v)
               /\ \A s \in {g.reason, g.scenario} : Clean(deny, s)
               /\ Rooted(f.reason) /\ Rooted(f.scenario) =>
                    \A s \in {g.reason, g.scenario} : Cleared(deny, s)
               /\ KeepsFinding(f) => KeepsFinding(g)
               /\ Finding(deny, g) = g
<1> DEFINE g     == Finding(deny, f)
           hit   == DeniedOf(deny, f)
           scrub == Fragments(hit)
<1>1. /\ g = [x \in DOMAIN g |-> g[x]] /\ DOMAIN g = DOMAIN f
      /\ {"path", "paths", "actionable", "name", "reason", "scenario",
          "tier", "size", "missing"} \subseteq DOMAIN g
      /\ g.path = Path(deny, f.path) /\ g.paths = RedactPaths(deny, f.paths)
      /\ g.actionable = RedactPaths(deny, f.actionable)
      /\ g.name = (IF hit = {} THEN f.name ELSE token(f.path))
      /\ g.reason = text(deny, f.reason, scrub) /\ g.scenario = text(deny, f.scenario, scrub)
  BY DEF Finding, IsFinding
<1>2. /\ f.path \in Forms /\ f.paths \subseteq Forms /\ f.actionable \subseteq Forms
      /\ IsFiniteSet(f.paths) /\ f.reason \in Texts /\ f.scenario \in Texts
  BY DEF IsFinding
<1>3. hit \subseteq Forms /\ IsFiniteSet(hit) /\ \A v \in {f.path} \cup f.paths : denied(deny, v) => v \in hit
  <2>1. IsFiniteSet({f.path} \cup f.paths)
    <3>1. {f.path} \cup f.paths = f.paths \cup {f.path}
      OBVIOUS
    <3> QED
      BY <1>2, <3>1, FS_AddElement
  <2> QED
    BY <1>2, <2>1, FS_Subset DEF DeniedOf
<1> HIDE DEF g, hit
<1>4. /\ g.path \in Forms /\ g.path.path = f.path.path
      /\ Hidden(deny, g.path) /\ ~denied(deny, g.path) /\ Path(deny, g.path) = g.path
      /\ g.path.as = "token" => f.path.as = "token" \/ denied(deny, f.path)
  BY <1>1, <1>2, RedactedPath
<1>5. /\ g.paths \subseteq Forms /\ RedactPaths(deny, g.paths) = g.paths /\ IsFiniteSet(g.paths)
      /\ \A w \in g.paths : Hidden(deny, w) /\ ~denied(deny, w)
      /\ \A w \in g.paths : w.as = "token" =>
            \E v \in f.paths : v.path = w.path /\ (v.as = "token" \/ denied(deny, v))
  BY <1>1, <1>2, RedactedPaths
<1>6. /\ g.actionable \subseteq Forms /\ RedactPaths(deny, g.actionable) = g.actionable
      /\ \A w \in g.actionable : Hidden(deny, w)
  BY <1>1, <1>2, RedactedPaths
<1>7. \A s \in {f.reason, f.scenario} :
        LET t == text(deny, s, scrub)
        IN  /\ t \in Texts /\ Clean(deny, t) /\ (Rooted(s) => Cleared(deny, t))
            /\ text(deny, t, Fragments({})) = t
  BY <1>2, <1>3, ScrubbedText DEF Coarser
<1>8. \A w \in {g.path} \cup g.paths : w.as = "token" =>
        \E v \in {f.path} \cup f.paths :
            v.path = w.path /\ (v.as = "token" \/ (v.as = "plain" /\ v \in hit))
  <2> SUFFICES ASSUME NEW w \in {g.path} \cup g.paths, w.as = "token"
               PROVE  \E v \in {f.path} \cup f.paths :
                        v.path = w.path /\ (v.as = "token" \/ (v.as = "plain" /\ v \in hit))
    OBVIOUS
  <2>1. PICK v \in {f.path} \cup f.paths : v.path = w.path /\ (v.as = "token" \/ denied(deny, v))
    BY <1>4, <1>5
  <2>2. denied(deny, v) => v.as = "plain" /\ v \in hit
    BY <1>3 DEF denied
  <2> QED
    BY <2>1, <2>2
<1>9. ASSUME KeepsFinding(f) PROVE KeepsFinding(g)
  <2> DEFINE us == {f.path} \cup f.paths
             ws == {g.path} \cup g.paths
             ss == {f.reason, f.scenario}
  <2>1. us \subseteq Forms /\ ss \subseteq Texts /\ Unnamed(us, ss)
    BY <1>2, <1>9 DEF KeepsFinding
  <2>2. {text(deny, s, scrub) : s \in ss} = {g.reason, g.scenario}
    BY <1>1
  <2>3. Unnamed(ws, {text(deny, s, scrub) : s \in ss})
    <3> HIDE DEF us, ws, ss
    <3> QED
      BY <1>3, <1>8, <2>1, UnnamedKept DEF us, ws
  <2>4. Nameless(g)
    <3> SUFFICES ASSUME NEW w \in {g.path} \cup g.paths, w.as = "token" PROVE g.name.as = "token"
      BY DEF Nameless
    <3>1. PICK v \in {f.path} \cup f.paths : v.as = "token" \/ v \in hit
      BY <1>8
    <3>2. CASE hit = {}
      BY <1>1, <1>9, <3>1, <3>2 DEF KeepsFinding, Nameless
    <3>3. CASE hit # {}
      BY <1>1, <3>3 DEF token, Form
    <3> QED
      BY <3>2, <3>3
  <2> QED
    BY <2>2, <2>3, <2>4 DEF KeepsFinding
<1>10. Finding(deny, g) = g
  <2>1. DeniedOf(deny, g) = {}
    BY <1>4, <1>5 DEF DeniedOf
  <2>2. \A h : DeniedOf(deny, h) = {} =>
            Finding(deny, h) =
                [h EXCEPT !.path = Path(deny, h.path), !.paths = RedactPaths(deny, h.paths),
                          !.actionable = RedactPaths(deny, h.actionable), !.name = h.name,
                          !.reason = text(deny, h.reason, Fragments({})),
                          !.scenario = text(deny, h.scenario, Fragments({}))]
    BY DEF Finding
  <2>3. text(deny, g.reason, Fragments({})) = g.reason /\ text(deny, g.scenario, Fragments({})) = g.scenario
    BY <1>1, <1>7
  <2>4. Finding(deny, g) =
            [g EXCEPT !.path = g.path, !.paths = g.paths, !.actionable = g.actionable,
                      !.name = g.name, !.reason = g.reason, !.scenario = g.scenario]
    BY <1>4, <1>5, <1>6, <2>1, <2>2, <2>3
  <2> QED
    BY <1>1, <2>4
<1>11. IsFinding(g)
  BY <1>1, <1>4, <1>5, <1>6, <1>7 DEF IsFinding
<1>12. /\ \A s \in {g.reason, g.scenario} : Clean(deny, s)
       /\ Rooted(f.reason) /\ Rooted(f.scenario) => \A s \in {g.reason, g.scenario} : Cleared(deny, s)
  BY <1>1, <1>7
<1> QED
  BY <1>4, <1>5, <1>6, <1>9, <1>10, <1>11, <1>12 DEF g

LEMMA RedactedSize ==
    ASSUME NEW deny, NEW f, IsFinding(f)
    PROVE  LET g == Finding(deny, f)
           IN  g.tier = f.tier /\ g.size = f.size /\ g.missing = f.missing
BY DEF Finding, IsFinding

LEMMA RedactedPair ==
    ASSUME NEW deny \in Seq(Paths), NEW p, IsPair(p)
    PROVE  LET r == Pair(deny, p)
           IN  /\ IsPair(r)
               /\ \A v \in {r.archive, r.dir} : Hidden(deny, v)
               /\ Clean(deny, r.detail) /\ (Rooted(p.detail) => Cleared(deny, r.detail))
               /\ KeepsPair(p) => KeepsPair(r)
               /\ Pair(deny, r) = r
<1> DEFINE r     == Pair(deny, p)
           hit   == denied(deny, p.archive) \/ denied(deny, p.dir)
           both  == IF hit THEN {p.archive, p.dir} ELSE {}
           scrub == Fragments(both)
<1>1. /\ r = [x \in DOMAIN r |-> r[x]] /\ DOMAIN r = DOMAIN p
      /\ r.archive = Path(deny, p.archive) /\ r.dir = Path(deny, p.dir)
      /\ r.detail = text(deny, p.detail, scrub)
  BY DEF Pair, IsPair
<1>2. p.archive \in Forms /\ p.dir \in Forms /\ p.detail \in Texts
  BY DEF IsPair
<1>3. both \subseteq Forms /\ IsFiniteSet(both)
  <2>1. IsFiniteSet({}) /\ IsFiniteSet({p.archive, p.dir})
    <3>1. IsFiniteSet({p.archive}) /\ {p.archive, p.dir} = {p.archive} \cup {p.dir}
      BY FS_Singleton
    <3>2. IsFiniteSet({p.archive, p.dir})
      BY <3>1, FS_AddElement
    <3> QED
      BY <3>2, FS_EmptySet
  <2> QED
    BY <1>2, <2>1
<1> HIDE DEF r
<1>4. /\ \A v \in {r.archive, r.dir} : v \in Forms /\ Hidden(deny, v) /\ ~denied(deny, v)
      /\ Path(deny, r.archive) = r.archive /\ Path(deny, r.dir) = r.dir
      /\ r.archive.path = p.archive.path /\ r.dir.path = p.dir.path
      /\ r.archive.as = "token" => p.archive.as = "token" \/ denied(deny, p.archive)
      /\ r.dir.as = "token" => p.dir.as = "token" \/ denied(deny, p.dir)
  BY <1>1, <1>2, RedactedPath
<1>5. /\ r.detail \in Texts /\ Clean(deny, r.detail) /\ (Rooted(p.detail) => Cleared(deny, r.detail))
      /\ text(deny, r.detail, Fragments({})) = r.detail
  BY <1>1, <1>2, <1>3, ScrubbedText DEF Coarser
<1>6. ASSUME KeepsPair(p) PROVE KeepsPair(r)
  <2> DEFINE us == {p.archive, p.dir}
             ws == {r.archive, r.dir}
             ss == {p.detail}
  <2>1. us \subseteq Forms /\ ss \subseteq Texts /\ Unnamed(us, ss)
    BY <1>2, <1>6 DEF KeepsPair
  <2>2. {text(deny, s, scrub) : s \in ss} = {r.detail}
    BY <1>1
  <2>3. \A u \in us : denied(deny, u) => u.as = "plain" /\ u \in both
    BY DEF denied
  <2>4. \A w \in ws : w.as = "token" =>
            \E u \in us : u.path = w.path /\ (u.as = "token" \/ (u.as = "plain" /\ u \in both))
    <3> HIDE DEF both
    <3> QED
      BY <1>4, <2>3
  <2>5. Unnamed(ws, {text(deny, s, scrub) : s \in ss})
    <3> HIDE DEF us, ws, ss, both
    <3> QED
      BY <1>3, <2>1, <2>4, UnnamedKept
  <2> QED
    BY <2>2, <2>5 DEF KeepsPair
<1>7. Pair(deny, r) = [r EXCEPT !.archive = r.archive, !.dir = r.dir, !.detail = r.detail]
  BY <1>4, <1>5 DEF Pair
<1>8. IsPair(r)
  BY <1>1, <1>4, <1>5 DEF IsPair
<1> QED
  BY <1>1, <1>4, <1>5, <1>6, <1>7, <1>8 DEF r, IsPair

LEMMA FormsWhere ==
    ASSUME NEW d, NEW v \in FormsIn(d)
    PROVE  \/ v = d.root
           \/ \E f \in Range(d.findings) : v \in {f.path} \cup f.paths \cup f.actionable
           \/ \E p \in Range(d.pairs) : v \in {p.archive, p.dir}
<1> DEFINE OfFinding(f) == {f.path} \cup f.paths \cup f.actionable
           OfPair(p) == {p.archive, p.dir}
<1>1. \/ v \in {d.root}
      \/ v \in UNION {OfFinding(f) : f \in Range(d.findings)}
      \/ v \in UNION {OfPair(p) : p \in Range(d.pairs)}
  BY DEF FormsIn
<1> HIDE DEF OfFinding, OfPair
<1>2. \/ v = d.root
      \/ \E f \in Range(d.findings) : v \in OfFinding(f)
      \/ \E p \in Range(d.pairs) : v \in OfPair(p)
  BY <1>1
<1> QED
  BY <1>2 DEF OfFinding, OfPair

LEMMA TextsWhere ==
    ASSUME NEW d, NEW s \in TextsIn(d)
    PROVE  \/ \E f \in Range(d.findings) : s \in {f.reason, f.scenario}
           \/ \E p \in Range(d.pairs) : s = p.detail
<1> DEFINE OfFinding(f) == {f.reason, f.scenario}
<1>1. s \in UNION {OfFinding(f) : f \in Range(d.findings)} \/ s \in {p.detail : p \in Range(d.pairs)}
  BY DEF TextsIn
<1> HIDE DEF OfFinding
<1>2. (\E f \in Range(d.findings) : s \in OfFinding(f)) \/ \E p \in Range(d.pairs) : s = p.detail
  BY <1>1
<1> QED
  BY <1>2 DEF OfFinding

LEMMA RedactedDocument ==
    ASSUME NEW deny, NEW d, IsDocument(d)
    PROVE  LET r == Document(deny, d)
           IN  /\ r = [x \in DOMAIN r |-> r[x]] /\ DOMAIN r = DOMAIN d
               /\ r.root = Path(deny, d.root)
               /\ r.findings = [i \in DOMAIN d.findings |-> Finding(deny, d.findings[i])]
               /\ r.pairs = [i \in DOMAIN d.pairs |-> Pair(deny, d.pairs[i])]
               /\ \A x \in DOMAIN d \ {"root", "findings", "pairs"} : r[x] = d[x]
<1> DEFINE r == Document(deny, d)
           fs == [i \in DOMAIN d.findings |-> Finding(deny, d.findings[i])]
           ps == [i \in DOMAIN d.pairs |-> Pair(deny, d.pairs[i])]
<1>1. r = [d EXCEPT !.root = Path(deny, d.root), !.findings = fs, !.pairs = ps]
  BY DEF Document
<1> HIDE DEF r, fs, ps
<1>2. /\ r = [x \in DOMAIN r |-> r[x]] /\ DOMAIN r = DOMAIN d
      /\ r.root = Path(deny, d.root) /\ r.findings = fs /\ r.pairs = ps
      /\ \A x \in DOMAIN d \ {"root", "findings", "pairs"} : r[x] = d[x]
  BY <1>1 DEF IsDocument
<1> QED
  BY <1>2 DEF r, fs, ps

(* Any document, of the index or read back, with tokens in it or not: once  *)
(* redacted it shows no path under a prefix or the home directory, and none *)
(* of its texts has one of these in it, nor, if they had none abbreviated,  *)
(* an abbreviated one; if it did not name what is a token in it it does not *)
(* name what is one now; and it is the same when it is redacted again       *)
(* (redact/redact.go:81-171, 212-281).                                      *)
THEOREM RedactionHolds ==
    ASSUME NEW deny \in Seq(Paths), NEW d, IsDocument(d)
    PROVE  LET r == Document(deny, d)
           IN  /\ \A v \in FormsIn(r) : Hidden(deny, v)
               /\ \A s \in TextsIn(r) : Clean(deny, s)
               /\ (\A s \in TextsIn(d) : Rooted(s)) => \A s \in TextsIn(r) : Cleared(deny, s)
               /\ Keeps(d) => Keeps(r)
               /\ Document(deny, r) = r
<1> DEFINE r == Document(deny, d)
<1>1. /\ r = [x \in DOMAIN r |-> r[x]] /\ DOMAIN r = DOMAIN d
      /\ r.root = Path(deny, d.root)
      /\ r.findings = [i \in DOMAIN d.findings |-> Finding(deny, d.findings[i])]
      /\ r.pairs = [i \in DOMAIN d.pairs |-> Pair(deny, d.pairs[i])]
  BY RedactedDocument
<1>2. Hidden(deny, r.root) /\ Path(deny, r.root) = r.root
  BY <1>1, RedactedPath DEF IsDocument
<1> HIDE DEF r
<1>3. ASSUME NEW i \in DOMAIN d.findings
      PROVE  LET f == d.findings[i]
                 g == r.findings[i]
             IN  /\ \A v \in {g.path} \cup g.paths \cup g.actionable : Hidden(deny, v)
                 /\ \A s \in {g.reason, g.scenario} : Clean(deny, s)
                 /\ Rooted(f.reason) /\ Rooted(f.scenario) =>
                      \A s \in {g.reason, g.scenario} : Cleared(deny, s)
                 /\ KeepsFinding(f) => KeepsFinding(g)
                 /\ Finding(deny, g) = g
  <2>1. IsFinding(d.findings[i]) /\ r.findings[i] = Finding(deny, d.findings[i])
    BY <1>1 DEF IsDocument
  <2> QED
    BY <2>1, RedactedFinding
<1>4. ASSUME NEW i \in DOMAIN d.pairs
      PROVE  LET p == d.pairs[i]
                 q == r.pairs[i]
             IN  /\ \A v \in {q.archive, q.dir} : Hidden(deny, v)
                 /\ Clean(deny, q.detail) /\ (Rooted(p.detail) => Cleared(deny, q.detail))
                 /\ KeepsPair(p) => KeepsPair(q)
                 /\ Pair(deny, q) = q
  <2>1. IsPair(d.pairs[i]) /\ r.pairs[i] = Pair(deny, d.pairs[i])
    BY <1>1 DEF IsDocument
  <2> QED
    BY <2>1, RedactedPair
<1>5. \A f \in Range(r.findings) : \E i \in DOMAIN d.findings : f = r.findings[i]
  BY <1>1 DEF Range
<1>6. \A p \in Range(r.pairs) : \E i \in DOMAIN d.pairs : p = r.pairs[i]
  BY <1>1 DEF Range
<1>7. \A v \in FormsIn(r) : Hidden(deny, v)
  BY <1>2, <1>3, <1>4, <1>5, <1>6, FormsWhere
<1>8. \A s \in TextsIn(r) : Clean(deny, s)
  BY <1>3, <1>4, <1>5, <1>6, TextsWhere
<1>9. ASSUME \A s \in TextsIn(d) : Rooted(s), NEW s \in TextsIn(r) PROVE Cleared(deny, s)
  <2>1. CASE \E f \in Range(r.findings) : s \in {f.reason, f.scenario}
    <3>1. PICK i \in DOMAIN d.findings : s \in {r.findings[i].reason, r.findings[i].scenario}
      BY <1>5, <2>1
    <3>2. d.findings[i].reason \in TextsIn(d) /\ d.findings[i].scenario \in TextsIn(d)
      BY DEF TextsIn, Range
    <3> QED
      BY <1>3, <1>9, <3>1, <3>2
  <2>2. CASE \E p \in Range(r.pairs) : s = p.detail
    <3>1. PICK i \in DOMAIN d.pairs : s = r.pairs[i].detail
      BY <1>6, <2>2
    <3>2. d.pairs[i].detail \in TextsIn(d)
      BY DEF TextsIn, Range
    <3> QED
      BY <1>4, <1>9, <3>1, <3>2
  <2> QED
    BY <2>1, <2>2, TextsWhere
<1>10. ASSUME Keeps(d) PROVE Keeps(r)
  <2>1. \A i \in DOMAIN d.findings : KeepsFinding(d.findings[i])
    BY <1>10 DEF Keeps, Range
  <2>2. \A i \in DOMAIN d.pairs : KeepsPair(d.pairs[i])
    BY <1>10 DEF Keeps, Range
  <2>3. \A f \in Range(r.findings) : KeepsFinding(f)
    BY <1>3, <1>5, <2>1
  <2>4. \A q \in Range(r.pairs) : KeepsPair(q)
    BY <1>4, <1>6, <2>2
  <2> QED
    BY <2>3, <2>4 DEF Keeps
<1>11. Document(deny, r) = r
  <2>1. [i \in DOMAIN r.findings |-> Finding(deny, r.findings[i])] = r.findings
    BY <1>1, <1>3
  <2>2. [i \in DOMAIN r.pairs |-> Pair(deny, r.pairs[i])] = r.pairs
    BY <1>1, <1>4
  <2>3. Document(deny, r) = [r EXCEPT !.root = r.root, !.findings = r.findings, !.pairs = r.pairs]
    BY <1>2, <2>1, <2>2 DEF Document
  <2> QED
    BY <1>1, <2>3
<1> QED
  BY <1>7, <1>8, <1>9, <1>10, <1>11 DEF r

-----------------------------------------------------------------------------
(* Pairs                                                                    *)

(* The pairs of some candidates are listed, whatever their order.           *)
LEMMA PairsFound ==
    ASSUME NEW cs, cs \subseteq Candidates, IsFiniteSet(cs), NEW min
    PROVE  LET ps == FindArchivePairs(cs, min)
           IN  /\ ps \in Seq(Range(ps))
               /\ Range(ps) = {comparePairFor(c) : c \in Paired(cs, min)}
<1> DEFINE S  == {comparePairFor(c) : c \in Paired(cs, min)}
           qs == SetToSeq(S)
           less == {e \in (DOMAIN qs) \X (DOMAIN qs) : qs[e[1]].alloc > qs[e[2]].alloc}
           ps == StableSort(qs, less)
<1>1. IsFiniteSet(S)
  <2> DEFINE T == Paired(cs, min)
             f == [c \in T |-> comparePairFor(c)]
  <2>1. IsFiniteSet(T)
    BY FS_Subset DEF Paired
  <2>2. IsFiniteSet({f[c] : c \in T})
    <3> HIDE DEF f, T
    <3> QED
      BY <2>1, FiniteImage
  <2>3. S = {f[c] : c \in T}
    OBVIOUS
  <2> HIDE DEF f, S
  <2> QED
    BY <2>2, <2>3
<1>2. \A p \in S : p.alloc \in Nat
  <2>1. \A c \in Candidates : c.alloc \in Nat
    BY PairsAssumption
  <2>2. \A c : comparePairFor(c).alloc = c.alloc
    BY DEF comparePairFor
  <2>3. \A c \in Paired(cs, min) : c \in Candidates
    BY DEF Paired
  <2> QED
    BY <2>1, <2>2, <2>3
<1> HIDE DEF S
<1>3. /\ Cardinality(S) \in Nat /\ qs \in [1..Cardinality(S) -> S]
      /\ Range(qs) = S
  BY <1>1, SetListed
<1> HIDE DEF qs
<1>4. DOMAIN qs = 1..Cardinality(S) /\ IsFiniteSet(DOMAIN qs) /\ DOMAIN qs \subseteq Int
  BY <1>3, FS_Interval
<1>5. \A i \in DOMAIN qs : qs[i].alloc \in Int
  BY <1>2, <1>3
<1>6. IsRanking(less, DOMAIN qs)
  <2> DEFINE D == DOMAIN qs
  <2>1. \A i \in D, j \in D : <<i, j>> \in less <=> qs[i].alloc > qs[j].alloc
    OBVIOUS
  <2>2. \A i \in D : qs[i].alloc \in Int
    BY <1>5
  <2> HIDE DEF D, less
  <2>3. IsRanking(less, D)
    BY ONLY <2>1, <2>2 DEF IsRanking
  <2> QED
    BY <2>3 DEF D
<1> HIDE DEF less
<1>7. PICK h : Lists(ps, qs, DOMAIN qs, h)
  BY <1>4, <1>6, StableSortLists
<1>8. ps \in Seq(Range(ps)) /\ Range(ps) = {qs[i] : i \in DOMAIN qs}
  BY <1>7, ListedElements
<1>9. {qs[i] : i \in DOMAIN qs} = S
  BY <1>3 DEF Range
<1>10. FindArchivePairs(cs, min) = ps
  BY DEF FindArchivePairs, S, qs, less
<1> QED
  BY <1>8, <1>9, <1>10 DEF S

(* The counts of an archive and of a part of its extraction beside it.      *)
LEMMA VerdictOfPart ==
    ASSUME NEW c \in Candidates, IsExtraction(c)
    PROVE  /\ comparePairFor(c).verdict =
                IF Lacking(c) = {} THEN "same" ELSE "archive_has_more"
           /\ comparePairFor(c).extra = Cardinality(Lacking(c))
<1> DEFINE A == Compared(c)
           D == FileTotals(c)
<1>1. /\ c.members \subseteq Members /\ c.files \subseteq Extraction(c)
      /\ summarizeArchive(c) = "read"
      /\ c.format = "zip" => \A m \in c.members : TypeOf[m] # "link"
  BY PairsAssumption DEF IsExtraction
<1>2. Counted(c) = Extraction(c)
  <2>1. \A m \in c.members : TypeOf[m] \in {"regular", "directory", "link"}
    BY <1>1, PairsAssumption
  <2> QED
    BY <1>1, <2>1 DEF Counted, Listed, Extraction
<1>3. A \subseteq Members /\ D \subseteq A /\ Lacking(c) = A \ D
  BY <1>1, <1>2 DEF Compared, FileTotals, HasLibrary, Lacking, Extraction
<1>4. IsFiniteSet(A) /\ A \cap D = D
  BY <1>3, PairsAssumption, FS_Subset
<1>5. IsFiniteSet(D)
  BY <1>3, <1>4, FS_Subset
<1> DEFINE a == Cardinality(A)
           d == Cardinality(D)
<1>6. a \in Nat /\ d \in Nat
  BY <1>4, <1>5, FS_CardinalityType
<1>7. Cardinality(A \ D) = a - d
  <2> HIDE DEF A, D
  <2>1. Cardinality(A \ D) = Cardinality(A) - Cardinality(A \cap D)
    BY <1>4, FS_Difference
  <2> QED
    BY <1>4, <2>1
<1>8. d <= a /\ (a = d => A = D)
  <2> HIDE DEF A, D
  <2> QED
    BY <1>3, <1>4, FS_Subset
<1>9. comparePairFor(c).verdict = comparePair(c)
      /\ comparePairFor(c).extra = (IF a > d THEN a - d ELSE 0)
  BY <1>1 DEF comparePairFor
<1>10. CASE A = D
  <2>1. comparePair(c) = "same" /\ a = d
    BY <1>6, <1>10 DEF comparePair
  <2>2. Lacking(c) = {}
    BY <1>3, <1>10
  <2> QED
    BY <1>6, <1>9, <2>1, <2>2, FS_EmptySet
<1>11. CASE A # D
  <2>1. a > d /\ Lacking(c) # {}
    <3> HIDE DEF A, D
    <3> QED
      BY <1>3, <1>6, <1>8, <1>11
  <2>2. comparePair(c) = "archive_has_more"
    BY <1>6, <2>1 DEF comparePair
  <2> QED
    BY <1>3, <1>7, <1>9, <2>1, <2>2
<1> QED
  BY <1>10, <1>11

(* What the command pairs makes of one archive and whatever is beside it,   *)
(* redacted or not: a directory with what was extracted, or a part of it,   *)
(* and nothing else, is called the same exactly if it lacks nothing         *)
(* (detect/archive_pair.go:93-183, archive_read.go:54-143).                 *)
THEOREM ExtractionsRecognised == Spec => []VerdictOfExtraction
<1>1. Init => VerdictOfExtraction
  BY DEF Init, VerdictOfExtraction
<1>2. ASSUME FInv, VerdictOfExtraction, [Next]_vars PROVE VerdictOfExtraction'
  <2>1. CASE UNCHANGED vars
    BY <1>2, <2>1 DEF vars, VerdictOfExtraction
  <2>2. CASE ListPairs
    <3>1. PICK c \in Candidates :
            LET ps == FindArchivePairs({c}, request.min)
            IN  doc' = [archives |-> {c},
                        pairs |-> IF request.deny = Off THEN ps
                                  ELSE [i \in DOMAIN ps |-> Pair(request.deny, ps[i])]]
      BY <2>2 DEF ListPairs
    <3> DEFINE ps == FindArchivePairs({c}, request.min)
    <3>2. Range(ps) = {comparePairFor(x) : x \in Paired({c}, request.min)}
      BY FS_Singleton, PairsFound
    <3>3. request' = request
      BY <2>2 DEF ListPairs
    <3> SUFFICES ASSUME NEW x \in Paired(doc'.archives, request'.min)
                 PROVE  \E p \in Range(doc'.pairs) :
                            /\ p.archive.path = x.archive
                            /\ IsExtraction(x) =>
                                /\ p.verdict = IF Lacking(x) = {} THEN "same" ELSE "archive_has_more"
                                /\ p.extra = Cardinality(Lacking(x))
      BY DEF VerdictOfExtraction
    <3>4. x = c /\ x \in Paired({c}, request.min)
      BY <3>1, <3>3 DEF Paired
    <3> DEFINE q == comparePairFor(c)
    <3>5. q.archive = Plain(c.archive) /\ q.archive.path = c.archive
      BY DEF comparePairFor, Plain, Form
    <3>6. IsExtraction(c) =>
            /\ q.verdict = IF Lacking(c) = {} THEN "same" ELSE "archive_has_more"
            /\ q.extra = Cardinality(Lacking(c))
      BY VerdictOfPart
    <3>7. PICK i \in DOMAIN ps : ps[i] = q
      <4>1. q \in Range(ps)
        BY <3>2, <3>4
      <4> HIDE DEF ps, q
      <4> QED
        BY <4>1 DEF Range
    <3>8. CASE request.deny = Off
      <4>1. doc'.pairs = ps
        BY <3>1, <3>8
      <4>2. q \in Range(doc'.pairs)
        <5> HIDE DEF ps, q
        <5> QED
          BY <3>7, <4>1 DEF Range
      <4> HIDE DEF q
      <4> QED
        BY <3>4, <3>5, <3>6, <4>2
    <3>9. CASE request.deny # Off
      <4> DEFINE r == Pair(request.deny, q)
      <4>1. doc'.pairs = [j \in DOMAIN ps |-> Pair(request.deny, ps[j])]
        BY <3>1, <3>9
      <4>2. r \in Range(doc'.pairs)
        <5> HIDE DEF ps, q
        <5> QED
          BY <3>7, <4>1 DEF Range
      <4>3. r.verdict = q.verdict /\ r.extra = q.extra /\ r.archive = Path(request.deny, q.archive)
        BY DEF Pair, comparePairFor
      <4>4. r.archive.path = c.archive
        BY <3>5, <4>3 DEF Path, token, Form, Plain
      <4> HIDE DEF q, r
      <4> QED
        BY <3>4, <3>6, <4>2, <4>3, <4>4
    <3> QED
      BY <3>8, <3>9
  <2>3. CASE WriteFile
    BY <1>2, <2>3 DEF WriteFile, FInv, VerdictOfExtraction
  <2>4. CASE Begin \/ LoadFails \/ LoadDocument \/ RenderAll \/ RenderFails \/ Truncate
             \/ WriteFails \/ End
    BY <2>4 DEF Begin, LoadFails, LoadDocument, RenderAll, RenderFails, Truncate, WriteFails,
                End, VerdictOfExtraction
  <2> QED
    BY <1>2, <2>1, <2>2, <2>3, <2>4 DEF Next
<1> QED
  BY <1>1, <1>2, InitFInv, NextFInv, PTL DEF Spec

(* All that was found.                                                      *)
AllFound(all) ==
    /\ IsFiniteSet(DOMAIN all) /\ DOMAIN all \subseteq Int
    /\ \A i \in DOMAIN all : IsFound(all[i])

Gone(all) == Where(all, LAMBDA f : f.missing)

(* A document lists what is not below its cut, the k-th from h[k].          *)
ListsKept(d, all, h) ==
    LET K == {i \in DOMAIN all : all[i].size >= d.filter.min}
    IN  /\ Cardinality(K) \in Nat /\ DOMAIN d.findings = 1..Cardinality(K)
        /\ h \in [1..Cardinality(K) -> K]
        /\ \A i \in K : \E k \in 1..Cardinality(K) : h[k] = i
        /\ \A j \in 1..Cardinality(K), k \in 1..Cardinality(K) : h[j] = h[k] => j = k
        /\ \A k \in 1..Cardinality(K) :
            LET f == d.findings[k]
                g == all[h[k]]
            IN  f.tier = g.tier /\ f.size = g.size /\ f.missing = g.missing

(* Its numbers are those of all that was found.                             *)
TotalsOf(d, all) ==
    /\ d.filter.min \in Int
    /\ d.tiers = SavingsFrom(all) /\ d.reclaimable = Reclaimable(SavingsFrom(all))
    /\ d.missing.count = Len(Gone(all))
    /\ d.filter.count = Len(OpportunitiesReportFrom(all, d.filter.min).omitted)
    /\ d.filter.bytes = SizesOf(OpportunitiesReportFrom(all, d.filter.min).omitted)

StandsFor(d, all, h) == AllFound(all) /\ ListsKept(d, all, h) /\ TotalsOf(d, all)

Complete(d) == \E all, h : StandsFor(d, all, h)

(* What is sound stays sound.                                               *)
Sound(d) == IsDocument(d) /\ Complete(d) /\ Keeps(d)

LEMMA RedactedSound ==
    ASSUME NEW deny \in Seq(Paths), NEW d, Sound(d) PROVE Sound(Document(deny, d))
<1> DEFINE r == Document(deny, d)
<1>1. IsDocument(d)
  BY DEF Sound
<1>2. /\ r = [x \in DOMAIN r |-> r[x]] /\ DOMAIN r = DOMAIN d
      /\ r.root = Path(deny, d.root)
      /\ r.findings = [i \in DOMAIN d.findings |-> Finding(deny, d.findings[i])]
      /\ r.pairs = [i \in DOMAIN d.pairs |-> Pair(deny, d.pairs[i])]
      /\ \A x \in DOMAIN d \ {"root", "findings", "pairs"} : r[x] = d[x]
  BY <1>1, RedactedDocument
<1>3. Keeps(r)
  BY <1>1, RedactionHolds DEF Sound
<1>4. \A i \in DOMAIN d.findings : IsFinding(Finding(deny, d.findings[i]))
  BY <1>1, RedactedFinding DEF IsDocument
<1>5. \A i \in DOMAIN d.pairs : IsPair(Pair(deny, d.pairs[i]))
  BY <1>1, RedactedPair DEF IsDocument
<1>6. /\ r.root \in Forms
      /\ {"root", "findings", "pairs", "tiers", "reclaimable", "missing", "filter"} \subseteq DOMAIN r
  BY <1>1, <1>2, RedactedPath DEF IsDocument
<1>8. \A i \in DOMAIN d.findings :
        LET f == Finding(deny, d.findings[i])
            g == d.findings[i]
        IN  f.tier = g.tier /\ f.size = g.size /\ f.missing = g.missing
  BY <1>1, RedactedSize DEF IsDocument
<1> HIDE DEF r
<1>7. IsDocument(r)
  BY <1>2, <1>4, <1>5, <1>6 DEF IsDocument
<1>9. Complete(r)
  <2>1. PICK all, h : StandsFor(d, all, h)
    BY DEF Sound, Complete
  <2>2. /\ r.tiers = d.tiers /\ r.reclaimable = d.reclaimable
        /\ r.missing = d.missing /\ r.filter = d.filter /\ DOMAIN r.findings = DOMAIN d.findings
    BY <1>1, <1>2 DEF IsDocument
  <2>3. \A i \in DOMAIN d.findings :
            LET f == r.findings[i]
                g == d.findings[i]
            IN  f.tier = g.tier /\ f.size = g.size /\ f.missing = g.missing
    BY <1>2, <1>8
  <2> DEFINE n == Cardinality({i \in DOMAIN all : all[i].size >= d.filter.min})
  <2>4. \A k \in 1..n :
            LET f == r.findings[k]
                g == all[h[k]]
            IN  f.tier = g.tier /\ f.size = g.size /\ f.missing = g.missing
    BY <2>1, <2>3 DEF StandsFor, ListsKept
  <2>5. ListsKept(r, all, h)
    BY <2>1, <2>2, <2>4 DEF StandsFor, ListsKept
  <2>6. TotalsOf(r, all)
    BY <2>1, <2>2 DEF StandsFor, TotalsOf
  <2>7. StandsFor(r, all, h)
    BY <2>1, <2>5, <2>6 DEF StandsFor
  <2> QED
    BY <2>7 DEF Complete
<1> QED
  BY <1>3, <1>7, <1>9 DEF Sound, r

-----------------------------------------------------------------------------
(* Documents of the index                                                   *)

Plains == {Plain(p) : p \in Paths}

LEMMA PlainForms == ASSUME NEW v \in Plains PROVE v \in Forms /\ v.as = "plain" /\ v = Plain(v.path)
BY DEF Plains, Plain, Form, Forms

(* A finding and a pair of the index: every path is plain, and no text has  *)
(* an abbreviation in it.                                                   *)
LEMMA PiecesAreRooted == ASSUME NEW s \in Seq(Pieces) PROVE s \in Texts /\ Rooted(s)
BY PiecesAreTexts, SymbolKinds DEF Rooted

LEMMA FoundFinding ==
    ASSUME NEW f, IsFound(f)
    PROVE  /\ IsFinding(f) /\ KeepsFinding(f) /\ Rooted(f.reason) /\ Rooted(f.scenario)
           /\ {f.path} \cup f.paths \cup f.actionable \subseteq Plains
<1>1. {f.path} \cup f.paths \cup f.actionable \subseteq Plains
  BY DEF IsFound, Plains
<1>2. \A v \in {f.path} \cup f.paths \cup f.actionable : v \in Forms /\ v.as = "plain"
  BY <1>1, PlainForms
<1>3. /\ f.reason \in Texts /\ Rooted(f.reason) /\ f.scenario \in Texts /\ Rooted(f.scenario)
      /\ IsFiniteSet(f.paths)
  BY PiecesAreRooted DEF IsFound
<1>4. /\ f = [x \in DOMAIN f |-> f[x]]
      /\ {"path", "paths", "actionable", "name", "reason", "scenario",
          "tier", "size", "missing"} \subseteq DOMAIN f
  BY DEF IsFound
<1>5. KeepsFinding(f)
  BY <1>2 DEF KeepsFinding, Unnamed, Nameless
<1> QED
  BY <1>1, <1>2, <1>3, <1>4, <1>5 DEF IsFinding

LEMMA FoundPair ==
    ASSUME NEW c \in Candidates
    PROVE  LET p == comparePairFor(c)
           IN  /\ IsPair(p) /\ KeepsPair(p) /\ Rooted(p.detail)
               /\ {p.archive, p.dir} \subseteq Plains
<1> DEFINE p == comparePairFor(c)
<1>1. p.archive \in Plains /\ p.dir \in Plains
  BY PairsAssumption DEF comparePairFor, Plains
<1>2. p.detail \in Seq(Pieces)
  <2>1. FailedRead(c) \in Seq(Pieces)
    <3>1. "open" \in Pieces /\ " " \in Pieces /\ ":" \in Pieces
      BY PairsAssumption
    <3>2. <<"open", " ">> \in Seq(Pieces) /\ <<":">> \in Seq(Pieces)
      <4>1. \A x \in Pieces, y \in Pieces : <<x, y>> \in Seq(Pieces) /\ <<y>> \in Seq(Pieces)
        OBVIOUS
      <4> QED
        BY <3>1, <4>1
    <3>3. Spelling[c.archive] \in Seq(Pieces)
      BY PairsAssumption, RedactionAssumption
    <3>4. <<"open", " ">> \o Spelling[c.archive] \in Seq(Pieces)
      BY <3>2, <3>3, Concatenated
    <3>5. (<<"open", " ">> \o Spelling[c.archive]) \o <<":">> \in Seq(Pieces)
      BY <3>2, <3>4, Concatenated
    <3> QED
      BY <3>5 DEF FailedRead
  <2> QED
    BY <2>1 DEF comparePairFor
<1>3. /\ p = [x \in DOMAIN p |-> p[x]] /\ {"archive", "dir", "detail"} \subseteq DOMAIN p
  <2>1. \E a, b, l, o, v, e, t :
          p = [archive |-> a, dir |-> b, alloc |-> l, originals |-> o, verdict |-> v,
               extra |-> e, detail |-> t]
    BY Zenon DEF comparePairFor
  <2> HIDE DEF p
  <2> QED
    BY <2>1
<1> HIDE DEF p
<1>4. p.archive \in Forms /\ p.dir \in Forms /\ p.archive.as = "plain" /\ p.dir.as = "plain"
  BY <1>1, PlainForms
<1>5. p.detail \in Texts /\ Rooted(p.detail)
  BY <1>2, PiecesAreRooted
<1>6. IsPair(p)
  BY <1>3, <1>4, <1>5 DEF IsPair
<1>7. KeepsPair(p)
  BY <1>4 DEF KeepsPair, Unnamed
<1> QED
  BY <1>1, <1>5, <1>6, <1>7 DEF p

(* The findings of a document are among those that were found.              *)
LEMMA BuiltFrom ==
    ASSUME result \in Results, NEW d \in Build
    PROVE  \E ps : /\ d = FromService(Home, result.findings, request.min, ps)
                   /\ ps \in Seq(Range(ps))
                   /\ \A p \in Range(ps) : \E c \in Candidates : p = comparePairFor(c)
<1>1. result.archives \subseteq Candidates /\ IsFiniteSet(result.archives)
  BY DocumentsAssumption
<1> DEFINE ps == IF request.pairs THEN FindArchivePairs(result.archives, PairsMinSize) ELSE <<>>
<1>2. d = FromService(Home, result.findings, request.min, ps)
  BY DEF Build
<1>3. CASE request.pairs
  <2>1. /\ ps \in Seq(Range(ps))
        /\ Range(ps) = {comparePairFor(c) : c \in Paired(result.archives, PairsMinSize)}
    BY <1>1, <1>3, PairsFound
  <2>2. Paired(result.archives, PairsMinSize) \subseteq Candidates
    BY <1>1 DEF Paired
  <2> HIDE DEF ps
  <2> QED
    BY <1>2, <2>1, <2>2
<1>4. CASE ~request.pairs
  <2>1. ps = <<>> /\ Range(ps) = {}
    <3>1. ps = <<>>
      BY <1>4
    <3>2. Range(<<>>) = {}
      BY DEF Range
    <3> HIDE DEF ps
    <3> QED
      BY <3>1, <3>2
  <2> HIDE DEF ps
  <2>2. ps \in Seq(Range(ps)) /\ \A p \in Range(ps) : \E c \in Candidates : p = comparePairFor(c)
    BY <2>1
  <2> QED
    BY <1>2, <2>2
<1> QED
  BY <1>3, <1>4

LEMMA FoundFindings ==
    ASSUME NEW r \in Results
    PROVE  /\ r.findings \in Seq(Range(r.findings)) /\ Len(r.findings) \in Nat
           /\ DOMAIN r.findings = 1..Len(r.findings)
           /\ IsFiniteSet(DOMAIN r.findings) /\ DOMAIN r.findings \subseteq Int
           /\ \A i \in DOMAIN r.findings : IsFound(r.findings[i])
<1>1. r.findings \in Seq(Range(r.findings)) /\ \A i \in DOMAIN r.findings : IsFound(r.findings[i])
  BY DocumentsAssumption
<1> DEFINE s == r.findings
           R == Range(s)
<1> HIDE DEF s, R
<1>2. s \in Seq(R)
  BY <1>1 DEF s, R
<1>3. DOMAIN s = 1..Len(s) /\ Len(s) \in Nat
  BY <1>2
<1>4. IsFiniteSet(DOMAIN s) /\ DOMAIN s \subseteq Int
  BY <1>3, FS_Interval
<1> QED
  BY <1>1, <1>3, <1>4 DEF s

(* The findings at or above the cut.                                        *)
LEMMA KeptLists ==
    ASSUME NEW all, IsFiniteSet(DOMAIN all), DOMAIN all \subseteq Int, NEW min
    PROVE  \E h : Lists(OpportunitiesReportFrom(all, min).kept, all,
                        {i \in DOMAIN all : all[i].size >= min}, h)
<1> DEFINE I == {i \in DOMAIN all : all[i].size >= min}
<1>1. IsFiniteSet(I) /\ I \subseteq Int
  BY FS_Subset
<1>2. OpportunitiesReportFrom(all, min).kept = Arranged(all, I, {e \in I \X I : e[1] < e[2]})
  <2>1. OpportunitiesReportFrom(all, min).kept = Where(all, LAMBDA f : f.size >= min)
    BY DEF OpportunitiesReportFrom
  <2>2. Where(all, LAMBDA f : f.size >= min) = Arranged(all, I, {e \in I \X I : e[1] < e[2]})
    BY DEF Where
  <2> QED
    BY <2>1, <2>2
<1> HIDE DEF I
<1>3. PICK h : Lists(Arranged(all, I, {e \in I \X I : e[1] < e[2]}), all, I, h)
  BY ONLY <1>1, WhereLists
<1>4. Lists(OpportunitiesReportFrom(all, min).kept, all, I, h)
  BY <1>2, <1>3
<1> QED
  BY <1>4 DEF I

(* A document of the index as it is built: all in it is plain.              *)
Fresh(d) ==
    /\ Sound(d) /\ d.root \in Plains
    /\ \A f \in Range(d.findings) : IsFound(f)
    /\ \A p \in Range(d.pairs) : \E c \in Candidates : p = comparePairFor(c)

LEMMA BuildFresh ==
    ASSUME result \in Results, request \in Requests, NEW d \in Build PROVE Fresh(d)
<1>1. PICK ps : /\ d = FromService(Home, result.findings, request.min, ps)
                /\ ps \in Seq(Range(ps))
                /\ \A p \in Range(ps) : \E c \in Candidates : p = comparePairFor(c)
  BY BuiltFrom
<1> DEFINE all  == result.findings
           kept == OpportunitiesReportFrom(all, request.min).kept
           I    == {i \in DOMAIN all : all[i].size >= request.min}
<1>2. /\ d = [x \in DOMAIN d |-> d[x]]
      /\ {"root", "findings", "pairs", "tiers", "reclaimable", "missing", "filter"} \subseteq DOMAIN d
      /\ d.root = Plain(Home) /\ d.findings = kept /\ d.pairs = ps
  BY <1>1 DEF FromService
<1>3. \A i \in DOMAIN all : IsFound(all[i])
  BY FoundFindings
<1>4. \A i \in I : IsFound(all[i])
  BY <1>3
<1>5. PICK h : Lists(kept, all, I, h)
  BY FoundFindings, KeptLists
<1> HIDE DEF kept, all, I
<1>6. kept \in Seq(Range(kept)) /\ \A f \in Range(kept) : IsFound(f)
  BY <1>4, <1>5, ListedElements
<1>7. d.root \in Plains
  BY <1>2, RedactionAssumption DEF Plains
<1>8. \A f \in Range(kept) : IsFinding(f) /\ KeepsFinding(f)
  BY <1>6, FoundFinding
<1>9. \A p \in Range(ps) : IsPair(p) /\ KeepsPair(p)
  BY <1>1, FoundPair
<1>10. kept = [i \in DOMAIN kept |-> kept[i]] /\ \A i \in DOMAIN kept : kept[i] \in Range(kept)
  BY <1>6 DEF Range
<1>11. ps = [i \in DOMAIN ps |-> ps[i]] /\ \A i \in DOMAIN ps : ps[i] \in Range(ps)
  BY <1>1 DEF Range
<1>12. IsDocument(d)
  BY <1>2, <1>7, <1>8, <1>9, <1>10, <1>11, PlainForms DEF IsDocument
<1>13. /\ d.tiers = SavingsFrom(all) /\ d.reclaimable = Reclaimable(SavingsFrom(all))
       /\ d.missing.count = Len(Gone(all))
       /\ d.filter.min = request.min /\ d.filter.min \in Int
       /\ d.filter.count = Len(OpportunitiesReportFrom(all, request.min).omitted)
       /\ d.filter.bytes = SizesOf(OpportunitiesReportFrom(all, request.min).omitted)
  BY <1>1, DocumentsAssumption DEF FromService, all, Gone
<1>14. StandsFor(d, all, h)
  <2>1. IsFiniteSet(DOMAIN all) /\ DOMAIN all \subseteq Int
    BY FoundFindings DEF all
  <2>2. I = {i \in DOMAIN all : all[i].size >= d.filter.min}
    BY <1>13 DEF I
  <2>3. /\ Cardinality(I) \in Nat /\ DOMAIN d.findings = 1..Cardinality(I)
        /\ \A k \in 1..Cardinality(I) : d.findings[k] = all[h[k]]
    BY <1>2, <1>5 DEF Lists
  <2>4. /\ h \in [1..Cardinality(I) -> I]
        /\ \A i \in I : \E k \in 1..Cardinality(I) : h[k] = i
        /\ \A j \in 1..Cardinality(I), k \in 1..Cardinality(I) : h[j] = h[k] => j = k
    BY <1>5 DEF Lists
  <2>5. ListsKept(d, all, h)
    BY <2>2, <2>3, <2>4 DEF ListsKept
  <2>6. AllFound(all) /\ TotalsOf(d, all)
    BY <1>3, <1>13, <2>1 DEF AllFound, TotalsOf
  <2> QED
    BY <2>5, <2>6 DEF StandsFor
<1>15. Keeps(d)
  BY <1>2, <1>8, <1>9 DEF Keeps
<1> QED
  BY <1>1, <1>2, <1>6, <1>7, <1>12, <1>14, <1>15 DEF Fresh, Sound, Complete

(* The form that a plain one comes to is not denied, or a token.            *)
LEMMA FreshForm ==
    ASSUME NEW deny, NEW v \in Plains
    PROVE  LET w == Path(deny, v) IN denied(deny, Plain(w.path)) => w.as = "token"
BY PlainForms DEF Path, denied, Plain, Form, token

LEMMA FreshRedacted ==
    ASSUME NEW deny \in Seq(Paths), NEW d, Fresh(d), NEW v \in FormsIn(Document(deny, d)),
           denied(deny, Plain(v.path))
    PROVE  v.as = "token"
<1> DEFINE r == Document(deny, d)
<1>1. /\ r.root = Path(deny, d.root)
      /\ r.findings = [i \in DOMAIN d.findings |-> Finding(deny, d.findings[i])]
      /\ r.pairs = [i \in DOMAIN d.pairs |-> Pair(deny, d.pairs[i])]
  BY RedactedDocument DEF Fresh, Sound
<1>2. CASE v = r.root
  BY <1>1, <1>2, FreshForm DEF Fresh
<1>3. ASSUME NEW g \in Range(r.findings), v \in {g.path} \cup g.paths \cup g.actionable
      PROVE  v.as = "token"
  <2>1. PICK i \in DOMAIN d.findings : g = Finding(deny, d.findings[i])
    BY <1>1, <1>3 DEF Range
  <2> DEFINE f == d.findings[i]
  <2>2. IsFound(f)
    BY DEF Fresh, Range
  <2>3. g.path = Path(deny, f.path) /\ g.paths = RedactPaths(deny, f.paths)
        /\ g.actionable = RedactPaths(deny, f.actionable)
    BY <2>1, <2>2 DEF Finding, IsFound
  <2>4. {f.path} \cup f.paths \cup f.actionable \subseteq Plains
    BY <2>2, FoundFinding
  <2> HIDE DEF f
  <2>5. PICK u \in Plains : v = Path(deny, u)
    BY <1>3, <2>3, <2>4 DEF RedactPaths
  <2> QED
    BY <2>5, FreshForm
<1>4. ASSUME NEW q \in Range(r.pairs), v \in {q.archive, q.dir}
      PROVE  v.as = "token"
  <2>1. PICK i \in DOMAIN d.pairs : q = Pair(deny, d.pairs[i])
    BY <1>1, <1>4 DEF Range
  <2> DEFINE p == d.pairs[i]
  <2>2. PICK c \in Candidates : p = comparePairFor(c)
    BY DEF Fresh, Range
  <2>3. IsPair(p) /\ {p.archive, p.dir} \subseteq Plains
    BY <2>2, FoundPair
  <2> HIDE DEF p
  <2>4. q.archive = Path(deny, p.archive) /\ q.dir = Path(deny, p.dir)
    BY <2>1, <2>3 DEF Pair, IsPair, p
  <2> QED
    BY <1>4, <2>3, <2>4, FreshForm
<1>5. \/ v = r.root
      \/ \E f \in Range(r.findings) : v \in {f.path} \cup f.paths \cup f.actionable
      \/ \E p \in Range(r.pairs) : v \in {p.archive, p.dir}
  BY FormsWhere
<1> HIDE DEF r
<1> QED
  BY <1>2, <1>3, <1>4, <1>5

(* No text of the index has an abbreviation in it.                          *)
LEMMA FreshTexts == ASSUME NEW d, Fresh(d), NEW s \in TextsIn(d) PROVE Rooted(s)
<1>1. \A f \in Range(d.findings) : Rooted(f.reason) /\ Rooted(f.scenario)
  BY FoundFinding DEF Fresh
<1>2. \A p \in Range(d.pairs) : Rooted(p.detail)
  BY FoundPair DEF Fresh
<1> QED
  BY <1>1, <1>2, TextsWhere

(* Every document a command has, or has left, is sound.                     *)
DInv ==
    /\ result \in Results
    /\ pc \in {"render", "open", "write"} => Sound(doc)
    /\ files["json"].state = "whole" => Sound(files["json"].shows)
    /\ Redacted

LEMMA LoadSound ==
    ASSUME FInv, DInv, LoadDocument
    PROVE  Sound(doc') /\ Redacted'
<1>1. PICK d \in IF request.from THEN {s \in Saved : Validate(s)} ELSE Build :
        doc' = IF request.deny = Off THEN d ELSE Document(request.deny, d)
  BY DEF LoadDocument
<1>2. Sound(d) /\ (~request.from => Fresh(d))
  <2>1. CASE request.from
    BY <1>1, <2>1 DEF Saved, DInv
  <2>2. CASE ~request.from
    <3>1. Fresh(d)
      BY <1>1, <2>2, BuildFresh DEF DInv, FInv, LoadDocument
    <3> QED
      BY <2>2, <3>1 DEF Fresh
  <2> QED
    BY <2>1, <2>2
<1>3. request' = request
  BY DEF LoadDocument
<1>4. CASE request.deny = Off
  BY <1>1, <1>2, <1>3, <1>4 DEF Redacted
<1>5. CASE request.deny # Off
  <2> DEFINE r == Document(request.deny, d)
  <2>0. request.deny \in Seq(Paths)
    BY <1>5, DocumentsAssumption DEF FInv, LoadDocument
  <2>1. doc' = r /\ Sound(r)
    BY <1>1, <1>2, <1>5, <2>0, RedactedSound
  <2>2. /\ \A v \in FormsIn(r) : Hidden(request.deny, v)
        /\ \A s \in TextsIn(r) : Clean(request.deny, s)
        /\ Document(request.deny, r) = r
    BY <1>2, <2>0, RedactionHolds DEF Sound
  <2>3. ~request.from =>
            /\ \A v \in FormsIn(r) : denied(request.deny, Plain(v.path)) => v.as = "token"
            /\ \A s \in TextsIn(r) : Cleared(request.deny, s)
    BY <1>2, <2>0, FreshRedacted, FreshTexts, RedactionHolds DEF Sound
  <2>4. Keeps(r)
    BY <2>1 DEF Sound
  <2> HIDE DEF r
  <2>5. /\ \A v \in FormsIn(r) : v.as = "plain" => ~denied(request.deny, v) /\ ~under(v.path, Home)
        /\ \A s \in TextsIn(r) : \A p \in Range(request.deny) \cup {Home} :
              /\ ~Shows(s, Spelling[p])
              /\ ~request.from /\ p # Home => ~Shows(s, Written(Path(<<>>, Plain(p))))
    BY <2>2, <2>3 DEF Hidden, Clean, Cleared
  <2>6. /\ \A f \in Range(r.findings) :
              Unnamed({f.path} \cup f.paths, {f.reason, f.scenario}) /\ Nameless(f)
        /\ \A p \in Range(r.pairs) : Unnamed({p.archive, p.dir}, {p.detail})
    BY <2>4 DEF Keeps, KeepsFinding, KeepsPair
  <2>7. Redacted'
    BY <1>3, <2>1, <2>2, <2>3, <2>5, <2>6 DEF Redacted
  <2> QED
    BY <2>1, <2>7
<1> QED
  BY <1>4, <1>5

LEMMA WriteSound ==
    ASSUME FInv, DInv, WriteFile
    PROVE  files'["json"].state = "whole" => Sound(files'["json"].shows)
<1>1. /\ pc = "write" /\ request \in Requests /\ request.command # "pairs"
      /\ written \in 0..(Len(Outputs) - 1) /\ AllRendered
      /\ files' = [files EXCEPT ![NextOutput] = Whole(rendered[written + 1])]
      /\ Sound(doc)
  BY DEF FInv, DInv, WriteFile
<1>2. /\ written + 1 \in DOMAIN Outputs /\ NextOutput \in Formats
      /\ NextOutput = Outputs[written + 1]
  <2>1. Outputs \in Seq(Formats) /\ Len(Outputs) \in {1, 3} /\ DOMAIN Outputs = 1..Len(Outputs)
    BY <1>1, OutputNames
  <2> QED
    BY <1>1, <2>1 DEF NextOutput
<1>3. rendered[written + 1] = Render(NextOutput, doc)
  BY <1>1, <1>2 DEF AllRendered
<1>4. CASE NextOutput = "json"
  <2>1. files'["json"] = Whole(doc)
    BY <1>1, <1>3, <1>4 DEF FInv, Formats, Render
  <2> QED
    BY <1>1, <2>1 DEF Whole
<1>5. CASE NextOutput # "json"
  <2>1. files'["json"] = files["json"]
    BY <1>1, <1>5 DEF FInv, Formats
  <2> QED
    BY <2>1 DEF DInv
<1> QED
  BY <1>4, <1>5

LEMMA TruncateSound ==
    ASSUME FInv, DInv, Truncate
    PROVE  files'["json"].state = "whole" => Sound(files'["json"].shows)
<1>1. files' = [files EXCEPT ![NextOutput] = Torn]
  BY DEF Truncate
<1>2. CASE NextOutput = "json"
  <2>1. files'["json"] = Torn
    BY <1>1, <1>2 DEF FInv, Formats
  <2> QED
    BY <2>1 DEF Torn
<1>3. CASE NextOutput # "json"
  <2>1. files'["json"] = files["json"]
    BY <1>1, <1>3 DEF FInv, Formats
  <2> QED
    BY <2>1 DEF DInv
<1> QED
  BY <1>2, <1>3

LEMMA NextDInv == ASSUME FInv, DInv, [Next]_vars PROVE DInv'
<1>1. CASE UNCHANGED vars
  BY <1>1 DEF DInv, vars, Redacted
<1>2. CASE Begin
  BY <1>2 DEF DInv, Begin, Redacted
<1>3. CASE LoadFails \/ ListPairs \/ RenderAll \/ RenderFails \/ WriteFails \/ End
  BY <1>3 DEF DInv, LoadFails, ListPairs, RenderAll, RenderFails, WriteFails, End, Redacted
<1>4. CASE LoadDocument
  <2>1. Sound(doc') /\ Redacted'
    BY <1>4, LoadSound
  <2> QED
    BY <1>4, <2>1 DEF DInv, LoadDocument
<1>5. CASE Truncate
  <2>1. pc' = "write" /\ doc' = doc /\ result' = result /\ Sound(doc)
    BY <1>5 DEF DInv, Truncate
  <2> QED
    BY <1>5, <2>1, TruncateSound DEF DInv, Redacted
<1>6. CASE WriteFile
  <2>1. pc' \in {"open", "done"} /\ doc' = doc /\ result' = result /\ Sound(doc)
    BY <1>6 DEF DInv, WriteFile
  <2> QED
    BY <1>6, <2>1, WriteSound DEF DInv, Redacted
<1> QED
  BY <1>1, <1>2, <1>3, <1>4, <1>5, <1>6 DEF Next

(* Every document a command renders, built or read back from a file that    *)
(* any command wrote under any other prefixes: no path that is denied or    *)
(* below the home directory shows as one or in a text; of a document of the *)
(* index each denied path is a token, and no text has a prefix abbreviated; *)
(* no text has a path of its finding or pair that is a token, or its base   *)
(* name, whole; and redacting it again changes nothing                      *)
(* (cmd/diskwise/document.go:41-60, redact/redact.go:81-171, 212-281).      *)
THEOREM DocumentsRedacted == Spec => []Redacted
<1>1. Init => DInv
  BY DEF Init, DInv, Redacted, Absent
<1>2. DInv => Redacted
  BY DEF DInv
<1> QED
  BY <1>1, <1>2, InitFInv, NextFInv, NextDInv, PTL DEF Spec

-----------------------------------------------------------------------------
(* Rows                                                                     *)

(* What the rows of a document are sorted by.                               *)
IsListed(f) == f.tier \in TierNames /\ f.size \in Nat /\ f.path \in Forms

IsListing(fs) ==
    /\ IsFiniteSet(DOMAIN fs) /\ DOMAIN fs \subseteq Int
    /\ \A i \in DOMAIN fs : IsListed(fs[i])

LEMMA DocumentListing ==
    ASSUME NEW d, IsDocument(d), Complete(d)
    PROVE  IsListing(d.findings) /\ \E n \in Nat : DOMAIN d.findings = 1..n
<1>1. PICK all, h : AllFound(all) /\ ListsKept(d, all, h)
  BY DEF Complete, StandsFor
<1> DEFINE K == {i \in DOMAIN all : all[i].size >= d.filter.min}
           n == Cardinality(K)
<1>2. /\ n \in Nat /\ DOMAIN d.findings = 1..n /\ h \in [1..n -> K]
      /\ \A k \in 1..n : /\ d.findings[k].tier = all[h[k]].tier
                         /\ d.findings[k].size = all[h[k]].size
  BY <1>1 DEF ListsKept
<1>3. \A i \in K : all[i].tier \in TierNames /\ all[i].size \in Nat
  BY <1>1 DEF AllFound, IsFound
<1> HIDE DEF K, n
<1>4. IsFiniteSet(1..n) /\ 1..n \subseteq Int
  BY <1>2, FS_Interval
<1>5. \A k \in DOMAIN d.findings : d.findings[k].path \in Forms
  BY DEF IsDocument, IsFinding
<1>6. \A k \in 1..n : IsListed(d.findings[k])
  BY <1>2, <1>3, <1>5 DEF IsListed
<1> QED
  BY <1>2, <1>4, <1>6 DEF IsListing

LEMMA TierRanks ==
    ASSUME NEW t \in TierNames
    PROVE  tierRank[t] \in 1..6 /\ Tiers[tierRank[t]] = t
<1>1. Len(Tiers) = 6 /\ DOMAIN Tiers = 1..6
  BY DEF Tiers
<1>2. \E i \in 1..6 : Tiers[i] = t
  BY <1>1 DEF TierNames, Range
<1>3. tierRank[t] = CHOOSE i \in 1..6 : Tiers[i] = t
  BY <1>1 DEF tierRank
<1> QED
  BY <1>2, <1>3

LEMMA TierRanksDiffer ==
    ASSUME NEW t \in TierNames, NEW u \in TierNames, tierRank[t] = tierRank[u]
    PROVE  t = u
BY TierRanks

(* Rows are ranked by four numbers, one after the other.                    *)
LEMMA PrecedesByKey ==
    ASSUME NEW f, IsListed(f), NEW g, IsListed(g)
    PROVE  Precedes(f, g) <=>
             \/ tierRank[f.tier] < tierRank[g.tier]
             \/ /\ tierRank[f.tier] = tierRank[g.tier]
                /\ \/ f.size > g.size
                   \/ /\ f.size = g.size
                      /\ \/ formRank(f.path)[1] < formRank(g.path)[1]
                         \/ /\ formRank(f.path)[1] = formRank(g.path)[1]
                            /\ formRank(f.path)[2] < formRank(g.path)[2]
<1>1. tierRank[f.tier] = tierRank[g.tier] <=> f.tier = g.tier
  BY TierRanksDiffer DEF IsListed
<1> QED
  BY <1>1 DEF Precedes

LEMMA KeyTypes ==
    ASSUME NEW f, IsListed(f)
    PROVE  /\ tierRank[f.tier] \in Int /\ f.size \in Int
           /\ formRank(f.path)[1] \in Int /\ formRank(f.path)[2] \in Int
<1>1. tierRank[f.tier] \in Int /\ f.size \in Int
  BY TierRanks DEF IsListed
<1>2. PathRank[f.path.path] \in Int
  BY DocumentsAssumption DEF IsListed, Forms
<1>3. f.path.as \in {"plain", "home", "token"}
  BY DEF IsListed, Forms
<1>4. formRank(f.path)[1] \in Int /\ formRank(f.path)[2] \in Int
  BY <1>2, <1>3 DEF formRank
<1> QED
  BY <1>1, <1>4

LEMMA RowsRanked ==
    ASSUME NEW fs, IsListing(fs)
    PROVE  IsRanking({e \in (DOMAIN fs) \X (DOMAIN fs) : Precedes(fs[e[1]], fs[e[2]])}, DOMAIN fs)
<1> DEFINE less == {e \in (DOMAIN fs) \X (DOMAIN fs) : Precedes(fs[e[1]], fs[e[2]])}
           D    == DOMAIN fs
           a    == [i \in D |-> tierRank[fs[i].tier]]
           b    == [i \in D |-> fs[i].size]
           c    == [i \in D |-> formRank(fs[i].path)[1]]
           e    == [i \in D |-> formRank(fs[i].path)[2]]
<1>1. \A i \in D : a[i] \in Int /\ b[i] \in Int /\ c[i] \in Int /\ e[i] \in Int
  BY KeyTypes DEF IsListing
<1>2. \A i \in D, j \in D : <<i, j>> \in less <=>
          \/ a[i] < a[j]
          \/ /\ a[i] = a[j]
             /\ \/ b[i] > b[j]
                \/ /\ b[i] = b[j]
                   /\ c[i] < c[j] \/ (c[i] = c[j] /\ e[i] < e[j])
  <2> SUFFICES ASSUME NEW i \in D, NEW j \in D
               PROVE  <<i, j>> \in less <=>
                          \/ a[i] < a[j]
                          \/ /\ a[i] = a[j]
                             /\ \/ b[i] > b[j]
                                \/ /\ b[i] = b[j]
                                   /\ c[i] < c[j] \/ (c[i] = c[j] /\ e[i] < e[j])
    OBVIOUS
  <2>1. <<i, j>> \in less <=> Precedes(fs[i], fs[j])
    OBVIOUS
  <2>2. IsListed(fs[i]) /\ IsListed(fs[j])
    BY DEF IsListing
  <2> HIDE DEF less
  <2> QED
    BY <2>1, <2>2, PrecedesByKey
<1> HIDE DEF less, D, a, b, c, e
<1>3. IsRanking(less, D)
  <2>1. \A i \in D : <<i, i>> \notin less
    BY <1>1, <1>2
  <2>2. \A i \in D, j \in D, k \in D :
            <<i, j>> \in less /\ <<j, k>> \in less => <<i, k>> \in less
    BY <1>1, <1>2
  <2>3. \A i \in D, j \in D, k \in D :
            <<i, k>> \in less => <<i, j>> \in less \/ <<j, k>> \in less
    BY <1>1, <1>2
  <2> QED
    BY <2>1, <2>2, <2>3 DEF IsRanking
<1> QED
  BY <1>3 DEF less, D

(* The rows of a document are its findings, each once, and sorted.          *)
LEMMA RowsListed ==
    ASSUME NEW d, IsListing(d.findings)
    PROVE  \E h : /\ Lists(Rows(d), d.findings, DOMAIN d.findings, h)
                  /\ IsListing(Rows(d))
                  /\ DOMAIN Rows(d) = 1..Cardinality(DOMAIN d.findings)
                  /\ \A j \in DOMAIN Rows(d), k \in DOMAIN Rows(d) :
                        j < k => ~Precedes(Rows(d)[k], Rows(d)[j])
<1> DEFINE fs   == d.findings
           less == {e \in (DOMAIN fs) \X (DOMAIN fs) : Precedes(fs[e[1]], fs[e[2]])}
           n    == Cardinality(DOMAIN fs)
<1>1. Rows(d) = StableSort(fs, less)
  BY DEF Rows
<1>2. \A i \in DOMAIN fs, j \in DOMAIN fs : <<i, j>> \in less <=> Precedes(fs[i], fs[j])
  OBVIOUS
<1>3. IsRanking(less, DOMAIN fs) /\ IsFiniteSet(DOMAIN fs) /\ DOMAIN fs \subseteq Int
  BY RowsRanked DEF IsListing
<1>4. \A i \in DOMAIN fs : IsListed(fs[i])
  BY DEF IsListing
<1> HIDE DEF less, fs, n
<1>5. PICK h : /\ Lists(Rows(d), fs, DOMAIN fs, h)
               /\ \A j \in 1..Cardinality(DOMAIN fs), k \in 1..Cardinality(DOMAIN fs) :
                     j < k => <<h[k], h[j]>> \notin less
  BY <1>1, <1>3, StableSortLists
<1>6. /\ DOMAIN Rows(d) = 1..Cardinality(DOMAIN fs) /\ Cardinality(DOMAIN fs) \in Nat
      /\ \A k \in DOMAIN Rows(d) : h[k] \in DOMAIN fs /\ Rows(d)[k] = fs[h[k]]
  BY <1>5, ListedElements DEF Lists
<1>7. \A j \in DOMAIN Rows(d), k \in DOMAIN Rows(d) : j < k => ~Precedes(Rows(d)[k], Rows(d)[j])
  BY <1>2, <1>5, <1>6
<1>8. IsListing(Rows(d))
  <2>1. IsFiniteSet(1..Cardinality(DOMAIN fs)) /\ 1..Cardinality(DOMAIN fs) \subseteq Int
    BY <1>6, FS_Interval
  <2> QED
    BY <1>4, <1>6, <2>1 DEF IsListing
<1> QED
  BY <1>5, <1>6, <1>7, <1>8 DEF fs

-----------------------------------------------------------------------------
(* Totals                                                                   *)

InOrder(J) == {e \in J \X J : e[1] < e[2]}

SizeIn(s) == [i \in DOMAIN s |-> s[i].size]

(* What a part of some findings sums to, and how many it is.                *)
LEMMA PartSum ==
    ASSUME NEW s, IsFiniteSet(DOMAIN s), DOMAIN s \subseteq Int,
           \A i \in DOMAIN s : s[i].size \in Nat, NEW J, J \subseteq DOMAIN s
    PROVE  /\ SizesOf(Arranged(s, J, InOrder(J))) = SumFunctionOnSet(SizeIn(s), J)
           /\ Len(Arranged(s, J, InOrder(J))) = Cardinality(J)
           /\ DOMAIN Arranged(s, J, InOrder(J)) = 1..Cardinality(J)
           /\ IsFiniteSet(J) /\ Cardinality(J) \in Nat
<1> DEFINE g == SizeIn(s)
<1>1. IsFiniteSet(J) /\ J \subseteq Int
  BY FS_Subset
<1>2. PICK h : Lists(Arranged(s, J, InOrder(J)), s, J, h)
  BY <1>1, WhereLists DEF InOrder
<1>3. \A i \in J : g[i] = s[i].size /\ g[i] \in Int
  BY DEF SizeIn
<1> HIDE DEF g
<1>4. SizesOf(Arranged(s, J, InOrder(J))) = SumFunctionOnSet(g, J)
  BY <1>2, <1>3, ListedSum
<1>5. /\ Len(Arranged(s, J, InOrder(J))) = Cardinality(J)
      /\ DOMAIN Arranged(s, J, InOrder(J)) = 1..Cardinality(J)
  BY <1>2, ListedElements
<1>6. Cardinality(J) \in Nat
  BY <1>1, FS_CardinalityType
<1> QED
  BY <1>1, <1>4, <1>5, <1>6 DEF g

(* The same part of a list of them.                                         *)
LEMMA PartOfList ==
    ASSUME NEW r, IsFiniteSet(DOMAIN r), DOMAIN r \subseteq Int, NEW s, NEW h,
           \A k \in DOMAIN r : /\ h[k] \in DOMAIN s /\ r[k].size = s[h[k]].size
                               /\ r[k].size \in Nat,
           \A j \in DOMAIN r, k \in DOMAIN r : h[j] = h[k] => j = k,
           NEW J, J \subseteq DOMAIN r, NEW I, I = {h[k] : k \in J}
    PROVE  /\ SizesOf(Arranged(r, J, InOrder(J))) = SumFunctionOnSet(SizeIn(s), I)
           /\ Len(Arranged(r, J, InOrder(J))) = Cardinality(I)
<1> DEFINE f == SizeIn(r)
           g == SizeIn(s)
<1>1. \A k \in DOMAIN r : r[k].size \in Nat
  OBVIOUS
<1>2. /\ SizesOf(Arranged(r, J, InOrder(J))) = SumFunctionOnSet(f, J)
      /\ Len(Arranged(r, J, InOrder(J))) = Cardinality(J)
      /\ IsFiniteSet(J)
  BY ONLY <1>1, IsFiniteSet(DOMAIN r), DOMAIN r \subseteq Int, J \subseteq DOMAIN r, PartSum
<1>3. \A k \in J : f[k] \in Int
  BY DEF SizeIn
<1>4. \A k \in J : g[h[k]] = f[k]
  BY DEF SizeIn
<1>5. \A j \in J, k \in J : h[j] = h[k] => j = k
  OBVIOUS
<1> HIDE DEF f, g
<1>6. SumFunctionOnSet(f, J) = SumFunctionOnSet(g, {h[k] : k \in J})
  BY ONLY <1>2, <1>3, <1>4, <1>5, SumImage
<1>7. Cardinality({h[k] : k \in J}) = Cardinality(J)
  <2> DEFINE b == [k \in J |-> h[k]]
             T == {h[k] : k \in J}
  <2>1. b \in [J -> T] /\ (\A j, k \in J : b[j] = b[k] => j = k) /\ \A t \in T : \E k \in J : b[k] = t
    BY <1>5
  <2> HIDE DEF b, T
  <2>2. b \in Bijection(J, T)
    BY <2>1, Fun_IsBij
  <2> QED
    BY <1>2, <2>2, FS_Bijection DEF ExistsBijection, T
<1> QED
  BY <1>2, <1>6, <1>7 DEF f, g

(* Of all that was found: the total of each tier, and of several.           *)
LEMMA TierTotals ==
    ASSUME NEW all, AllFound(all), NEW T, T \subseteq DOMAIN SavingsFrom(all)
    PROVE  SumFunctionOnSet(SavingsFrom(all), T)
             = SumFunctionOnSet(SizeIn(all), {i \in DOMAIN all : all[i].tier \in T})
<1> DEFINE f == SizeIn(all)
           g == SavingsFrom(all)
           S == [t \in T |-> {i \in DOMAIN all : all[i].tier = t}]
           U == {i \in DOMAIN all : all[i].tier \in T}
           h == [i \in DOMAIN all |-> all[i].tier]
<1>1. IsFiniteSet(DOMAIN all) /\ DOMAIN all \subseteq Int
      /\ \A i \in DOMAIN all : all[i].size \in Nat
  BY DEF AllFound, IsFound
<1>2. DOMAIN g = {h[i] : i \in DOMAIN all}
  BY DEF SavingsFrom, Range
<1>3. IsFiniteSet(T)
  <2> HIDE DEF h, g
  <2>1. IsFiniteSet({h[i] : i \in DOMAIN all})
    BY <1>1, FiniteImage
  <2> QED
    BY <1>2, <2>1, FS_Subset DEF g
<1>4. ASSUME NEW t \in T
      PROVE  IsFiniteSet(S[t]) /\ (\A i \in S[t] : f[i] \in Int) /\ g[t] = SumFunctionOnSet(f, S[t])
  <2> DEFINE J == {i \in DOMAIN all : all[i].tier = t}
  <2>1. J \subseteq DOMAIN all /\ S[t] = J
    OBVIOUS
  <2>2. g[t] = SizesOf(Where(all, LAMBDA x : x.tier = t))
    BY DEF SavingsFrom
  <2>3. Where(all, LAMBDA x : x.tier = t) = Arranged(all, J, InOrder(J))
    BY DEF Where, InOrder
  <2>4. g[t] = SizesOf(Arranged(all, J, InOrder(J)))
    BY <2>2, <2>3
  <2>5. \A i \in J : f[i] \in Int
    BY <1>1 DEF SizeIn
  <2> HIDE DEF J, f, g, S
  <2>6. SizesOf(Arranged(all, J, InOrder(J))) = SumFunctionOnSet(f, J) /\ IsFiniteSet(J)
    BY <1>1, <2>1, PartSum DEF f
  <2> QED
    BY <2>1, <2>4, <2>5, <2>6
<1>5. /\ \A t \in T : IsFiniteSet(S[t]) /\ \A i \in S[t] : f[i] \in Int
      /\ \A t \in T : g[t] = SumFunctionOnSet(f, S[t])
  BY <1>4
<1>6. /\ DOMAIN S = T /\ \A t \in T, u \in T : t # u => S[t] \cap S[u] = {}
      /\ \A i : i \in U <=> \E t \in T : i \in S[t]
  OBVIOUS
<1> HIDE DEF f, g, S, U
<1>7. SumFunctionOnSet(f, U) = SumFunctionOnSet(g, T)
  BY ONLY <1>3, <1>5, <1>6, SumOfSums
<1> QED
  BY <1>7 DEF f, g, U

(* The totals of the list of a document, of the set K of the findings that   *)
(* are in it, whose sizes z gives.                                          *)
ListTotals(d, all, K, z) ==
    /\ SizesOf(d.findings) = SumFunctionOnSet(z, K)
    /\ \A t : SizesOf(Tier(d.findings, t)) = SumFunctionOnSet(z, {i \in K : all[i].tier = t})
    /\ Len(Gone(d.findings)) = Cardinality({i \in K : all[i].missing})
    /\ Worklist(d).total = SumFunctionOnSet(z, {i \in K : reclaimable(all[i].tier)})

(* Of a document: what it lists, by tier, of what is missing, and of what   *)
(* its worklist announces.                                                  *)
LEMMA ListedTotals ==
    ASSUME NEW d, IsListing(d.findings), NEW all, AllFound(all), NEW h, ListsKept(d, all, h),
           NEW K, K = {i \in DOMAIN all : all[i].size >= d.filter.min},
           NEW z, z = SizeIn(all)
    PROVE  ListTotals(d, all, K, z)
<1> DEFINE fs == d.findings
           D  == DOMAIN fs
<1>1. /\ D = 1..Cardinality(K) /\ h \in [D -> K]
      /\ \A i \in K : \E k \in D : h[k] = i
      /\ \A j \in D, k \in D : h[j] = h[k] => j = k
      /\ \A k \in D : /\ fs[k].tier = all[h[k]].tier /\ fs[k].size = all[h[k]].size
                      /\ fs[k].missing = all[h[k]].missing
  BY DEF ListsKept
<1>2. IsFiniteSet(D) /\ D \subseteq Int /\ \A k \in D : fs[k].size \in Nat
  BY DEF IsListing, IsListed
<1>3. K \subseteq DOMAIN all
  OBVIOUS
<1>4. SizesOf(fs) = SumFunctionOnSet(SizeIn(fs), D)
  BY DEF SizesOf, SumFunction, SizeIn
<1>5. \A t : Tier(fs, t) = Arranged(fs, {k \in D : fs[k].tier = t}, InOrder({k \in D : fs[k].tier = t}))
  BY DEF Tier, Where, InOrder
<1>6. Gone(fs) = Arranged(fs, {k \in D : fs[k].missing}, InOrder({k \in D : fs[k].missing}))
  BY DEF Gone, Where, InOrder
<1> DEFINE r == Rows(d)
           J == {k \in DOMAIN r : reclaimable(r[k].tier)}
<1>7. Worklist(d).total = SizesOf(Arranged(r, J, InOrder(J)))
  <2>1. Worklist(d).total = SizesOf(Where(r, LAMBDA x : reclaimable(x.tier)))
    BY DEF Worklist
  <2>2. Where(r, LAMBDA x : reclaimable(x.tier)) = Arranged(r, J, InOrder(J))
    BY DEF Where, InOrder
  <2> QED
    BY <2>1, <2>2
<1>8. PICK q : Lists(r, fs, D, q) /\ IsListing(r)
  BY RowsListed
<1>9. /\ \A k \in DOMAIN r : q[k] \in D /\ r[k] = fs[q[k]]
      /\ \A i \in D : \E k \in DOMAIN r : q[k] = i
      /\ \A j \in DOMAIN r, k \in DOMAIN r : q[j] = q[k] => j = k
  BY <1>8, ListedElements DEF Lists
<1>10. /\ IsFiniteSet(DOMAIN r) /\ DOMAIN r \subseteq Int
       /\ \A k \in DOMAIN r : r[k].size \in Nat
  BY <1>8 DEF IsListing, IsListed
<1> HIDE DEF fs, D, r
<1>11. SizesOf(fs) = SumFunctionOnSet(z, K)
  <2> DEFINE f == SizeIn(fs)
  <2>1. /\ \A k \in D : f[k] \in Int
        /\ \A k \in D : z[h[k]] = f[k]
    BY <1>1, <1>2, <1>3 DEF SizeIn, D
  <2>2. {h[k] : k \in D} = K
    BY <1>1
  <2>4. (\A j \in D, k \in D : h[j] = h[k] => j = k) /\ IsFiniteSet(D)
    BY <1>1, <1>2
  <2> HIDE DEF f
  <2>3. SumFunctionOnSet(f, D) = SumFunctionOnSet(z, {h[k] : k \in D})
    BY ONLY <2>1, <2>4, SumImage
  <2> QED
    BY <1>4, <2>2, <2>3 DEF f
<1>12. /\ IsFiniteSet(DOMAIN fs) /\ DOMAIN fs \subseteq Int
       /\ \A k \in DOMAIN fs : /\ h[k] \in DOMAIN all /\ fs[k].size = all[h[k]].size
                                /\ fs[k].size \in Nat
       /\ \A j \in DOMAIN fs, k \in DOMAIN fs : h[j] = h[k] => j = k
  BY <1>1, <1>2, <1>3 DEF D
<1>13. ASSUME NEW t
       PROVE  SizesOf(Tier(fs, t)) = SumFunctionOnSet(z, {i \in K : all[i].tier = t})
  <2> DEFINE H == {k \in D : fs[k].tier = t}
             I == {i \in K : all[i].tier = t}
  <2>1. H \subseteq DOMAIN fs /\ I = {h[k] : k \in H}
    BY <1>1 DEF D
  <2>2. Tier(fs, t) = Arranged(fs, H, InOrder(H))
    BY <1>5
  <2> HIDE DEF H, I
  <2>3. SizesOf(Arranged(fs, H, InOrder(H))) = SumFunctionOnSet(SizeIn(all), I)
    BY ONLY <1>12, <2>1, PartOfList
  <2> QED
    BY <2>2, <2>3 DEF I
<1>14. Len(Gone(fs)) = Cardinality({i \in K : all[i].missing})
  <2> DEFINE H == {k \in D : fs[k].missing}
             I == {i \in K : all[i].missing}
  <2>1. H \subseteq DOMAIN fs /\ I = {h[k] : k \in H}
    BY <1>1 DEF D
  <2>2. Gone(fs) = Arranged(fs, H, InOrder(H))
    BY <1>6
  <2> HIDE DEF H, I
  <2>3. Len(Arranged(fs, H, InOrder(H))) = Cardinality(I)
    BY ONLY <1>12, <2>1, PartOfList
  <2> QED
    BY <2>2, <2>3 DEF I
<1>15. Worklist(d).total = SumFunctionOnSet(z, {i \in K : reclaimable(all[i].tier)})
  <2> DEFINE b == [k \in DOMAIN r |-> h[q[k]]]
             I == {i \in K : reclaimable(all[i].tier)}
  <2>1. \A k \in DOMAIN r : /\ b[k] \in K /\ b[k] \in DOMAIN all
                            /\ r[k].size = all[b[k]].size /\ r[k].tier = all[b[k]].tier
    BY <1>1, <1>3, <1>9
  <2>2. \A j \in DOMAIN r, k \in DOMAIN r : b[j] = b[k] => j = k
    BY <1>1, <1>9
  <2>3. \A i \in K : \E k \in DOMAIN r : b[k] = i
    BY <1>1, <1>9
  <2> HIDE DEF b
  <2>4. J \subseteq DOMAIN r /\ I = {b[k] : k \in J}
    BY <2>1, <2>3
  <2> HIDE DEF I, J
  <2>5. SizesOf(Arranged(r, J, InOrder(J))) = SumFunctionOnSet(SizeIn(all), I)
    BY <1>10, <2>1, <2>2, <2>4, PartOfList
  <2> QED
    BY <1>7, <2>5 DEF I
<1> QED
  BY <1>11, <1>13, <1>14, <1>15 DEF fs, ListTotals

(* What a document has to account for.                                      *)
Accounts(d) ==
    LET listed == d.findings
        total  == Worklist(d).total
        gone   == Len(Gone(listed))
    IN  /\ SumFunction(d.tiers) = SizesOf(listed) + d.filter.bytes
        /\ \A i \in DOMAIN listed :
            /\ listed[i].size >= d.filter.min
            /\ listed[i].tier \in DOMAIN d.tiers
        /\ \A t \in DOMAIN d.tiers : SizesOf(Tier(listed, t)) <= d.tiers[t]
        /\ total <= d.reclaimable /\ d.reclaimable <= total + d.filter.bytes
        /\ gone <= d.missing.count /\ d.missing.count <= gone + d.filter.count

(* A part of the whole and the rest.                                        *)
LEMMA PartAndRest ==
    ASSUME NEW z, NEW D, IsFiniteSet(D), \A i \in D : z[i] \in Nat,
           NEW K, K \subseteq D, NEW P, P \subseteq D
    PROVE  /\ SumFunctionOnSet(z, P \cap K) \in Nat /\ SumFunctionOnSet(z, P) \in Nat
           /\ SumFunctionOnSet(z, D \ K) \in Nat
           /\ SumFunctionOnSet(z, P \cap K) <= SumFunctionOnSet(z, P)
           /\ SumFunctionOnSet(z, P) <= SumFunctionOnSet(z, P \cap K) + SumFunctionOnSet(z, D \ K)
<1> DEFINE A == P \cap K
           B == P \ K
           C == D \ K
<1>1. /\ A \cup B = P /\ A \cap B = {} /\ A \subseteq P /\ B \subseteq C
      /\ IsFiniteSet(A) /\ IsFiniteSet(B) /\ IsFiniteSet(C) /\ IsFiniteSet(P)
  BY FS_Subset
<1>2. (\A i \in P : z[i] \in Nat) /\ (\A i \in C : z[i] \in Nat) /\ (\A i \in A \cup B : z[i] \in Int)
  OBVIOUS
<1> HIDE DEF A, B, C
<1>3. SumFunctionOnSet(z, A \cup B) = SumFunctionOnSet(z, A) + SumFunctionOnSet(z, B)
  BY ONLY <1>1, <1>2, SumUnion
<1>4. /\ SumFunctionOnSet(z, P) \in Nat /\ SumFunctionOnSet(z, A) \in Nat
      /\ SumFunctionOnSet(z, A) <= SumFunctionOnSet(z, P)
  BY ONLY <1>1, <1>2, SumPart
<1>5. /\ SumFunctionOnSet(z, C) \in Nat /\ SumFunctionOnSet(z, B) \in Nat
      /\ SumFunctionOnSet(z, B) <= SumFunctionOnSet(z, C)
  BY ONLY <1>1, <1>2, SumPart
<1>6. SumFunctionOnSet(z, P) = SumFunctionOnSet(z, A) + SumFunctionOnSet(z, B)
  BY <1>1, <1>3
<1>7. SumFunctionOnSet(z, P) <= SumFunctionOnSet(z, A) + SumFunctionOnSet(z, C)
  BY ONLY <1>4, <1>5, <1>6
<1> QED
  BY <1>4, <1>5, <1>7 DEF A, C

LEMMA CountPartAndRest ==
    ASSUME NEW D, IsFiniteSet(D), NEW K, K \subseteq D, NEW P, P \subseteq D
    PROVE  /\ Cardinality(P \cap K) <= Cardinality(P)
           /\ Cardinality(P) <= Cardinality(P \cap K) + Cardinality(D \ K)
<1> DEFINE A == P \cap K
           B == P \ K
           C == D \ K
<1>1. /\ P \cap K = A /\ P \ K = B /\ A \subseteq P /\ B \subseteq C
      /\ IsFiniteSet(A) /\ IsFiniteSet(B) /\ IsFiniteSet(C) /\ IsFiniteSet(P)
  BY FS_Subset
<1> HIDE DEF A, B, C
<1>2. Cardinality(P \ K) = Cardinality(P) - Cardinality(P \cap K)
  BY ONLY <1>1, FS_Difference
<1>3. Cardinality(A) <= Cardinality(P)
  BY ONLY <1>1, FS_Subset
<1>4. Cardinality(B) <= Cardinality(C)
  BY ONLY <1>1, FS_Subset
<1>5. Cardinality(A) \in Int /\ Cardinality(P) \in Int /\ Cardinality(B) \in Int /\ Cardinality(C) \in Int
  BY ONLY <1>1, FS_CardinalityType
<1>6. Cardinality(B) = Cardinality(P) - Cardinality(A)
  BY <1>1, <1>2
<1>7. Cardinality(P) <= Cardinality(A) + Cardinality(C)
  BY ONLY <1>4, <1>5, <1>6
<1> QED
  BY <1>3, <1>7 DEF A, C

LEMMA CompleteAccounts ==
    ASSUME NEW d, IsDocument(d), Complete(d)
    PROVE  Accounts(d)
<1>1. PICK all, h : AllFound(all) /\ ListsKept(d, all, h) /\ TotalsOf(d, all)
  BY DEF Complete, StandsFor
<1> DEFINE D == DOMAIN all
           K == {i \in D : all[i].size >= d.filter.min}
           C == {i \in D : all[i].size < d.filter.min}
           z == SizeIn(all)
           fs == d.findings
           tiers == SavingsFrom(all)
           gone == {i \in D : all[i].missing}
           back == {i \in D : reclaimable(all[i].tier)}
           S(T) == SumFunctionOnSet(z, T)
<1>2. IsListing(fs)
  BY DocumentListing
<1>3. /\ SizesOf(fs) = S(K)
      /\ \A t : SizesOf(Tier(fs, t)) = S({i \in K : all[i].tier = t})
      /\ Len(Gone(fs)) = Cardinality({i \in K : all[i].missing})
      /\ Worklist(d).total = S({i \in K : reclaimable(all[i].tier)})
  <2>1. IsListing(d.findings) /\ AllFound(all) /\ ListsKept(d, all, h)
    BY <1>1, <1>2
  <2>2. K = {i \in DOMAIN all : all[i].size >= d.filter.min} /\ z = SizeIn(all)
    OBVIOUS
  <2> HIDE DEF K, z
  <2>3. ListTotals(d, all, K, z)
    BY ONLY <2>1, <2>2, ListedTotals
  <2> QED
    BY <2>3 DEF ListTotals
<1>4. /\ IsFiniteSet(D) /\ D \subseteq Int /\ \A i \in D : all[i].size \in Nat /\ z[i] \in Nat
  BY <1>1 DEF AllFound, IsFound, SizeIn
<1>5. /\ Len(Gone(all)) = Cardinality(gone)
      /\ Len(OpportunitiesReportFrom(all, d.filter.min).omitted) = Cardinality(C)
      /\ SizesOf(OpportunitiesReportFrom(all, d.filter.min).omitted) = S(C)
  <2>1. Gone(all) = Arranged(all, gone, InOrder(gone))
    BY DEF Gone, Where, InOrder
  <2>2. OpportunitiesReportFrom(all, d.filter.min).omitted = Arranged(all, C, InOrder(C))
    <3>1. OpportunitiesReportFrom(all, d.filter.min).omitted
            = Where(all, LAMBDA f : f.size < d.filter.min)
      BY DEF OpportunitiesReportFrom
    <3>2. Where(all, LAMBDA f : f.size < d.filter.min) = Arranged(all, C, InOrder(C))
      BY DEF Where, InOrder
    <3> QED
      BY <3>1, <3>2
  <2>3. C \subseteq D /\ gone \subseteq D
    OBVIOUS
  <2> HIDE DEF C, gone
  <2>4. Len(Arranged(all, gone, InOrder(gone))) = Cardinality(gone)
    BY <1>4, <2>3, PartSum DEF D
  <2>5. /\ Len(Arranged(all, C, InOrder(C))) = Cardinality(C)
        /\ SizesOf(Arranged(all, C, InOrder(C))) = SumFunctionOnSet(SizeIn(all), C)
    BY <1>4, <2>3, PartSum DEF D
  <2> QED
    BY <2>1, <2>2, <2>4, <2>5 DEF z
<1>6. DOMAIN tiers = {all[i].tier : i \in D}
  BY DEF SavingsFrom, Range
<1>7. /\ SumFunctionOnSet(tiers, DOMAIN tiers) = S(D)
      /\ SumFunctionOnSet(tiers, {t \in DOMAIN tiers : reclaimable(t)}) = S(back)
      /\ \A t \in DOMAIN tiers : SumFunctionOnSet(tiers, {t}) = S({i \in D : all[i].tier = t})
  <2>1. \A T : T \subseteq DOMAIN tiers => SumFunctionOnSet(tiers, T) = S({i \in D : all[i].tier \in T})
    BY <1>1, TierTotals
  <2>2. {i \in D : all[i].tier \in DOMAIN tiers} = D
    BY <1>6
  <2>3. {i \in D : all[i].tier \in {t \in DOMAIN tiers : reclaimable(t)}} = back
    BY <1>6
  <2>4. \A t \in DOMAIN tiers : {i \in D : all[i].tier \in {t}} = {i \in D : all[i].tier = t}
    OBVIOUS
  <2> HIDE DEF tiers, back, S, D
  <2>5. SumFunctionOnSet(tiers, DOMAIN tiers) = S({i \in D : all[i].tier \in DOMAIN tiers})
    BY <2>1
  <2>6. SumFunctionOnSet(tiers, {t \in DOMAIN tiers : reclaimable(t)})
          = S({i \in D : all[i].tier \in {t \in DOMAIN tiers : reclaimable(t)}})
    BY <2>1
  <2>7. \A t \in DOMAIN tiers : SumFunctionOnSet(tiers, {t}) = S({i \in D : all[i].tier \in {t}})
    BY <2>1
  <2> QED
    BY <2>2, <2>3, <2>4, <2>5, <2>6, <2>7
<1>8. \A t \in DOMAIN tiers : tiers[t] = S({i \in D : all[i].tier = t})
  <2> SUFFICES ASSUME NEW t \in DOMAIN tiers PROVE tiers[t] = S({i \in D : all[i].tier = t})
    OBVIOUS
  <2> DEFINE J == {i \in D : all[i].tier = t}
  <2>1. tiers[t] = SizesOf(Where(all, LAMBDA x : x.tier = t))
    BY DEF SavingsFrom
  <2>2. Where(all, LAMBDA x : x.tier = t) = Arranged(all, J, InOrder(J))
    BY DEF Where, InOrder
  <2>3. J \subseteq D /\ tiers[t] = SizesOf(Arranged(all, J, InOrder(J)))
    BY <2>1, <2>2
  <2> HIDE DEF J, tiers
  <2>4. SizesOf(Arranged(all, J, InOrder(J))) = SumFunctionOnSet(SizeIn(all), J)
    BY <1>4, <2>3, PartSum DEF D
  <2> QED
    BY <2>3, <2>4 DEF z, J
<1>9. /\ SumFunction(d.tiers) = S(D) /\ d.reclaimable = S(back) /\ d.filter.bytes = S(C)
      /\ d.missing.count = Cardinality(gone) /\ d.filter.count = Cardinality(C)
      /\ d.tiers = tiers
  <2>1. /\ d.tiers = tiers /\ d.reclaimable = Reclaimable(tiers)
        /\ d.missing.count = Len(Gone(all))
        /\ d.filter.count = Len(OpportunitiesReportFrom(all, d.filter.min).omitted)
        /\ d.filter.bytes = SizesOf(OpportunitiesReportFrom(all, d.filter.min).omitted)
    BY <1>1 DEF TotalsOf
  <2>2. Reclaimable(tiers) = S(back) /\ SumFunction(tiers) = S(D)
    BY <1>7 DEF Reclaimable, SumFunction
  <2> HIDE DEF tiers, back, S, D, C, gone
  <2> QED
    BY <1>5, <2>1, <2>2
<1>10. D \ K = C /\ K \subseteq D
  <2>1. \A i \in D : ~(all[i].size >= d.filter.min) <=> all[i].size < d.filter.min
    BY <1>1, <1>4 DEF TotalsOf
  <2> QED
    BY <2>1
<1>11. \A i \in DOMAIN fs : fs[i].size >= d.filter.min /\ fs[i].tier \in DOMAIN tiers
  <2>1. \A i \in DOMAIN fs : h[i] \in K /\ fs[i].size = all[h[i]].size /\ fs[i].tier = all[h[i]].tier
    BY <1>1 DEF ListsKept
  <2> QED
    BY <1>6, <2>1
<1>12. /\ {i \in K : all[i].missing} = gone \cap K
       /\ {i \in K : reclaimable(all[i].tier)} = back \cap K
       /\ \A t : {i \in K : all[i].tier = t} = {i \in D : all[i].tier = t} \cap K
       /\ gone \subseteq D /\ back \subseteq D /\ D \cap K = K
       /\ \A t : {i \in D : all[i].tier = t} \subseteq D
  BY <1>10
<1> HIDE DEF K, C, D, gone, back, z, tiers, fs
<1>13. \A P : P \subseteq D => /\ S(P \cap K) <= S(P) /\ S(P) <= S(P \cap K) + S(C)
                               /\ S(P \cap K) \in Nat
  BY <1>4, <1>10, PartAndRest
<1>14. S(D) = S(K) + S(C)
  <2>1. IsFiniteSet(K) /\ IsFiniteSet(C) /\ K \cap C = {} /\ K \cup C = D
    <3>1. C \subseteq D /\ K \cap C = {} /\ K \cup C = D
      BY <1>10
    <3> QED
      BY <1>4, <1>10, <3>1, FS_Subset
  <2>2. \A i \in K \cup C : z[i] \in Int
    <3>1. \A i \in D : z[i] \in Int
      BY <1>4
    <3> QED
      BY <2>1, <3>1
  <2>3. S(K \cup C) = S(K) + S(C)
    BY ONLY <2>1, <2>2, SumUnion
  <2> HIDE DEF S
  <2> QED
    BY <2>1, <2>3
<1>15. /\ Cardinality(gone \cap K) <= Cardinality(gone)
       /\ Cardinality(gone) <= Cardinality(gone \cap K) + Cardinality(C)
  BY <1>4, <1>10, <1>12, CountPartAndRest
<1>16. /\ S(back \cap K) <= S(back) /\ S(back) <= S(back \cap K) + S(C)
  BY <1>12, <1>13
<1>17. \A t : S({i \in D : all[i].tier = t} \cap K) <= S({i \in D : all[i].tier = t})
  <2> HIDE DEF S
  <2> QED
    BY <1>12, <1>13
<1> HIDE DEF S
<1>18. /\ Worklist(d).total = S(back \cap K) /\ Len(Gone(fs)) = Cardinality(gone \cap K)
       /\ \A t : SizesOf(Tier(fs, t)) = S({i \in D : all[i].tier = t} \cap K)
  BY <1>3, <1>12
<1>19. \A t \in DOMAIN tiers : SizesOf(Tier(fs, t)) <= tiers[t]
  BY <1>8, <1>17, <1>18
<1>20. SumFunction(d.tiers) = SizesOf(fs) + d.filter.bytes
  BY <1>3, <1>9, <1>14
<1>21. /\ Worklist(d).total <= d.reclaimable
       /\ d.reclaimable <= Worklist(d).total + d.filter.bytes
  BY <1>9, <1>16, <1>18
<1>22. /\ Len(Gone(fs)) <= d.missing.count
       /\ d.missing.count <= Len(Gone(fs)) + d.filter.count
  BY <1>9, <1>15, <1>18
<1> QED
  BY <1>9, <1>11, <1>19, <1>20, <1>21, <1>22 DEF Accounts, fs

(* Built or read back, redacted or not, of any findings and for any cut: a  *)
(* document accounts for every byte that was found                          *)
(* (reportdoc/build.go:28-111, service/opportunities.go:59-73, 241-258,     *)
(* report/markdown.go:66-76).                                               *)
THEOREM DocumentsAccount == Spec => []Accounted
<1>1. DInv => Accounted
  <2> SUFFICES ASSUME DInv, pc = "render" PROVE Accounted
    BY DEF Accounted
  <2>1. Accounts(doc)
    BY CompleteAccounts DEF DInv, Sound
  <2> QED
    BY <2>1 DEF Accounts, Accounted, Gone
<1>2. Init => DInv
  BY DEF Init, DInv, Redacted, Absent
<1> QED
  BY <1>1, <1>2, InitFInv, NextFInv, NextDInv, PTL DEF Spec

-----------------------------------------------------------------------------
(* What the renderings list                                                 *)

(* A part of a list of all of s lists that part of s.                       *)
LEMMA PartListed ==
    ASSUME NEW s, IsFiniteSet(DOMAIN s), NEW r, NEW q, Lists(r, s, DOMAIN s, q),
           NEW J, J \subseteq DOMAIN r, NEW I, I = {q[k] : k \in J}
    PROVE  \E c : Lists(Arranged(r, J, InOrder(J)), s, I, c)
<1>1. /\ DOMAIN r = 1..Cardinality(DOMAIN s) /\ Cardinality(DOMAIN s) \in Nat
      /\ \A k \in DOMAIN r : q[k] \in DOMAIN s /\ r[k] = s[q[k]]
      /\ \A j \in DOMAIN r, k \in DOMAIN r : q[j] = q[k] => j = k
  BY ListedElements DEF Lists
<1>2. IsFiniteSet(J) /\ J \subseteq Int
  <2>1. IsFiniteSet(DOMAIN r) /\ DOMAIN r \subseteq Int
    BY <1>1, FS_Interval
  <2> QED
    BY <2>1, FS_Subset
<1>3. PICK a : Lists(Arranged(r, J, InOrder(J)), r, J, a)
  BY <1>2, WhereLists DEF InOrder
<1>4. IsFiniteSet(I) /\ Cardinality(I) = Cardinality(J)
  <2> DEFINE b == [k \in J |-> q[k]]
  <2>1. b \in [J -> I] /\ (\A j, k \in J : b[j] = b[k] => j = k) /\ \A i \in I : \E k \in J : b[k] = i
    BY <1>1
  <2> HIDE DEF b
  <2>2. b \in Bijection(J, I)
    BY <2>1, Fun_IsBij
  <2> QED
    BY <1>2, <2>2, FS_Bijection DEF ExistsBijection
<1> DEFINE w == Arranged(r, J, InOrder(J))
           n == Cardinality(I)
           c == [k \in 1..n |-> q[a[k]]]
<1> HIDE DEF w
<1>5. /\ n \in Nat /\ a \in [1..n -> J]
      /\ \A k \in J : \E j \in 1..n : a[j] = k
      /\ \A j \in 1..n, k \in 1..n : a[j] = a[k] => j = k
      /\ w = [k \in 1..n |-> r[a[k]]]
  BY <1>3, <1>4 DEF Lists, w
<1> HIDE DEF n
<1>6. \A k \in 1..n : a[k] \in J /\ c[k] = q[a[k]] /\ c[k] \in I
  BY <1>5
<1>7. c \in [1..n -> I]
  BY <1>6
<1>8. \A i \in I : \E k \in 1..n : c[k] = i
  BY <1>5, <1>6
<1>9. \A j \in 1..n, k \in 1..n : c[j] = c[k] => j = k
  BY <1>1, <1>5, <1>6
<1>10. w = [k \in 1..n |-> s[c[k]]]
  <2>1. \A k \in 1..n : r[a[k]] = s[c[k]]
    BY <1>1, <1>6
  <2> HIDE DEF c
  <2> QED
    BY <1>5, <2>1
<1> HIDE DEF c
<1>11. Lists(w, s, I, c)
  BY <1>4, <1>5, <1>7, <1>8, <1>9, <1>10 DEF Lists, n
<1> QED
  BY <1>11 DEF w

(* The rows that pass a test are the findings that do.                      *)
LEMMA RowsOf ==
    ASSUME NEW d, IsListing(d.findings),
           NEW I, I \subseteq DOMAIN d.findings,
           NEW J, J \subseteq DOMAIN Rows(d),
           \A k \in DOMAIN Rows(d) : k \in J <=> \E i \in I : Rows(d)[k] = d.findings[i],
           \A i \in DOMAIN d.findings, j \in I : d.findings[i] = d.findings[j] => i \in I,
           NEW v, v = Arranged(Rows(d), J, InOrder(J)),
           NEW w, w = Arranged(d.findings, I, InOrder(I))
    PROVE  /\ \A e : Occurrences(v, e) = Occurrences(w, e)
           /\ SizesOf(v) = SizesOf(w) /\ Range(v) = Range(w)
           /\ \A e : Occurrences(v, e) = Cardinality({i \in I : d.findings[i] = e})
           /\ IsListing(v)
<1> DEFINE fs == d.findings
           r  == Rows(d)
<1>1. PICK q : Lists(r, fs, DOMAIN fs, q) /\ IsListing(r)
  BY RowsListed
<1>2. /\ \A k \in DOMAIN r : q[k] \in DOMAIN fs /\ r[k] = fs[q[k]]
      /\ \A i \in DOMAIN fs : \E k \in DOMAIN r : q[k] = i
  BY <1>1, ListedElements DEF Lists
<1>3. I = {q[k] : k \in J}
  BY <1>2
<1>4. IsFiniteSet(DOMAIN fs) /\ DOMAIN fs \subseteq Int /\ \A i \in DOMAIN fs : IsListed(fs[i])
  BY DEF IsListing
<1>5. IsFiniteSet(I) /\ I \subseteq Int
  BY <1>4, FS_Subset
<1>6. PICK a : Lists(w, fs, I, a)
  BY <1>5, WhereLists DEF InOrder
<1>7. PICK c : Lists(v, fs, I, c)
  <2>1. J \subseteq DOMAIN r /\ v = Arranged(r, J, InOrder(J))
    OBVIOUS
  <2> HIDE DEF r, fs
  <2>2. \E c : Lists(Arranged(r, J, InOrder(J)), fs, I, c)
    BY ONLY <1>1, <1>3, <1>4, <2>1, PartListed
  <2> QED
    BY <2>1, <2>2
<1> DEFINE g == SizeIn(fs)
<1>8. \A i \in I : g[i] = fs[i].size /\ g[i] \in Int
  BY <1>4 DEF SizeIn, IsListed
<1> HIDE DEF g, fs, r
<1>9. SizesOf(v) = SumFunctionOnSet(g, I) /\ SizesOf(w) = SumFunctionOnSet(g, I)
  BY <1>6, <1>7, <1>8, ListedSum
<1>10. \A e : /\ Occurrences(v, e) = Cardinality({i \in I : fs[i] = e})
              /\ Occurrences(w, e) = Cardinality({i \in I : fs[i] = e})
  BY <1>6, <1>7, ListedOccurrences
<1>11. Range(v) = {fs[i] : i \in I} /\ Range(w) = {fs[i] : i \in I}
  BY <1>6, <1>7, ListedElements
<1>12. IsListing(v)
  <2>1. /\ DOMAIN v = 1..Cardinality(I) /\ Cardinality(I) \in Nat
        /\ \A k \in DOMAIN v : c[k] \in I /\ v[k] = fs[c[k]]
    BY <1>7, ListedElements DEF Lists
  <2>2. IsFiniteSet(1..Cardinality(I)) /\ 1..Cardinality(I) \subseteq Int
    BY <2>1, FS_Interval
  <2> QED
    BY <1>4, <2>1, <2>2 DEF IsListing, fs
<1> QED
  BY <1>9, <1>10, <1>11, <1>12 DEF fs

(* A tier's rows are its findings, and have their bytes.                    *)
LEMMA RowsOfTier ==
    ASSUME NEW d, IsListing(d.findings), NEW t,
           NEW v, v = Where(Rows(d), LAMBDA r : r.tier = t)
    PROVE  /\ SizesOf(v) = SizesOf(Tier(d.findings, t))
           /\ \A f \in Range(d.findings) :
                f.tier = t => Occurrences(v, f) = Occurrences(d.findings, f)
<1> DEFINE fs == d.findings
           r  == Rows(d)
           I  == {i \in DOMAIN fs : fs[i].tier = t}
           J  == {k \in DOMAIN r : r[k].tier = t}
<1>1. v = Arranged(r, J, InOrder(J))
  BY DEF Where, InOrder
<1>2. Tier(fs, t) = Arranged(fs, I, InOrder(I))
  BY DEF Tier, Where, InOrder
<1>3. \A k \in DOMAIN r : k \in J <=> \E i \in I : r[k] = fs[i]
  <2>1. PICK q : Lists(r, fs, DOMAIN fs, q)
    BY RowsListed
  <2>2. \A k \in DOMAIN r : q[k] \in DOMAIN fs /\ r[k] = fs[q[k]]
    BY <2>1, ListedElements
  <2> QED
    BY <2>2
<1>4. I \subseteq DOMAIN fs /\ J \subseteq DOMAIN r
  OBVIOUS
<1>5. \A i \in DOMAIN fs, j \in I : fs[i] = fs[j] => i \in I
  OBVIOUS
<1>6. \A f : f.tier = t => {i \in I : fs[i] = f} = {i \in DOMAIN fs : fs[i] = f}
  OBVIOUS
<1> DEFINE w == Arranged(fs, I, InOrder(I))
<1>7. w = Arranged(fs, I, InOrder(I))
  OBVIOUS
<1> HIDE DEF I, J, w
<1>8. SizesOf(v) = SizesOf(w) /\ \A e : Occurrences(v, e) = Cardinality({i \in I : fs[i] = e})
  BY ONLY IsListing(d.findings), <1>1, <1>3, <1>4, <1>5, <1>7, RowsOf
<1> QED
  BY <1>2, <1>6, <1>7, <1>8 DEF Occurrences

(* The sections are those of the tiers that have findings, each once and    *)
(* the most actionable first.                                               *)
LEMMA SectionsOrdered ==
    ASSUME NEW d, IsListing(d.findings), NEW order, order = TierOrder(Rows(d))
    PROVE  /\ \A i \in DOMAIN order, j \in DOMAIN order :
                i < j => tierRank[order[i]] < tierRank[order[j]]
           /\ \A f \in Range(d.findings) : \E i \in DOMAIN order : order[i] = f.tier
<1> DEFINE r == Rows(d)
           s == [i \in DOMAIN r |-> r[i].tier]
           I == {i \in DOMAIN r : \A j \in 1..(i - 1) : r[j].tier # r[i].tier}
           n == Cardinality(DOMAIN d.findings)
<1>1. order = Arranged(s, I, InOrder(I))
  BY DEF TierOrder, InOrder
<1>2. PICK q : /\ Lists(r, d.findings, DOMAIN d.findings, q) /\ IsListing(r)
               /\ DOMAIN r = 1..n
               /\ \A j \in DOMAIN r, k \in DOMAIN r : j < k => ~Precedes(r[k], r[j])
  BY RowsListed
<1>3. /\ \A i \in DOMAIN d.findings : \E k \in DOMAIN r : q[k] = i
      /\ \A k \in DOMAIN r : r[k] = d.findings[q[k]]
      /\ n \in Nat
  BY <1>2, ListedElements DEF Lists
<1>4. I \subseteq DOMAIN r /\ IsFiniteSet(I) /\ I \subseteq Int
  <2>1. IsFiniteSet(DOMAIN r) /\ DOMAIN r \subseteq Int
    BY <1>2 DEF IsListing
  <2>2. I \subseteq DOMAIN r
    OBVIOUS
  <2> HIDE DEF I
  <2> QED
    BY <2>1, <2>2, FS_Subset
<1>5. \A i \in I, j \in I : j < i => r[j].tier # r[i].tier
  <2> SUFFICES ASSUME NEW i \in I, NEW j \in I, j < i PROVE r[j].tier # r[i].tier
    OBVIOUS
  <2>1. j \in 1..(i - 1)
    BY <1>2, <1>3, <1>4
  <2> QED
    BY <2>1
<1>6. ASSUME NEW k \in DOMAIN r PROVE \E i \in I : r[i].tier = r[k].tier
  <2> DEFINE S == {i \in DOMAIN r : r[i].tier = r[k].tier}
  <2>1. S \subseteq Nat /\ k \in S
    BY <1>2, <1>3
  <2>2. PICK i \in S : \A m \in S : i <= m
    BY <2>1, LeastNat
  <2>3. \A j \in 1..(i - 1) : r[j].tier # r[i].tier
    <3> SUFFICES ASSUME NEW j \in 1..(i - 1), r[j].tier = r[i].tier PROVE FALSE
      OBVIOUS
    <3>1. j \in DOMAIN r /\ j < i /\ i \in Int /\ j \in Int
      BY <1>2, <1>3, <2>2
    <3>2. j \in S
      BY <2>2, <3>1
    <3> QED
      BY <2>2, <3>1, <3>2
  <2> QED
    BY <2>2, <2>3
<1> HIDE DEF I, s
<1>7. PICK h : /\ Lists(order, s, I, h)
               /\ \A j \in 1..Cardinality(I), k \in 1..Cardinality(I) : j < k <=> h[j] < h[k]
  <2>1. \E h : /\ Lists(Arranged(s, I, InOrder(I)), s, I, h)
                /\ \A j \in 1..Cardinality(I), k \in 1..Cardinality(I) : j < k <=> h[j] < h[k]
    BY ONLY <1>4, WhereLists DEF InOrder
  <2> QED
    BY <1>1, <2>1
<1>8. /\ DOMAIN order = 1..Cardinality(I) /\ Range(order) = {s[i] : i \in I}
      /\ \A k \in DOMAIN order : h[k] \in I /\ order[k] = s[h[k]]
  BY <1>7, ListedElements
<1>9. \A i \in I : s[i] = r[i].tier
  BY <1>4 DEF s
<1>10. ASSUME NEW i \in DOMAIN order, NEW j \in DOMAIN order, i < j
       PROVE  tierRank[order[i]] < tierRank[order[j]]
  <2>1. h[i] < h[j] /\ h[i] \in I /\ h[j] \in I
    BY <1>7, <1>8, <1>10
  <2> DEFINE f == r[h[i]]
             g == r[h[j]]
  <2>2. order[i] = f.tier /\ order[j] = g.tier
    BY <1>8, <1>9, <2>1
  <2>3. IsListed(f) /\ IsListed(g)
    BY <1>2, <1>4, <2>1 DEF IsListing
  <2>4. ~Precedes(g, f)
    BY <1>2, <1>4, <2>1
  <2>5. f.tier # g.tier
    BY <1>5, <2>1
  <2> HIDE DEF f, g
  <2>6. ~(tierRank[g.tier] < tierRank[f.tier]) /\ tierRank[f.tier] \in Int /\ tierRank[g.tier] \in Int
    BY <2>3, <2>4, KeyTypes DEF Precedes
  <2>7. tierRank[f.tier] # tierRank[g.tier]
    BY <2>3, <2>5, TierRanksDiffer DEF IsListed
  <2> QED
    BY <2>2, <2>6, <2>7
<1>11. ASSUME NEW f \in Range(d.findings) PROVE \E i \in DOMAIN order : order[i] = f.tier
  <2>1. PICK i \in DOMAIN d.findings : d.findings[i] = f
    BY DEF Range
  <2>2. PICK k \in DOMAIN r : r[k] = f
    BY <1>3, <2>1
  <2>3. PICK m \in I : r[m].tier = f.tier
    BY <1>6, <2>2
  <2>4. f.tier \in Range(order)
    BY <1>8, <1>9, <2>3
  <2> QED
    BY <2>4 DEF Range
<1> QED
  BY <1>10, <1>11

(* A table of hotspots of some rows has the largest of them.                *)
LEMMA MiniLargest ==
    ASSUME NEW w, IsListing(w), \E n \in Nat : DOMAIN w = 1..n
    PROVE  LargestOf(Mini(w), w)
<1> DEFINE less == {e \in (DOMAIN w) \X (DOMAIN w) : w[e[1]].size > w[e[2]].size}
           s == StableSort(w, less)
           n == Cardinality(DOMAIN w)
           m == IF n > HotspotLimit THEN HotspotLimit ELSE n
           t == Mini(w)
<1>1. /\ IsFiniteSet(DOMAIN w) /\ DOMAIN w \subseteq Int
      /\ \A i \in DOMAIN w : w[i].size \in Int
  BY DEF IsListing, IsListed
<1>2. \A i \in DOMAIN w, j \in DOMAIN w : <<i, j>> \in less <=> w[i].size > w[j].size
  OBVIOUS
<1>3. t = SubSeq(s, 1, IF Len(s) > HotspotLimit THEN HotspotLimit ELSE Len(s))
  BY DEF Mini
<1> HIDE DEF less, t
<1>4. IsRanking(less, DOMAIN w)
  BY <1>1, <1>2 DEF IsRanking
<1>5. PICK h : /\ Lists(s, w, DOMAIN w, h)
               /\ \A j \in 1..n, k \in 1..n : j < k => <<h[k], h[j]>> \notin less
  BY <1>1, <1>4, StableSortLists
<1> HIDE DEF s
<1>6. /\ DOMAIN s = 1..n /\ Len(s) = n /\ n \in Nat /\ s \in Seq(Range(s))
      /\ \A k \in DOMAIN s : h[k] \in DOMAIN w /\ s[k] = w[h[k]]
  <2>1. Lists(s, w, DOMAIN w, h)
    BY <1>5
  <2>2. /\ DOMAIN s = 1..n /\ Len(s) = n /\ s \in Seq(Range(s))
        /\ \A k \in DOMAIN s : h[k] \in DOMAIN w /\ s[k] = w[h[k]]
    BY ONLY <2>1, ListedElements
  <2>3. n \in Nat
    BY ONLY <2>1 DEF Lists
  <2> QED
    BY <2>2, <2>3
<1> HIDE DEF n
<1>7. m \in 0..n /\ m <= HotspotLimit /\ (m < n => m = HotspotLimit)
  BY <1>6, DocumentsAssumption
<1>8. /\ DOMAIN t = 1..m /\ Len(t) = m
      /\ \A k \in 1..m : t[k] = s[k]
  <2>1. t = SubSeq(s, 1, m)
    BY <1>3, <1>6
  <2> HIDE DEF m
  <2>2. SubSeq(s, 1, m) = [k \in 1..m |-> s[k]]
    <3> DEFINE R == Range(s)
    <3>1. s \in Seq(R) /\ m \in Nat /\ m <= Len(s)
      BY <1>6, <1>7
    <3> HIDE DEF R
    <3> QED
      BY <3>1
  <2>3. m \in Nat
    BY <1>7
  <2> QED
    BY <2>1, <2>2, <2>3
<1> HIDE DEF m
<1>9. \A j \in 1..n, k \in 1..n : j < k => s[j].size >= s[k].size
  <2> SUFFICES ASSUME NEW j \in 1..n, NEW k \in 1..n, j < k PROVE s[j].size >= s[k].size
    OBVIOUS
  <2>1. /\ h[j] \in DOMAIN w /\ s[j] = w[h[j]] /\ h[k] \in DOMAIN w /\ s[k] = w[h[k]]
        /\ <<h[k], h[j]>> \notin less
    BY <1>5, <1>6
  <2>2. ~(w[h[k]].size > w[h[j]].size) /\ w[h[k]].size \in Int /\ w[h[j]].size \in Int
    BY <1>1, <1>2, <2>1
  <2> QED
    BY <2>1, <2>2
<1>10. ASSUME NEW e
       PROVE  /\ Occurrences(t, e) <= Occurrences(w, e)
              /\ Occurrences(t, e) < Occurrences(w, e) =>
                    \E k \in 1..n : k > m /\ s[k] = e
  <2> DEFINE A == {k \in 1..m : s[k] = e}
             B == {k \in 1..n : s[k] = e}
  <2>1. Occurrences(t, e) = Cardinality(A)
    <3>1. {k \in DOMAIN t : t[k] = e} = A
      BY <1>8
    <3> QED
      BY <3>1 DEF Occurrences
  <2>2. Occurrences(w, e) = Cardinality(B)
    <3>1. Occurrences(s, e) = Cardinality({i \in DOMAIN w : w[i] = e})
      BY <1>5, ListedOccurrences
    <3>2. Occurrences(s, e) = Cardinality(B)
      BY <1>6 DEF Occurrences
    <3> QED
      BY <3>1, <3>2 DEF Occurrences
  <2>3. A \subseteq B /\ IsFiniteSet(1..n) /\ B \subseteq 1..n
    <3>1. A \subseteq B /\ B \subseteq 1..n
      BY <1>6, <1>7
    <3> HIDE DEF A, B
    <3>2. IsFiniteSet(1..n)
      BY <1>6, FS_Interval
    <3> QED
      BY <3>1, <3>2
  <2>4. \A k \in B : k \notin A => k > m /\ s[k] = e
    BY <1>6, <1>7
  <2>5. B \subseteq 1..n
    OBVIOUS
  <2> HIDE DEF A, B
  <2>6. IsFiniteSet(B)
    BY <2>3, FS_Subset
  <2>7. IsFiniteSet(A) /\ Cardinality(A) <= Cardinality(B)
    BY <2>3, <2>6, FS_Subset
  <2>8. Cardinality(A) < Cardinality(B) => \E k \in B : k \notin A
    <3>1. Cardinality(A) \in Nat
      BY <2>7, FS_CardinalityType
    <3>2. A = B => ~(Cardinality(A) < Cardinality(B))
      BY <3>1
    <3> QED
      BY <2>3, <3>2
  <2> QED
    BY <2>1, <2>2, <2>4, <2>5, <2>7, <2>8
<1>11. ASSUME NEW r, Occurrences(t, r) < Occurrences(w, r)
       PROVE  Len(t) = HotspotLimit /\ \A q \in Range(t) : q.size >= r.size
  <2>1. PICK k \in 1..n : k > m /\ s[k] = r
    BY <1>10, <1>11
  <2>2. m < n
    BY <1>6, <1>7, <2>1
  <2>3. ASSUME NEW q \in Range(t) PROVE q.size >= r.size
    <3>1. PICK j \in 1..m : q = s[j]
      BY <1>8 DEF Range
    <3>2. j \in 1..n /\ j < k
      BY <1>6, <1>7, <2>1
    <3> QED
      BY <1>9, <2>1, <3>1, <3>2
  <2> QED
    BY <1>7, <1>8, <2>2, <2>3
<1>12. LargestOf(t, w)
  BY <1>10, <1>11 DEF LargestOf
<1> QED
  BY <1>12 DEF t

(* And of the findings they show.                                           *)
LEMMA HotspotsLargest ==
    ASSUME NEW d, IsListing(d.findings),
           NEW I, I \subseteq DOMAIN d.findings,
           NEW J, J \subseteq DOMAIN Rows(d),
           \A k \in DOMAIN Rows(d) : k \in J <=> \E i \in I : Rows(d)[k] = d.findings[i],
           \A i \in DOMAIN d.findings, j \in I : d.findings[i] = d.findings[j] => i \in I
    PROVE  LargestOf(Mini(Arranged(Rows(d), J, InOrder(J))), Arranged(d.findings, I, InOrder(I)))
<1> DEFINE v == Arranged(Rows(d), J, InOrder(J))
           w == Arranged(d.findings, I, InOrder(I))
<1>1. v = Arranged(Rows(d), J, InOrder(J)) /\ w = Arranged(d.findings, I, InOrder(I))
  OBVIOUS
<1>2. IsListing(Rows(d))
  BY RowsListed
<1> HIDE DEF v, w
<1>3. /\ \A e : Occurrences(v, e) = Occurrences(w, e)
      /\ Range(v) = Range(w) /\ IsListing(v)
  BY <1>1, RowsOf
<1>4. DOMAIN v = 1..Cardinality(J) /\ Cardinality(J) \in Nat
  <2> DEFINE r == Rows(d)
  <2>1. /\ IsFiniteSet(DOMAIN r) /\ DOMAIN r \subseteq Int
        /\ \A k \in DOMAIN r : r[k].size \in Nat
    BY <1>2 DEF IsListing, IsListed
  <2>2. J \subseteq DOMAIN r /\ v = Arranged(r, J, InOrder(J))
    BY <1>1
  <2> HIDE DEF r
  <2> QED
    BY ONLY <2>1, <2>2, PartSum
<1>5. LargestOf(Mini(v), v)
  BY <1>3, <1>4, MiniLargest
<1>6. LargestOf(Mini(v), w)
  BY <1>3, <1>5 DEF LargestOf
<1> QED
  BY <1>6 DEF v, w

(* What the renderings of a document have to list.                          *)
Renders(d) ==
    LET s == Worklist(d).sections
        p == Page(d)
    IN  /\ \A i \in DOMAIN s :
            /\ s[i].bytes = SizesOf(Tier(d.findings, s[i].tier))
            /\ \A j \in DOMAIN s : i < j => tierRank[s[i].tier] < tierRank[s[j].tier]
        /\ \A f \in Range(d.findings) :
            /\ \E i \in DOMAIN s :
                /\ s[i].tier = f.tier
                /\ Occurrences(s[i].items, f) = Occurrences(d.findings, f)
            /\ Occurrences(p.rows, f) = Occurrences(d.findings, f)
        /\ LargestOf(p.known, Where(d.findings, IsKnown))
        /\ LargestOf(p.unexplained, Where(d.findings, IsUnexplained))

LEMMA DocumentRenders ==
    ASSUME NEW d, IsListing(d.findings)
    PROVE  Renders(d)
<1> DEFINE fs == d.findings
           r  == Rows(d)
           order == TierOrder(r)
           Of(t) == Where(r, LAMBDA x : x.tier = t)
           s  == [i \in DOMAIN order |->
                    [tier |-> order[i], bytes |-> SizesOf(Of(order[i])), items |-> Of(order[i])]]
<1>1. Worklist(d).sections = s
  BY DEF Worklist
<1>2. /\ \A i \in DOMAIN order, j \in DOMAIN order :
            i < j => tierRank[order[i]] < tierRank[order[j]]
      /\ \A f \in Range(fs) : \E i \in DOMAIN order : order[i] = f.tier
  BY SectionsOrdered
<1>3. ASSUME NEW t
      PROVE  /\ SizesOf(Of(t)) = SizesOf(Tier(fs, t))
             /\ \A f \in Range(fs) : f.tier = t => Occurrences(Of(t), f) = Occurrences(fs, f)
  <2> DEFINE v == Of(t)
  <2>1. v = Where(Rows(d), LAMBDA x : x.tier = t)
    OBVIOUS
  <2> HIDE DEF v
  <2>2. /\ SizesOf(v) = SizesOf(Tier(d.findings, t))
        /\ \A f \in Range(d.findings) : f.tier = t => Occurrences(v, f) = Occurrences(d.findings, f)
    BY <2>1, RowsOfTier
  <2> QED
    BY <2>2 DEF v
<1>4. \A k \in DOMAIN r : \E i \in DOMAIN fs : r[k] = fs[i]
  <2>1. PICK q : Lists(r, fs, DOMAIN fs, q)
    BY RowsListed
  <2> QED
    BY <2>1, ListedElements
<1>5. \A f : Occurrences(r, f) = Occurrences(fs, f)
  <2>1. PICK q : Lists(r, fs, DOMAIN fs, q)
    BY RowsListed
  <2> HIDE DEF r, fs
  <2>2. \A f : Occurrences(r, f) = Cardinality({i \in DOMAIN fs : fs[i] = f})
    BY ONLY <2>1, ListedOccurrences
  <2> QED
    BY <2>2 DEF Occurrences
<1>6. LargestOf(Mini(Where(r, IsKnown)), Where(fs, IsKnown))
  <2> DEFINE I == {i \in DOMAIN fs : IsKnown(fs[i])}
             J == {k \in DOMAIN r : IsKnown(r[k])}
  <2>1. Where(r, IsKnown) = Arranged(r, J, InOrder(J))
    BY DEF Where, InOrder
  <2>2. Where(fs, IsKnown) = Arranged(fs, I, InOrder(I))
    BY DEF Where, InOrder
  <2>3. \A k \in DOMAIN r : k \in J <=> \E i \in I : r[k] = fs[i]
    BY <1>4
  <2>4. I \subseteq DOMAIN fs /\ J \subseteq DOMAIN r
    OBVIOUS
  <2>5. \A i \in DOMAIN fs, j \in I : fs[i] = fs[j] => i \in I
    OBVIOUS
  <2> HIDE DEF I, J
  <2>6. LargestOf(Mini(Arranged(r, J, InOrder(J))), Arranged(fs, I, InOrder(I)))
    BY ONLY IsListing(d.findings), <2>3, <2>4, <2>5, HotspotsLargest
  <2> QED
    BY <2>1, <2>2, <2>6
<1>7. LargestOf(Mini(Where(r, IsUnexplained)), Where(fs, IsUnexplained))
  <2> DEFINE I == {i \in DOMAIN fs : IsUnexplained(fs[i])}
             J == {k \in DOMAIN r : IsUnexplained(r[k])}
  <2>1. Where(r, IsUnexplained) = Arranged(r, J, InOrder(J))
    BY DEF Where, InOrder
  <2>2. Where(fs, IsUnexplained) = Arranged(fs, I, InOrder(I))
    BY DEF Where, InOrder
  <2>3. \A k \in DOMAIN r : k \in J <=> \E i \in I : r[k] = fs[i]
    BY <1>4
  <2>4. I \subseteq DOMAIN fs /\ J \subseteq DOMAIN r
    OBVIOUS
  <2>5. \A i \in DOMAIN fs, j \in I : fs[i] = fs[j] => i \in I
    OBVIOUS
  <2> HIDE DEF I, J
  <2>6. LargestOf(Mini(Arranged(r, J, InOrder(J))), Arranged(fs, I, InOrder(I)))
    BY ONLY IsListing(d.findings), <2>3, <2>4, <2>5, HotspotsLargest
  <2> QED
    BY <2>1, <2>2, <2>6
<1>8. /\ Page(d).rows = r
      /\ Page(d).known = Mini(Where(r, IsKnown))
      /\ Page(d).unexplained = Mini(Where(r, IsUnexplained))
  BY DEF Page
<1>9. /\ DOMAIN s = DOMAIN order
      /\ \A i \in DOMAIN order : /\ s[i].tier = order[i] /\ s[i].bytes = SizesOf(Of(order[i]))
                                 /\ s[i].items = Of(order[i])
  OBVIOUS
<1> HIDE DEF s, order, fs, Of
<1>10. \A i \in DOMAIN s :
        /\ s[i].bytes = SizesOf(Tier(fs, s[i].tier))
        /\ \A j \in DOMAIN s : i < j => tierRank[s[i].tier] < tierRank[s[j].tier]
  BY <1>2, <1>3, <1>9
<1>11. ASSUME NEW f \in Range(fs)
       PROVE  \E i \in DOMAIN s : s[i].tier = f.tier /\ Occurrences(s[i].items, f) = Occurrences(fs, f)
  <2>1. PICK i \in DOMAIN order : order[i] = f.tier
    BY <1>2
  <2> QED
    BY <1>3, <1>9, <2>1
<1> HIDE DEF r
<1> QED
  BY <1>1, <1>5, <1>6, <1>7, <1>8, <1>10, <1>11 DEF Renders, fs

(* Whatever document a command renders, built or read back, redacted or     *)
(* not: the worklist and the page list its findings as often as it does,    *)
(* the worklist under their tiers in order, and the hotspots are the        *)
(* largest (report/markdown.go:96-132, report.go:80-94,                     *)
(* document.go:84-184).                                                     *)
THEOREM DocumentsRendered == Spec => []RenderingsComplete
<1>1. DInv => RenderingsComplete
  <2> SUFFICES ASSUME DInv, pc = "render" PROVE RenderingsComplete
    BY DEF RenderingsComplete
  <2>1. IsListing(doc.findings)
    BY DocumentListing DEF DInv, Sound
  <2>2. Renders(doc)
    BY <2>1, DocumentRenders
  <2> QED
    BY <2>2 DEF Renders, RenderingsComplete
<1>2. Init => DInv
  BY DEF Init, DInv, Redacted, Absent
<1> QED
  BY <1>1, <1>2, InitFInv, NextFInv, NextDInv, PTL DEF Spec

=============================================================================
