--------------------------- MODULE ProgressProofs ---------------------------
(***************************************************************************)
(* The fraction on the screen is never more than one, for every tree and   *)
(* any number of workers.  DirsScanned counts the directories read,        *)
(* DirsQueued those counted in the WaitGroup, of which the first are a     *)
(* part (Discovery of WalkProofs); and neither count ever falls, so that   *)
(* the one loaded first is at most the one loaded after it.  And what the  *)
(* last redraw shows is the result: it starts after the workers are gone.  *)
(***************************************************************************)
EXTENDS Progress, WalkProofs

Loads == [scanned : Nat, queued : Nat, files : Nat]

(* What has been loaded bounds what is still to be loaded.                  *)
Drawing ==
    /\ display \in {"none", "select", "loadScanned", "loadQueued", "loadFiles", "exited"}
    /\ loaded \in Loads /\ shown \in Loads
    /\ display = "loadQueued" => loaded.scanned <= stats["dirsQueued"]
    /\ display = "loadFiles" => loaded.scanned <= loaded.queued
    /\ shown.scanned <= shown.queued

PInv == IInv /\ Counters /\ Drawing

-----------------------------------------------------------------------------
(* Of the directories counted, those read are a part.                       *)
LEMMA ScannedAtMostQueued ==
    ASSUME IInv, Counters
    PROVE  /\ stats["dirsScanned"] \in Nat /\ stats["dirsQueued"] \in Nat
           /\ stats["filesScanned"] \in Nat
           /\ stats["dirsScanned"] <= stats["dirsQueued"]
<1>1. expanded \subseteq queued /\ IsFiniteSet(queued)
  BY FS_Subset, WalkAssumption DEF IInv, TypeOK, Discovery
<1>2. Cardinality(expanded) <= Cardinality(queued)
  BY <1>1, FS_Subset
<1>3. stats \in [StatNames -> Nat]
  BY DEF IInv, TypeOK
<1> QED
  BY <1>2, <1>3 DEF Counters, StatNames

-----------------------------------------------------------------------------

LEMMA InitPInv == ProgressInit => PInv
<1> SUFFICES ASSUME ProgressInit PROVE PInv
  OBVIOUS
<1>1. IInv
  BY InitIInv DEF ProgressInit
<1>2. Counters
  BY FS_EmptySet, FS_Singleton DEF ProgressInit, Init, Counters, StatNames
<1>3. Drawing
  BY DEF ProgressInit, Drawing, Nothing, Loads
<1> QED
  BY <1>1, <1>2, <1>3 DEF PInv

LEMMA WalkPInv == ASSUME PInv, [Next]_vars, UNCHANGED progressVars PROVE PInv'
<1>1. IInv'
  BY NextIInv DEF PInv
<1>2. Counters' /\ stats["dirsQueued"] \in Nat /\ stats'["dirsQueued"] \in Nat
      /\ stats["dirsQueued"] <= stats'["dirsQueued"]
  BY WalkKeepsCounters DEF PInv
<1>3. Drawing'
  BY <1>2 DEF PInv, Drawing, Loads, progressVars
<1> QED
  BY <1>1, <1>2, <1>3 DEF PInv

LEMMA DisplayPInv ==
    ASSUME PInv, Tick \/ SeeDone \/ Draw \/ CloseDone \/ WaitDone PROVE PInv'
<1>1. UNCHANGED vars
  BY DEF Tick, SeeDone, Draw, LoadScanned, LoadQueued, LoadFiles, CloseDone, WaitDone
<1>2. IInv' /\ Counters' /\ stats' = stats
  BY <1>1, NextIInv DEF PInv, Counters, vars, treeVars
<1>3. /\ stats["dirsScanned"] \in Nat /\ stats["dirsQueued"] \in Nat
      /\ stats["filesScanned"] \in Nat
      /\ stats["dirsScanned"] <= stats["dirsQueued"]
  BY ScannedAtMostQueued DEF PInv
<1>4. Drawing'
  <2>1. CASE Tick \/ SeeDone \/ CloseDone \/ WaitDone
    BY <1>2, <2>1 DEF PInv, Drawing, Tick, SeeDone, CloseDone, WaitDone
  <2>2. CASE LoadScanned
    BY <1>2, <1>3, <2>2 DEF PInv, Drawing, LoadScanned, Loads
  <2>3. CASE LoadQueued
    BY <1>2, <1>3, <2>3 DEF PInv, Drawing, LoadQueued, Loads
  <2>4. CASE LoadFiles
    BY <1>2, <1>3, <2>4 DEF PInv, Drawing, LoadFiles, Loads, Nothing
  <2> QED
    BY <2>1, <2>2, <2>3, <2>4 DEF Draw
<1> QED
  BY <1>2, <1>4 DEF PInv

(* The counters on the screen never show more directories scanned than      *)
(* queued, whatever the walk does between the loads (progress.go:58-63).    *)
THEOREM FractionIsAtMostOne == ProgressSpec => []FractionAtMostOne
<1>1. PInv /\ [ProgressNext]_allVars => PInv'
  <2>1. ASSUME PInv, UNCHANGED allVars PROVE PInv'
    BY <2>1, WalkPInv DEF allVars
  <2>2. ASSUME PInv, Next /\ UNCHANGED progressVars PROVE PInv'
    BY <2>2, WalkPInv
  <2> QED
    BY <2>1, <2>2, DisplayPInv DEF ProgressNext
<1>2. PInv => FractionAtMostOne
  BY DEF PInv, Drawing, FractionAtMostOne
<1> QED
  BY InitPInv, <1>1, <1>2, PTL DEF ProgressSpec

-----------------------------------------------------------------------------
(* After the walk                                                           *)

Displays == {"none", "select", "loadScanned", "loadQueued", "loadFiles", "exited"}

(* The workers have exited when the walk returns; the last redraw begins    *)
(* after that, and what it has loaded is final.                             *)
RInv ==
    /\ returned => AllExited
    /\ command \in {"scan", "stopping", "stopped"} /\ display \in Displays
    /\ command # "scan" => returned
    /\ last => command # "scan" /\ display \in Displays \ {"none", "select"}
    /\ last /\ display \in {"loadQueued", "loadFiles"} =>
            loaded.scanned = stats["dirsScanned"]
    /\ last /\ display = "loadFiles" => loaded.queued = stats["dirsQueued"]
    /\ display = "exited" =>
            /\ last
            /\ shown = [scanned |-> stats["dirsScanned"], queued |-> stats["dirsQueued"],
                        files |-> stats["filesScanned"]]
    /\ command = "stopped" => display \in {"none", "exited"}
    /\ loaded \in Loads

(* No worker that has exited takes a step, and only workers count.          *)
LEMMA ExitedForGood ==
    ASSUME [Next]_vars
    PROVE  /\ returned => returned'
           /\ returned' => returned \/ AllExited
           /\ AllExited => AllExited' /\ stats' = stats
<1>1. CASE \E w \in Workers : WorkerStep(w)
  <2>1. PICK w \in Workers : WorkerStep(w)
    BY <1>1
  <2>2. pc[w] # "exit"
    BY <2>1 DEF WorkerStep, PopItem, PopWait, PopExit, CheckCancelled, CheckDeferred, CheckPassed,
                ReadDirDenied, ReadDir, StatFails, StatDir, StatSymlink, StatDuplicate, StatFile,
                SkipCrossDevice, CountSub, Push, Signal, Done, Record
  <2>3. UNCHANGED returned
    BY <2>1 DEF WorkerStep, PopItem, PopWait, PopExit, CheckCancelled, CheckDeferred, CheckPassed,
                ReadDirDenied, ReadDir, StatFails, StatDir, StatSymlink, StatDuplicate, StatFile,
                SkipCrossDevice, CountSub, Push, Signal, Done, Record
  <2> QED
    BY <2>2, <2>3 DEF AllExited
<1>2. CASE CloserStep
  BY <1>2 DEF CloserStep, PendingZero, Close, Broadcast, workerVars, AllExited, Waiting
<1>3. CASE CallerStep
  BY <1>3 DEF CallerStep, RollUp, Return, workerVars, AllExited
<1>4. CASE Cancel \/ UNCHANGED vars
  BY <1>4 DEF Cancel, vars, workerVars, AllExited
<1> QED
  BY <1>1, <1>2, <1>3, <1>4 DEF Next, Terminated

LEMMA WalkRInv == ASSUME RInv, [Next]_vars, UNCHANGED progressVars PROVE RInv'
<1>1. returned' => AllExited'
  BY ExitedForGood DEF RInv
<1>2. returned => returned' /\ stats' = stats
  BY ExitedForGood DEF RInv
<1>3. UNCHANGED <<display, loaded, shown, last, command>>
  BY DEF progressVars
<1>4. CASE command = "scan"
  BY <1>1, <1>3, <1>4 DEF RInv
<1>5. CASE command # "scan"
  BY <1>1, <1>2, <1>3, <1>5 DEF RInv
<1> QED
  BY <1>4, <1>5

LEMMA DisplayRInv ==
    ASSUME PInv, RInv, Tick \/ SeeDone \/ Draw \/ CloseDone \/ WaitDone PROVE RInv'
<1>1. UNCHANGED vars
  BY DEF Tick, SeeDone, Draw, LoadScanned, LoadQueued, LoadFiles, CloseDone, WaitDone
<1>2. stats' = stats /\ returned' = returned /\ (AllExited => AllExited')
  BY <1>1 DEF vars, workerVars, AllExited
<1>3. stats["dirsScanned"] \in Nat /\ stats["dirsQueued"] \in Nat
  BY ScannedAtMostQueued DEF PInv
<1>4. CASE Tick \/ SeeDone
  BY <1>2, <1>4 DEF RInv, Tick, SeeDone, Displays
<1>5. CASE CloseDone \/ WaitDone
  BY <1>2, <1>5 DEF RInv, CloseDone, WaitDone, Displays
<1>6. CASE LoadScanned
  BY <1>2, <1>3, <1>6 DEF RInv, LoadScanned, Displays, Loads
<1>7. CASE LoadQueued
  BY <1>2, <1>3, <1>7 DEF RInv, LoadQueued, Displays, Loads
<1>8. CASE LoadFiles
  BY <1>2, <1>8 DEF RInv, LoadFiles, Displays, Loads, Nothing
<1> QED
  BY <1>4, <1>5, <1>6, <1>7, <1>8 DEF Draw

LEMMA InitRInv == ProgressInit => RInv
BY DEF ProgressInit, Init, RInv, Displays, Nothing, Loads

(* When the result is printed the screen is at rest and shows the counters  *)
(* of the result, however the redraws fell between the steps of the walk    *)
(* (progress.go:38-54).                                                     *)
THEOREM LastShownIsTheResult == ProgressSpec => []LastShownIsFinal
<1>1. PInv /\ RInv /\ [ProgressNext]_allVars => PInv' /\ RInv'
  <2>1. ASSUME PInv, RInv, UNCHANGED allVars PROVE PInv' /\ RInv'
    BY <2>1, WalkPInv, WalkRInv DEF allVars
  <2>2. ASSUME PInv, RInv, Next /\ UNCHANGED progressVars PROVE PInv' /\ RInv'
    BY <2>2, WalkPInv, WalkRInv
  <2> QED
    BY <2>1, <2>2, DisplayPInv, DisplayRInv DEF ProgressNext
<1>2. RInv => LastShownIsFinal
  BY DEF RInv, LastShownIsFinal
<1> QED
  BY InitPInv, InitRInv, <1>1, <1>2, PTL DEF ProgressSpec
=============================================================================
