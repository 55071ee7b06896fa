------------------------------ MODULE Progress ------------------------------
(***************************************************************************)
(* The live counters of a scan (src/cmd/diskwise/progress.go) beside the   *)
(* walk they are read from, and the command that starts and stops them     *)
(* (scan.go, rescan.go).                                                   *)
(*                                                                         *)
(* The display is a goroutine that redraws at every tick of 300 ms and     *)
(* once more when the command closes a channel.  A redraw loads three      *)
(* atomic counters one after the other while the workers add to them: each *)
(* load is an action of its own.                                           *)
(*                                                                         *)
(* The command's path from Walk's return over the write to the index to    *)
(* the stop is one step: the counters no longer change, and the stop is    *)
(* called whether or not the write, or the walk, has failed.               *)
(***************************************************************************)
EXTENDS Walk

VARIABLES
    display,  (* where the goroutine is; "none" if stderr is no terminal    *)
    loaded,   (* what the redraw under way has loaded                       *)
    shown,    (* what is on the screen                                      *)
    last,     (* the redraw under way is the one after done was closed      *)
    command   (* the command: in its scan, in stop, after stop              *)

progressVars == <<display, loaded, shown, last, command>>
allVars == <<vars, progressVars>>

Nothing == [scanned |-> 0, queued |-> 0, files |-> 0]

(* The screen is updated with what was loaded last.                         *)
ProgressInit ==
    /\ Init
    /\ display \in {"none", "select"}
    /\ loaded = Nothing /\ shown = Nothing
    /\ last = FALSE
    /\ command = "scan"

(* The select of the loop: a tick is due ...                                *)
Tick ==
    /\ display = "select"
    /\ display' = "loadScanned"
    /\ UNCHANGED <<vars, loaded, shown, last, command>>

(* Mutant of SeeDone: the goroutine returns without a last redraw.          *)
SeeDoneAtOnce ==
    /\ display = "select"
    /\ command \in {"stopping", "stopped"}
    /\ display' = "exited"
    /\ UNCHANGED <<vars, loaded, shown, last, command>>

(* ... or done is closed.                                                   *)
SeeDone ==
    /\ display = "select"
    /\ command \in {"stopping", "stopped"}
    /\ display' = "loadScanned"
    /\ last' = TRUE
    /\ UNCHANGED <<vars, loaded, shown, command>>

(* updateProgress                                                           *)
LoadScanned ==
    /\ display = "loadScanned"
    /\ loaded' = [loaded EXCEPT !.scanned = stats["dirsScanned"]]
    /\ display' = "loadQueued"
    /\ UNCHANGED <<vars, shown, last, command>>

LoadQueued ==
    /\ display = "loadQueued"
    /\ loaded' = [loaded EXCEPT !.queued = stats["dirsQueued"]]
    /\ display' = "loadFiles"
    /\ UNCHANGED <<vars, shown, last, command>>

(* The third load, and the redraw; after the last one the goroutine returns *)
(* and its deferred wg.Done is seen by the command.                         *)
LoadFiles ==
    /\ display = "loadFiles"
    /\ shown' = [loaded EXCEPT !.files = stats["filesScanned"]]
    /\ loaded' = Nothing
    /\ display' = IF last THEN "exited" ELSE "select"
    /\ UNCHANGED <<vars, last, command>>

(* Mutant of CloseDone: the goroutine is waited for first.                  *)
CloseDoneLate ==
    /\ command = "scan"
    /\ returned
    /\ display \in {"none", "exited"}
    /\ command' = "stopping"
    /\ UNCHANGED <<vars, display, loaded, shown, last>>

(* The service's call is over: stop closes done ...                         *)
CloseDone ==
    /\ command = "scan"
    /\ returned
    /\ command' = "stopping"
    /\ UNCHANGED <<vars, display, loaded, shown, last>>

(* ... and waits for the goroutine, if one was started; the result is       *)
(* printed after.                                                           *)
WaitDone ==
    /\ command = "stopping"
    /\ display \in {"none", "exited"}
    /\ command' = "stopped"
    /\ UNCHANGED <<vars, display, loaded, shown, last>>

(* Mutant of Draw: the two counters are loaded in the other order.          *)
DrawQueuedFirst ==
    \/ /\ display = "loadScanned"
       /\ loaded' = [loaded EXCEPT !.queued = stats["dirsQueued"]]
       /\ display' = "loadQueued"
       /\ UNCHANGED <<vars, shown, last, command>>
    \/ /\ display = "loadQueued"
       /\ loaded' = [loaded EXCEPT !.scanned = stats["dirsScanned"]]
       /\ display' = "loadFiles"
       /\ UNCHANGED <<vars, shown, last, command>>
    \/ LoadFiles

Draw == LoadScanned \/ LoadQueued \/ LoadFiles

ProgressNext ==
    \/ Next /\ UNCHANGED progressVars
    \/ Tick \/ SeeDone \/ Draw
    \/ CloseDone \/ WaitDone

(* Beside the walk's own: the display and the command run when they can.    *)
(* A select with two cases ready takes either at random, so that done,      *)
(* ready time and again, is taken in the end even if a tick is always due:  *)
(* strong fairness.                                                         *)
ProgressFairness ==
    /\ \A w \in Workers : WF_allVars(WorkerStep(w) /\ UNCHANGED progressVars)
    /\ WF_allVars(CloserStep /\ UNCHANGED progressVars)
    /\ WF_allVars(CallerStep /\ UNCHANGED progressVars)
    /\ WF_allVars(Draw)
    /\ SF_allVars(SeeDone)
    /\ WF_allVars(CloseDone)
    /\ WF_allVars(WaitDone)

ProgressSpec == ProgressInit /\ [][ProgressNext]_allVars /\ ProgressFairness

-----------------------------------------------------------------------------
(* Properties                                                               *)

(* The fraction shown is never more than one, although its two counters are *)
(* read one after the other while both grow (progress.go:58-63): a          *)
(* directory is counted as queued before any worker can have scanned it.    *)
FractionAtMostOne == shown.scanned <= shown.queued

(* When the result is printed the display is at rest and has shown the      *)
(* counters the result has (progress.go:38-54, scan.go:47-52).              *)
LastShownIsFinal ==
    command = "stopped" /\ display # "none" =>
        /\ display = "exited"
        /\ shown = [scanned |-> stats["dirsScanned"], queued |-> stats["dirsQueued"],
                    files |-> stats["filesScanned"]]

(* The command that waits for its walk and then for the display ends.       *)
CommandEnds == <>(command = "stopped")

=============================================================================
