----------------------------- MODULE AtomicSave -----------------------------
(***************************************************************************)
(* What a recovery promises those who look at the output directory, with   *)
(* no calls, handles or chunks: plans are taken in order, and each is      *)
(* saved in one step, as a new file that holds all of it, or fails.  A     *)
(* failure, and the end of a killed run, may leave one scrap under a new   *)
(* path.  What is there stays as it is, with one exception: a file whose   *)
(* name was tested in vain is overlooked, and may be lost while it is.     *)
(* The log is torn, or lists what one of the runs has saved.               *)
(***************************************************************************)
EXTENDS Integers

CONSTANTS
    Run,       \* the runs into the directory
    Index,     \* numbers of the plans
    Path,      \* paths in the directory
    NoFile, Foreign, Scrap    \* what a path may hold besides a whole plan

VARIABLES
    files,     \* files[f]: what is at path f
    overlooked,  \* the paths of files that are overlooked at this moment
    outcome,   \* outcome[r][k]: what became of plan k in run r
    log        \* the log and the set of its entries

avars == <<files, overlooked, outcome, log>>

Whole(k) == <<"plan", k>>
Todo == <<"todo">>
Failed == <<"failed">>
SavedAt(f) == <<"saved", f>>

Init ==
    /\ files \in [Path -> {NoFile, Foreign}]
    /\ overlooked = {}
    /\ outcome = [r \in Run |-> [k \in Index |-> Todo]]
    /\ log = [state |-> "absent", entries |-> {}]

(* Plan k is the one run r comes to now.                                   *)
IsNext(r, k) ==
    outcome[r][k] = Todo /\ \A j \in Index : j < k => outcome[r][j] # Todo

(* Nothing stays overlooked longer than the attempt that overlooked it.    *)
Forget == overlooked' \subseteq overlooked

Save(r, k, f) ==
    /\ IsNext(r, k)
    /\ files[f] = NoFile
    /\ files' = [files EXCEPT ![f] = Whole(k)]
    /\ outcome' = [outcome EXCEPT ![r][k] = SavedAt(f)]
    /\ Forget
    /\ UNCHANGED log

LeaveScrap == \E f \in Path : files[f] = NoFile /\ files' = [files EXCEPT ![f] = Scrap]

LoseFile == \E f \in overlooked : files' = [files EXCEPT ![f] = NoFile]

Fail(r, k) ==
    /\ IsNext(r, k)
    /\ files' = files \/ LeaveScrap \/ LoseFile
    /\ outcome' = [outcome EXCEPT ![r][k] = Failed]
    /\ Forget
    /\ UNCHANGED log

Die == (files' = files \/ LeaveScrap) /\ Forget /\ UNCHANGED <<outcome, log>>

Overlook(f) ==
    /\ files[f] # NoFile
    /\ overlooked' = overlooked \cup {f}
    /\ UNCHANGED <<files, outcome, log>>

Lose == LoseFile /\ Forget /\ UNCHANGED <<outcome, log>>

Listing(r) ==
    {e \in [file : Path, plan : Index] : outcome[r][e.plan] = SavedAt(e.file)}

WriteLog(r) ==
    /\ log' \in {[state |-> "torn", entries |-> {}],
                 [state |-> "whole", entries |-> Listing(r)]}
    /\ UNCHANGED <<files, overlooked, outcome>>

Next ==
    \/ \E r \in Run, k \in Index : Fail(r, k) \/ \E f \in Path : Save(r, k, f)
    \/ Die
    \/ \E f \in Path : Overlook(f)
    \/ Lose
    \/ \E r \in Run : WriteLog(r)

Spec == Init /\ [][Next]_avars
=============================================================================
