------------------------------ MODULE Recovery ------------------------------
(***************************************************************************)
(* Copying the planned files out: the carve loop of run (src/src/main.rs), *)
(* OutputManager (src/src/output.rs) and carve_to_file (src/src/carver.rs).*)
(* Several runs of the program write into the same output directory, one   *)
(* after the other; each may be killed at any point.                       *)
(*                                                                         *)
(* A step is one call on the file system or on the source.  Both are       *)
(* external, as are the other users of the output disk: any call may fail, *)
(* and any call that needs space may find the disk full (ENOSPC).  A test  *)
(* of a name that fails takes the name for free: a history variable keeps  *)
(* what was overlooked that way, so that properties can tell it apart.     *)
(*                                                                         *)
(* A file's extension is its type, and with --organize so is its           *)
(* directory: in both layouts a path is a type and a number.  The totals   *)
(* of the log are functions of its entries and are left out.               *)
(***************************************************************************)
EXTENDS Integers, Sequences, FiniteSets

CONSTANTS
    Run,         \* runs of the program with this output directory
    Types,       \* the types of files
    MaxPlans,    \* bound on the number of plans
    PlanLists,   \* the lists of plans a recovery may be given
    Organize,    \* --organize: one directory per type
    Earlier,     \* paths of files that were there before the first run
    MaxFaults    \* bound on the number of failing calls and kills

Index == 1 .. MaxPlans

(* A list of plans: the type of each and its size in chunks.               *)
IsPlanList(ps) ==
    /\ Len(ps) \in 0 .. MaxPlans
    /\ \A k \in 1 .. Len(ps) : ps[k].type \in Types /\ ps[k].size \in Nat \ {0}

ASSUME RecoveryAssumption ==
    /\ IsFiniteSet(Run)
    /\ IsFiniteSet(Earlier)
    /\ MaxPlans \in Nat
    /\ \A ps \in PlanLists : IsPlanList(ps)
    /\ Organize \in BOOLEAN
    /\ MaxFaults \in Nat

(* A run looks at one name more than there can be files.                   *)
MaxCounter == Cardinality(Earlier) + Cardinality(Run) * MaxPlans + 1
Path == Types \X (1 .. MaxCounter)

NoFile == <<"none">>
Foreign == <<"foreign">>
Scrap == <<"scrap">>
Inode == (Run \X Index) \cup {Foreign}

Torn == <<"torn">>      \* part of a chunk
Hole == <<"hole">>      \* never written
Bytes == (Index \X Nat) \cup {Torn, Hole, Foreign}

VARIABLES
    plans,    \* what the planner found; the same in every run
    dirs,     \* type directories that exist
    dir,      \* dir[f]: the file at path f
    data,     \* data[n]: the chunks of file n
    log,      \* recovery_log.json: absent, torn or whole, and its entries
    pc,       \* pc[r]: where run r is
    at,       \* at[r]: number of plans run r has dealt with
    counter,  \* counter[r]: the next number to try
    path,     \* path[r]: the path being written
    handle,   \* handle[r]: the open file
    off,      \* off[r]: chunks copied
    entries,  \* entries[r]: the log entries so far
    errors,   \* errors[r]: plans for which an error was recorded
    nospace,  \* nospace[r]: some call of r found the output disk full
    overlooked, \* history: the files a failing test of their name did not
                \* see, each with the run that made the test, and its path
    faults    \* number of faults so far

fs == <<dirs, dir, data>>
book == <<entries, errors, nospace>>
vars == <<plans, dirs, dir, data, log, pc, at, counter, path, handle, off,
          entries, errors, nospace, overlooked, faults>>

LogFile(s, es) == [state |-> s, entries |-> es]
NoLog == LogFile("absent", << >>)
TornLog == LogFile("torn", << >>)

Over == {"done", "dead"}
Wrapup == {"full", "log", "logging"} \cup Over

Init ==
    /\ plans \in PlanLists
    /\ dirs = {}
    /\ dir = [f \in Path |-> IF f \in Earlier THEN Foreign ELSE NoFile]
    /\ data = [n \in Inode |-> IF n = Foreign THEN <<Foreign>> ELSE << >>]
    /\ log = NoLog
    /\ pc = [r \in Run |-> "new"]
    /\ at = [r \in Run |-> 0]
    /\ counter = [r \in Run |-> 1]
    /\ path = [r \in Run |-> NoFile]
    /\ handle = [r \in Run |-> Foreign]
    /\ off = [r \in Run |-> 0]
    /\ entries = [r \in Run |-> << >>]
    /\ errors = [r \in Run |-> {}]
    /\ nospace = [r \in Run |-> FALSE]
    /\ overlooked = {}
    /\ faults = 0

Plan(r) == plans[at[r] + 1]
Fault == faults < MaxFaults /\ faults' = faults + 1

Start(r) ==
    /\ pc[r] = "new"
    /\ \A q \in Run : pc[q] \in Over \cup {"new"}
    /\ pc' = [pc EXCEPT ![r] = "next"]
    /\ UNCHANGED <<fs, log, at, counter, path, handle, off, book, overlooked,
                   faults>>

-----------------------------------------------------------------------------
(* How a plan ends.                                                        *)

(* Slip: the error is reported under the index of the plan before.         *)
FailedPlanBefore(r) == at[r]

FailedPlan(r) == at[r] + 1

(* Slip: the loop goes on without recording the error.                     *)
FailQuietly(r) ==
    /\ at' = [at EXCEPT ![r] = @ + 1]
    /\ pc' = [pc EXCEPT ![r] = "next"]
    /\ errors' = errors

(* An I/O error: it is recorded, and the next plan is tried.               *)
Fail(r) ==
    /\ errors' = [errors EXCEPT ![r] = @ \cup {FailedPlan(r)}]
    /\ at' = [at EXCEPT ![r] = @ + 1]
    /\ pc' = [pc EXCEPT ![r] = "next"]

(* Slip: a full disk is taken for an error like any other.                 *)
StopFullGoesOn(r) ==
    /\ nospace' = [nospace EXCEPT ![r] = TRUE]
    /\ Fail(r)

(* The output disk is full: the recovery will stop.                        *)
StopFull(r) ==
    /\ pc' = [pc EXCEPT ![r] = "full"]
    /\ nospace' = [nospace EXCEPT ![r] = TRUE]
    /\ UNCHANGED <<at, errors>>

(* remove_file; the caller ignores its result.                             *)
Remove(r) == dir' \in {dir, [dir EXCEPT ![path[r]] = NoFile]}

-----------------------------------------------------------------------------
(* Choosing a path.                                                        *)

(* create_dir_all on the directory of the type.                            *)
EnterDir(r) ==
    /\ pc[r] = "next"
    /\ at[r] < Len(plans)
    /\ dirs' = IF Organize THEN dirs \cup {Plan(r).type} ELSE dirs
    /\ pc' = [pc EXCEPT ![r] = "probe"]
    /\ UNCHANGED <<dir, data, log, at, counter, path, handle, off, book,
                   overlooked, faults>>

(* It fails, perhaps because the disk is full: an I/O error in both cases. *)
EnterDirFails(r) ==
    /\ pc[r] = "next"
    /\ at[r] < Len(plans)
    /\ Organize
    /\ Fault
    /\ \E full \in BOOLEAN :
          /\ full => Plan(r).type \notin dirs
          /\ nospace' = [nospace EXCEPT ![r] = @ \/ full]
    /\ Fail(r)
    /\ UNCHANGED <<fs, log, counter, path, handle, off, entries, overlooked>>

(* Slip: nobody looks whether the name is taken.                           *)
ExistsUnseen(f) == FALSE

Exists(f) == dir[f] # NoFile

(* Slip: the number only advances once a free name is found.               *)
NextNumberStuck(r, f) == IF Exists(f) THEN counter[r] ELSE counter[r] + 1

NextNumber(r, f) == counter[r] + 1

(* One turn of the loop of next_path.                                      *)
Probe(r) ==
    LET f == <<Plan(r).type, counter[r]>> IN
    /\ pc[r] = "probe"
    /\ counter' = [counter EXCEPT ![r] = NextNumber(r, f)]
    /\ IF Exists(f)
       THEN UNCHANGED <<pc, path>>
       ELSE /\ path' = [path EXCEPT ![r] = f]
            /\ pc' = [pc EXCEPT ![r] = "create"]
    /\ UNCHANGED <<fs, log, at, handle, off, book, overlooked, faults>>

(* The name is taken, but its metadata cannot be had: exists() is false.   *)
ProbeFails(r) ==
    LET f == <<Plan(r).type, counter[r]>> IN
    /\ pc[r] = "probe"
    /\ Exists(f)
    /\ Fault
    /\ counter' = [counter EXCEPT ![r] = NextNumber(r, f)]
    /\ path' = [path EXCEPT ![r] = f]
    /\ pc' = [pc EXCEPT ![r] = "create"]
    /\ overlooked' = overlooked \cup {<<r, f, dir[f]>>}
    /\ UNCHANGED <<fs, log, at, handle, off, book>>

-----------------------------------------------------------------------------
(* carve_to_file.                                                          *)

(* File::create.  A file that was overlooked is truncated: its bytes are   *)
(* gone, and from then on it is the file of this plan.                     *)
Create(r) ==
    LET n == <<r, at[r] + 1>> IN
    /\ pc[r] = "create"
    /\ dir' = [dir EXCEPT ![path[r]] = n]
    /\ data' = [data EXCEPT ![n] = << >>]
    /\ handle' = [handle EXCEPT ![r] = n]
    /\ off' = [off EXCEPT ![r] = 0]
    /\ pc' = [pc EXCEPT ![r] = "copy"]
    /\ UNCHANGED <<dirs, log, at, counter, path, book, overlooked, faults>>

CreateFails(r) ==
    /\ pc[r] = "create"
    /\ Fault
    /\ \/ Fail(r) /\ UNCHANGED nospace
       \/ StopFull(r)
    /\ UNCHANGED <<fs, log, counter, path, handle, off, entries, overlooked>>

(* File content c with chunk k overwritten by b.                           *)
Put(c, k, b) ==
    [j \in 1 .. (IF k > Len(c) THEN k ELSE Len(c)) |->
        IF j = k THEN b ELSE IF j <= Len(c) THEN c[j] ELSE Hole]

(* Slip: every chunk is read from the start of the plan.                   *)
SourceChunkFirst(r) == <<at[r] + 1, 1>>

SourceChunk(r) == <<at[r] + 1, off[r] + 1>>

(* One chunk is read from the source and written; after the last one the   *)
(* file is flushed and closed.                                             *)
CopyChunk(r) ==
    /\ pc[r] = "copy"
    /\ data' = [data EXCEPT ![handle[r]] = Put(@, off[r] + 1, SourceChunk(r))]
    /\ off' = [off EXCEPT ![r] = @ + 1]
    /\ pc' = [pc EXCEPT ![r] = IF off[r] + 1 = Plan(r).size THEN "verify" ELSE "copy"]
    /\ UNCHANGED <<dirs, dir, log, at, counter, path, handle, book,
                   overlooked, faults>>

(* The source cannot be read: what was copied stays on the output disk.    *)
ReadFails(r) ==
    /\ pc[r] = "copy"
    /\ Fault
    /\ Fail(r)
    /\ UNCHANGED <<fs, log, counter, path, handle, off, entries, nospace,
                   overlooked>>

(* The chunk cannot be written, or only in part; the buffered writer tries *)
(* once more when it is dropped, and may then succeed.                     *)
WriteFails(r) ==
    /\ pc[r] = "copy"
    /\ Fault
    /\ \/ data' = data
       \/ \E b \in {Torn, SourceChunk(r)} :
             data' = [data EXCEPT ![handle[r]] = Put(@, off[r] + 1, b)]
    /\ \/ Fail(r) /\ UNCHANGED nospace
       \/ StopFull(r)
    /\ UNCHANGED <<dirs, dir, log, counter, path, handle, off, entries,
                   overlooked>>

(* save removes the file the full disk cut short; the loop records the     *)
(* error and is left.                                                      *)
GiveUp(r) ==
    /\ pc[r] = "full"
    /\ Remove(r)
    /\ errors' = [errors EXCEPT ![r] = @ \cup {FailedPlan(r)}]
    /\ at' = [at EXCEPT ![r] = @ + 1]
    /\ pc' = [pc EXCEPT ![r] = "log"]
    /\ UNCHANGED <<dirs, data, log, counter, path, handle, off, entries,
                   nospace, overlooked, faults>>

-----------------------------------------------------------------------------
(* The result.                                                             *)

Length(f) == IF dir[f] = NoFile THEN 0 ELSE Len(data[dir[f]])

(* The file has bytes: it is entered in the log.                           *)
Enter(r) ==
    /\ pc[r] = "verify"
    /\ Length(path[r]) > 0
    /\ entries' = [entries EXCEPT ![r] =
                      Append(@, [file |-> path[r], plan |-> at[r] + 1])]
    /\ at' = [at EXCEPT ![r] = @ + 1]
    /\ pc' = [pc EXCEPT ![r] = "next"]
    /\ UNCHANGED <<fs, log, counter, path, handle, off, errors, nospace,
                   overlooked, faults>>

(* The file has no bytes, or its length cannot be read: it is removed.     *)
Discard(r) ==
    /\ pc[r] = "verify"
    /\ IF Length(path[r]) = 0 THEN UNCHANGED faults ELSE Fault
    /\ Remove(r)
    /\ Fail(r)
    /\ UNCHANGED <<dirs, data, log, counter, path, handle, off, entries,
                   nospace, overlooked>>

(* All plans were tried.                                                   *)
EndLoop(r) ==
    /\ pc[r] = "next"
    /\ at[r] = Len(plans)
    /\ pc' = [pc EXCEPT ![r] = "log"]
    /\ UNCHANGED <<fs, log, at, counter, path, handle, off, book, overlooked,
                   faults>>

(* write_log: the file is truncated, then filled.                          *)
OpenLog(r) ==
    /\ pc[r] = "log"
    /\ log' = TornLog
    /\ pc' = [pc EXCEPT ![r] = "logging"]
    /\ UNCHANGED <<fs, at, counter, path, handle, off, book, overlooked,
                   faults>>

FillLog(r) ==
    /\ pc[r] = "logging"
    /\ log' = LogFile("whole", entries[r])
    /\ pc' = [pc EXCEPT ![r] = "done"]
    /\ UNCHANGED <<fs, at, counter, path, handle, off, book, overlooked,
                   faults>>

(* The log cannot be opened or filled: the run ends all the same.          *)
LogFails(r) ==
    /\ pc[r] \in {"log", "logging"}
    /\ Fault
    /\ pc' = [pc EXCEPT ![r] = "done"]
    /\ UNCHANGED <<fs, log, at, counter, path, handle, off, book, overlooked>>

(* The process is killed.                                                  *)
Kill(r) ==
    /\ pc[r] \notin Over \cup {"new"}
    /\ Fault
    /\ pc' = [pc EXCEPT ![r] = "dead"]
    /\ UNCHANGED <<fs, log, at, counter, path, handle, off, book, overlooked>>

Step(r) ==
    \/ EnterDir(r)
    \/ EnterDirFails(r)
    \/ Probe(r)
    \/ ProbeFails(r)
    \/ Create(r)
    \/ CreateFails(r)
    \/ CopyChunk(r)
    \/ ReadFails(r)
    \/ WriteFails(r)
    \/ GiveUp(r)
    \/ Enter(r)
    \/ Discard(r)
    \/ EndLoop(r)
    \/ OpenLog(r)
    \/ FillLog(r)
    \/ LogFails(r)

Next ==
    /\ \E r \in Run : Start(r) \/ Step(r) \/ Kill(r)
    /\ UNCHANGED plans

Spec == Init /\ [][Next]_vars

(* A run is one thread and its calls return: until it is over or killed it *)
(* takes its next step.                                                    *)
FairSpec == Spec /\ \A r \in Run : WF_vars(Step(r) /\ UNCHANGED plans)
-----------------------------------------------------------------------------
(* Properties.                                                             *)

(* The type invariant.                                                     *)
TypeOK ==
    /\ IsPlanList(plans)
    /\ dirs \subseteq Types
    /\ dir \in [Path -> Inode \cup {NoFile}]
    /\ data \in [Inode -> Seq(Bytes)]
    /\ pc \in [Run -> {"new", "next", "probe", "create", "copy", "verify"} \cup Wrapup]
    /\ at \in [Run -> 0 .. Len(plans)]
    /\ counter \in [Run -> 1 .. MaxCounter]
    /\ path \in [Run -> Path \cup {NoFile}]
    /\ handle \in [Run -> Inode]
    /\ off \in [Run -> Nat]
    /\ entries \in [Run -> Seq([file : Path, plan : Index])]
    /\ errors \in [Run -> SUBSET Index]
    /\ nospace \in [Run -> BOOLEAN]
    /\ overlooked \subseteq Run \X Path \X Inode
    /\ faults \in 0 .. MaxFaults

Entries(r) == {entries[r][k] : k \in 1 .. Len(entries[r])}

WholePlan(k) == [j \in 1 .. plans[k].size |-> <<k, j>>]

(* Some run overlooked file n at path f.                                   *)
Overlooked(f, n) == \E r \in Run : <<r, f, n>> \in overlooked

(* What a log entry says is true and stays true, through errors, kills and *)
(* later runs: the file is there and holds the bytes of its plan, all of   *)
(* them and in order; unless a later run, testing the name, could not see  *)
(* that very file.                                                         *)
EntriesFaithful ==
    \A r \in Run : \A e \in Entries(r) :
        \/ Overlooked(e.file, <<r, e.plan>>)
        \/ dir[e.file] # NoFile /\ data[dir[e.file]] = WholePlan(e.plan)

(* The files live runs are writing.                                        *)
Working == {<<r, at[r] + 1>> : r \in {q \in Run : pc[q] \in {"copy", "full", "verify"}}}

(* The paths a live run takes for free and is about to create, or to clear *)
(* when creating failed, though the file it overlooked is there.           *)
Overlooking ==
    {path[r] : r \in {q \in Run : /\ pc[q] \in {"create", "full"}
                                 /\ <<q, path[q], dir[path[q]]>> \in overlooked}}

(* A recovery never touches a file it is not writing: whatever was in the  *)
(* output directory, files of other programs, of earlier runs and of runs  *)
(* that were killed, keeps its name and its bytes.  The one exception is a *)
(* file the running recovery has just overlooked.                          *)
OtherFilesKept ==
    [][\A f \in Path \ Overlooking : dir[f] \notin Working \cup {NoFile} =>
          dir'[f] = dir[f] /\ data'[dir[f]] = data[dir[f]]]_vars

Entered(r) == {e.plan : e \in Entries(r)}
Started(r) == {n[2] : n \in {dir[f] : f \in Path} \cap ({r} \X Index)}

(* No carve goes unaccounted for: when a run has tried all its plans or    *)
(* stopped, each plan it came to has either an entry or an error, never    *)
(* both; it stops early only when the disk is full; and a file it left     *)
(* behind that is not in the log has an error.                             *)
EveryPlanAccounted ==
    \A r \in Run : pc[r] \in {"log", "logging", "done"} =>
        /\ Entered(r) \cup errors[r] = 1 .. at[r]
        /\ Entered(r) \cap errors[r] = {}
        /\ at[r] < Len(plans) => nospace[r]
        /\ Started(r) \subseteq Entered(r) \cup errors[r]

(* Once a call found the output disk full, no further plan is carved, as   *)
(* the comment of save has it: true of files, and not of the directories   *)
(* of types that --organize asks for.                                      *)
StopsWhenFull == \A r \in Run : nospace[r] => pc[r] \in Wrapup

(* A run that has started ends, whichever names are taken and whichever    *)
(* calls fail.                                                             *)
Termination == \A r \in Run : pc[r] = "next" ~> pc[r] \in Over

(* What a path holds, seen from outside: a file that a live run is writing *)
(* is not there yet.                                                       *)
FileAt(f) ==
    IF dir[f] \in Working THEN NoFile
    ELSE IF dir[f] \in {NoFile, Foreign} THEN dir[f]
    ELSE IF \E e \in Entries(dir[f][1]) :
               e.file = f /\ e.plan = dir[f][2] /\ data[dir[f]] = WholePlan(e.plan)
         THEN <<"plan", dir[f][2]>>
         ELSE Scrap

(* What became of plan k in run r, as far as it has recorded it.           *)
OutcomeOf(r, k) ==
    IF k \in errors[r] THEN <<"failed">>
    ELSE IF k \in Entered(r)
    THEN <<"saved", (CHOOSE e \in Entries(r) : e.plan = k).file>>
    ELSE <<"todo">>

(* Saving is atomic for those who look at the output directory, whatever   *)
(* fails and whenever a run is killed: an entered file appears whole and   *)
(* at once, under a new path, a failed plan leaves at most one scrap, and  *)
(* a whole log lists what its run has saved.  A file may be lost only      *)
(* while it is overlooked.  A scrap may be empty, and a log may replace    *)
(* that of an earlier run.                                                 *)
Atomic == INSTANCE AtomicSave WITH
             files   <- [f \in Path |-> FileAt(f)],
             overlooked <- Overlooking,
             outcome <- [r \in Run |-> [k \in Index |-> OutcomeOf(r, k)]],
             log     <- [state |-> log.state,
                         entries |-> {log.entries[k] : k \in 1 .. Len(log.entries)}]
SavesAtomically == Atomic!Spec
=============================================================================
