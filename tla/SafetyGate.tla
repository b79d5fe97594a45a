----------------------------- MODULE SafetyGate -----------------------------
(***************************************************************************)
(* The course of run (src/src/main.rs) seen from its safety checks: what   *)
(* is written, where, and what was known about the disks at that time.     *)
(* Includes check_same_disk and confirm_or_abort of src/src/safety.rs and  *)
(* detect_kind and the opening of the source in src/src/disk.rs.           *)
(*                                                                         *)
(* A location is a slice (a partition, a volume or a whole disk).  Its     *)
(* bytes are on a physical disk; its device name, diskN, carries a number  *)
(* that the operating system gave it, which slices of one disk may share   *)
(* or not (the volumes of an APFS container have a number of their own).   *)
(* The source and the calls of the checks are external: df and metadata    *)
(* may fail, the path of the source may be an alias whose name shows no    *)
(* number or another one than that of the device it leads to, and devices  *)
(* may be exchanged, and numbered anew, while the program runs.            *)
(*                                                                         *)
(* Scanning and planning write nothing and are left out; that any of the   *)
(* calls may end the run with an error is the action Abandon.              *)
(***************************************************************************)
EXTENDS Integers

CONSTANTS
    Slice,      \* slices of disks
    Disk,       \* Disk[s]: the physical disk s is on
    Numberings, \* ways the system numbers the slices in their device names
    CallsFail,  \* df and the calls on metadata may fail
    Aliases,    \* the source may be given by an alias
    MaxReplugs  \* bound on how often devices are exchanged

NoUnit == -1    \* a name that is not of the form diskN

ASSUME GateAssumption ==
    /\ Numberings \subseteq [Slice -> Nat \cup {NoUnit}]
    /\ CallsFail \in BOOLEAN
    /\ Aliases \in BOOLEAN
    /\ MaxReplugs \in Nat

Shown == UNION {{u[s] : s \in Slice} : u \in Numberings} \cup {NoUnit}

(* The path of the source: what it leads to, and the number its name       *)
(* shows.                                                                  *)
Source == [type : {"device", "file", "other"}, slice : Slice, shown : Shown]

(* What a path to write to leads to: whether it exists, and whether some   *)
(* ancestor of it that is spelled out in the path does, as of any absolute *)
(* path and of no bare name.  The slice is that of a file made there.      *)
Place == [slice : Slice, exists : BOOLEAN, anchored : BOOLEAN]

NoLog == [slice |-> "none", exists |-> FALSE, anchored |-> FALSE]

Args == [dry_run : BOOLEAN, force : BOOLEAN, allow_file : BOOLEAN, root : BOOLEAN,
         log : Place \cup {NoLog}]   \* log: the parent of --log-file

VARIABLES
    args,     \* the arguments, and whether the user is root
    unit,     \* the numbers in device names at this moment
    source,   \* what the path of the source leads to at this moment
    out,      \* the output directory
    pc,       \* the next thing run does
    kind,     \* SourceKind, once detected
    warned,   \* the user was told that the disks could not be compared
    missed,   \* history: a call of a check failed and nobody was told
    answer,   \* what was typed at the prompt
    opened,   \* the slice that was opened for reading
    written,  \* what was written, and on which slice
    replugs   \* number of exchanges so far

vars == <<args, unit, source, out, pc, kind, warned, missed, answer, opened, written,
          replugs>>

Ended == {"refused", "failed", "done"}

(* A device node shows the number of its device, an alias any or none.     *)
ShowsItsNumber == source.shown = unit[source.slice]

Init ==
    /\ args \in Args
    /\ unit \in Numberings
    /\ source \in Source
    /\ Aliases \/ ShowsItsNumber
    /\ out \in Place
    /\ pc = "detect"
    /\ kind = "none"
    /\ warned = FALSE
    /\ missed = FALSE
    /\ answer = "none"
    /\ opened = {}
    /\ written = {}
    /\ replugs = 0

Write(what, s) == written' = written \cup {[what |-> what, slice |-> s]}

-----------------------------------------------------------------------------
(* The checks.                                                             *)

(* Slip: whatever is not a device is taken for an image file.              *)
AcceptedAnything(type) == TRUE

Accepted(type) == type = "device" \/ (type = "file" /\ args.allow_file)

(* detect_kind, and root for devices.                                      *)
DetectKind ==
    /\ pc = "detect"
    /\ Accepted(source.type)
    /\ source.type = "device" => args.root
    /\ kind' = source.type
    /\ pc' = "makeout"
    /\ UNCHANGED <<args, unit, source, out, warned, missed, answer, opened,
                   written, replugs>>

DetectRefuses ==
    /\ pc = "detect"
    /\ ~ Accepted(source.type) \/ (source.type = "device" /\ ~ args.root)
    /\ pc' = "refused"
    /\ UNCHANGED <<args, unit, source, out, kind, warned, missed, answer,
                   opened, written, replugs>>

(* Slip: the directory is made in a dry run as well.                       *)
MakesOutputAlways == TRUE

MakesOutput == ~ args.dry_run

(* create_dir_all, unless this is a dry run.                               *)
MakeOutput ==
    /\ pc = "makeout"
    /\ out' = [out EXCEPT !.exists = @ \/ MakesOutput]
    /\ IF MakesOutput /\ ~ out.exists THEN Write("dir", out.slice) ELSE UNCHANGED written
    /\ pc' = "checkout"
    /\ UNCHANGED <<args, unit, source, kind, warned, missed, answer, opened,
                   replugs>>

(* existing_ancestor finds something that exists.                          *)
HasAncestor(p) == p.exists \/ p.anchored

(* The slices existing_ancestor may end on: that of p, or any one further  *)
(* up if a test whether a name exists fails.                               *)
Found(p) == IF CallsFail THEN Slice ELSE {p.slice}

(* Whether df, or the metadata of both sides, can be had.                  *)
Answers(p) ==
    IF ~ HasAncestor(p) THEN {FALSE} ELSE IF CallsFail THEN BOOLEAN ELSE {TRUE}

(* Slip: only the device numbers are compared.                             *)
SameDiskByNumber(s, df, dev) == dev /\ source.type = "device" /\ source.slice = s

(* The names show the same number, or the device numbers are the same.     *)
SameDisk(s, df, dev) ==
    \/ df /\ source.shown # NoUnit /\ source.shown = unit[s]
    \/ dev /\ source.type = "device" /\ source.slice = s

Comparable(s, df) == df /\ source.shown # NoUnit /\ unit[s] # NoUnit

(* check_same_disk on place p.                                             *)
CheckSameDisk(p, next) ==
    \/ /\ kind = "file"
       /\ pc' = next
       /\ UNCHANGED <<warned, missed>>
    \/ /\ kind = "device"
       /\ \E s \in Found(p), df \in Answers(p), dev \in Answers(p) :
             IF SameDisk(s, df, dev)
             THEN pc' = "refused" /\ UNCHANGED <<warned, missed>>
             ELSE /\ pc' = next
                  /\ warned' = (warned \/ ~ Comparable(s, df))
                  /\ missed' = (missed \/ s # p.slice \/ ~ dev)

CheckOutput ==
    /\ pc = "checkout"
    /\ CheckSameDisk(out, IF args.log = NoLog THEN "confirm" ELSE "checklog")
    /\ UNCHANGED <<args, unit, source, out, kind, answer, opened, written,
                   replugs>>

CheckLog ==
    /\ pc = "checklog"
    /\ CheckSameDisk(args.log, "confirm")
    /\ UNCHANGED <<args, unit, source, out, kind, answer, opened, written,
                   replugs>>

(* Slip: anything that is typed counts as a yes.                           *)
ConfirmsAnyInput(typed) == args.force \/ typed # "nothing"

Confirms(typed) == args.force \/ typed = "YES"

(* confirm_or_abort; no prompt with --force.                               *)
Confirm ==
    /\ pc = "confirm"
    /\ \E typed \in (IF args.force THEN {"none"} ELSE {"YES", "yes", "nothing"}) :
          /\ answer' = typed
          /\ pc' = IF Confirms(typed) THEN "open" ELSE "refused"
    /\ UNCHANGED <<args, unit, source, out, kind, warned, missed, opened,
                   written, replugs>>

-----------------------------------------------------------------------------
(* The work.                                                               *)

(* RawDisk::open looks the path up anew.                                   *)
Open ==
    /\ pc = "open"
    /\ IF Accepted(source.type)
       THEN opened' = {source.slice} /\ pc' = IF args.dry_run THEN "log" ELSE "carve"
       ELSE pc' = "failed" /\ UNCHANGED opened
    /\ UNCHANGED <<args, unit, source, out, kind, warned, missed, answer,
                   written, replugs>>

(* The carve loop: some files are recovered, or none.                      *)
Carve ==
    /\ pc = "carve"
    /\ Write("files", out.slice) \/ UNCHANGED written
    /\ pc' = "log"
    /\ UNCHANGED <<args, unit, source, out, kind, warned, missed, answer,
                   opened, replugs>>

(* write_log, with create_dir_all on its parent.                           *)
WriteLog ==
    /\ pc = "log"
    /\ IF args.log # NoLog THEN Write("log", args.log.slice)
       ELSE IF args.dry_run THEN UNCHANGED written
       ELSE Write("log", out.slice)
    /\ pc' = "done"
    /\ UNCHANGED <<args, unit, source, out, kind, warned, missed, answer,
                   opened, replugs>>

(* Some call fails and the run ends.                                       *)
Abandon ==
    /\ pc \notin Ended
    /\ pc' = "failed"
    /\ UNCHANGED <<args, unit, source, out, kind, warned, missed, answer,
                   opened, written, replugs>>

(* Devices are exchanged: numbers are given anew, and the path of the      *)
(* source, which stays what it is, leads elsewhere.                        *)
Replug ==
    /\ pc \notin Ended
    /\ replugs < MaxReplugs
    /\ replugs' = replugs + 1
    /\ unit' \in Numberings
    /\ source' \in Source
    /\ source'.shown = source.shown
    /\ Aliases \/ ShowsItsNumber'
    /\ UNCHANGED <<args, out, pc, kind, warned, missed, answer, opened, written>>

Next ==
    \/ DetectKind
    \/ DetectRefuses
    \/ MakeOutput
    \/ CheckOutput
    \/ CheckLog
    \/ Confirm
    \/ Open
    \/ Carve
    \/ WriteLog
    \/ Abandon
    \/ Replug

Spec == Init /\ [][Next]_vars
-----------------------------------------------------------------------------
(* Properties.                                                             *)

Writes == [what : {"dir", "files", "log"}, slice : Slice]

(* The type invariant.                                                     *)
TypeOK ==
    /\ args \in Args
    /\ unit \in Numberings
    /\ source \in Source
    /\ out \in Place
    /\ pc \in {"detect", "makeout", "checkout", "checklog", "confirm", "open",
               "carve", "log"} \cup Ended
    /\ kind \in {"none", "device", "file"}
    /\ warned \in BOOLEAN
    /\ missed \in BOOLEAN
    /\ answer \in {"none", "YES", "yes", "nothing"}
    /\ opened \subseteq Slice
    /\ written \subseteq Writes
    /\ replugs \in 0 .. MaxReplugs

(* The disks that were read as source.                                     *)
Scanned == {Disk[s] : s \in opened}

DisksWritten(kinds) == {Disk[w.slice] : w \in {v \in written : v.what \in kinds}}

(* Without the user's consent nothing is written but the output directory: *)
(* a run that is refused, or that gets no YES, leaves no file and no log,  *)
(* whatever happens to the devices in between.                             *)
NothingWithoutConsent ==
    (pc = "refused" \/ ~ (args.force \/ answer = "YES")) =>
        \A w \in written : w.what = "dir"

(* A dry run without --log-file writes nothing at all, not even the output *)
(* directory.                                                              *)
DryRunWritesNothing == args.dry_run /\ args.log = NoLog => written = {}

(* As long as the devices stay where they are, a run that carves from a    *)
(* device without a warning has put no file and no log on what it read,    *)
(* nor on any slice with the number in the name of the source, the log as  *)
(* little as the output directory; unless a call of the check failed and   *)
(* nobody was told.                                                        *)
ComparedElsewhere ==
    replugs = 0 /\ kind = "device" /\ ~ warned /\ ~ missed =>
        \A w \in written :
            w.what # "dir" => w.slice \notin opened /\ unit[w.slice] # source.shown

(* A run that carves from a device has its files and its log on another    *)
(* physical disk, unless it warned the user that it could not compare the  *)
(* disks: the README says that this is verified before any scan, and       *)
(* output.rs that it has been verified of the directory of all files.      *)
UnwarnedIsElsewhere ==
    kind = "device" /\ ~ warned => DisksWritten({"files", "log"}) \cap Scanned = {}

(* The source disk is never modified: the program's own description says   *)
(* that it is never written to, modified, truncated or repaired in any way.*)
SourceNotModified ==
    kind = "device" => Disk[source.slice] \notin DisksWritten({"dir", "files", "log"})
=============================================================================
