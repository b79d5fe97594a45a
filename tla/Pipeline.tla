------------------------------ MODULE Pipeline ------------------------------
(***************************************************************************)
(* One recovery from the arguments to the log: run of src/src/main.rs      *)
(* hands the list of active signatures and the chunk size to the scan, the *)
(* scan's hits to the planner and the planner's list to the carve loop.    *)
(* Scanner, CarvePlanner and Recovery are composed here over one source;   *)
(* this module adds the arguments and what is handed over.                 *)
(*                                                                         *)
(* What validators and size parsers answer is left open, as in             *)
(* CarvePlanner.                                                           *)
(***************************************************************************)
EXTENDS Integers, SequencesExt

CONSTANTS
    Byte, Zero, TotalSize, MinBlock, MaxFlaky,   \* of Scanner
    DB,            \* of CarvePlanner; a signature's index is its name
    Header,        \* Header[s]: header bytes of signature s
    Footer,        \* Footer[s]: footer bytes of s, or << >>
    ParsedSizes,   \* the sizes a parser may find
    MaxFaults,     \* of Recovery
    TypeArg,       \* --types, as a set
    BlockArg,      \* --block-size
    MaxSizeArg,    \* --max-size
    Organize,      \* --organize
    DefaultChunk,  \* the size of a chunk, 64 MB in the code
    CopyBuf        \* the size of the copy buffer, 1 MB in the code

VARIABLES
    phase,         \* "scan", "plan" or "save"
    disk, flaky, scan_pc, pos, carry, buf, scan_off, skipped, found, bytes_scanned,
    headers, footers, comment, pending, candidates, rest, kept, last_end,
    plans, dirs, dir, data, log, pc, at, counter, path, handle, off, entries,
    errors, nospace, overlooked, faults

scanning == <<disk, flaky, scan_pc, pos, carry, buf, scan_off, skipped, found,
              bytes_scanned>>
planning == <<headers, footers, comment, pending, candidates, rest, kept, last_end>>
saving == <<plans, dirs, dir, data, log, pc, at, counter, path, handle, off,
            entries, errors, nospace, overlooked, faults>>
vars == <<phase, scanning, planning, saving>>

-----------------------------------------------------------------------------
(* The arguments.                                                          *)

Sigs == DOMAIN DB

(* valid_type_names: the types of all signatures.                          *)
ValidTypeNames == UNION {DB[s].names : s \in Sigs}

(* --types is refused when it names no type or an unknown one.             *)
ASSUME FilterAssumption == TypeArg # {} /\ TypeArg \subseteq ValidTypeNames

(* A block size of 0 makes the program divide by it.                       *)
ASSUME BlockAssumption == BlockArg \in Nat \ {0}

ASSUME NumbersAssumption ==
    /\ TotalSize \in Nat /\ MaxSizeArg \in Nat /\ ParsedSizes \subseteq Nat
    /\ Byte \subseteq Nat /\ Zero \in Byte
    /\ MinBlock \in Nat \ {0} /\ DefaultChunk \in Nat /\ CopyBuf \in Nat \ {0}
    /\ MaxFlaky \in Nat /\ MaxFaults \in Nat
    /\ Organize \in BOOLEAN

(* The signatures: as in CarvePlanner; no pattern is longer than a retry   *)
(* block and one byte, and the record that ends a file begins with the     *)
(* footer (of ZIP it is longer).                                           *)
ASSUME FormatsAssumption ==
    /\ IsFiniteSet(ValidTypeNames)
    /\ \A s \in Sigs :
        /\ DB[s] \in [names : (SUBSET ValidTypeNames) \ {{}}, shift : Nat, footer : Nat,
                      has_comment : BOOLEAN, min_size : Nat \ {0}, max_size : Nat,
                      validated : BOOLEAN, parser : BOOLEAN, strict : BOOLEAN]
        /\ Header[s] \in Seq(Byte) \ {<< >>} /\ Footer[s] \in Seq(Byte)
        /\ Len(Header[s]) <= MinBlock + 1 /\ Len(Footer[s]) <= MinBlock + 1
        /\ Len(Footer[s]) <= DB[s].footer
        /\ Footer[s] = << >> => DB[s].footer = 0

(* Only one format has a comment.  Two signatures of one type differ in a  *)
(* byte of their headers, counted from the start of the file (GIF, TIFF    *)
(* and RAR have two each).                                                 *)
ASSUME TableAssumption ==
    \A s, t \in Sigs : s # t =>
        /\ ~ (DB[s].has_comment /\ DB[t].has_comment)
        /\ DB[s].names \cap DB[t].names # {} =>
              \E i \in DOMAIN Header[s], j \in DOMAIN Header[t] :
                  DB[s].shift + i = DB[t].shift + j /\ Header[s][i] # Header[t][j]

(* Slip: a signature is scanned for only under its own name.               *)
ActiveByName == Sigs \cap TypeArg

(* active_signatures: zip also covers the formats built on it, ftyp both   *)
(* brands.                                                                 *)
ActiveSignatures == {s \in Sigs : DB[s].names \cap TypeArg # {}}

(* A whole number of blocks, at least one.                                 *)
ChunkArgument ==
    ((IF BlockArg > DefaultChunk THEN BlockArg ELSE DefaultChunk) \div BlockArg) * BlockArg

Scan == INSTANCE Scanner WITH
            Active <- ActiveSignatures, ChunkArg <- ChunkArgument,
            pc <- scan_pc, off <- scan_off, errors <- skipped

Planner == INSTANCE CarvePlanner WITH
            DiskSize <- TotalSize, Wanted <- TypeArg,
            CommentLens <- {}, MaxHits <- 0

(* Plans of one type that are kept do not overlap.                         *)
MaxKept == TotalSize * Cardinality(ValidTypeNames)

Save == INSTANCE Recovery WITH
            Run <- {1}, Types <- ValidTypeNames, MaxPlans <- MaxKept,
            PlanLists <- {<< >>}, Earlier <- {}

Init ==
    /\ phase = "scan"
    /\ Scan!Init
    /\ headers = {} /\ pending = {} /\ candidates = {} /\ rest = {} /\ kept = {}
    /\ footers = [s \in Sigs |-> {}]
    /\ comment = [a \in Scan!Addr |-> 0]
    /\ last_end = [t \in ValidTypeNames |-> 0]
    /\ Save!Init

-----------------------------------------------------------------------------
(* What is handed over.                                                    *)

(* Slip: the scan mixes footers among the headers.                         *)
RecordedMixed(footer) ==
    {[addr |-> pa[2], sig |-> pa[1].sig] : pa \in {x \in DOMAIN found : found[x] > 0}}

(* The scan's headers, or its footers.                                     *)
Recorded(footer) ==
    {[addr |-> pa[2], sig |-> pa[1].sig] :
        pa \in {x \in DOMAIN found : found[x] > 0 /\ x[1].is_footer = footer}}

(* The address of the comment length in the end record at f, if f is one.  *)
CommentAddr(f) ==
    {f + DB[h.sig].footer - 1 :
        h \in {g \in Recorded(TRUE) : g.addr = f /\ DB[g.sig].has_comment}}

(* The scan is over: its hits go to the planner, which reads the comment   *)
(* lengths from the source; a length it cannot read counts as 0.           *)
PlanHits ==
    /\ phase = "scan"
    /\ scan_pc = "done"
    /\ phase' = "plan"
    /\ headers' = Recorded(FALSE)
    /\ pending' = headers'
    /\ footers' = [s \in Sigs |-> {h.addr : h \in {g \in Recorded(TRUE) : g.sig = s}}]
    /\ \E lost \in SUBSET flaky :
          comment' = [f \in Scan!Addr |->
                         IF CommentAddr(f) \cap (Scan!Addr \ lost) = {} THEN 0
                         ELSE disk[CHOOSE a \in CommentAddr(f) : TRUE]]
    /\ UNCHANGED <<scanning, candidates, rest, kept, last_end, saving>>

(* Slip: the last chunk is forgotten if it is not full.                    *)
ChunksFull(n) == n \div CopyBuf

(* The chunks in which n bytes are copied.                                 *)
Chunks(n) == (n + CopyBuf - 1) \div CopyBuf

(* Planning is over: the plans that were kept are carved by their offsets. *)
CarvePlans ==
    /\ phase = "plan"
    /\ Planner!Done
    /\ phase' = "save"
    /\ \E ps \in SetToSeqs(kept) :
          /\ \A j, k \in DOMAIN ps : j < k => ps[j].offset <= ps[k].offset
          /\ plans' = [k \in DOMAIN ps |->
                          [type |-> ps[k].type_name, size |-> Chunks(ps[k].size),
                           offset |-> ps[k].offset, bytes |-> ps[k].size]]
    /\ UNCHANGED <<scanning, planning, dirs, dir, data, log, pc, at, counter, path,
                   handle, off, entries, errors, nospace, overlooked, faults>>

Next ==
    \/ phase = "scan" /\ Scan!Next /\ UNCHANGED <<phase, planning, saving>>
    \/ PlanHits
    \/ phase = "plan" /\ Planner!Next /\ UNCHANGED <<phase, scanning, saving>>
    \/ CarvePlans
    \/ phase = "save" /\ Save!Next /\ UNCHANGED <<phase, scanning, planning>>

Spec == Init /\ [][Next]_vars
-----------------------------------------------------------------------------
(* Properties.                                                             *)

(* The type invariant: every component keeps its own over the states the   *)
(* others hand to it.                                                      *)
TypeOK ==
    /\ phase \in {"scan", "plan", "save"}
    /\ Scan!TypeOK
    /\ Planner!TypeOK
    /\ Save!TypeOK

(* The bytes of plan k that were copied as its j-th chunk.                 *)
ChunkBytes(k, j) ==
    LET left == plans[k].bytes - (j - 1) * CopyBuf
    IN [i \in 1 .. (IF left < CopyBuf THEN left ELSE CopyBuf) |->
           disk[plans[k].offset + (j - 1) * CopyBuf + i - 1]]

(* What the log entry e names, byte by byte.                               *)
Contents(e) ==
    LET chunks == data[dir[e.file]]
    IN FlattenSeq([j \in DOMAIN chunks |-> ChunkBytes(chunks[j][1], chunks[j][2])])

FromDisk(a, n) == [i \in 1 .. n |-> disk[a + i - 1]]

IsAt(pattern, a) ==
    a + Len(pattern) <= TotalSize /\ FromDisk(a, Len(pattern)) = pattern

(* The size of the file of s at a whose last record is at f.               *)
SizeOnDisk(s, a, f) ==
    LET end == f + DB[s].footer
    IN end - a + (IF DB[s].has_comment THEN disk[end - 1] ELSE 0)

(* A file of signature s and n bytes lies at a: its header is in it, the   *)
(* first end record that makes it long enough ends it within the size      *)
(* limits, and none of its bytes was given up by the scan or is hard to    *)
(* read.                                                                   *)
IntactFile(s, a, n) ==
    /\ Scan!Span(a, n) \subseteq Scan!Addr \ (Scan!Skipped \cup flaky)
    /\ n <= DB[s].max_size /\ n <= MaxSizeArg
    /\ DB[s].shift + Len(Header[s]) <= n
    /\ IsAt(Header[s], a + DB[s].shift)
    /\ \E f \in (a + 1) .. (a + n - DB[s].footer) :
          /\ IsAt(Footer[s], f)
          /\ SizeOnDisk(s, a, f) = n
          /\ n >= DB[s].min_size
          /\ \A g \in (a + 1) .. (f - 1) :
                IsAt(Footer[s], g) => SizeOnDisk(s, a, g) < DB[s].min_size

(* The validator of s turned down the hit that begins a file at a.         *)
TurnedDown(s, a) ==
    /\ DB[s].validated
    /\ [addr |-> a + DB[s].shift, sig |-> s] \in headers
    /\ ~ \E p \in candidates : p.sig = s /\ p.offset = a

(* From end to end: a file of a wanted format that has a footer and no     *)
(* parser, that lies whole and readable on the source and that its         *)
(* validator does not turn down is copied out byte by byte and entered in  *)
(* the log, or an error says why not, or the output disk was full.  The    *)
(* one exception is a file that begins inside another plan of its type.    *)
IntactFilesRecovered ==
    pc[1] = "done" =>
        \A s \in Sigs, a \in Scan!Addr, n \in 1 .. TotalSize :
            (/\ Footer[s] # << >>
             /\ ~ DB[s].parser /\ ~ DB[s].strict /\ ~ TurnedDown(s, a)
             /\ DB[s].names \subseteq TypeArg
             /\ IntactFile(s, a, n)) =>
            \E k \in DOMAIN plans :
               /\ plans[k].type \in DB[s].names
               /\ \/ /\ plans[k].offset = a
                     /\ plans[k].bytes = n
                     /\ \/ k \in errors[1]
                        \/ nospace[1] /\ k > at[1]
                        \/ \E e \in Save!Entries(1) :
                              e.plan = k /\ Contents(e) = FromDisk(a, n)
                  \/ plans[k].offset < a /\ a < plans[k].offset + plans[k].bytes

(* Nothing is made up: every file in the log is of a type asked for, is a  *)
(* stretch of the source within the size limits, and begins with a header  *)
(* of that type, but for bytes the scan reported as unreadable.            *)
EntriesGenuine ==
    \A e \in Save!Entries(1) :
        LET p == plans[e.plan] IN
        /\ p.type \in TypeArg
        /\ p.bytes <= MaxSizeArg
        /\ Contents(e) = FromDisk(p.offset, p.bytes)
        /\ \E s \in Sigs :
              /\ p.type \in DB[s].names
              /\ \A i \in DOMAIN Header[s] :
                    LET a == p.offset + DB[s].shift + i - 1
                    IN disk[a] = Header[s][i] \/ a \in Scan!Skipped
=============================================================================
