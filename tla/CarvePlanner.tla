---------------------------- MODULE CarvePlanner ----------------------------
(***************************************************************************)
(* plan_carves of src/src/carver.rs: every header hit of the scan becomes  *)
(* at most one plan (offset, size, type), the hits being handled by a      *)
(* thread pool in any order; the plans are then sorted by offset and those *)
(* that begin inside an earlier plan of their own type are dropped.        *)
(*                                                                         *)
(* What is on the source is abstracted to what planning asks of it: the    *)
(* scan's hits, the comment length in a ZIP end record, and for each hit   *)
(* whether its validator accepts it, which type it turns out to have and   *)
(* which size its parser finds.  The answers for a hit are read once, when *)
(* the hit is planned, and may be any.                                     *)
(***************************************************************************)
EXTENDS Integers, FiniteSets

CONSTANTS
    DiskSize,    \* size of the source
    DB,          \* the signatures: see DatabaseAssumption
    MaxSizeArg,  \* the max_size argument
    Wanted,      \* the types that pass the filter
    CommentLens, \* the ZIP comment lengths that occur, 0 .. 65535 in the code
    ParsedSizes, \* the sizes a parser may find
    MaxHits      \* bound on the number of header hits

VARIABLES
    headers,     \* the scan's header hits
    footers,     \* footers[s]: the addresses of the footers of s
    comment,     \* comment[f]: what the end record at f says its comment's
                 \* length is, 0 if it cannot be read
    pending,     \* hits not yet planned
    candidates,  \* the plans made from the hits
    rest,        \* candidates the deduplication has not come to
    kept,        \* plans that survived it
    last_end     \* last_end[t]: end of the last plan of type t kept

vars == <<headers, footers, comment, pending, candidates, rest, kept, last_end>>

Sigs == DOMAIN DB
Types == UNION {DB[s].names : s \in Sigs}
Addr == 0 .. (DiskSize - 1)
Hits == [addr : Addr, sig : Sigs]

NoParse == -1     \* the parser found no size
NoFooter == -1    \* no footer ends the file

(* A signature: the types it resolves to; the bytes between the start of   *)
(* the file and the pattern (4 for ftyp); the length of the record that    *)
(* begins at a footer, 0 without footer, and whether a comment follows it  *)
(* (ZIP); the size bounds; whether a validator looks at the hit; whether   *)
(* there is a size parser, and whether its failure rejects the hit.        *)
ASSUME DatabaseAssumption ==
    \A s \in Sigs :
        DB[s] \in [names : SUBSET Types, shift : Nat, footer : Nat,
                   has_comment : BOOLEAN, min_size : Nat \ {0}, max_size : Nat,
                   validated : BOOLEAN, parser : BOOLEAN, strict : BOOLEAN]

ASSUME ArgumentAssumption ==
    /\ DiskSize \in Nat
    /\ MaxSizeArg \in Nat
    /\ CommentLens \subseteq Nat
    /\ ParsedSizes \subseteq Nat
    /\ MaxHits \in Nat

(* No pattern of the database is a prefix of another: at most one of them  *)
(* is found at an address.                                                 *)
Nothing == <<"nothing">>
Finds == (Sigs \X {"header"}) \cup {<<s, "footer">> : s \in {t \in Sigs : DB[t].footer # 0}}

Init ==
    /\ \E found \in [Addr -> Finds \cup {Nothing}] :
          /\ headers = {h \in Hits : found[h.addr] = <<h.sig, "header">>}
          /\ footers = [s \in Sigs |-> {f \in Addr : found[f] = <<s, "footer">>}]
    /\ Cardinality(headers) <= MaxHits
    /\ comment \in {C \in [Addr -> CommentLens \cup {0}] :
                      \A f \in Addr : C[f] # 0 =>
                          \E s \in Sigs : DB[s].has_comment /\ f \in footers[s]}
    /\ pending = headers
    /\ candidates = {}
    /\ rest = {}
    /\ kept = {}
    /\ last_end = [t \in Types |-> 0]

-----------------------------------------------------------------------------
(* Planning one hit.                                                       *)

Smaller(x, y) == IF x < y THEN x ELSE y
First(F) == CHOOSE f \in F : \A g \in F : f <= g

Start(h) == h.addr - DB[h.sig].shift

(* Slip: the cap does not stop at the end of the source.                   *)
CapPastEnd(h) == Smaller(DB[h.sig].max_size, MaxSizeArg)

Cap(h) ==
    Smaller(Smaller(DB[h.sig].max_size, MaxSizeArg), DiskSize - Start(h))

(* The size of the file at off if the footer of s at f ends it.            *)
SizeTo(s, off, f) ==
    f + DB[s].footer + (IF DB[s].has_comment THEN comment[f] ELSE 0) - off

(* Slip: the first footer is taken even if the file would be too small.    *)
StopsAnywhere(s, off, cap, f) == TRUE

(* The search through the sorted footers stops at a footer that would make *)
(* the file larger than cap, in vain, or at one that makes it large enough.*)
Stops(s, off, cap, f) ==
    SizeTo(s, off, f) > cap \/ SizeTo(s, off, f) >= DB[s].min_size

(* Slip: the footers are searched from the far end.                        *)
FooterSizeLast(s, off, cap) ==
    LET fits == {f \in footers[s] : f > off /\ SizeTo(s, off, f) <= cap
                                   /\ SizeTo(s, off, f) >= DB[s].min_size}
    IN IF fits = {} THEN NoFooter
       ELSE SizeTo(s, off, CHOOSE f \in fits : \A g \in fits : g <= f)

(* find_footer_end, as the size of the file.                               *)
FooterSize(s, off, cap) ==
    LET stops == {f \in footers[s] : f > off /\ Stops(s, off, cap, f)}
        size  == SizeTo(s, off, First(stops))
    IN IF stops = {} \/ size > cap THEN NoFooter ELSE size

(* The plan for hit h of type t whose parser found parsed.  sig and parsed *)
(* are not in the code's CarvePlan: they say where the plan came from.     *)
PlanFor(h, t, parsed) ==
    LET off == Start(h)
        cap == Cap(h)
        end == IF DB[h.sig].footer = 0 THEN NoFooter
               ELSE FooterSize(h.sig, off, cap)
        size == IF parsed # NoParse THEN Smaller(parsed, cap)
                ELSE IF end # NoFooter THEN end ELSE cap
        cut == \/ parsed # NoParse /\ parsed >= cap
               \/ parsed = NoParse /\ end = NoFooter
    IN [offset |-> off, size |-> size, type_name |-> t, truncated |-> cut,
        sig |-> h.sig, parsed |-> parsed]

(* Slip: the size found is not compared with the smallest legal one.       *)
PlannableAnySize(h, t, parsed) ==
    /\ Start(h) >= 0
    /\ Cap(h) >= DB[h.sig].min_size
    /\ t \in Wanted
    /\ parsed = NoParse => ~ DB[h.sig].strict

(* A hit becomes a plan unless it is too close to an end of the source, is *)
(* of a type not asked for, cannot be parsed though its format says it     *)
(* can, or is too small.                                                   *)
Plannable(h, t, parsed) ==
    /\ Start(h) >= 0
    /\ Cap(h) >= DB[h.sig].min_size
    /\ t \in Wanted
    /\ parsed = NoParse => ~ DB[h.sig].strict
    /\ PlanFor(h, t, parsed).size >= DB[h.sig].min_size

(* The size parsers: none, or whatever size the bytes of the header give.  *)
ParseResults(s) == {NoParse} \cup (IF DB[s].parser THEN ParsedSizes ELSE {})

(* validate_jpeg to validate_tiff and the brands of classify_ftyp: each    *)
(* looks at the first bytes of the hit and says whether it is genuine.     *)
Verdicts(s) == {TRUE} \cup (IF DB[s].validated THEN {FALSE} ELSE {})

(* classify_zip, and classify_ftyp for a known brand: the bytes decide     *)
(* which of its types the file is of.                                      *)
Resolved(s) == DB[s].names

PlanOne(h) ==
    /\ h \in pending
    /\ pending' = pending \ {h}
    /\ \E t \in Resolved(h.sig), parsed \in ParseResults(h.sig),
          valid \in Verdicts(h.sig) :
          /\ LET made == IF valid /\ Plannable(h, t, parsed)
                         THEN {PlanFor(h, t, parsed)} ELSE {}
             IN /\ candidates' = candidates \cup made
                /\ rest' = rest \cup made
    /\ UNCHANGED <<headers, footers, comment, kept, last_end>>

-----------------------------------------------------------------------------
(* Deduplication.                                                          *)

(* Slip: plans are taken in the order in which the hits were found.        *)
NextInOrderAny(p) == p \in rest

NextInOrder(p) == p \in rest /\ \A q \in rest : p.offset <= q.offset

(* Slip: only a plan that lies wholly within the last one is dropped.      *)
CoveredWhole(p) == p.offset + p.size <= last_end[p.type_name]

Covered(p) == p.offset < last_end[p.type_name]

(* Retain one plan or drop it.                                             *)
Retain(p) ==
    /\ pending = {}
    /\ NextInOrder(p)
    /\ rest' = rest \ {p}
    /\ IF Covered(p)
       THEN UNCHANGED <<kept, last_end>>
       ELSE /\ kept' = kept \cup {p}
            /\ last_end' = [last_end EXCEPT ![p.type_name] = p.offset + p.size]
    /\ UNCHANGED <<headers, footers, comment, pending, candidates>>

Next ==
    \/ \E h \in pending : PlanOne(h)
    \/ \E p \in rest : Retain(p)

Spec == Init /\ [][Next]_vars

Done == pending = {} /\ rest = {}
-----------------------------------------------------------------------------
(* Properties.                                                             *)

Plans == [offset : Nat, size : Nat \ {0}, type_name : Types,
          truncated : BOOLEAN, sig : Sigs, parsed : Nat \cup {NoParse}]

(* The type invariant.                                                     *)
TypeOK ==
    /\ headers \subseteq Hits
    /\ footers \in [Sigs -> SUBSET Addr]
    /\ comment \in [Addr -> Nat]
    /\ pending \subseteq headers
    /\ candidates \subseteq Plans
    /\ rest \subseteq candidates
    /\ kept \subseteq candidates
    /\ last_end \in [Types -> Nat]

(* Whatever a header claims: a plan lies inside the source, respects both  *)
(* size limits and the type filter, and covers the bytes that made the hit *)
(* it came from.                                                           *)
InBounds ==
    \A p \in candidates :
        /\ 0 <= p.offset /\ p.offset + p.size <= DiskSize
        /\ p.size \in DB[p.sig].min_size .. DB[p.sig].max_size
        /\ p.size <= MaxSizeArg
        /\ p.type_name \in Wanted
        /\ \E h \in headers : /\ h.sig = p.sig
                              /\ h.addr = p.offset + DB[p.sig].shift

(* Looking for a footer loses no hit: of a format that has neither         *)
(* validator nor parser, every wanted hit with room for the smallest file  *)
(* gets a plan, whether its footers are missing, too near or too far.      *)
NoHitLost ==
    \A h \in headers \ pending :
        (/\ ~ DB[h.sig].validated /\ ~ DB[h.sig].parser /\ ~ DB[h.sig].strict
         /\ DB[h.sig].names \subseteq Wanted
         /\ Start(h) >= 0 /\ Cap(h) >= DB[h.sig].min_size)
        => \E p \in candidates : p.sig = h.sig /\ p.offset = Start(h)

(* No byte of the source is carved twice as the same type.                 *)
NoSameTypeOverlap ==
    \A p, q \in kept :
        p # q /\ p.type_name = q.type_name =>
            p.offset + p.size <= q.offset \/ q.offset + q.size <= p.offset

(* p begins inside q, a plan of its own type.                              *)
Inside(p, q) ==
    /\ p.type_name = q.type_name
    /\ q.offset <= p.offset
    /\ p.offset < q.offset + q.size

(* Nothing is dropped for nothing, whatever order the thread pool worked   *)
(* in: a plan that was not kept begins inside a plan of its type that was  *)
(* (not inside one that was dropped itself).                               *)
DropsJustified ==
    \A p \in candidates \ (rest \cup kept) : \E q \in kept : Inside(p, q)

(* A footer f makes the file p a legal size.                               *)
Fits(p, f) ==
    /\ f > p.offset
    /\ SizeTo(p.sig, p.offset, f) \in
          DB[p.sig].min_size .. Cap([addr |-> p.offset + DB[p.sig].shift,
                                     sig |-> p.sig])

FromFooter(p) == p.parsed = NoParse /\ DB[p.sig].footer # 0

(* A file that a footer ends is ended by the first footer that makes it a  *)
(* legal size, however the footers of its neighbours lie.                  *)
EndsAtFirstFit ==
    \A p \in candidates : FromFooter(p) /\ ~ p.truncated =>
        \E f \in footers[p.sig] :
            /\ Fits(p, f)
            /\ p.size = SizeTo(p.sig, p.offset, f)
            /\ \A g \in footers[p.sig] : Fits(p, g) => f <= g

(* A file is cut at the cap only when no footer makes it a legal size: the *)
(* comment of find_footer_end promises the first footer that yields at     *)
(* least min_size, within cap.                                             *)
CutOnlyWithoutFooter ==
    \A p \in candidates : FromFooter(p) /\ p.truncated =>
        \A f \in footers[p.sig] : ~ Fits(p, f)
=============================================================================
