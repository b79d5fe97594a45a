---------------------------- MODULE SizeParsers -----------------------------
(***************************************************************************)
(* The size parsers of src/src/carver.rs: two that walk through a file,    *)
(* parse_gif with skip_sub_blocks, from block to block to the trailer, and *)
(* parse_mp4, along the chain of boxes to the first that is not one; and   *)
(* four that compute the size from fields of the header.  They read the    *)
(* source through SourceReader.                                            *)
(*                                                                         *)
(* A cell of the source stands for what the code reads as one field: a     *)
(* size, a block introducer, a box type.  A GIF header is one cell (its    *)
(* flags), an image descriptor an introducer and one cell; a box header is *)
(* a size and a type, followed by a 64-bit size if the first size is 1; a  *)
(* SQLite header page size, versions and page count, that of 7z offset and *)
(* length of the next header, that of WAV and BMP a size and a kind.       *)
(* Addresses are words: sums wrap around, or panic in a build with         *)
(* overflow checks.                                                        *)
(***************************************************************************)
EXTENDS SourceReader

CONSTANTS
    Starts,       \* where a file may begin
    Margins,      \* how far the cap may end before the end of the source
    Extension, Image, Trailer,   \* block introducers of GIF
    Table,        \* Table[b]: length of the colour table that flags b announce
    Printable, Media,   \* box types: in printable characters; mdat and moov.
                  \* Media are also the WAVE form and the known BMP kinds
    LargeSize,    \* LargeSize[b]: the 64-bit size written as b
    PageSize,     \* PageSize[b]: the page size written as b, 0 if not legal
    MaxNext,      \* bound on the fields of a 7z header, 2^40 and 2^34 in the code
    MinParsed,    \* least size of a WAV or BMP file, 36 and 54 in the code
    Words,        \* number of 64-bit words
    MaxSteps,     \* bound on the blocks of a GIF, 1000000 in the code
    MaxBoxes      \* bound on the boxes, 4096 in the code

ASSUME ParserAssumption ==
    /\ Starts \subseteq Addr /\ Margins \subseteq Nat
    /\ \A s \in Starts, m \in Margins : s + m < Size
    /\ Extension # Image /\ Extension # Trailer /\ Image # Trailer
    /\ 0 \in Byte /\ Byte \subseteq Nat
    /\ Table \in [Byte -> Nat]
    /\ LargeSize \in [Byte -> 0 .. (Words - 1)]
    /\ PageSize \in [Byte -> Nat]
    /\ MaxNext \in Nat /\ MinParsed \in Nat
    /\ Words \in Nat \ (0 .. Size)
    /\ MaxSteps \in Nat /\ MaxBoxes \in Nat

(* The fields of a header are so narrow, or bounded so low, that the sizes *)
(* they say are words: 32 bits each for SQLite, WAV and BMP, MaxNext for   *)
(* 7z.  A source has less than 2^63 bytes: nothing GIF puts behind an      *)
(* address in it wraps around.                                             *)
ASSUME WidthAssumption ==
    /\ 2 * MaxNext + 1 < Words
    /\ \A b, c \in Byte : PageSize[b] * c < Words /\ b + 1 < Words
    /\ \A b \in Byte : Size + 1 + b < Words /\ Size + 2 + Table[b] < Words

VARIABLES
    parser,     \* "gif", "mp4" or one of HeaderParsers
    start, cap, \* the arguments of the parser
    checked,    \* the build panics on overflow
    pc,         \* what is read next, or "done" or "panic"
    pos,        \* address reached
    steps,      \* turns of the loop
    kind,       \* type of the box at pos
    saw_media,  \* saw_mdat or saw_moov
    size        \* the result

pvars == <<parser, start, cap, checked, pc, pos, steps, kind, saw_media, size>>
vars == <<rvars, pvars>>

HeaderParsers == {"sqlite", "7z", "wav", "bmp"}
Parsers == HeaderParsers \cup {"gif", "mp4"}

NoSize == -1
Limit == start + cap

(* What the planner has seen before it calls the parser: for MP4 the ftyp  *)
(* box, whose size and brand classify_ftyp has found plausible.            *)
IsCandidate ==
    parser = "mp4" => source[start] \notin {0, 1} /\ source[start + 1] \in Printable \ Media

Init ==
    /\ ReaderInit
    /\ parser \in Parsers
    /\ start \in Starts
    /\ IsCandidate
    /\ cap \in {Size - start - m : m \in Margins}
    /\ checked \in (IF parser = "mp4" THEN BOOLEAN ELSE {FALSE})
    /\ pc = IF parser = "mp4" THEN "box" ELSE "header"
    /\ pos = start
    /\ steps = 0
    /\ kind = 0
    /\ saw_media = FALSE
    /\ size = NoSize

Args == <<parser, start, cap, checked>>

(* The parser returns s.                                                   *)
Result(s) == size' = s /\ pc' = "done" /\ UNCHANGED pos

Goto(where, address) == pc' = where /\ pos' = address /\ UNCHANGED size

-----------------------------------------------------------------------------
(* Reading the next field.                                                 *)

(* Slip: the number of boxes is not bounded.                               *)
MayLoopForever == pc \in {"block", "sub"} => pos < Limit

(* What the loops ask before they read.                                    *)
MayLoop ==
    /\ pc \in {"block", "sub"} => pos < Limit
    /\ pc = "block" => steps <= MaxSteps
    /\ pc = "box" => steps < MaxBoxes

(* Slip: the boxes are not counted.                                        *)
TurnsUncounted == IF pc = "block" THEN steps + 1 ELSE steps

Turns == IF pc \in {"block", "box"} THEN steps + 1 ELSE steps

(* The number of fields of a header.                                       *)
Fields ==
    CASE parser = "gif" -> 1 [] parser = "sqlite" -> 3 [] OTHER -> 2

Ask ==
    /\ pc \notin {"done", "panic"}
    /\ MayLoop
    /\ CASE pc = "header" -> Request(start, Fields)
         [] pc \in {"block", "sub"} -> Request(pos, 1)
         [] pc = "image"  -> Request(pos + 1, 1)
         [] pc = "box"    -> Request(pos, 2)
         [] pc = "large"  -> Request(pos + 2, 1)
    /\ steps' = Turns
    /\ UNCHANGED <<Args, pc, pos, kind, saw_media, size>>

-----------------------------------------------------------------------------
(* parse_sqlite, parse_7z, parse_wav and parse_bmp.                        *)

(* Slip: the fields of 7z may have any value.                              *)
NextAnywhere(offset, length) == TRUE

NextPlausible(offset, length) == offset <= MaxNext /\ length <= MaxNext

(* The size that the fields h of a header say, and whether they may.       *)
Said(h) ==
    CASE parser = "sqlite" -> PageSize[h[1]] * h[3]
      [] parser = "7z"     -> 1 + LargeSize[h[1]] + LargeSize[h[2]]
      [] parser = "wav"    -> h[1] + 1
      [] parser = "bmp"    -> h[1]

Plausible(h) ==
    CASE parser = "sqlite" -> PageSize[h[1]] # 0 /\ h[2] \in {1, 2} /\ h[3] # 0
      [] parser = "7z"     -> NextPlausible(LargeSize[h[1]], LargeSize[h[2]])
      [] parser \in {"wav", "bmp"} -> h[2] \in Media /\ Said(h) >= MinParsed

HeaderSize ==
    /\ parser \in HeaderParsers /\ status = "ok"
    /\ Result(IF Plausible(buf) THEN Said(buf) % Words ELSE NoSize)
    /\ Release
    /\ UNCHANGED <<Args, steps, kind, saw_media>>

-----------------------------------------------------------------------------
(* parse_gif.                                                              *)

(* A field that cannot be read, or in a GIF lies beyond the cap.           *)
Fails ==
    /\ parser # "mp4" /\ pc # "done"
    /\ \/ status = "err" /\ Release
       \/ status = "idle" /\ ~ MayLoop /\ UNCHANGED rvars
    /\ Result(NoSize)
    /\ UNCHANGED <<Args, steps, kind, saw_media>>

(* Slip: the trailer is not counted.                                       *)
GifSizeShort == pos - start

GifSize == pos - start + 1

GifField ==
    /\ parser = "gif" /\ status = "ok"
    /\ LET b == buf[1] IN
       CASE pc = "header" -> Goto("block", start + 1 + Table[b])
         [] pc = "image"  -> Goto("sub", pos + 2 + Table[b])
         [] pc = "sub"    -> Goto(IF b = 0 THEN "block" ELSE "sub", pos + 1 + b)
         [] pc = "block" /\ b = Extension -> Goto("sub", pos + 2)
         [] pc = "block" /\ b = Image     -> Goto("image", pos)
         [] pc = "block" /\ b = Trailer   -> Result(GifSize)
         [] OTHER -> Result(NoSize)
    /\ Release
    /\ UNCHANGED <<Args, steps, kind, saw_media>>

-----------------------------------------------------------------------------
(* parse_mp4.                                                              *)

Total == (pos - start) % Words

(* The walk is over: what it covered is the file, if it held media.        *)
Conclude == Result(IF Total >= 2 /\ saw_media THEN Total ELSE NoSize)

ChainEnds ==
    /\ parser = "mp4" /\ pc \notin {"done", "panic"}
    /\ \/ status = "err" /\ Release
       \/ status = "idle" /\ ~ MayLoop /\ UNCHANGED rvars
    /\ Conclude
    /\ UNCHANGED <<Args, steps, kind, saw_media>>

(* Go on behind a box of n cells and type k.                               *)
Advance(n, k) ==
    /\ saw_media' = (saw_media \/ k \in Media)
    /\ IF checked /\ pos + n >= Words THEN Goto("panic", pos)
       ELSE IF (pos + n) % Words >= Limit THEN Result(cap)
       ELSE Goto("box", (pos + n) % Words)

(* Slip: a box may be shorter than its header.                             *)
BoxAnyLength(n, header_len, k) ==
    IF n = 0 THEN Result(cap) /\ UNCHANGED saw_media ELSE Advance(n, k)

(* What a box of n cells, its header included, does to the walk.           *)
Box(n, header_len, k) ==
    CASE n = 0 -> Result(cap) /\ UNCHANGED saw_media
      [] n \in 1 .. (header_len - 1) -> Conclude /\ UNCHANGED saw_media
      [] OTHER -> Advance(n, k)

BoxHeader ==
    /\ pc = "box" /\ status = "ok"
    /\ kind' = buf[2]
    /\ CASE buf[2] \notin Printable -> Conclude /\ UNCHANGED saw_media
         [] buf[2] \in Printable /\ buf[1] = 1 -> Goto("large", pos) /\ UNCHANGED saw_media
         [] OTHER -> Box(buf[1], 2, buf[2])
    /\ Release
    /\ UNCHANGED <<Args, steps>>

LargeBox ==
    /\ pc = "large" /\ status = "ok"
    /\ Box(LargeSize[buf[1]], 3, kind)
    /\ Release
    /\ UNCHANGED <<Args, steps, kind>>

Next ==
    \/ Ask
    \/ ReadStep /\ UNCHANGED pvars
    \/ HeaderSize
    \/ Fails
    \/ GifField
    \/ ChainEnds
    \/ BoxHeader
    \/ LargeBox

Spec == Init /\ [][Next]_vars

(* A parser is one thread, and a read is not interrupted forever.          *)
FairSpec == Spec /\ WF_vars(Next)
-----------------------------------------------------------------------------
(* Properties.                                                             *)

(* The type invariant: what a parser returns is a word.                    *)
TypeOK ==
    /\ source \in [Addr -> Byte] /\ flaky \in FlakySets
    /\ req \in [addr : 0 .. (Words - 1), len : 0 .. 3]
    /\ status \in {"idle", "reading", "ok", "err"}
    /\ buf \in Seq(Byte) /\ Len(buf) <= req.len
    /\ parser \in Parsers /\ checked \in BOOLEAN
    /\ start \in Starts /\ cap \in 0 .. (Size - start)
    /\ pc \in {"header", "block", "image", "sub", "box", "large", "done", "panic"}
    /\ pos \in 0 .. (Words - 1)
    /\ steps \in 0 .. (IF parser = "mp4" THEN MaxBoxes ELSE MaxSteps + 1)
    /\ kind \in Byte \cup {0} /\ saw_media \in BOOLEAN
    /\ size \in 0 .. (Words - 1) \cup {NoSize}

(* The grammar of GIF, by the end of what begins at each address: a chain  *)
(* of sub-blocks up to the empty one, and blocks up to the trailer.        *)
Beyond == Size + 1
At(a) == IF a < Size THEN source[a] ELSE 0
SubBlocksEnd[a \in Nat] ==
    IF a >= Size THEN Beyond
    ELSE IF source[a] = 0 THEN a + 1 ELSE SubBlocksEnd[a + 1 + source[a]]
BlocksEnd[a \in Nat] ==
    IF a >= Size THEN Beyond
    ELSE CASE source[a] = Trailer   -> a + 1
           [] source[a] = Extension -> BlocksEnd[SubBlocksEnd[a + 2]]
           [] source[a] = Image     -> BlocksEnd[SubBlocksEnd[a + 2 + Table[At(a + 1)]]]
           [] OTHER -> Beyond
GifEnd == BlocksEnd[start + 1 + Table[source[start]]]

(* parse_gif returns a size exactly if a well-formed GIF lies at start,    *)
(* within the cap and readable, and then it is the size of that GIF.       *)
GifIsWhole ==
    parser = "gif" /\ pc = "done" =>
        IF size # NoSize THEN start + size = GifEnd /\ size <= cap
        ELSE flaky # {} \/ GifEnd > Limit \/ steps > MaxSteps

(* The boxes of the file in the numbers of mathematics: a box is a readable *)
(* header, in printable characters, of a size that covers it; BoxLen is 0   *)
(* for a box that extends to the end of the file.                           *)
IsBox(a) ==
    /\ a + 2 <= Size
    /\ source[a + 1] \in Printable
    /\ source[a] = 1 => a + 3 <= Size /\ LargeSize[source[a + 2]] \notin {1, 2}
BoxLen(a) == IF source[a] = 1 THEN LargeSize[source[a + 2]] ELSE source[a]
Chain[a \in Nat] ==
    {a} \cup IF a < Limit /\ IsBox(a) /\ BoxLen(a) # 0 THEN Chain[a + BoxLen(a)] ELSE {}
Ends(a) == a >= Limit \/ ~ IsBox(a) \/ BoxLen(a) = 0
Wraps(a) == IsBox(a) /\ a + BoxLen(a) >= Words

(* Unless a size wraps the address around, parse_mp4 cuts a file only      *)
(* between two boxes or at the cap, and it stops at the end of the chain   *)
(* unless a box cannot be read or the boxes are too many.                  *)
Mp4EndsChain ==
    parser = "mp4" /\ pc = "done" /\ size # NoSize =>
        \/ size = cap /\ \E a \in Chain[start] : Ends(a) /\ (IsBox(a) \/ a >= Limit)
        \/ \E a \in Chain[start] :
              start + size = a /\ (Ends(a) \/ flaky # {} \/ steps = MaxBoxes)
        \/ \E a \in Addr : Wraps(a)

(* A size computed from a header is the one the header says: no field,     *)
(* however large, makes the sum wrap around to a smaller one.              *)
SizeIsSaid ==
    parser \in HeaderParsers /\ pc = "done" /\ size # NoSize =>
        size = Said([j \in 1 .. Fields |-> source[start + j - 1]])

(* A file is only taken for MP4 if mdat or moov was seen: the comment of   *)
(* parse_mp4 says that it requires one of them to be credible.             *)
CredibleOnly == parser = "mp4" /\ pc = "done" /\ size # NoSize => saw_media

(* Whatever the bytes of the source, a parser returns or panics.           *)
Termination == <>(pc \in {"done", "panic"})
=============================================================================
