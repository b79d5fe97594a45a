------------------------- MODULE SizeParsersProofs --------------------------
(***************************************************************************)
(* The size parsers, for every source, every width of words and every way  *)
(* reads fail or come in pieces: what they read, that their addresses stay *)
(* words, and that the sizes they return are right.                        *)
(***************************************************************************)
EXTENDS SizeParsers, SourceReaderProofs, WellFoundedInduction

-----------------------------------------------------------------------------
(* Recursion from a number to larger ones.                                 *)

(* What holds of every number from B on, and of each number if of all      *)
(* larger ones, holds of all numbers.                                      *)
LEMMA Downward ==
    ASSUME NEW B \in Nat, NEW G,
           \A a \in Nat : (\A b \in Nat : b > a => b \in G) => a \in G,
           \A a \in Nat : a >= B => a \in G
    PROVE  \A a \in Nat : a \in G
<1> DEFINE Bad == {B - a : a \in {x \in Nat : x \notin G}}
<1>1. \A a \in Nat : a \notin G => B - a \in Nat
  OBVIOUS
<1>2. SUFFICES ASSUME NEW c \in Nat, c \notin G PROVE FALSE
  OBVIOUS
<1>3. Bad \subseteq Nat /\ Bad # {}
  BY <1>1, <1>2
<1>4. PICK k \in Bad : \A g \in Bad : ~ (<<g, k>> \in OpToRel(<, Nat))
  BY <1>3, WFMin, NatLessThanWellFounded
<1>5. \A g \in Bad : <<g, k>> \in OpToRel(<, Nat) <=> g < k
  BY <1>3, <1>4 DEF OpToRel
<1>6. \A g \in Bad : ~ (g < k)
  BY <1>4, <1>5, Zenon
<1>7. PICK a \in Nat : a \notin G /\ k = B - a
  OBVIOUS
<1>8. \A b \in Nat : b > a => b \in G
  <2>1. SUFFICES ASSUME NEW b \in Nat, b > a, b \notin G PROVE FALSE
    OBVIOUS
  <2>2. B - b \in Bad /\ B - b < k
    BY <1>7, <2>1
  <2>3. QED
    BY <1>6, <2>2
<1>9. QED
  BY <1>7, <1>8

(* A walk goes on from a number to a larger one, next, unless it ends at   *)
(* the number, as it does from B on; its result, a member of V, is base    *)
(* where it ends and comb of the result of the rest where it goes on.      *)
IsWalk(B, V, Last, base, next, comb) ==
    /\ B \in Nat /\ base \in [Nat -> V]
    /\ next \in [Nat -> Nat] /\ comb \in [Nat -> [V -> V]]
    /\ \A a \in Nat : a \notin Last => next[a] > a
    /\ \A a \in Nat : a >= B => a \in Last

(* So the results of the walks are a function.                             *)
LEMMA WalkDefined ==
    ASSUME NEW B, NEW V, NEW Last, NEW base, NEW next, NEW comb,
           IsWalk(B, V, Last, base, next, comb)
    PROVE  \E f \in [Nat -> V] : \A a \in Nat :
              f[a] = IF a \in Last THEN base[a] ELSE comb[a][f[next[a]]]
<1>0. /\ B \in Nat /\ base \in [Nat -> V]
      /\ next \in [Nat -> Nat] /\ comb \in [Nat -> [V -> V]]
      /\ \A a \in Nat : a \notin Last => next[a] > a
      /\ \A a \in Nat : a >= B => a \in Last
  BY DEF IsWalk
<1> DEFINE Right(f, L) ==
              \A a \in Nat : a >= L =>
                 f[a] = IF a \in Last THEN base[a] ELSE comb[a][f[next[a]]]
           G == {L \in Nat : \E f \in [Nat -> V] : Right(f, L)}
<1>1. ASSUME NEW L \in Nat, L >= B PROVE L \in G
  <2>1. Right(base, L)
    BY <1>0, <1>1
  <2>2. QED
    BY <1>0, <2>1
<1>2. ASSUME NEW L \in Nat, \A b \in Nat : b > L => b \in G PROVE L \in G
  <2>1. PICK f \in [Nat -> V] : Right(f, L + 1)
    <3>1. L + 1 \in Nat /\ L + 1 > L
      OBVIOUS
    <3>2. L + 1 \in G
      <4> HIDE DEF G
      <4>1. QED
        BY <1>2, <3>1
    <3>3. QED
      BY <3>2
  <2> DEFINE g == [f EXCEPT ![L] = IF L \in Last THEN base[L] ELSE comb[L][f[next[L]]]]
  <2>2. g \in [Nat -> V]
    <3>1. L \notin Last => next[L] \in Nat /\ comb[L] \in [V -> V]
      BY <1>0
    <3>2. (IF L \in Last THEN base[L] ELSE comb[L][f[next[L]]]) \in V
      BY <1>0, <3>1
    <3>3. QED
      BY <3>2
  <2>3. \A a \in Nat : a # L => g[a] = f[a]
    OBVIOUS
  <2>4. g[L] = IF L \in Last THEN base[L] ELSE comb[L][f[next[L]]]
    OBVIOUS
  <2>5. \A a \in Nat : a \notin Last => next[a] \in Nat /\ next[a] > a
    BY <1>0
  <2> HIDE DEF g
  <2>6. ASSUME NEW a \in Nat, a >= L
        PROVE  g[a] = IF a \in Last THEN base[a] ELSE comb[a][g[next[a]]]
    <3>1. a \notin Last => next[a] \in Nat /\ next[a] # L
      BY <2>5, <2>6
    <3>2. a \notin Last => g[next[a]] = f[next[a]]
      BY <2>3, <3>1
    <3>3. CASE a = L
      BY <2>4, <3>2, <3>3
    <3>4. CASE a # L
      <4>1. a >= L + 1
        BY <2>6, <3>4
      <4>2. f[a] = IF a \in Last THEN base[a] ELSE comb[a][f[next[a]]]
        BY <2>1, <4>1
      <4>3. QED
        BY <2>3, <3>2, <3>4, <4>2
    <3>5. QED
      BY <3>3, <3>4
  <2>7. Right(g, L)
    BY <2>6
  <2>8. QED
    BY <2>2, <2>7
<1>3. 0 \in G
  <2> HIDE DEF G
  <2>1. QED
    BY <1>0, <1>1, <1>2, Downward
<1>4. PICK f \in [Nat -> V] : Right(f, 0)
  BY <1>3
<1>5. \A a \in Nat : f[a] = IF a \in Last THEN base[a] ELSE comb[a][f[next[a]]]
  BY <1>4
<1>6. QED
  BY <1>5

-----------------------------------------------------------------------------
(* What holds of the parsers.                                              *)

(* Which field a parser has asked for.                                     *)
Asked ==
    status # "idle" =>
        /\ pc \notin {"done", "panic"}
        /\ pc = "header" => req = [addr |-> start, len |-> Fields]
        /\ pc \in {"block", "sub"} => req = [addr |-> pos, len |-> 1] /\ pos < Limit
        /\ pc = "image" => req = [addr |-> pos + 1, len |-> 1]
        /\ pc = "box" => req = [addr |-> pos, len |-> 2]
        /\ pc = "large" => req = [addr |-> pos + 2, len |-> 1]

(* Why a read has failed.                                                  *)
Cause == status = "err" => flaky # {} \/ req.addr + req.len > Size

(* The places a parser comes to, and what it has read before.              *)
Stage ==
    /\ parser \in HeaderParsers => pc \in {"header", "done"}
    /\ parser = "gif" => pc \in {"header", "block", "image", "sub", "done"} /\ pos >= start
    /\ parser = "mp4" => pc \in {"box", "large", "done", "panic"}
    /\ pc = "image" => pos < Limit
    /\ pc = "large" => /\ pos + 2 <= Size /\ source[pos] = 1
                       /\ source[pos + 1] \in Printable

PInv == TypeOK /\ RInv /\ Asked /\ Cause /\ Stage

-----------------------------------------------------------------------------
(* One state.                                                              *)

(* Addresses, bounds and arguments are numbers.                            *)
LEMMA Numbers ==
    ASSUME TypeOK
    PROVE  /\ Size \in Nat /\ Words \in Nat /\ Size < Words
           /\ start \in Nat /\ start < Size /\ start \in Addr
           /\ cap \in Nat /\ Limit \in Nat /\ Limit = start + cap /\ Limit <= Size
           /\ pos \in Nat /\ pos < Words
           /\ steps \in Nat /\ MaxSteps \in Nat /\ MaxBoxes \in Nat
           /\ Byte \subseteq Nat
<1>1. Size \in Nat
  BY ReaderAssumption
<1>2. /\ Words \in Nat /\ Size < Words
      /\ MaxSteps \in Nat /\ MaxBoxes \in Nat /\ Byte \subseteq Nat
  BY <1>1, ParserAssumption
<1>3. start \in Nat /\ start < Size /\ start \in Addr
  BY <1>1, ParserAssumption DEF TypeOK, Addr
<1>4. cap \in Nat /\ Limit \in Nat /\ Limit = start + cap /\ Limit <= Size
  BY <1>1, <1>3 DEF TypeOK, Limit
<1>5. pos \in Nat /\ pos < Words
  BY <1>2 DEF TypeOK
<1>6. steps \in Nat
  BY <1>2 DEF TypeOK
<1>7. QED
  BY <1>1, <1>2, <1>3, <1>4, <1>5, <1>6

(* A header that says a size has two or three fields.                      *)
LEMMA FieldsAreFew ==
    ASSUME parser \in HeaderParsers
    PROVE  /\ Fields \in {2, 3}
           /\ parser = "sqlite" => Fields = 3
           /\ parser # "gif" /\ parser # "mp4"
BY DEF HeaderParsers, Fields

(* A header a parser accepts says a size that is a word.                   *)
LEMMA SaidIsWord ==
    ASSUME parser \in HeaderParsers, NEW h \in [1 .. Fields -> Byte], Plausible(h)
    PROVE  Said(h) \in 0 .. (Words - 1)
<1>1. /\ h[1] \in Byte /\ h[2] \in Byte
      /\ parser = "sqlite" => h[3] \in Byte
  BY FieldsAreFew
<1>2. Byte \subseteq Nat /\ Words \in Nat /\ MaxNext \in Nat
  BY ParserAssumption
<1>3. CASE parser = "sqlite"
  <2>1. PageSize[h[1]] \in Nat /\ h[3] \in Nat
    BY <1>1, <1>2, <1>3, ParserAssumption
  <2>2. PageSize[h[1]] * h[3] < Words
    BY <1>1, <1>3, WidthAssumption
  <2>3. PageSize[h[1]] * h[3] \in Nat
    BY <2>1
  <2>4. QED
    BY <1>2, <1>3, <2>2, <2>3 DEF Said
<1>4. CASE parser = "7z"
  <2>1. LargeSize[h[1]] \in Nat /\ LargeSize[h[2]] \in Nat
    <3>1. \A b \in Byte : LargeSize[b] \in 0 .. (Words - 1)
      BY ParserAssumption
    <3>2. \A x \in 0 .. (Words - 1) : x \in Nat
      BY <1>2
    <3>3. QED
      BY <1>1, <3>1, <3>2, Zenon
  <2>2. LargeSize[h[1]] <= MaxNext /\ LargeSize[h[2]] <= MaxNext
    BY <1>4 DEF Plausible, NextPlausible
  <2> DEFINE x == LargeSize[h[1]]
             y == LargeSize[h[2]]
  <2>3. 1 + x + y < Words
    <3>1. 2 * MaxNext + 1 < Words
      BY WidthAssumption
    <3> HIDE DEF x, y
    <3>2. x \in Nat /\ y \in Nat /\ x <= MaxNext /\ y <= MaxNext
      BY <2>1, <2>2 DEF x, y
    <3>3. QED
      BY <1>2, <3>1, <3>2
  <2>4. Said(h) = 1 + x + y
    BY <1>4 DEF Said
  <2> HIDE DEF x, y
  <2>5. x \in Nat /\ y \in Nat
    BY <2>1 DEF x, y
  <2>6. QED
    BY <1>2, <2>3, <2>4, <2>5
<1>5. CASE parser = "wav"
  <2>1. h[1] \in Nat /\ h[1] + 1 < Words
    BY <1>1, <1>2, WidthAssumption
  <2>2. QED
    BY <1>2, <1>5, <2>1 DEF Said
<1>6. CASE parser = "bmp"
  <2>1. h[1] \in Nat /\ h[1] + 1 < Words
    BY <1>1, <1>2, WidthAssumption
  <2>2. QED
    BY <1>2, <1>6, <2>1 DEF Said
<1>7. QED
  BY <1>3, <1>4, <1>5, <1>6 DEF HeaderParsers

(* A field that was read lies in the source.                               *)
LEMMA Fetched ==
    ASSUME PInv, status = "ok", req.len > 0
    PROVE  /\ req.addr \in Nat /\ req.addr + req.len <= Size
           /\ \A j \in 1 .. req.len :
                 buf[j] = source[req.addr + j - 1] /\ buf[j] \in Byte
<1>1. Len(buf) = req.len /\ req \in [addr : Nat, len : Nat] /\ buf \in Seq(Byte)
  BY DEF PInv, RInv
<1>2. QED
  BY <1>1 DEF PInv, RInv, FilledSoFar

(* What was read, at each place.                                           *)
LEMMA FieldRead ==
    ASSUME PInv, status = "ok"
    PROVE  /\ parser = "gif" /\ pc = "header" =>
                 buf[1] = source[start] /\ buf[1] \in Byte
           /\ pc \in {"block", "sub"} =>
                 buf[1] = source[pos] /\ buf[1] \in Byte /\ pos < Limit
           /\ pc = "image" =>
                 buf[1] = source[pos + 1] /\ buf[1] \in Byte /\ pos + 1 < Size
           /\ pc = "box" => /\ buf[1] = source[pos] /\ buf[2] = source[pos + 1]
                            /\ buf[1] \in Byte /\ buf[2] \in Byte /\ pos + 2 <= Size
           /\ pc = "large" =>
                 buf[1] = source[pos + 2] /\ buf[1] \in Byte /\ pos + 3 <= Size
<1>1. /\ Size \in Nat /\ pos \in Nat /\ start \in Nat
      /\ Asked
  BY Numbers DEF PInv
<1>2. ASSUME parser = "gif", pc = "header"
      PROVE  buf[1] = source[start] /\ buf[1] \in Byte
  <2>1. Fields = 1
    BY <1>2 DEF Fields
  <2>2. req = [addr |-> start, len |-> 1]
    BY <1>1, <1>2, <2>1 DEF Asked
  <2>3. QED
    BY <1>1, <2>2, Fetched
<1>3. ASSUME pc \in {"block", "sub"}
      PROVE  buf[1] = source[pos] /\ buf[1] \in Byte /\ pos < Limit
  <2>1. req = [addr |-> pos, len |-> 1] /\ pos < Limit
    BY <1>1, <1>3 DEF Asked
  <2>2. QED
    BY <1>1, <2>1, Fetched
<1>4. ASSUME pc = "image"
      PROVE  buf[1] = source[pos + 1] /\ buf[1] \in Byte /\ pos + 1 < Size
  <2>1. req = [addr |-> pos + 1, len |-> 1]
    BY <1>1, <1>4 DEF Asked
  <2>2. QED
    BY <1>1, <2>1, Fetched
<1>5. ASSUME pc = "box"
      PROVE  /\ buf[1] = source[pos] /\ buf[2] = source[pos + 1]
             /\ buf[1] \in Byte /\ buf[2] \in Byte /\ pos + 2 <= Size
  <2>1. req = [addr |-> pos, len |-> 2]
    BY <1>1, <1>5 DEF Asked
  <2>2. QED
    BY <1>1, <2>1, Fetched
<1>6. ASSUME pc = "large"
      PROVE  buf[1] = source[pos + 2] /\ buf[1] \in Byte /\ pos + 3 <= Size
  <2>1. req = [addr |-> pos + 2, len |-> 1]
    BY <1>1, <1>6 DEF Asked
  <2>2. QED
    BY <1>1, <2>1, Fetched
<1>7. QED
  BY <1>2, <1>3, <1>4, <1>5, <1>6

(* The header that lies at start.                                          *)
Front == [j \in 1 .. Fields |-> source[start + j - 1]]

(* Once the read has returned Ok, the buffer is the header.                *)
LEMMA BufferIsFront ==
    ASSUME PInv, parser \in HeaderParsers, status = "ok"
    PROVE  buf = Front /\ Front \in [1 .. Fields -> Byte]
<1>1. req = [addr |-> start, len |-> Fields] /\ Len(buf) = Fields
  BY DEF PInv, RInv, Asked, Stage
<1>2. \A j \in 1 .. Fields : buf[j] = source[start + j - 1]
  BY <1>1 DEF PInv, RInv, FilledSoFar
<1>3. buf \in [1 .. Fields -> Byte]
  BY <1>1 DEF PInv, RInv
<1>4. buf = [j \in 1 .. Fields |-> buf[j]]
  BY <1>3
<1>5. buf = Front
  BY <1>2, <1>4 DEF Front
<1>6. QED
  BY <1>3, <1>5

-----------------------------------------------------------------------------
(* The steps.                                                              *)

(* What a parser asks for.                                                 *)
LEMMA AskStep ==
    ASSUME PInv, Ask
    PROVE  /\ \E a \in Nat, n \in 1 .. 3 :
                 /\ Request(a, n) /\ a < Words
                 /\ pc = "header" => a = start /\ n = Fields
                 /\ pc \in {"block", "sub"} => a = pos /\ n = 1 /\ pos < Limit
                 /\ pc = "image" => a = pos + 1 /\ n = 1
                 /\ pc = "box" => a = pos /\ n = 2
                 /\ pc = "large" => a = pos + 2 /\ n = 1
           /\ pc \notin {"done", "panic"} /\ status = "idle"
           /\ steps' = Turns
           /\ pc = "block" => steps <= MaxSteps
           /\ pc = "box" => steps < MaxBoxes
           /\ UNCHANGED <<Args, pc, pos, kind, saw_media, size>>
<1>1. /\ Size \in Nat /\ Words \in Nat /\ Size < Words /\ start \in Nat /\ start < Size
      /\ pos \in Nat /\ pos < Words /\ Limit \in Nat /\ Limit <= Size
  BY Numbers DEF PInv
<1>2. pc \in {"header", "block", "image", "sub", "box", "large"} /\ MayLoop
  BY DEF Ask, PInv, TypeOK
<1>3. Fields \in 1 .. 3
  BY DEF Fields
<1>4. CASE pc = "header"
  <2>1. Request(start, Fields)
    BY <1>4 DEF Ask
  <2>2. QED
    BY <1>1, <1>3, <1>4, <2>1 DEF Ask, Request
<1>5. CASE pc \in {"block", "sub"}
  <2>1. Request(pos, 1) /\ pos < Limit /\ (pc = "block" => steps <= MaxSteps)
    BY <1>2, <1>5 DEF Ask, MayLoop
  <2>2. QED
    BY <1>1, <1>5, <2>1 DEF Ask, Request
<1>6. CASE pc = "image"
  <2>1. Request(pos + 1, 1) /\ pos < Limit
    BY <1>6 DEF Ask, PInv, Stage
  <2>2. QED
    BY <1>1, <1>6, <2>1 DEF Ask, Request
<1>7. CASE pc = "box"
  <2>1. Request(pos, 2) /\ steps < MaxBoxes
    BY <1>2, <1>7 DEF Ask, MayLoop
  <2>2. QED
    BY <1>1, <1>7, <2>1 DEF Ask, Request
<1>8. CASE pc = "large"
  <2>1. Request(pos + 2, 1) /\ pos + 2 <= Size
    BY <1>8 DEF Ask, PInv, Stage
  <2>2. QED
    BY <1>1, <1>8, <2>1 DEF Ask, Request
<1>9. QED
  BY <1>2, <1>4, <1>5, <1>6, <1>7, <1>8

(* Neither source nor arguments change.                                    *)
LEMMA ArgsStay ==
    ASSUME PInv, [Next]_vars
    PROVE  UNCHANGED <<source, flaky, parser, start, cap, checked>>
<1>1. CASE Ask
  BY <1>1, AskStep DEF Request, Args
<1>2. CASE ReadStep /\ UNCHANGED pvars
  BY <1>2 DEF ReadStep, ReadSome, ReadNothing, ReadFails, pvars
<1>3. CASE HeaderSize
  BY <1>3 DEF HeaderSize, Release, Args
<1>4. CASE Fails
  BY <1>4 DEF Fails, Release, Args, rvars
<1>5. CASE GifField
  BY <1>5 DEF GifField, Release, Args
<1>6. CASE ChainEnds
  BY <1>6 DEF ChainEnds, Release, Args, rvars
<1>7. CASE BoxHeader
  BY <1>7 DEF BoxHeader, Release, Args
<1>8. CASE LargeBox
  BY <1>8 DEF LargeBox, Release, Args
<1>9. CASE UNCHANGED vars
  BY <1>9 DEF vars, rvars, pvars
<1>10. QED
  BY <1>1, <1>2, <1>3, <1>4, <1>5, <1>6, <1>7, <1>8, <1>9 DEF Next

(* A parser that has returned takes no step.                               *)
LEMMA FinalStep ==
    ASSUME PInv, [Next]_vars, pc \in {"done", "panic"}
    PROVE  UNCHANGED vars
<1>1. status = "idle" /\ (pc = "panic" => parser = "mp4" \/ parser \notin Parsers)
  BY DEF PInv, RInv, Asked, Stage, Parsers
<1>2. parser \in Parsers
  BY DEF PInv, TypeOK
<1>3. QED
  BY <1>1, <1>2 DEF Next, Ask, ReadStep, ReadSome, ReadNothing, ReadFails, HeaderSize,
     Fails, GifField, ChainEnds, BoxHeader, LargeBox

(* A read returns bytes, or fails for a reason.                            *)
LEMMA ReadOn ==
    ASSUME PInv, ReadStep
    PROVE  /\ status = "reading" /\ status' # "idle"
           /\ UNCHANGED <<source, flaky, req>>
           /\ buf' \in Seq(Byte) /\ Len(buf') <= req.len
           /\ RInv' /\ Cause'
<1>1. RInv' /\ RInv
  BY ReaderStepRInv DEF PInv, ReaderNext
<1>2. /\ status = "reading" /\ status' # "idle" /\ UNCHANGED <<source, flaky, req>>
  BY DEF ReadStep, ReadSome, ReadNothing, ReadFails
<1>3. /\ req.addr \in Nat /\ req.len \in Nat /\ Len(buf) \in Nat /\ Len(buf) < req.len
      /\ Size \in Nat
  BY <1>1, <1>2, ReaderAssumption DEF RInv
<1>4. ASSUME status' = "err"
      PROVE  buf' = buf /\ (flaky # {} \/ req.addr + req.len > Size)
  <2>1. ~ ReadSome
    BY <1>4 DEF ReadSome
  <2>2. CASE ReadNothing
    BY <1>3, <2>2 DEF ReadNothing, NextAddr
  <2>3. CASE ReadFails
    BY <2>3 DEF ReadFails
  <2>4. QED
    BY <2>1, <2>2, <2>3 DEF ReadStep
<1>5. Len(buf') <= req.len
  <2>1. CASE status' = "err"
    BY <1>3, <1>4, <2>1
  <2>2. CASE status' # "err"
    BY <1>1, <1>2, <1>3, <2>2 DEF RInv
  <2>3. QED
    BY <2>1, <2>2
<1>6. QED
  BY <1>1, <1>2, <1>4, <1>5 DEF Cause, RInv

(* What a field of a GIF does.                                             *)
LEMMA GifStep ==
    ASSUME PInv, GifField
    PROVE  /\ parser = "gif" /\ status = "ok" /\ Release
           /\ UNCHANGED <<Args, steps, kind, saw_media>>
           /\ \/ /\ pc = "header" /\ pc' = "block" /\ size' = size
                 /\ pos' = start + 1 + Table[source[start]]
              \/ /\ pc = "image" /\ pc' = "sub" /\ size' = size
                 /\ pos' = pos + 2 + Table[source[pos + 1]]
              \/ /\ pc = "sub" /\ source[pos] # 0 /\ pc' = "sub" /\ size' = size
                 /\ pos' = pos + 1 + source[pos]
              \/ /\ pc = "sub" /\ source[pos] = 0 /\ pc' = "block" /\ size' = size
                 /\ pos' = pos + 1
              \/ /\ pc = "block" /\ source[pos] = Extension
                 /\ pc' = "sub" /\ size' = size /\ pos' = pos + 2
              \/ /\ pc = "block" /\ source[pos] = Image
                 /\ pc' = "image" /\ size' = size /\ pos' = pos
              \/ /\ pc = "block" /\ source[pos] = Trailer
                 /\ pc' = "done" /\ size' = GifSize /\ pos' = pos
              \/ /\ pc = "block" /\ source[pos] \notin {Extension, Image, Trailer}
                 /\ pc' = "done" /\ size' = NoSize /\ pos' = pos
<1>1. /\ parser = "gif" /\ status = "ok" /\ Release
      /\ UNCHANGED <<Args, steps, kind, saw_media>>
  BY DEF GifField
<1>2. pc \in {"header", "block", "image", "sub"}
  BY <1>1 DEF PInv, Asked, Stage
<1>3. CASE pc = "header"
  <2>1. buf[1] = source[start]
    BY <1>1, <1>3, FieldRead
  <2>2. Goto("block", start + 1 + Table[buf[1]])
    BY <1>3 DEF GifField
  <2>3. QED
    BY <1>1, <1>3, <2>1, <2>2 DEF Goto
<1>4. CASE pc = "image"
  <2>1. buf[1] = source[pos + 1]
    BY <1>1, <1>4, FieldRead
  <2>2. Goto("sub", pos + 2 + Table[buf[1]])
    BY <1>4 DEF GifField
  <2>3. QED
    BY <1>1, <1>4, <2>1, <2>2 DEF Goto
<1>5. CASE pc = "sub"
  <2>1. buf[1] = source[pos] /\ source[pos] \in Nat /\ pos \in Nat
    BY <1>1, <1>5, FieldRead, Numbers DEF PInv
  <2>2. Goto(IF buf[1] = 0 THEN "block" ELSE "sub", pos + 1 + buf[1])
    BY <1>5 DEF GifField
  <2>3. QED
    BY <1>1, <1>5, <2>1, <2>2 DEF Goto
<1>6. CASE pc = "block"
  <2>1. /\ buf[1] = source[pos]
        /\ Extension # Image /\ Extension # Trailer /\ Image # Trailer
    BY <1>1, <1>6, FieldRead, ParserAssumption
  <2>2. CASE source[pos] = Extension
    <3>1. Goto("sub", pos + 2)
      BY <1>6, <2>1, <2>2 DEF GifField
    <3>2. QED
      BY <1>1, <1>6, <2>2, <3>1 DEF Goto
  <2>3. CASE source[pos] = Image
    <3>1. Goto("image", pos)
      BY <1>6, <2>1, <2>3 DEF GifField
    <3>2. QED
      BY <1>1, <1>6, <2>3, <3>1 DEF Goto
  <2>4. CASE source[pos] = Trailer
    <3>1. Result(GifSize)
      BY <1>6, <2>1, <2>4 DEF GifField
    <3>2. QED
      BY <1>1, <1>6, <2>4, <3>1 DEF Result
  <2>5. CASE source[pos] \notin {Extension, Image, Trailer}
    <3>1. Result(NoSize)
      BY <1>6, <2>1, <2>5 DEF GifField
    <3>2. QED
      BY <1>1, <1>6, <2>5, <3>1 DEF Result
  <2>6. QED
    BY <2>2, <2>3, <2>4, <2>5
<1>7. QED
  BY <1>2, <1>3, <1>4, <1>5, <1>6

(* What a box does, of its size in mathematics.                            *)
BoxOutcome ==
    \/ /\ pc' = "done" /\ size' = cap /\ pos' = pos /\ IsBox(pos)
       /\ (BoxLen(pos) = 0 \/ (pos + BoxLen(pos)) % Words >= Limit)
    \/ /\ pc' = "panic" /\ size' = size /\ pos' = pos
       /\ IsBox(pos) /\ pos + BoxLen(pos) >= Words
    \/ /\ pc' = "box" /\ size' = size /\ pos' = (pos + BoxLen(pos)) % Words
       /\ IsBox(pos) /\ BoxLen(pos) # 0 /\ pos' < Limit
    \/ /\ pc' = "done" /\ pos' = pos /\ ~ IsBox(pos)
       /\ (size' = NoSize \/ (size' = Total /\ Total >= 2))

(* The outcome of a box of n cells, header included.                       *)
LEMMA BoxOutcomes ==
    ASSUME PInv, NEW n \in Nat, NEW header_len \in {2, 3}, NEW k, Box(n, header_len, k),
           n \in 1 .. (header_len - 1) => ~ IsBox(pos),
           n \notin 1 .. (header_len - 1) => IsBox(pos) /\ BoxLen(pos) = n
    PROVE  BoxOutcome
<1>1. CASE n = 0
  <2>1. Result(cap)
    BY <1>1 DEF Box
  <2>2. QED
    BY <1>1, <2>1 DEF Result, BoxOutcome
<1>2. CASE n \in 1 .. (header_len - 1)
  <2>1. Conclude
    BY <1>2 DEF Box
  <2>2. QED
    BY <1>2, <2>1 DEF Conclude, Result, BoxOutcome
<1>3. CASE n # 0 /\ n \notin 1 .. (header_len - 1)
  <2>1. Advance(n, k) /\ IsBox(pos) /\ BoxLen(pos) = n
    BY <1>3 DEF Box
  <2>2. pos \in Nat /\ Words \in Nat \ {0} /\ Limit \in Nat
    BY Numbers DEF PInv
  <2>3. (pos + n) % Words \in Int
    BY <2>2
  <2>4. CASE checked /\ pos + n >= Words
    BY <2>1, <2>4 DEF Advance, Goto, BoxOutcome
  <2>5. CASE ~ (checked /\ pos + n >= Words) /\ (pos + n) % Words >= Limit
    BY <2>1, <2>5 DEF Advance, Result, BoxOutcome
  <2>6. CASE ~ (checked /\ pos + n >= Words) /\ ~ ((pos + n) % Words >= Limit)
    <3>1. Goto("box", (pos + n) % Words)
      BY <2>1, <2>6 DEF Advance
    <3>2. (pos + n) % Words < Limit
      BY <2>2, <2>3, <2>6
    <3>3. QED
      BY <1>3, <2>1, <3>1, <3>2 DEF Goto, BoxOutcome
  <2>7. QED
    BY <2>4, <2>5, <2>6
<1>4. QED
  BY <1>1, <1>2, <1>3

(* The outcome of reading a box.                                           *)
LEMMA BoxStep ==
    ASSUME PInv, parser = "mp4", BoxHeader \/ LargeBox
    PROVE  /\ status = "ok" /\ pc \in {"box", "large"} /\ Release
           /\ UNCHANGED <<Args, steps>>
           /\ kind' \in Byte \cup {0} /\ saw_media' \in BOOLEAN
           /\ \/ /\ pc' = "large" /\ size' = size /\ pos' = pos
                 /\ pos + 2 <= Size /\ source[pos] = 1 /\ source[pos + 1] \in Printable
              \/ BoxOutcome
<1>1. /\ status = "ok" /\ pc \in {"box", "large"} /\ Release
      /\ UNCHANGED <<Args, steps>>
  BY DEF BoxHeader, LargeBox
<1>2. pos \in Nat /\ Size \in Nat /\ Byte \subseteq Nat
  BY Numbers DEF PInv
<1>3. ASSUME NEW n, NEW h, NEW k, Box(n, h, k) PROVE saw_media' \in BOOLEAN
  <2>1. saw_media' \in {saw_media, saw_media \/ k \in Media}
    BY <1>3 DEF Box, Advance
  <2>2. QED
    BY <2>1 DEF PInv, TypeOK
<1>4. CASE BoxHeader
  <2>1. /\ pc = "box" /\ kind' = buf[2]
        /\ buf[1] = source[pos] /\ buf[2] = source[pos + 1]
        /\ buf[1] \in Byte /\ buf[2] \in Byte /\ pos + 2 <= Size
    BY <1>1, <1>4, FieldRead DEF BoxHeader
  <2>2. CASE buf[2] \notin Printable
    <3>1. Conclude /\ UNCHANGED saw_media
      BY <1>4, <2>2 DEF BoxHeader
    <3>2. ~ IsBox(pos)
      BY <2>1, <2>2 DEF IsBox
    <3>3. saw_media' \in BOOLEAN
      BY <3>1 DEF PInv, TypeOK
    <3>4. BoxOutcome
      BY <3>1, <3>2 DEF Conclude, Result, BoxOutcome
    <3>5. QED
      BY <1>1, <2>1, <3>3, <3>4
  <2>3. CASE buf[2] \in Printable /\ buf[1] = 1
    <3>1. Goto("large", pos) /\ UNCHANGED saw_media
      BY <1>4, <2>3 DEF BoxHeader
    <3>2. saw_media' \in BOOLEAN
      BY <3>1 DEF PInv, TypeOK
    <3>3. QED
      BY <1>1, <2>1, <2>3, <3>1, <3>2 DEF Goto
  <2>4. CASE buf[2] \in Printable /\ buf[1] # 1
    <3>1. Box(buf[1], 2, buf[2])
      BY <1>4, <2>4 DEF BoxHeader
    <3>2. IsBox(pos) /\ BoxLen(pos) = buf[1] /\ buf[1] \notin 1 .. (2 - 1)
      BY <1>2, <2>1, <2>4 DEF IsBox, BoxLen
    <3>3. BoxOutcome
      BY <1>2, <2>1, <3>1, <3>2, BoxOutcomes
    <3>4. QED
      BY <1>1, <1>3, <2>1, <3>1, <3>3
  <2>5. QED
    BY <2>2, <2>3, <2>4
<1>5. CASE LargeBox
  <2>1. /\ pc = "large" /\ kind' = kind /\ Box(LargeSize[buf[1]], 3, kind)
        /\ buf[1] = source[pos + 2] /\ buf[1] \in Byte /\ pos + 3 <= Size
    BY <1>1, <1>5, FieldRead DEF LargeBox
  <2>2. source[pos] = 1 /\ source[pos + 1] \in Printable
    BY <2>1 DEF PInv, Stage
  <2>3. LargeSize[buf[1]] \in Nat
    <3>1. \A b \in Byte : LargeSize[b] \in 0 .. (Words - 1)
      BY ParserAssumption
    <3>2. QED
      BY <2>1, <3>1
  <2>4. /\ BoxLen(pos) = LargeSize[buf[1]]
        /\ IsBox(pos) <=> LargeSize[buf[1]] \notin 1 .. (3 - 1)
    BY <1>2, <2>1, <2>2, <2>3 DEF IsBox, BoxLen
  <2>5. BoxOutcome
    <3>1. 3 \in {2, 3} /\ Box(LargeSize[buf[1]], 3, kind)
      BY <2>1
    <3>2. /\ LargeSize[buf[1]] \in 1 .. (3 - 1) => ~ IsBox(pos)
          /\ LargeSize[buf[1]] \notin 1 .. (3 - 1) =>
                IsBox(pos) /\ BoxLen(pos) = LargeSize[buf[1]]
      BY <2>4
    <3>3. QED
      BY <2>3, <3>1, <3>2, BoxOutcomes
  <2>6. kind' \in Byte \cup {0}
    BY <2>1 DEF PInv, TypeOK
  <2>7. QED
    BY <1>1, <1>3, <2>1, <2>5, <2>6
<1>6. QED
  BY <1>4, <1>5

(* The end of the walk through the boxes, and a field that is not there.   *)
LEMMA EndStep ==
    ASSUME PInv, ChainEnds \/ Fails
    PROVE  /\ (status = "err" /\ Release) \/ (status = "idle" /\ UNCHANGED rvars)
           /\ status' = "idle" /\ buf' = << >> /\ UNCHANGED <<source, flaky, req>>
           /\ pc # "done" /\ pc' = "done" /\ pos' = pos
           /\ UNCHANGED <<Args, steps, kind, saw_media>>
           /\ \/ /\ parser = "mp4" /\ pc # "panic"
                 /\ size' = NoSize \/ (size' = Total /\ Total >= 2)
                 /\ status = "err" \/ (pc = "box" /\ ~ (steps < MaxBoxes))
              \/ /\ parser # "mp4" /\ size' = NoSize
                 /\ \/ status = "err"
                    \/ pc \in {"block", "sub"} /\ ~ (pos < Limit)
                    \/ pc = "block" /\ ~ (steps <= MaxSteps)
<1>1. RInv
  BY DEF PInv
<1>2. /\ (status = "err" /\ Release) \/ (status = "idle" /\ ~ MayLoop /\ UNCHANGED rvars)
      /\ pc # "done" /\ UNCHANGED <<Args, steps, kind, saw_media>>
  BY DEF ChainEnds, Fails
<1>3. status' = "idle" /\ buf' = << >> /\ UNCHANGED <<source, flaky, req>>
  BY <1>1, <1>2 DEF Release, rvars, RInv
<1>4. CASE ChainEnds
  <2>1. parser = "mp4" /\ pc # "panic" /\ Conclude /\ pc \in {"box", "large"}
    BY <1>4 DEF ChainEnds, PInv, Stage
  <2>2. status = "err" \/ (pc = "box" /\ ~ (steps < MaxBoxes))
    BY <1>2, <2>1 DEF MayLoop
  <2>3. pc' = "done" /\ pos' = pos /\ (size' = NoSize \/ (size' = Total /\ Total >= 2))
    BY <2>1 DEF Conclude, Result
  <2>4. QED
    BY <1>2, <1>3, <2>1, <2>2, <2>3
<1>5. CASE Fails
  <2>1. parser # "mp4" /\ Result(NoSize) /\ parser \in Parsers
    BY <1>5 DEF Fails, PInv, TypeOK
  <2>2. pc # "box"
    BY <2>1 DEF PInv, Stage, Parsers
  <2>3. \/ status = "err"
        \/ pc \in {"block", "sub"} /\ ~ (pos < Limit)
        \/ pc = "block" /\ ~ (steps <= MaxSteps)
    BY <1>2, <2>2 DEF MayLoop
  <2>4. QED
    BY <1>2, <1>3, <2>1, <2>3 DEF Result
<1>6. QED
  BY <1>4, <1>5

(* What a header says.                                                     *)
LEMMA HeaderStep ==
    ASSUME PInv, HeaderSize
    PROVE  /\ parser \in HeaderParsers /\ status = "ok" /\ Release
           /\ pc' = "done" /\ pos' = pos /\ UNCHANGED <<Args, steps, kind, saw_media>>
           /\ size' = NoSize \/ (Plausible(Front) /\ size' = Said(Front))
           /\ size' # NoSize => size' \in 0 .. (Words - 1)
<1>1. /\ parser \in HeaderParsers /\ status = "ok" /\ Release
      /\ pc' = "done" /\ pos' = pos /\ UNCHANGED <<Args, steps, kind, saw_media>>
      /\ size' = IF Plausible(buf) THEN Said(buf) % Words ELSE NoSize
  BY DEF HeaderSize, Result
<1>2. buf = Front /\ Front \in [1 .. Fields -> Byte]
  BY <1>1, BufferIsFront
<1>3. CASE Plausible(Front)
  <2>1. Said(Front) \in 0 .. (Words - 1) /\ Words \in Nat
    BY <1>1, <1>2, <1>3, SaidIsWord, ParserAssumption
  <2>2. Said(Front) % Words = Said(Front)
    BY <2>1
  <2>3. QED
    BY <1>1, <1>2, <1>3, <2>1, <2>2
<1>4. CASE ~ Plausible(Front)
  BY <1>1, <1>2, <1>4
<1>5. QED
  BY <1>3, <1>4

(* The reader keeps its invariant under every step.                        *)
LEMMA ReaderKept ==
    ASSUME PInv, [Next]_vars
    PROVE  RInv'
<1>1. RInv
  BY DEF PInv
<1>2. CASE Ask
  <2>1. PICK a \in Nat, n \in 1 .. 3 : Request(a, n)
    BY <1>2, AskStep
  <2>2. QED
    BY <1>1, <2>1, ReaderStepRInv DEF ReaderNext
<1>3. CASE ReadStep
  BY <1>3, ReadOn
<1>4. CASE HeaderSize \/ GifField \/ BoxHeader \/ LargeBox
  <2>1. status = "ok" /\ Release
    BY <1>4 DEF HeaderSize, GifField, BoxHeader, LargeBox
  <2>2. QED
    BY <1>1, <2>1, ReaderStepRInv DEF ReaderNext
<1>5. CASE Fails \/ ChainEnds
  <2>1. (status = "err" /\ Release) \/ UNCHANGED rvars
    BY <1>5, EndStep
  <2>2. QED
    BY <1>1, <2>1, ReaderStepRInv DEF ReaderNext
<1>6. CASE UNCHANGED vars
  <2>1. UNCHANGED rvars
    BY <1>6 DEF vars
  <2>2. QED
    BY <1>1, <2>1, ReaderStepRInv
<1>7. QED
  BY <1>2, <1>3, <1>4, <1>5, <1>6 DEF Next

(* The parsers begin with nothing asked for.                               *)
LEMMA InitPInv == Init => PInv
<1> SUFFICES ASSUME Init PROVE PInv
  OBVIOUS
<1>1. RInv
  BY ReaderInitRInv DEF Init
<1>2. /\ status = "idle" /\ buf = << >> /\ Len(buf) = 0
      /\ req = [addr |-> 0, len |-> 0] /\ flaky \in FlakySets /\ source \in [Addr -> Byte]
  BY DEF Init, ReaderInit
<1>3. /\ start \in Addr /\ start \in Nat /\ Size \in Nat /\ start < Size
      /\ Words \in Nat /\ Size < Words /\ MaxSteps \in Nat /\ MaxBoxes \in Nat
  BY ParserAssumption, ReaderAssumption DEF Init, Addr
<1>4. cap \in 0 .. (Size - start)
  <2>1. PICK m \in Margins : cap = Size - start - m
    BY DEF Init
  <2>2. m \in Nat /\ start + m < Size
    BY ParserAssumption DEF Init
  <2>3. QED
    BY <1>3, <2>1, <2>2
<1>5. TypeOK
  <2>1. /\ req \in [addr : 0 .. (Words - 1), len : 0 .. 3] /\ req.len = 0
        /\ << >> \in Seq(Byte)
    BY <1>2, <1>3
  <2>2. /\ parser \in Parsers /\ checked \in BOOLEAN /\ start \in Starts
        /\ pc \in {"header", "box"} /\ pos = start /\ steps = 0 /\ kind = 0
        /\ saw_media = FALSE /\ size = NoSize
    BY DEF Init
  <2>3. pos \in 0 .. (Words - 1) /\ steps \in 0 .. MaxBoxes /\ steps \in 0 .. (MaxSteps + 1)
    BY <1>3, <2>2
  <2>4. pc \in {"header", "block", "image", "sub", "box", "large", "done", "panic"}
    BY <2>2
  <2>5. size \in 0 .. (Words - 1) \cup {NoSize} /\ kind \in Byte \cup {0}
    BY <2>2
  <2>6. steps \in 0 .. (IF parser = "mp4" THEN MaxBoxes ELSE MaxSteps + 1)
    BY <2>3
  <2>7. buf \in Seq(Byte) /\ Len(buf) <= req.len /\ saw_media \in BOOLEAN
    <3>1. buf \in Seq(Byte)
      BY <1>2, <2>1, Zenon
    <3>2. Len(buf) <= req.len
      BY <1>2, <2>1
    <3>3. saw_media \in BOOLEAN
      BY <2>2
    <3>4. QED
      BY <3>1, <3>2, <3>3, Zenon
  <2>8. status \in {"idle", "reading", "ok", "err"}
    BY <1>2
  <2>9. QED
    BY <1>2, <1>4, <2>1, <2>2, <2>3, <2>4, <2>5, <2>6, <2>7, <2>8, Zenon DEF TypeOK
<1>6. Asked /\ Cause
  BY <1>2 DEF Asked, Cause
<1>7. Stage
  BY <1>3 DEF Init, Stage, HeaderParsers
<1>8. QED
  BY <1>1, <1>5, <1>6, <1>7 DEF PInv

(* Every step keeps types, places and what was asked for.                  *)
LEMMA StepPInv == PInv /\ [Next]_vars => PInv'
<1> SUFFICES ASSUME PInv, [Next]_vars PROVE PInv'
  OBVIOUS
<1>1. UNCHANGED <<source, flaky, parser, start, cap, checked>> /\ RInv'
  BY ArgsStay, ReaderKept
<1>2. TypeOK /\ RInv /\ Asked /\ Cause /\ Stage
  BY DEF PInv
<1>3. /\ Size \in Nat /\ Words \in Nat /\ Size < Words
      /\ start \in Nat /\ start < Size /\ cap \in Nat
      /\ Limit \in Nat /\ Limit = start + cap /\ Limit <= Size
      /\ pos \in Nat /\ pos < Words
      /\ steps \in Nat /\ MaxSteps \in Nat /\ MaxBoxes \in Nat /\ Byte \subseteq Nat
  BY <1>2, Numbers
<1>4. Limit' = Limit /\ Fields' = Fields
  BY <1>1 DEF Limit, Fields
<1>5. req \in [addr : 0 .. (Words - 1), len : 0 .. 3] /\ Len(<< >>) = 0
      /\ << >> \in Seq(Byte)
  BY <1>2 DEF TypeOK
<1>6. CASE Ask
  <2>1. PICK a \in Nat, n \in 1 .. 3 :
           /\ Request(a, n) /\ a < Words
           /\ pc = "header" => a = start /\ n = Fields
           /\ pc \in {"block", "sub"} => a = pos /\ n = 1 /\ pos < Limit
           /\ pc = "image" => a = pos + 1 /\ n = 1
           /\ pc = "box" => a = pos /\ n = 2
           /\ pc = "large" => a = pos + 2 /\ n = 1
    BY <1>6, AskStep
  <2>2. /\ pc \notin {"done", "panic"} /\ steps' = Turns
        /\ pc = "block" => steps <= MaxSteps
        /\ pc = "box" => steps < MaxBoxes
        /\ UNCHANGED <<Args, pc, pos, kind, saw_media, size>> /\ status = "idle"
    BY <1>6, AskStep
  <2>3. /\ req' = [addr |-> a, len |-> n] /\ status' = "reading" /\ buf' = << >>
    BY <1>2, <2>1, <2>2 DEF Request, RInv
  <2>4. req' \in [addr : 0 .. (Words - 1), len : 0 .. 3] /\ req'.len = n
    BY <1>3, <2>1, <2>3
  <2>5. steps' \in 0 .. (IF parser = "mp4" THEN MaxBoxes ELSE MaxSteps + 1)
    <3>1. steps \in 0 .. (IF parser = "mp4" THEN MaxBoxes ELSE MaxSteps + 1)
      BY <1>2 DEF TypeOK
    <3>2. /\ parser = "mp4" => pc # "block"
          /\ parser # "mp4" => pc # "box"
      BY <1>2 DEF Stage, TypeOK, Parsers
    <3>3. QED
      BY <1>3, <2>2, <3>1, <3>2 DEF Turns
  <2>6. TypeOK'
    BY <1>1, <1>2, <1>5, <2>2, <2>3, <2>4, <2>5 DEF TypeOK, Args
  <2>7. Asked' /\ Cause'
    BY <1>1, <1>4, <2>1, <2>2, <2>3 DEF Asked, Cause
  <2>8. Stage'
    BY <1>1, <1>2, <1>4, <2>2 DEF Stage
  <2>9. QED
    BY <1>1, <2>6, <2>7, <2>8 DEF PInv
<1>7. CASE ReadStep /\ UNCHANGED pvars
  <2>1. /\ status = "reading" /\ UNCHANGED <<source, flaky, req>>
        /\ buf' \in Seq(Byte) /\ Len(buf') <= req.len /\ Cause'
    BY <1>7, ReadOn
  <2>2. UNCHANGED <<pc, pos, steps, kind, saw_media, size>>
    BY <1>7 DEF pvars
  <2>3. TypeOK'
    BY <1>1, <1>2, <2>1, <2>2 DEF TypeOK, RInv
  <2>4. Asked'
    BY <1>1, <1>2, <1>4, <2>1, <2>2 DEF Asked
  <2>5. Stage'
    BY <1>1, <1>2, <1>4, <2>2 DEF Stage
  <2>6. QED
    BY <1>1, <2>1, <2>3, <2>4, <2>5 DEF PInv
<1>8. ASSUME Release \/ (status = "idle" /\ UNCHANGED rvars),
             pc' \in {"header", "block", "image", "sub", "box", "large", "done", "panic"},
             pos' \in 0 .. (Words - 1), steps' = steps,
             kind' \in Byte \cup {0}, saw_media' \in BOOLEAN,
             size' \in 0 .. (Words - 1) \cup {NoSize},
             Stage'
      PROVE  PInv'
  <2>1. status' = "idle" /\ buf' = << >> /\ req' = req
    BY <1>2, <1>8 DEF Release, rvars, RInv
  <2>2. Asked' /\ Cause'
    BY <2>1 DEF Asked, Cause
  <2>3. Len(buf') <= req'.len
    BY <1>2, <1>5, <2>1 DEF TypeOK
  <2>4. TypeOK'
    BY <1>1, <1>2, <1>5, <1>8, <2>1, <2>3 DEF TypeOK
  <2>5. QED
    BY <1>1, <1>8, <2>2, <2>4 DEF PInv
<1>9. pos \in 0 .. (Words - 1) /\ size \in 0 .. (Words - 1) \cup {NoSize}
      /\ kind \in Byte \cup {0} /\ saw_media \in BOOLEAN /\ parser \in Parsers
  BY <1>2 DEF TypeOK
<1>10. CASE HeaderSize
  <2>1. /\ parser \in HeaderParsers /\ Release /\ pc' = "done" /\ pos' = pos
        /\ UNCHANGED <<Args, steps, kind, saw_media>>
        /\ size' = NoSize \/ size' \in 0 .. (Words - 1)
    BY <1>10, HeaderStep
  <2>2. Stage'
    BY <1>1, <2>1, FieldsAreFew DEF Stage
  <2>3. QED
    BY <1>8, <1>9, <2>1, <2>2
<1>11. CASE Fails \/ ChainEnds
  <2>1. /\ Release \/ (status = "idle" /\ UNCHANGED rvars)
        /\ pc' = "done" /\ pos' = pos /\ UNCHANGED <<Args, steps, kind, saw_media>>
        /\ size' = NoSize \/ (size' = Total /\ Total >= 2)
    BY <1>11, EndStep
  <2>2. Total \in 0 .. (Words - 1)
    BY <1>3 DEF Total
  <2>3. Stage'
    BY <1>1, <1>2, <2>1 DEF Stage
  <2>4. size' \in 0 .. (Words - 1) \cup {NoSize}
    BY <2>1, <2>2
  <2>5. QED
    BY <1>8, <1>9, <2>1, <2>3, <2>4
<1>12. CASE GifField
  <2>1. /\ parser = "gif" /\ status = "ok" /\ Release
        /\ UNCHANGED <<Args, steps, kind, saw_media>>
    BY <1>12, GifStep
  <2>2. \A b \in Byte : /\ b \in Nat /\ Table[b] \in Nat
                        /\ Size + 1 + b < Words /\ Size + 2 + Table[b] < Words
    BY <1>3, ParserAssumption, WidthAssumption
  <2>3. /\ pc = "header" => source[start] \in Byte
        /\ pc \in {"block", "sub"} => source[pos] \in Byte /\ pos < Limit
        /\ pc = "image" => source[pos + 1] \in Byte /\ pos < Limit
    BY <1>2, <2>1, FieldRead DEF Stage
  <2>4. pos >= start
    BY <1>2, <2>1 DEF Stage
  <2>5. /\ pc' \in {"block", "image", "sub", "done"}
        /\ pos' \in 0 .. (Words - 1) /\ pos' >= start
        /\ size' \in 0 .. (Words - 1) \cup {NoSize}
        /\ pc' = "image" => pos' < Limit
    <3>1. CASE pc = "header"
      <4>1. pc' = "block" /\ size' = size /\ pos' = start + 1 + Table[source[start]]
        BY <1>12, <3>1, GifStep
      <4>2. source[start] \in Byte
        BY <2>3, <3>1
      <4>3. Table[source[start]] \in Nat /\ Size + 2 + Table[source[start]] < Words
        BY <2>2, <4>2
      <4>4. pos' \in 0 .. (Words - 1) /\ pos' >= start
        BY <1>3, <4>1, <4>3
      <4>5. QED
        BY <1>9, <4>1, <4>4
    <3>2. CASE pc = "image"
      <4>1. pc' = "sub" /\ size' = size /\ pos' = pos + 2 + Table[source[pos + 1]]
        BY <1>12, <3>2, GifStep
      <4>2. source[pos + 1] \in Byte /\ pos < Limit
        BY <2>3, <3>2
      <4>3. Table[source[pos + 1]] \in Nat /\ Size + 2 + Table[source[pos + 1]] < Words
        BY <2>2, <4>2
      <4>4. pos' \in 0 .. (Words - 1) /\ pos' >= start
        BY <1>3, <2>4, <4>1, <4>2, <4>3
      <4>5. QED
        BY <1>9, <4>1, <4>4
    <3>3. CASE pc = "sub"
      <4>1. pc' \in {"block", "sub"} /\ size' = size /\ pos' = pos + 1 + source[pos]
        BY <1>3, <1>12, <3>3, GifStep
      <4>2. source[pos] \in Nat /\ pos < Limit /\ Size + 1 + source[pos] < Words
        BY <2>2, <2>3, <3>3
      <4>3. pos' \in 0 .. (Words - 1) /\ pos' >= start
        BY <1>3, <2>4, <4>1, <4>2
      <4>4. QED
        BY <1>9, <4>1, <4>3
    <3>4. CASE pc = "block"
      <4>1. \/ pc' = "sub" /\ size' = size /\ pos' = pos + 2
            \/ pc' = "image" /\ size' = size /\ pos' = pos
            \/ pc' = "done" /\ pos' = pos /\ size' \in {GifSize, NoSize}
        BY <1>12, <3>4, GifStep
      <4>2. source[pos] \in Nat /\ pos < Limit /\ Size + 1 + source[pos] < Words
        BY <2>2, <2>3, <3>4
      <4>3. pos + 2 \in 0 .. (Words - 1)
        <5>1. PICK f \in Byte : f = source[start] \/ TRUE
          BY <2>3, <3>4
        <5>2. Table[f] \in Nat /\ Size + 2 + Table[f] < Words
          BY <2>2
        <5>3. QED
          BY <1>3, <4>2, <5>2
      <4>4. GifSize \in 0 .. (Words - 1)
        BY <1>3, <2>4, <4>2 DEF GifSize
      <4>5. QED
        BY <1>3, <1>9, <2>4, <4>1, <4>2, <4>3, <4>4
    <3>5. QED
      BY <1>12, <3>1, <3>2, <3>3, <3>4, GifStep
  <2>6. Stage'
    BY <1>1, <1>4, <2>1, <2>5 DEF Stage, HeaderParsers
  <2>7. QED
    BY <1>8, <1>9, <2>1, <2>5, <2>6
<1>13. CASE BoxHeader \/ LargeBox
  <2>1. parser = "mp4"
    BY <1>2, <1>9, <1>13 DEF Stage, BoxHeader, LargeBox, Parsers
  <2>2. /\ Release /\ steps' = steps
        /\ kind' \in Byte \cup {0} /\ saw_media' \in BOOLEAN
        /\ \/ /\ pc' = "large" /\ size' = size /\ pos' = pos
              /\ pos + 2 <= Size /\ source[pos] = 1 /\ source[pos + 1] \in Printable
           \/ BoxOutcome
    BY <1>13, <2>1, BoxStep
  <2>3. Total \in 0 .. (Words - 1) /\ cap \in 0 .. (Words - 1)
    BY <1>3 DEF Total
  <2>4. IsBox(pos) => (pos + BoxLen(pos)) % Words \in 0 .. (Words - 1)
    <3>1. SUFFICES ASSUME IsBox(pos) PROVE BoxLen(pos) \in Nat
      BY <1>3
    <3>2. source[pos] \in Byte /\ (source[pos] = 1 => source[pos + 2] \in Byte)
      <4>1. source \in [Addr -> Byte] /\ pos \in Addr
        BY <1>2, <1>3, <3>1 DEF IsBox, TypeOK, Addr
      <4>2. source[pos] = 1 => pos + 2 \in Addr
        BY <1>3, <3>1 DEF IsBox, Addr
      <4>3. QED
        BY <4>1, <4>2
    <3>3. /\ \A b \in Byte : LargeSize[b] \in 0 .. (Words - 1) /\ b \in Nat
          /\ \A x \in 0 .. (Words - 1) : x \in Nat
      BY <1>3, ParserAssumption
    <3>4. CASE source[pos] = 1
      BY <3>2, <3>3, <3>4, Zenon DEF BoxLen
    <3>5. CASE source[pos] # 1
      BY <3>2, <3>3, <3>5, Zenon DEF BoxLen
    <3>6. QED
      BY <3>4, <3>5
  <2>5. /\ pc' \in {"box", "large", "done", "panic"}
        /\ pos' \in 0 .. (Words - 1)
        /\ size' \in 0 .. (Words - 1) \cup {NoSize}
        /\ pc' = "large" => /\ pos' = pos /\ pos + 2 <= Size
                            /\ source[pos] = 1 /\ source[pos + 1] \in Printable
    BY <1>9, <2>2, <2>3, <2>4 DEF BoxOutcome
  <2>6. Stage'
    BY <1>1, <2>1, <2>5 DEF Stage, HeaderParsers
  <2>7. QED
    BY <1>8, <2>2, <2>5, <2>6
<1>14. CASE UNCHANGED vars
  BY <1>1, <1>2, <1>14 DEF vars, rvars, pvars, PInv, TypeOK, Asked, Cause, Stage, Limit, Fields
<1>15. QED
  BY <1>6, <1>7, <1>10, <1>11, <1>12, <1>13, <1>14 DEF Next

(* Whatever the bytes of the source and however reads fail or come in      *)
(* pieces: the parsers of carver.rs stay on addresses that are words, stop *)
(* counting at their bounds, and what they return is a word.               *)
THEOREM ParsersTypeOK == Spec => []TypeOK
<1>1. PInv => TypeOK
  BY DEF PInv
<1>2. QED
  BY InitPInv, StepPInv, <1>1, PTL DEF Spec

(* The invariant is there for every theorem about the specification.       *)
LEMMA SpecPInv == Spec => []PInv
BY InitPInv, StepPInv, PTL DEF Spec

-----------------------------------------------------------------------------
(* Sizes from headers.                                                     *)

(* The size that a header says is returned, and stays.                     *)
LEMMA StepSizeIsSaid == PInv /\ SizeIsSaid /\ [Next]_vars => SizeIsSaid'
<1> SUFFICES ASSUME PInv, SizeIsSaid, [Next]_vars,
                    (parser \in HeaderParsers /\ pc = "done" /\ size # NoSize)'
             PROVE  size' = Said(Front)'
  BY DEF SizeIsSaid, Front
<1>1. parser' = parser /\ start' = start /\ source' = source /\ parser \in HeaderParsers
  BY ArgsStay
<1>2. Said(Front)' = Said(Front)
  BY <1>1 DEF Said, Front, Fields
<1>3. CASE pc = "done"
  BY <1>1, <1>2, <1>3, FinalStep DEF SizeIsSaid, Front, vars, pvars
<1>4. CASE pc # "done"
  <2>1. pc = "header" /\ parser # "gif" /\ parser # "mp4"
    BY <1>1, <1>4, FieldsAreFew DEF PInv, Stage
  <2>2. ~ ReadStep \/ pc' = "header" \/ ~ UNCHANGED pvars
    BY <2>1 DEF pvars
  <2>3. ~ UNCHANGED vars /\ ~ Ask
    BY <2>1 DEF vars, pvars, Ask
  <2>4. ~ GifField /\ ~ ChainEnds /\ ~ BoxHeader /\ ~ LargeBox
    BY <2>1 DEF GifField, ChainEnds, BoxHeader, LargeBox
  <2>5. ~ Fails
    BY DEF Fails, Result
  <2>6. HeaderSize
    BY <2>2, <2>3, <2>4, <2>5 DEF Next
  <2>7. QED
    BY <1>2, <2>6, HeaderStep
<1>5. QED
  BY <1>3, <1>4

(* Whatever the bytes of a header, and however the reads of it fail or     *)
(* come in pieces: the size that parse_sqlite, parse_7z, parse_wav and     *)
(* parse_bmp return is the one the header says, never a sum that wrapped.  *)
THEOREM HeaderSizesDoNotWrap == Spec => []SizeIsSaid
<1>1. Init => SizeIsSaid
  BY DEF Init, SizeIsSaid
<1>2. QED
  BY <1>1, StepSizeIsSaid, SpecPInv, PTL DEF Spec

-----------------------------------------------------------------------------
(* The end of a GIF.                                                       *)

(* The tables of colours are there.                                        *)
LEMMA TablesAreThere ==
    ASSUME TypeOK
    PROVE  /\ Size \in Nat
           /\ \A a \in Nat : a < Size => source[a] \in Byte /\ source[a] \in Nat
           /\ \A a \in Nat : At(a) \in Byte /\ Table[At(a)] \in Nat
           /\ \A a \in Nat : a < Size => At(a) = source[a]
<1>1. Size \in Nat /\ 0 \in Byte /\ Byte \subseteq Nat /\ Table \in [Byte -> Nat]
  BY ReaderAssumption, ParserAssumption
<1>2. ASSUME NEW a \in Nat, a < Size PROVE source[a] \in Byte
  BY <1>1, <1>2 DEF TypeOK, Addr
<1>3. ASSUME NEW a \in Nat PROVE At(a) \in Byte
  BY <1>1, <1>2, <1>3 DEF At
<1>4. ASSUME NEW a \in Nat, a < Size PROVE At(a) = source[a]
  BY <1>4 DEF At
<1>5. QED
  BY <1>1, <1>2, <1>3, <1>4

(* The recursion of SubBlocksEnd ends, and so it is what its definition    *)
(* says; it goes on to a larger address.                                   *)
LEMMA SubBlocksEndIs ==
    ASSUME TypeOK
    PROVE  \A a \in Nat :
              SubBlocksEnd[a] = IF a >= Size THEN Beyond
                                ELSE IF source[a] = 0 THEN a + 1
                                ELSE SubBlocksEnd[a + 1 + source[a]]
<1> DEFINE Last == {a \in Nat : a >= Size \/ source[a] = 0}
           base == [a \in Nat |-> IF a >= Size THEN Beyond ELSE a + 1]
           next == [a \in Nat |-> IF a \in Last THEN 0 ELSE a + 1 + source[a]]
           comb == [a \in Nat |-> [v \in Nat |-> v]]
<1>1. Size \in Nat /\ \A a \in Nat : a < Size => source[a] \in Nat
  BY TablesAreThere
<1>2. /\ base \in [Nat -> Nat] /\ comb \in [Nat -> [Nat -> Nat]]
      /\ \A a \in Nat : a >= Size => a \in Last
  BY <1>1 DEF Beyond
<1>3. /\ next \in [Nat -> Nat]
      /\ \A a \in Nat : a \notin Last => next[a] > a /\ next[a] = a + 1 + source[a]
  BY <1>1
<1>4. \A a \in Nat, v \in Nat : comb[a][v] = v
  OBVIOUS
<1>5. PICK f \in [Nat -> Nat] : \A a \in Nat :
         f[a] = IF a \in Last THEN base[a] ELSE comb[a][f[next[a]]]
  <2> HIDE DEF Last, base, next, comb
  <2>1. IsWalk(Size, Nat, Last, base, next, comb)
    BY <1>1, <1>2, <1>3 DEF IsWalk
  <2>2. QED
    BY <2>1, WalkDefined
<1>6. ASSUME NEW a \in Nat
      PROVE  f[a] = IF a >= Size THEN Beyond
                    ELSE IF source[a] = 0 THEN a + 1 ELSE f[a + 1 + source[a]]
  <2>1. f[a] = IF a \in Last THEN base[a] ELSE comb[a][f[next[a]]]
    BY <1>5
  <2>2. CASE a \in Last
    <3>1. f[a] = IF a >= Size THEN Beyond ELSE a + 1
      BY <2>1, <2>2
    <3>2. a >= Size \/ source[a] = 0
      BY <2>2
    <3>3. QED
      BY <3>1, <3>2
  <2>3. CASE a \notin Last
    <3>1. next[a] \in Nat /\ next[a] = a + 1 + source[a]
      BY <1>3, <2>3
    <3>2. comb[a][f[next[a]]] = f[next[a]]
      BY <1>4, <3>1
    <3>3. ~ (a >= Size) /\ source[a] # 0
      BY <2>3
    <3>4. f[a] = f[a + 1 + source[a]]
      BY <2>1, <2>3, <3>1, <3>2, Zenon
    <3>5. QED
      BY <3>3, <3>4
  <2>4. QED
    BY <2>2, <2>3
<1>7. f = [a \in Nat |-> IF a >= Size THEN Beyond
                         ELSE IF source[a] = 0 THEN a + 1 ELSE f[a + 1 + source[a]]]
  <2>1. f = [a \in Nat |-> f[a]]
    OBVIOUS
  <2>2. QED
    BY <1>6, <2>1
<1>8. SubBlocksEnd = [a \in Nat |-> IF a >= Size THEN Beyond
                         ELSE IF source[a] = 0 THEN a + 1
                         ELSE SubBlocksEnd[a + 1 + source[a]]]
  <2> HIDE DEF Last, base, next, comb
  <2>1. QED
    BY <1>7 DEF SubBlocksEnd
<1>9. QED
  BY <1>8

(* A chain of sub-blocks ends behind its first.                            *)
LEMMA SubBlocksGoOn ==
    ASSUME TypeOK, NEW a \in Nat
    PROVE  SubBlocksEnd[a] \in Nat /\ (a < Size => SubBlocksEnd[a] > a)
<1> DEFINE G == {x \in Nat : SubBlocksEnd[x] \in Nat /\ (x < Size => SubBlocksEnd[x] > x)}
<1>1. Size \in Nat /\ \A x \in Nat : x < Size => source[x] \in Nat
  BY TablesAreThere
<1>2. ASSUME NEW x \in Nat, x >= Size PROVE x \in G
  <2>1. SubBlocksEnd[x] = Size + 1
    BY <1>2, SubBlocksEndIs DEF Beyond
  <2>2. QED
    BY <1>1, <1>2, <2>1
<1>3. ASSUME NEW x \in Nat, \A y \in Nat : y > x => y \in G PROVE x \in G
  <2>1. CASE x >= Size
    BY <1>2, <2>1
  <2>2. CASE x < Size /\ source[x] = 0
    <3>1. SubBlocksEnd[x] = x + 1
      BY <1>1, <2>2, SubBlocksEndIs
    <3>2. QED
      BY <3>1
  <2>3. CASE x < Size /\ source[x] # 0
    <3>1. source[x] \in Nat /\ x + 1 + source[x] \in Nat /\ x + 1 + source[x] > x
      BY <1>1, <2>3
    <3>2. SubBlocksEnd[x] = SubBlocksEnd[x + 1 + source[x]]
      BY <1>1, <2>3, SubBlocksEndIs
    <3>3. x + 1 + source[x] \in G
      BY <1>3, <3>1
    <3>4. CASE x + 1 + source[x] < Size
      BY <3>1, <3>2, <3>3, <3>4
    <3>5. CASE x + 1 + source[x] >= Size
      <4>1. SubBlocksEnd[x + 1 + source[x]] = Size + 1
        BY <3>1, <3>5, SubBlocksEndIs DEF Beyond
      <4>2. QED
        BY <1>1, <2>3, <3>2, <4>1
    <3>6. QED
      BY <1>1, <3>1, <3>4, <3>5
  <2>4. QED
    BY <1>1, <2>1, <2>2, <2>3
<1>4. a \in G
  <2> HIDE DEF G
  <2>1. QED
    BY <1>1, <1>2, <1>3, Downward
<1>5. QED
  BY <1>4

(* The same of BlocksEnd.                                                  *)
LEMMA BlocksEndIs ==
    ASSUME TypeOK
    PROVE  \A a \in Nat :
              /\ a >= Size => BlocksEnd[a] = Beyond
              /\ a < Size /\ source[a] = Trailer => BlocksEnd[a] = a + 1
              /\ a < Size /\ source[a] = Extension =>
                    BlocksEnd[a] = BlocksEnd[SubBlocksEnd[a + 2]]
              /\ a < Size /\ source[a] = Image =>
                    BlocksEnd[a] = BlocksEnd[SubBlocksEnd[a + 2 + Table[At(a + 1)]]]
              /\ a < Size /\ source[a] \notin {Trailer, Extension, Image} =>
                    BlocksEnd[a] = Beyond
<1> DEFINE Last == {a \in Nat : a >= Size \/ source[a] \notin {Extension, Image}}
           base == [a \in Nat |-> IF a < Size /\ source[a] = Trailer THEN a + 1 ELSE Beyond]
           inner == [a \in Nat |-> IF source[a] = Extension THEN a + 2
                                   ELSE a + 2 + Table[At(a + 1)]]
           next == [a \in Nat |-> SubBlocksEnd[inner[a]]]
           comb == [a \in Nat |-> [v \in Nat |-> v]]
           body(f, a) == IF a >= Size THEN Beyond
                         ELSE CASE source[a] = Trailer   -> a + 1
                                [] source[a] = Extension -> f[SubBlocksEnd[a + 2]]
                                [] source[a] = Image     ->
                                      f[SubBlocksEnd[a + 2 + Table[At(a + 1)]]]
                                [] OTHER -> Beyond
<1>1. /\ Size \in Nat
      /\ \A a \in Nat : Table[At(a + 1)] \in Nat
      /\ Extension # Image /\ Extension # Trailer /\ Image # Trailer
  BY TablesAreThere, ParserAssumption
<1>2. /\ base \in [Nat -> Nat] /\ comb \in [Nat -> [Nat -> Nat]]
      /\ \A a \in Nat : a >= Size => a \in Last
  BY <1>1 DEF Beyond
<1>3. \A a \in Nat : inner[a] \in Nat /\ inner[a] > a
  BY <1>1
<1>4. /\ next \in [Nat -> Nat]
      /\ \A a \in Nat : a \notin Last => next[a] > a
  <2> HIDE DEF inner
  <2>1. ASSUME NEW a \in Nat PROVE next[a] \in Nat
    BY <1>3, SubBlocksGoOn
  <2>2. ASSUME NEW a \in Nat, a \notin Last PROVE next[a] > a
    <3>1. a < Size
      BY <1>1, <2>2
    <3>2. CASE inner[a] < Size
      <4>1. SubBlocksEnd[inner[a]] > inner[a] /\ SubBlocksEnd[inner[a]] \in Nat
        BY <1>3, <3>2, SubBlocksGoOn
      <4>2. QED
        BY <1>3, <4>1
    <3>3. CASE inner[a] >= Size
      <4>1. SubBlocksEnd[inner[a]] = Size + 1
        BY <1>3, <3>3, SubBlocksEndIs DEF Beyond
      <4>2. QED
        BY <1>1, <3>1, <4>1
    <3>4. QED
      BY <1>1, <1>3, <3>2, <3>3
  <2>3. QED
    BY <2>1, <2>2
<1>5. PICK f \in [Nat -> Nat] : \A a \in Nat :
         f[a] = IF a \in Last THEN base[a] ELSE comb[a][f[next[a]]]
  <2> HIDE DEF Last, base, next, comb
  <2>1. IsWalk(Size, Nat, Last, base, next, comb)
    BY <1>1, <1>2, <1>4 DEF IsWalk
  <2>2. QED
    BY <2>1, WalkDefined
<1>6. ASSUME NEW a \in Nat PROVE f[a] = body(f, a)
  <2>1. f[a] = IF a \in Last THEN base[a] ELSE comb[a][f[next[a]]]
    BY <1>5
  <2>2. CASE a \in Last
    <3>1. f[a] = base[a]
      BY <2>1, <2>2
    <3>2. CASE a >= Size
      BY <1>1, <3>1, <3>2
    <3>3. CASE ~ (a >= Size)
      <4>1. source[a] # Extension /\ source[a] # Image /\ a < Size
        BY <1>1, <2>2, <3>3
      <4>2. CASE source[a] = Trailer
        BY <3>1, <3>3, <4>1, <4>2
      <4>3. CASE source[a] # Trailer
        BY <3>1, <3>3, <4>1, <4>3
      <4>4. QED
        BY <4>2, <4>3
    <3>4. QED
      BY <3>2, <3>3
  <2>3. CASE a \notin Last
    <3>1. f[a] = f[next[a]]
      <4>1. next[a] \in Nat
        BY <1>4
      <4>2. comb[a][f[next[a]]] = f[next[a]]
        <5> HIDE DEF next
        <5>1. QED
          BY <4>1
      <4>3. QED
        BY <2>1, <2>3, <4>2
    <3>2. ~ (a >= Size) /\ source[a] \in {Extension, Image}
      BY <2>3
    <3>3. next[a] = SubBlocksEnd[IF source[a] = Extension THEN a + 2
                                 ELSE a + 2 + Table[At(a + 1)]]
      OBVIOUS
    <3>4. CASE source[a] = Extension
      BY <1>1, <3>1, <3>2, <3>3, <3>4
    <3>5. CASE source[a] = Image
      BY <1>1, <3>1, <3>2, <3>3, <3>5
    <3>6. QED
      BY <3>2, <3>4, <3>5
  <2>4. QED
    BY <2>2, <2>3
<1>7. f = [a \in Nat |-> body(f, a)]
  <2>1. f = [a \in Nat |-> f[a]]
    OBVIOUS
  <2> HIDE DEF body
  <2>2. QED
    BY <1>6, <2>1
<1>8. BlocksEnd = [a \in Nat |-> body(BlocksEnd, a)]
  <2> HIDE DEF Last, base, next, comb
  <2>1. QED
    BY <1>7 DEF BlocksEnd
<1>9. \A a \in Nat : BlocksEnd[a] = body(BlocksEnd, a)
  <2> HIDE DEF body
  <2>1. QED
    BY <1>8
<1>10. QED
  BY <1>1, <1>9

(* The end of what begins behind L lies behind L, whether in the source or *)
(* Beyond.                                                                 *)
LEMMA EndsLieBehind ==
    ASSUME TypeOK, NEW L \in Nat, L <= Size, NEW a \in Nat, a >= L
    PROVE  SubBlocksEnd[a] > L /\ BlocksEnd[a] > L
<1> DEFINE G == {x \in Nat : x < Size => BlocksEnd[x] \in Nat /\ BlocksEnd[x] > x}
           inner(x) == IF source[x] = Extension THEN x + 2 ELSE x + 2 + Table[At(x + 1)]
<1>1. /\ Size \in Nat /\ Beyond = Size + 1
      /\ \A x \in Nat : Table[At(x + 1)] \in Nat
      /\ \A x \in Nat : x >= Size => SubBlocksEnd[x] = Beyond /\ BlocksEnd[x] = Beyond
  BY TablesAreThere, SubBlocksEndIs, BlocksEndIs DEF Beyond
<1>2. \A x, y \in Nat : y >= x /\ x < Size => SubBlocksEnd[y] > x /\ SubBlocksEnd[y] \in Nat
  <2>1. SUFFICES ASSUME NEW x \in Nat, NEW y \in Nat, y >= x, x < Size
                 PROVE  SubBlocksEnd[y] > x /\ SubBlocksEnd[y] \in Nat
    OBVIOUS
  <2>2. CASE y < Size
    <3>1. SubBlocksEnd[y] \in Nat /\ SubBlocksEnd[y] > y
      BY <2>2, SubBlocksGoOn
    <3>2. QED
      BY <2>1, <3>1
  <2>3. CASE y >= Size
    BY <1>1, <2>1, <2>3
  <2>4. QED
    BY <1>1, <2>2, <2>3
<1>3. ASSUME NEW x \in Nat, \A y \in Nat : y > x => y \in G PROVE x \in G
  <2>1. CASE x >= Size
    BY <1>1, <2>1
  <2>2. CASE x < Size /\ source[x] \notin {Extension, Image}
    <3>1. BlocksEnd[x] \in {x + 1, Beyond}
      BY <2>2, BlocksEndIs
    <3>2. QED
      BY <1>1, <2>2, <3>1
  <2>3. CASE x < Size /\ source[x] \in {Extension, Image}
    <3>1. inner(x) \in Nat /\ inner(x) >= x
      BY <1>1
    <3>2. BlocksEnd[x] = BlocksEnd[SubBlocksEnd[inner(x)]]
      BY <2>3, BlocksEndIs
    <3> HIDE DEF inner
    <3>3. SubBlocksEnd[inner(x)] \in Nat /\ SubBlocksEnd[inner(x)] > x
      BY <1>2, <2>3, <3>1
    <3>4. SubBlocksEnd[inner(x)] \in G
      <4> HIDE DEF G
      <4>1. QED
        BY <1>3, <3>3
    <3>5. CASE SubBlocksEnd[inner(x)] >= Size
      <4>1. BlocksEnd[x] = Size + 1
        BY <1>1, <3>2, <3>3, <3>5
      <4>2. QED
        BY <1>1, <2>3, <4>1
    <3>6. CASE SubBlocksEnd[inner(x)] < Size
      <4>1. BlocksEnd[x] \in Nat /\ BlocksEnd[x] > SubBlocksEnd[inner(x)]
        BY <1>1, <3>2, <3>3, <3>4, <3>6
      <4>2. QED
        BY <3>3, <4>1
    <3>7. QED
      BY <1>1, <3>3, <3>5, <3>6
  <2>4. QED
    BY <1>1, <2>1, <2>2, <2>3
<1>4. a \in G
  <2>1. \A x \in Nat : x >= Size => x \in G
    BY <1>1
  <2> HIDE DEF G
  <2>2. QED
    BY <1>1, <1>3, <2>1, Downward
<1>5. CASE a >= Size
  BY <1>1, <1>5
<1>6. CASE a < Size
  <2>1. SubBlocksEnd[a] \in Nat /\ SubBlocksEnd[a] > a
    BY <1>6, SubBlocksGoOn
  <2>2. BlocksEnd[a] \in Nat /\ BlocksEnd[a] > a
    BY <1>1, <1>4, <1>6
  <2>3. QED
    BY <2>1, <2>2
<1>7. QED
  BY <1>1, <1>5, <1>6

(* The grammar is that of a source that stays.                             *)
LEMMA GrammarStays ==
    ASSUME source' = source
    PROVE  SubBlocksEnd' = SubBlocksEnd /\ BlocksEnd' = BlocksEnd
<1>1. SubBlocksEnd' = SubBlocksEnd
  BY DEF SubBlocksEnd, Beyond
<1>2. QED
  BY <1>1 DEF BlocksEnd, Beyond, At

(* What remains of the GIF begins where the parser is.                     *)
GifPath ==
    parser = "gif" =>
        /\ pc = "block" => BlocksEnd[pos] = GifEnd
        /\ pc = "image" => source[pos] = Image /\ BlocksEnd[pos] = GifEnd
        /\ pc = "sub" => BlocksEnd[SubBlocksEnd[pos]] = GifEnd

GifInv == GifPath /\ GifIsWhole

(* A field leaves the parser before what remains of the GIF.               *)
LEMMA GifFieldKeeps ==
    ASSUME PInv, GifInv, GifField
    PROVE  GifInv'
<1>1. UNCHANGED <<source, flaky, parser, start, cap>> /\ parser = "gif" /\ steps' = steps
  <2>1. [Next]_vars
    BY DEF Next
  <2>2. QED
    BY <2>1, ArgsStay, GifStep
<1>2. SubBlocksEnd' = SubBlocksEnd /\ BlocksEnd' = BlocksEnd /\ GifEnd' = GifEnd
  BY <1>1, GrammarStays DEF GifEnd
<1>3. /\ Size \in Nat /\ start \in Nat /\ start < Size /\ cap \in Nat
      /\ Limit \in Nat /\ Limit = start + cap /\ Limit <= Size /\ pos \in Nat
      /\ Extension # Image /\ Extension # Trailer /\ Image # Trailer
      /\ Limit' = Limit
  BY <1>1, Numbers, ParserAssumption DEF PInv, Limit
<1>4. /\ pos >= start /\ TypeOK /\ status = "ok"
      /\ pc \in {"block", "sub"} => pos < Limit
      /\ pc = "image" => pos + 1 < Size
      /\ GifPath
  BY <1>1, FieldRead, GifStep DEF PInv, Stage, GifInv
<1>5. /\ source[start] \in Nat
      /\ pos < Size => source[pos] \in Nat
  BY <1>3, <1>4, TablesAreThere
<1>6. CASE pc = "header"
  <2>1. pc' = "block" /\ pos' = start + 1 + Table[source[start]]
    BY <1>6, GifStep
  <2>2. BlocksEnd'[pos'] = GifEnd'
    BY <1>2, <2>1 DEF GifEnd
  <2>3. QED
    BY <2>1, <2>2 DEF GifInv, GifPath, GifIsWhole
<1>7. CASE pc = "image"
  <2>1. pc' = "sub" /\ pos' = pos + 2 + Table[source[pos + 1]]
    BY <1>7, GifStep
  <2>2. At(pos + 1) = source[pos + 1]
    BY <1>3, <1>4, <1>7, TablesAreThere
  <2>3. source[pos] = Image /\ BlocksEnd[pos] = GifEnd
    BY <1>1, <1>4, <1>7 DEF GifPath
  <2>4. BlocksEnd[pos] = BlocksEnd[SubBlocksEnd[pos']]
    BY <1>3, <1>4, <1>7, <2>1, <2>2, <2>3, BlocksEndIs
  <2>5. QED
    BY <1>2, <2>1, <2>3, <2>4 DEF GifInv, GifPath, GifIsWhole
<1>8. CASE pc = "sub"
  <2>1. BlocksEnd[SubBlocksEnd[pos]] = GifEnd
    BY <1>1, <1>4, <1>8 DEF GifPath
  <2>2. CASE source[pos] = 0
    <3>1. pc' = "block" /\ pos' = pos + 1
      BY <1>8, <2>2, GifStep
    <3>2. SubBlocksEnd[pos] = pos'
      BY <1>3, <1>4, <1>8, <2>2, <3>1, SubBlocksEndIs
    <3>3. QED
      BY <1>2, <2>1, <3>1, <3>2 DEF GifInv, GifPath, GifIsWhole
  <2>3. CASE source[pos] # 0
    <3>1. pc' = "sub" /\ pos' = pos + 1 + source[pos]
      BY <1>8, <2>3, GifStep
    <3>2. SubBlocksEnd[pos] = SubBlocksEnd[pos']
      BY <1>3, <1>4, <1>8, <2>3, <3>1, SubBlocksEndIs
    <3>3. QED
      BY <1>2, <2>1, <3>1, <3>2 DEF GifInv, GifPath, GifIsWhole
  <2>4. QED
    BY <2>2, <2>3
<1>9. CASE pc = "block"
  <2>1. BlocksEnd[pos] = GifEnd /\ pos < Limit /\ pos < Size
    BY <1>1, <1>3, <1>4, <1>9 DEF GifPath
  <2>2. CASE source[pos] = Extension
    <3>1. pc' = "sub" /\ pos' = pos + 2
      BY <1>3, <1>9, <2>2, GifStep
    <3>2. BlocksEnd[pos] = BlocksEnd[SubBlocksEnd[pos']]
      BY <1>3, <1>4, <2>1, <2>2, <3>1, BlocksEndIs
    <3>3. QED
      BY <1>2, <2>1, <3>1, <3>2 DEF GifInv, GifPath, GifIsWhole
  <2>3. CASE source[pos] = Image
    <3>1. pc' = "image" /\ pos' = pos
      BY <1>3, <1>9, <2>3, GifStep
    <3>2. QED
      BY <1>1, <1>2, <2>1, <2>3, <3>1 DEF GifInv, GifPath, GifIsWhole
  <2>4. CASE source[pos] = Trailer
    <3>1. pc' = "done" /\ size' = GifSize
      BY <1>3, <1>9, <2>4, GifStep
    <3>2. BlocksEnd[pos] = pos + 1
      BY <1>3, <1>4, <2>1, <2>4, BlocksEndIs
    <3>3. start + size' = GifEnd /\ size' <= cap /\ size' # NoSize
      BY <1>3, <1>4, <2>1, <3>1, <3>2 DEF GifSize, NoSize
    <3>4. QED
      BY <1>1, <1>2, <3>1, <3>3 DEF GifInv, GifPath, GifIsWhole
  <2>5. CASE source[pos] \notin {Extension, Image, Trailer}
    <3>1. pc' = "done" /\ size' = NoSize
      BY <1>3, <1>9, <2>5, GifStep
    <3>2. GifEnd = Size + 1
      BY <1>3, <1>4, <2>1, <2>5, BlocksEndIs DEF Beyond
    <3>3. GifEnd' > Limit'
      BY <1>2, <1>3, <3>2
    <3>4. QED
      BY <3>1, <3>3 DEF GifInv, GifPath, GifIsWhole
  <2>6. QED
    BY <2>2, <2>3, <2>4, <2>5
<1>10. QED
  BY <1>6, <1>7, <1>8, <1>9, GifStep

(* A GIF that is given up is not there, or cannot be read, or is too long. *)
LEMMA GifFailsForCause ==
    ASSUME PInv, GifPath, parser = "gif", Fails
    PROVE  flaky # {} \/ GifEnd > Limit \/ steps > MaxSteps
<1>1. /\ Size \in Nat /\ start \in Nat /\ start < Size /\ cap \in Nat
      /\ Limit \in Nat /\ Limit = start + cap /\ Limit <= Size /\ pos \in Nat
      /\ steps \in Nat /\ MaxSteps \in Nat
  BY Numbers DEF PInv
<1>2. TypeOK /\ Asked /\ Cause /\ Stage
  BY DEF PInv
<1>3. \/ status = "err"
      \/ pc \in {"block", "sub"} /\ ~ (pos < Limit)
      \/ pc = "block" /\ ~ (steps <= MaxSteps)
  BY EndStep
<1>4. CASE status = "err"
  <2>1. SUFFICES ASSUME flaky = {} PROVE GifEnd > Limit
    OBVIOUS
  <2>2. req.addr + req.len > Size
    BY <1>2, <1>4, <2>1 DEF Cause
  <2>3. pc \in {"header", "block", "image", "sub"}
    BY <1>2, <1>4 DEF Stage, Asked
  <2>4. CASE pc = "header"
    <3>1. req = [addr |-> start, len |-> 1]
      BY <1>2, <1>4, <2>4 DEF Asked, Fields
    <3>2. QED
      BY <1>1, <2>2, <3>1
  <2>5. CASE pc \in {"block", "sub"}
    <3>1. req = [addr |-> pos, len |-> 1] /\ pos < Limit
      BY <1>2, <1>4, <2>5 DEF Asked
    <3>2. QED
      BY <1>1, <2>2, <3>1
  <2>6. CASE pc = "image"
    <3>1. req = [addr |-> pos + 1, len |-> 1] /\ pos < Limit
      BY <1>2, <1>4, <2>6 DEF Asked, Stage
    <3>2. pos + 1 >= Size /\ pos < Size
      BY <1>1, <2>2, <3>1
    <3>3. source[pos] = Image /\ BlocksEnd[pos] = GifEnd
      BY <2>6 DEF GifPath
    <3> DEFINE inner == pos + 2 + Table[At(pos + 1)]
    <3>4. inner \in Nat /\ inner >= Size
      BY <1>1, <1>2, <3>2, TablesAreThere
    <3>5. GifEnd = BlocksEnd[SubBlocksEnd[inner]]
      BY <1>1, <1>2, <3>2, <3>3, BlocksEndIs
    <3> HIDE DEF inner
    <3>6. SubBlocksEnd[inner] = Size + 1
      BY <1>2, <3>4, SubBlocksEndIs DEF Beyond
    <3>7. GifEnd = Size + 1
      BY <1>1, <1>2, <3>5, <3>6, BlocksEndIs DEF Beyond
    <3>8. QED
      BY <1>1, <3>7
  <2>7. QED
    BY <2>3, <2>4, <2>5, <2>6
<1>5. CASE pc = "block" /\ ~ (pos < Limit)
  <2>1. BlocksEnd[pos] = GifEnd
    BY <1>5 DEF GifPath
  <2>2. QED
    BY <1>1, <1>2, <1>5, <2>1, EndsLieBehind
<1>6. CASE pc = "sub" /\ ~ (pos < Limit)
  <2>1. BlocksEnd[SubBlocksEnd[pos]] = GifEnd
    BY <1>6 DEF GifPath
  <2>2. SubBlocksEnd[pos] \in Nat /\ SubBlocksEnd[pos] > Limit
    BY <1>1, <1>2, <1>6, EndsLieBehind, SubBlocksGoOn
  <2>3. QED
    BY <1>1, <1>2, <2>1, <2>2, EndsLieBehind
<1>7. CASE pc = "block" /\ ~ (steps <= MaxSteps)
  BY <1>1, <1>7
<1>8. QED
  BY <1>3, <1>4, <1>5, <1>6, <1>7

(* Every step leaves the parser before what remains of the GIF.            *)
LEMMA StepGifInv == PInv /\ GifInv /\ [Next]_vars => GifInv'
<1> SUFFICES ASSUME PInv, GifInv, [Next]_vars PROVE GifInv'
  OBVIOUS
<1>1. UNCHANGED <<source, flaky, parser, start, cap>>
  BY ArgsStay
<1>2. SubBlocksEnd' = SubBlocksEnd /\ BlocksEnd' = BlocksEnd
  BY <1>1, GrammarStays
<1>3. GifEnd' = GifEnd /\ Limit' = Limit
  BY <1>1, <1>2 DEF GifEnd, Limit
<1>4. CASE parser # "gif"
  BY <1>1, <1>4 DEF GifInv, GifPath, GifIsWhole
<1>5. CASE parser = "gif"
  <2>1. CASE pc = "done"
    <3>1. UNCHANGED vars
      BY <2>1, FinalStep
    <3>2. UNCHANGED <<pc, pos, size, steps>>
      BY <3>1 DEF vars, pvars
    <3>3. QED
      BY <1>1, <1>2, <1>3, <2>1, <3>2 DEF GifInv, GifPath, GifIsWhole
  <2>2. CASE pc # "done" /\ UNCHANGED <<pc, pos>>
    <3>1. pc' # "done"
      BY <2>2
    <3>2. QED
      BY <1>1, <1>2, <1>3, <2>2, <3>1 DEF GifInv, GifPath, GifIsWhole
  <2>3. CASE Fails
    <3>1. pc' = "done" /\ size' = NoSize /\ steps' = steps
      BY <1>5, <2>3, EndStep
    <3>2. flaky # {} \/ GifEnd > Limit \/ steps > MaxSteps
      BY <1>5, <2>3, GifFailsForCause DEF GifInv
    <3>3. QED
      BY <1>1, <1>3, <3>1, <3>2 DEF GifInv, GifPath, GifIsWhole
  <2>4. CASE GifField
    BY <2>4, GifFieldKeeps
  <2>5. CASE Ask \/ (ReadStep /\ UNCHANGED pvars) \/ UNCHANGED vars
    <3>1. UNCHANGED <<pc, pos>>
      BY <2>5 DEF Ask, pvars, vars
    <3>2. QED
      BY <2>1, <2>2, <3>1
  <2>6. ~ HeaderSize /\ ~ ChainEnds /\ ~ BoxHeader /\ ~ LargeBox
    BY <1>5 DEF HeaderSize, HeaderParsers, ChainEnds, BoxHeader, LargeBox, PInv, Stage
  <2>7. QED
    BY <2>3, <2>4, <2>5, <2>6 DEF Next
<1>6. QED
  BY <1>4, <1>5

(* parse_gif, for every source and table of colours: it returns a size     *)
(* only of a well-formed GIF that ends within the cap, and that size; and  *)
(* it gives up only if there is none, or a read failed, or after MaxSteps  *)
(* blocks.                                                                 *)
THEOREM GifSizeIsThatOfTheGif == Spec => []GifIsWhole
<1>1. Init => GifInv
  BY DEF Init, GifInv, GifPath, GifIsWhole
<1>2. GifInv => GifIsWhole
  BY DEF GifInv
<1>3. QED
  BY <1>1, <1>2, StepGifInv, SpecPInv, PTL DEF Spec

-----------------------------------------------------------------------------
(* The chain of boxes.                                                     *)

(* A box that is there has a length.                                       *)
LEMMA BoxLenIsNat ==
    ASSUME TypeOK, NEW a \in Nat, IsBox(a)
    PROVE  BoxLen(a) \in Nat /\ a + 2 <= Size
<1>1. Size \in Nat /\ source \in [Addr -> Byte] /\ a + 2 <= Size
  BY ReaderAssumption DEF TypeOK, IsBox
<1>2. source[a] \in Byte /\ (source[a] = 1 => source[a + 2] \in Byte)
  <2>1. a \in Addr /\ (source[a] = 1 => a + 2 \in Addr)
    BY <1>1 DEF IsBox, Addr
  <2>2. QED
    BY <1>1, <2>1
<1>3. /\ \A b \in Byte : LargeSize[b] \in 0 .. (Words - 1) /\ b \in Nat
      /\ \A x \in 0 .. (Words - 1) : x \in Nat
  BY <1>1, ParserAssumption
<1>4. CASE source[a] = 1
  BY <1>1, <1>2, <1>3, <1>4, Zenon DEF BoxLen
<1>5. CASE source[a] # 1
  BY <1>1, <1>2, <1>3, <1>5, Zenon DEF BoxLen
<1>6. QED
  BY <1>4, <1>5

(* The recursion of Chain ends.                                            *)
LEMMA ChainIs ==
    ASSUME TypeOK
    PROVE  \A a \in Nat :
              /\ a \in Chain[a] /\ Chain[a] \subseteq Nat
              /\ Ends(a) => Chain[a] = {a}
              /\ ~ Ends(a) => Chain[a] = {a} \cup Chain[a + BoxLen(a)]
<1> DEFINE Last == {a \in Nat : Ends(a)}
           base == [a \in Nat |-> {a}]
           next == [a \in Nat |-> IF Ends(a) THEN 0 ELSE a + BoxLen(a)]
           comb == [a \in Nat |-> [v \in SUBSET Nat |-> {a} \cup v]]
           goes(a) == a < Limit /\ IsBox(a) /\ BoxLen(a) # 0
           body(f, a) == {a} \cup IF goes(a) THEN f[a + BoxLen(a)] ELSE {}
<1>1. Limit \in Nat
  BY Numbers
<1>2. ASSUME NEW a \in Nat
      PROVE  /\ goes(a) <=> ~ Ends(a)
             /\ ~ Ends(a) => a + BoxLen(a) \in Nat /\ a + BoxLen(a) > a
  <2>1. goes(a) <=> ~ Ends(a)
    BY <1>1 DEF Ends
  <2>2. ASSUME ~ Ends(a) PROVE a + BoxLen(a) \in Nat /\ a + BoxLen(a) > a
    <3>1. BoxLen(a) \in Nat /\ BoxLen(a) # 0
      BY <2>2, BoxLenIsNat DEF Ends
    <3>2. QED
      BY <3>1
  <2>3. QED
    BY <2>1, <2>2
<1>3. \E f \in [Nat -> SUBSET Nat] : \A a \in Nat :
         f[a] = IF a \in Last THEN base[a] ELSE comb[a][f[next[a]]]
  <2>1. base \in [Nat -> SUBSET Nat] /\ comb \in [Nat -> [SUBSET Nat -> SUBSET Nat]]
    OBVIOUS
  <2>2. next \in [Nat -> Nat] /\ \A a \in Nat : a \notin Last => next[a] > a
    BY <1>2
  <2>3. \A a \in Nat : a >= Limit => a \in Last
    BY DEF Ends
  <2> HIDE DEF Last, base, next, comb
  <2>4. IsWalk(Limit, SUBSET Nat, Last, base, next, comb)
    BY <1>1, <2>1, <2>2, <2>3 DEF IsWalk
  <2>5. QED
    BY <2>4, WalkDefined
<1>4. PICK f \in [Nat -> SUBSET Nat] : \A a \in Nat :
         f[a] = IF a \in Last THEN base[a] ELSE comb[a][f[next[a]]]
  BY <1>3
<1>5. ASSUME NEW a \in Nat PROVE f[a] = body(f, a)
  <2>1. CASE Ends(a)
    <3>1. f[a] = {a}
      BY <1>4, <2>1
    <3>2. QED
      BY <1>2, <2>1, <3>1
  <2>2. CASE ~ Ends(a)
    <3>1. next[a] = a + BoxLen(a) /\ next[a] \in Nat /\ f[next[a]] \in SUBSET Nat
      BY <1>2, <2>2
    <3>2. f[a] = comb[a][f[next[a]]]
      BY <1>4, <2>2
    <3>3. f[a] = {a} \cup f[a + BoxLen(a)]
      BY <3>1, <3>2
    <3>4. QED
      BY <1>2, <2>2, <3>3
  <2>3. QED
    BY <2>1, <2>2
<1>6. Chain = [a \in Nat |-> body(Chain, a)]
  <2>1. f = [a \in Nat |-> f[a]]
    OBVIOUS
  <2>2. f = [a \in Nat |-> body(f, a)]
    <3> HIDE DEF body
    <3>1. QED
      BY <1>5, <2>1
  <2> HIDE DEF Last, base, next, comb
  <2>3. QED
    BY <2>2 DEF Chain
<1>7. ASSUME NEW a \in Nat PROVE Chain[a] = body(Chain, a)
  <2> HIDE DEF body
  <2>1. QED
    BY <1>6, <1>7
<1> DEFINE G == {a \in Nat : Chain[a] \subseteq Nat}
<1>8. ASSUME NEW a \in Nat, \A b \in Nat : b > a => b \in G PROVE a \in G
  <2>1. CASE Ends(a)
    BY <1>2, <1>7, <2>1
  <2>2. CASE ~ Ends(a)
    <3>1. a + BoxLen(a) \in G
      <4> HIDE DEF G
      <4>1. QED
        BY <1>2, <1>8, <2>2
    <3>2. Chain[a] = {a} \cup Chain[a + BoxLen(a)]
      BY <1>2, <1>7, <2>2
    <3>3. QED
      BY <3>1, <3>2
  <2>3. QED
    BY <2>1, <2>2
<1>9. \A a \in Nat : a \in G
  <2>1. \A a \in Nat : a >= Limit => a \in G
    BY <1>1, <1>7
  <2> HIDE DEF G
  <2>2. QED
    BY <1>1, <1>8, <2>1, Downward
<1>10. ASSUME NEW a \in Nat
       PROVE  /\ a \in Chain[a] /\ Chain[a] \subseteq Nat
              /\ Ends(a) => Chain[a] = {a}
              /\ ~ Ends(a) => Chain[a] = {a} \cup Chain[a + BoxLen(a)]
  <2>1. Chain[a] \subseteq Nat
    BY <1>9
  <2>2. CASE Ends(a)
    BY <1>2, <1>7, <2>1, <2>2
  <2>3. CASE ~ Ends(a)
    BY <1>2, <1>7, <2>1, <2>3
  <2>4. QED
    BY <2>2, <2>3
<1>11. QED
  BY <1>10

(* From a box of the chain that is not its last, the chain goes on.        *)
LEMMA ChainGoesOn ==
    ASSUME TypeOK, NEW a \in Nat, NEW b \in Chain[a], ~ Ends(b)
    PROVE  b \in Nat /\ b + BoxLen(b) \in Chain[a]
<1> DEFINE G == {x \in Nat : \A y \in Chain[x] : ~ Ends(y) => y + BoxLen(y) \in Chain[x]}
<1>1. Limit \in Nat
  BY Numbers
<1>2. ASSUME NEW x \in Nat, \A z \in Nat : z > x => z \in G PROVE x \in G
  <2>1. CASE Ends(x)
    BY <2>1, ChainIs
  <2>2. CASE ~ Ends(x)
    <3>1. BoxLen(x) \in Nat /\ BoxLen(x) # 0
      BY <2>2, BoxLenIsNat DEF Ends
    <3>2. x + BoxLen(x) \in Nat /\ x + BoxLen(x) > x
      BY <3>1
    <3>3. x + BoxLen(x) \in G
      <4> HIDE DEF G
      <4>1. QED
        BY <1>2, <3>2
    <3>4. Chain[x] = {x} \cup Chain[x + BoxLen(x)] /\ x + BoxLen(x) \in Chain[x + BoxLen(x)]
      BY <2>2, <3>2, ChainIs
    <3>5. QED
      BY <3>3, <3>4
  <2>3. QED
    BY <2>1, <2>2
<1>3. \A x \in Nat : x >= Limit => x \in G
  <2>1. SUFFICES ASSUME NEW x \in Nat, x >= Limit PROVE x \in G
    OBVIOUS
  <2>2. Ends(x) /\ Chain[x] = {x}
    BY <2>1, ChainIs DEF Ends
  <2>3. QED
    BY <2>2
<1>4. a \in G
  <2> HIDE DEF G
  <2>1. QED
    BY <1>1, <1>2, <1>3, Downward
<1>5. QED
  BY <1>4, ChainIs

(* The boxes are those of a source that stays.                             *)
LEMMA ChainStays ==
    ASSUME UNCHANGED <<source, start, cap>>
    PROVE  /\ Chain' = Chain
           /\ \A a : IsBox(a)' = IsBox(a) /\ BoxLen(a)' = BoxLen(a)
           /\ \A a : Ends(a)' = Ends(a) /\ Wraps(a)' = Wraps(a)
<1>1. Chain' = Chain
  BY DEF Chain, Limit, IsBox, BoxLen
<1>2. \A a : IsBox(a)' = IsBox(a) /\ BoxLen(a)' = BoxLen(a)
  BY DEF IsBox, BoxLen
<1>3. \A a : Ends(a)' = Ends(a) /\ Wraps(a)' = Wraps(a)
  BY DEF IsBox, BoxLen, Ends, Wraps, Limit
<1>4. QED
  BY <1>1, <1>2, <1>3

(* The parser is at a box of the chain, unless a size wrapped around.      *)
Mp4Path ==
    parser = "mp4" /\ pc \in {"box", "large"} =>
        \/ pos >= start /\ pos \in Chain[start]
        \/ \E a \in Addr : Wraps(a)

Mp4Inv == Mp4Path /\ Mp4EndsChain

(* What a box does to the place in the chain.                              *)
LEMMA BoxKeeps ==
    ASSUME PInv, Mp4Inv, parser = "mp4", BoxHeader \/ LargeBox,
           ~ \E a \in Addr : Wraps(a)
    PROVE  \/ pc' \in {"box", "large"} /\ pos' >= start /\ pos' \in Chain[start]
           \/ pc' = "panic"
           \/ pc' = "done" /\ size' = NoSize
           \/ /\ pc' = "done" /\ size' = cap
              /\ \E a \in Chain[start] : Ends(a) /\ (IsBox(a) \/ a >= Limit)
           \/ /\ pc' = "done"
              /\ \E a \in Chain[start] : start + size' = a /\ Ends(a)
<1>1. /\ Size \in Nat /\ Words \in Nat /\ Size < Words /\ start \in Nat /\ start < Size
      /\ Limit \in Nat /\ Limit <= Size /\ pos \in Nat /\ pos < Words /\ TypeOK
  BY Numbers DEF PInv
<1>2. pc \in {"box", "large"} /\ pos >= start /\ pos \in Chain[start]
  BY BoxStep DEF Mp4Inv, Mp4Path
<1>3. ASSUME IsBox(pos)
      PROVE  /\ BoxLen(pos) \in Nat /\ pos + BoxLen(pos) < Words
             /\ (pos + BoxLen(pos)) % Words = pos + BoxLen(pos)
  <2>1. BoxLen(pos) \in Nat /\ pos + 2 <= Size
    BY <1>1, <1>3, BoxLenIsNat
  <2>2. pos \in Addr
    BY <1>1, <2>1 DEF Addr
  <2>3. pos + BoxLen(pos) < Words
    BY <1>1, <1>3, <2>1, <2>2 DEF Wraps
  <2>4. QED
    BY <1>1, <2>1, <2>3
<1>4. CASE pc' = "large" /\ pos' = pos
  BY <1>2, <1>4
<1>5. CASE /\ pc' = "done" /\ size' = cap /\ IsBox(pos)
           /\ (BoxLen(pos) = 0 \/ (pos + BoxLen(pos)) % Words >= Limit)
  <2>1. CASE Ends(pos)
    BY <1>2, <1>5, <2>1
  <2>2. CASE ~ Ends(pos)
    <3>1. pos + BoxLen(pos) \in Chain[start]
      BY <1>1, <1>2, <2>2, ChainGoesOn
    <3>2. pos + BoxLen(pos) >= Limit
      BY <1>3, <1>5, <2>2 DEF Ends
    <3>3. Ends(pos + BoxLen(pos))
      BY <3>2 DEF Ends
    <3>4. QED
      BY <1>5, <3>1, <3>2, <3>3
  <2>3. QED
    BY <2>1, <2>2
<1>6. CASE /\ pc' = "box" /\ pos' = (pos + BoxLen(pos)) % Words
           /\ IsBox(pos) /\ BoxLen(pos) # 0 /\ pos' < Limit
  <2>1. pos' = pos + BoxLen(pos) /\ BoxLen(pos) \in Nat
    BY <1>3, <1>6
  <2>2. ~ Ends(pos) /\ pos' >= start
    BY <1>1, <1>2, <1>6, <2>1 DEF Ends
  <2>3. QED
    BY <1>1, <1>2, <1>6, <2>1, <2>2, ChainGoesOn
<1>7. CASE /\ pc' = "done" /\ ~ IsBox(pos)
           /\ (size' = NoSize \/ (size' = Total /\ Total >= 2))
  <2>1. start + Total = pos
    BY <1>1, <1>2 DEF Total
  <2>2. Ends(pos)
    BY <1>7 DEF Ends
  <2>3. QED
    BY <1>2, <1>7, <2>1, <2>2
<1>8. QED
  BY <1>4, <1>5, <1>6, <1>7, BoxStep DEF BoxOutcome

(* Where the walk ends early, it has gone along the chain.                 *)
LEMMA ChainEndKeeps ==
    ASSUME PInv, Mp4Inv, parser = "mp4", ChainEnds,
           ~ \E a \in Addr : Wraps(a)
    PROVE  /\ pc' = "done"
           /\ size' # NoSize =>
                 \E a \in Chain[start] :
                    start + size' = a /\ (Ends(a) \/ flaky # {} \/ steps = MaxBoxes)
<1>1. /\ Size \in Nat /\ Words \in Nat /\ Size < Words /\ start \in Nat /\ start < Size
      /\ pos \in Nat /\ pos < Words /\ MaxBoxes \in Nat
      /\ TypeOK /\ Asked /\ Cause /\ Stage
  BY Numbers DEF PInv
<1>2. /\ pc' = "done" /\ (size' = NoSize \/ size' = Total)
      /\ status = "err" \/ (pc = "box" /\ ~ (steps < MaxBoxes))
      /\ pc # "done" /\ pc # "panic"
  BY EndStep
<1>3. pc \in {"box", "large"} /\ pos >= start /\ pos \in Chain[start]
  BY <1>1, <1>2 DEF Mp4Inv, Mp4Path, Stage
<1>4. start + Total = pos
  BY <1>1, <1>3 DEF Total
<1>5. Ends(pos) \/ flaky # {} \/ steps = MaxBoxes
  <2>1. CASE pc = "box" /\ ~ (steps < MaxBoxes)
    <3>1. steps \in 0 .. MaxBoxes
      BY <1>1 DEF TypeOK
    <3>2. QED
      BY <1>1, <2>1, <3>1
  <2>2. CASE status = "err" /\ flaky = {}
    <3>1. req.addr + req.len > Size
      BY <1>1, <2>2 DEF Cause
    <3>2. CASE pc = "box"
      <4>1. req = [addr |-> pos, len |-> 2]
        BY <1>1, <2>2, <3>2 DEF Asked
      <4>2. QED
        BY <1>1, <3>1, <4>1 DEF Ends, IsBox
    <3>3. CASE pc = "large"
      <4>1. req = [addr |-> pos + 2, len |-> 1] /\ source[pos] = 1
        BY <1>1, <2>2, <3>3 DEF Asked, Stage
      <4>2. QED
        BY <1>1, <3>1, <4>1 DEF Ends, IsBox
    <3>4. QED
      BY <1>3, <3>2, <3>3
  <2>3. QED
    BY <1>2, <2>1, <2>2
<1>6. QED
  BY <1>2, <1>3, <1>4, <1>5

(* Every step leaves the parser at a box of the chain.                     *)
LEMMA StepMp4Inv == PInv /\ Mp4Inv /\ [Next]_vars => Mp4Inv'
<1> SUFFICES ASSUME PInv, Mp4Inv, [Next]_vars PROVE Mp4Inv'
  OBVIOUS
<1>1. UNCHANGED <<source, flaky, parser, start, cap>>
  BY ArgsStay
<1>2. /\ Chain' = Chain /\ Limit' = Limit
      /\ \A a : IsBox(a)' = IsBox(a) /\ Ends(a)' = Ends(a) /\ Wraps(a)' = Wraps(a)
  BY <1>1, ChainStays DEF Limit
<1>3. CASE parser # "mp4" \/ \E a \in Addr : Wraps(a)
  BY <1>1, <1>2, <1>3 DEF Mp4Inv, Mp4Path, Mp4EndsChain
<1>4. CASE parser = "mp4" /\ ~ \E a \in Addr : Wraps(a)
  <2>1. CASE pc \in {"done", "panic"}
    <3>1. UNCHANGED vars
      BY <2>1, FinalStep
    <3>2. UNCHANGED <<pc, pos, size, steps>>
      BY <3>1 DEF vars, pvars
    <3>3. QED
      BY <1>1, <1>2, <2>1, <3>2 DEF Mp4Inv, Mp4Path, Mp4EndsChain
  <2>2. CASE Ask \/ (ReadStep /\ UNCHANGED pvars) \/ UNCHANGED vars
    <3>1. (UNCHANGED <<pc, pos>> /\ pc \notin {"done", "panic"}) \/ UNCHANGED vars
      BY <2>2, FinalStep DEF Ask, pvars, vars
    <3>2. CASE UNCHANGED <<pc, pos>> /\ pc # "done"
      BY <1>1, <1>2, <3>2 DEF Mp4Inv, Mp4Path, Mp4EndsChain
    <3>3. QED
      BY <2>1, <2>2, <3>1, <3>2 DEF vars, pvars
  <2>3. CASE ChainEnds
    <3>1. steps' = steps /\ pc' = "done"
      BY <2>3, EndStep
    <3>2. QED
      BY <1>1, <1>2, <1>4, <2>3, <3>1, ChainEndKeeps DEF Mp4Inv, Mp4Path, Mp4EndsChain
  <2>4. CASE BoxHeader \/ LargeBox
    BY <1>1, <1>2, <1>4, <2>4, BoxKeeps DEF Mp4Inv, Mp4Path, Mp4EndsChain
  <2>5. ~ HeaderSize /\ ~ Fails /\ ~ GifField
    BY <1>4 DEF HeaderSize, HeaderParsers, Fails, GifField
  <2>6. QED
    BY <2>1, <2>2, <2>3, <2>4, <2>5 DEF Next
<1>5. QED
  BY <1>3, <1>4

(* parse_mp4, for every source: unless a size in it wraps an address       *)
(* around, the file is cut between two boxes of the chain or at the cap,   *)
(* and at the end of the chain unless a read failed or it has more than    *)
(* MaxBoxes boxes.                                                         *)
THEOREM Mp4SizeEndsTheChain == Spec => []Mp4EndsChain
<1>1. Init => Mp4Inv
  <2> SUFFICES ASSUME Init PROVE Mp4Inv
    OBVIOUS
  <2>1. TypeOK /\ start \in Nat /\ pos = start
    BY InitPInv, Numbers DEF PInv, Init
  <2>2. start \in Chain[start]
    BY <2>1, ChainIs
  <2>3. pc # "done"
    BY DEF Init
  <2>4. QED
    BY <2>1, <2>2, <2>3 DEF Mp4Inv, Mp4Path, Mp4EndsChain
<1>2. Mp4Inv => Mp4EndsChain
  BY DEF Mp4Inv
<1>3. QED
  BY <1>1, <1>2, StepMp4Inv, SpecPInv, PTL DEF Spec
=============================================================================
