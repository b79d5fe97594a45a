--------------------------- MODULE PipelineProofs ---------------------------
(***************************************************************************)
(* The whole recovery is right for every source, signature database and    *)
(* set of arguments that meet the assumptions of Pipeline, and for every   *)
(* pattern of read and write failures.                                     *)
(*                                                                         *)
(* Each component keeps the inductive invariant proved of it alone, once   *)
(* its assumptions are shown to follow from those of Pipeline.  Inv joins  *)
(* the three and adds what is handed over: a component that waits is in an *)
(* initial state, the planner's hits are those the scan recorded           *)
(* (HitsHanded), and the carve loop's list has the plans that were kept    *)
(* and no others (PlansHanded).  The two hand-overs, PlanHits and          *)
(* CarvePlans, are the steps at which one component's result must be a     *)
(* legal initial state of the next.                                        *)
(*                                                                         *)
(* The last sections follow a file from end to end: patterns in the image, *)
(* hits, the plan of an intact file, the chunks copied and what they add   *)
(* up to.                                                                  *)
(***************************************************************************)
EXTENDS Pipeline, FiniteSetTheorems, SequenceTheorems, WellFoundedInduction, TLAPS

(* The lists of plans the carve loop may be given.                         *)
PlanList == {ps \in Seq([type : ValidTypeNames, size : Nat \ {0}, offset : Nat,
                         bytes : Nat \ {0}]) : Len(ps) <= MaxKept}

(* The components, with what is proved about each.                         *)
SP == INSTANCE ScannerProofs WITH
          Active <- ActiveSignatures, ChunkArg <- ChunkArgument,
          pc <- scan_pc, off <- scan_off, errors <- skipped

PP == INSTANCE CarvePlannerProofs WITH
          DiskSize <- TotalSize, Wanted <- TypeArg, CommentLens <- {}, MaxHits <- 0

RP == INSTANCE RecoveryProofs WITH
          Run <- {1}, Types <- ValidTypeNames, MaxPlans <- MaxKept,
          PlanLists <- PlanList, Earlier <- {}

-----------------------------------------------------------------------------
(* The constants meet what each component assumes of them.                 *)

(* The scan is asked for chunks of some size.                              *)
LEMMA ChunkIsNumber == ChunkArgument \in Nat
<1>1. BlockArg \in Nat \ {0} /\ DefaultChunk \in Nat
  BY BlockAssumption, NumbersAssumption
<1> DEFINE larger == IF BlockArg > DefaultChunk THEN BlockArg ELSE DefaultChunk
<1>2. larger \in Nat
  BY <1>1
<1> HIDE DEF larger
<1>3. larger \div BlockArg \in Nat
  BY <1>1, <1>2
<1>4. \A x, y \in Nat : x * y \in Nat
  OBVIOUS
<1> QED
  BY <1>1, <1>3, <1>4 DEF ChunkArgument, larger

(* Of finitely many lengths one is largest.                                *)
LEMMA LargestExists ==
    ASSUME NEW S, S # {}, NEW len \in [S -> Nat], NEW bound \in Nat,
           \A x \in S : len[x] <= bound
    PROVE  \E x \in S : \A y \in S : len[y] <= len[x]
<1> DEFINE Short == {bound - len[x] : x \in S}
<1>1. Short \subseteq Nat /\ Short # {}
  OBVIOUS
<1>2. PICK k \in Short : \A g \in Short : ~ (<<g, k>> \in OpToRel(<, Nat))
  BY <1>1, WFMin, NatLessThanWellFounded
<1>3. \A g \in Short : <<g, k>> \in OpToRel(<, Nat) <=> g < k
  BY <1>1, <1>2 DEF OpToRel
<1>4. \A g \in Short : ~ (g < k)
  BY <1>2, <1>3, Zenon
<1>5. PICK x \in S : k = bound - len[x]
  OBVIOUS
<1>6. ASSUME NEW y \in S PROVE len[y] <= len[x]
  <2>1. ~ (bound - len[y] < bound - len[x])
    BY <1>4, <1>5
  <2>2. len[y] \in Nat /\ len[x] \in Nat
    OBVIOUS
  <2> QED
    BY <2>1, <2>2
<1> QED
  BY <1>6

(* An entry of the scan's table is the header or the footer of an active   *)
(* signature.                                                              *)
LEMMA PatternShape ==
    \A p \in SP!Patterns :
        /\ p.sig \in ActiveSignatures /\ p.sig \in Sigs
        /\ p.bytes = IF p.is_footer THEN Footer[p.sig] ELSE Header[p.sig]
        /\ p.is_footer \in BOOLEAN
        /\ Len(p.bytes) \in Nat /\ Len(p.bytes) <= MinBlock + 1
<1>1. ActiveSignatures \subseteq Sigs
  BY DEF ActiveSignatures
<1>2. \A s \in Sigs : /\ Len(Header[s]) \in Nat /\ Len(Header[s]) <= MinBlock + 1
                      /\ Len(Footer[s]) \in Nat /\ Len(Footer[s]) <= MinBlock + 1
  BY FormatsAssumption
<1>3. ASSUME NEW p \in SP!Patterns
      PROVE  \E s \in ActiveSignatures :
                \/ p = [bytes |-> Header[s], sig |-> s, is_footer |-> FALSE]
                \/ p = [bytes |-> Footer[s], sig |-> s, is_footer |-> TRUE]
  BY <1>3 DEF SP!Patterns
<1>4. ASSUME NEW p \in SP!Patterns
      PROVE  /\ p.sig \in ActiveSignatures /\ p.sig \in Sigs
             /\ p.bytes = IF p.is_footer THEN Footer[p.sig] ELSE Header[p.sig]
             /\ p.is_footer \in BOOLEAN
             /\ Len(p.bytes) \in Nat /\ Len(p.bytes) <= MinBlock + 1
  <2>1. PICK s \in ActiveSignatures :
                \/ p = [bytes |-> Header[s], sig |-> s, is_footer |-> FALSE]
                \/ p = [bytes |-> Footer[s], sig |-> s, is_footer |-> TRUE]
    BY <1>3
  <2>2. CASE p = [bytes |-> Header[s], sig |-> s, is_footer |-> FALSE]
    BY <1>1, <1>2, <2>2
  <2>3. CASE p = [bytes |-> Footer[s], sig |-> s, is_footer |-> TRUE]
    BY <1>1, <1>2, <2>3
  <2> QED
    BY <2>1, <2>2, <2>3
<1> QED
  BY <1>4

(* A type filter leaves a signature active.                                *)
LEMMA SomeActive == ActiveSignatures # {}
BY FilterAssumption DEF ActiveSignatures, ValidTypeNames

(* What Scanner assumes: the patterns are non-empty, one of them is        *)
(* longest, and it fits into a retry block.                                *)
LEMMA ScannerAssumptions ==
    SP!BytesAssumption /\ SP!SizeAssumption /\ SP!TableAssumption /\ SP!ScanAssumption
<1>1. SP!BytesAssumption /\ SP!SizeAssumption
  BY NumbersAssumption DEF SP!BytesAssumption, SP!SizeAssumption
<1>2. \E p \in SP!Patterns : \A q \in SP!Patterns : Len(q.bytes) <= Len(p.bytes)
  <2> DEFINE len == [p \in SP!Patterns |-> Len(p.bytes)]
  <2>1. len \in [SP!Patterns -> Nat] /\ \A p \in SP!Patterns : len[p] <= MinBlock + 1
    BY PatternShape
  <2>2. SP!Patterns # {}
    BY SomeActive DEF SP!Patterns
  <2>3. MinBlock + 1 \in Nat
    BY NumbersAssumption
  <2>4. \E p \in SP!Patterns : \A q \in SP!Patterns : len[q] <= len[p]
    <3> HIDE DEF len
    <3> QED
      BY <2>1, <2>2, <2>3, LargestExists
  <2> QED
    BY <2>4
<1>3. \A s \in ActiveSignatures : Header[s] \in Seq(Byte) \ {<< >>} /\ Footer[s] \in Seq(Byte)
  BY FormatsAssumption DEF ActiveSignatures
<1>4. SP!TableAssumption
  BY <1>2, <1>3, SomeActive DEF SP!TableAssumption
<1>5. SP!Overlap <= MinBlock
  <2>1. PICK p \in SP!Patterns : SP!MaxPatLen = Len(p.bytes)
    BY <1>2 DEF SP!MaxPatLen
  <2> QED
    BY <2>1, PatternShape, NumbersAssumption DEF SP!Overlap
<1>6. SP!ScanAssumption
  BY <1>5, NumbersAssumption, BlockAssumption, ChunkIsNumber DEF SP!ScanAssumption
<1> QED
  BY <1>1, <1>4, <1>6

(* What CarvePlanner assumes of signatures and arguments.                  *)
LEMMA PlannerAssumptions == PP!DatabaseAssumption /\ PP!ArgumentAssumption
<1>1. PP!Sigs = Sigs /\ PP!Types = ValidTypeNames
  BY DEF PP!Sigs, Sigs, PP!Types, ValidTypeNames
<1>2. PP!DatabaseAssumption
  BY <1>1, FormatsAssumption DEF PP!DatabaseAssumption
<1> QED
  BY <1>2, NumbersAssumption DEF PP!ArgumentAssumption

(* Finiteness and size mean the same inside the instance.                  *)
LEMMA SameFinite ==
    /\ \A S : RP!IsFiniteSet(S) <=> IsFiniteSet(S)
    /\ \A S : RP!Cardinality(S) = Cardinality(S)
BY DEF RP!IsFiniteSet, IsFiniteSet, RP!Cardinality, Cardinality

(* There is a bound on the plans kept.                                     *)
LEMMA MaxKeptIsNumber == MaxKept \in Nat
<1>1. Cardinality(ValidTypeNames) \in Nat
  BY FormatsAssumption, FS_CardinalityType
<1> QED
  BY <1>1, NumbersAssumption DEF MaxKept

(* What Recovery assumes: its lists of plans are lists of plans, and no    *)
(* longer than the bound.                                                  *)
LEMMA SaveAssumption == RP!RecoveryAssumption
<1>1. RP!IsFiniteSet({1}) /\ RP!IsFiniteSet({})
  BY SameFinite, FS_Singleton, FS_EmptySet
<1>2. ASSUME NEW ps \in PlanList PROVE RP!IsPlanList(ps)
  <2> DEFINE P == [type : ValidTypeNames, size : Nat \ {0}, offset : Nat, bytes : Nat \ {0}]
  <2>1. \A p \in P : p.type \in ValidTypeNames /\ p.size \in Nat \ {0}
    OBVIOUS
  <2>2. ps \in Seq(P) /\ Len(ps) <= MaxKept
    BY DEF PlanList
  <2> HIDE DEF P
  <2>3. Len(ps) \in 0 .. MaxKept /\ \A k \in 1 .. Len(ps) : ps[k] \in P
    BY <2>2, MaxKeptIsNumber
  <2> QED
    BY <2>1, <2>3 DEF RP!IsPlanList
<1> QED
  BY <1>1, <1>2, MaxKeptIsNumber, NumbersAssumption DEF RP!RecoveryAssumption

-----------------------------------------------------------------------------
(* The components of Pipeline are those the proofs are about.              *)

(* The scan starts as the one of ScannerProofs,                            *)
LEMMA ScanInit == Scan!Init => SP!Init
BY DEF Scan!Addr, SP!Addr, Scan!NoFooter, SP!NoFooter, Scan!Patterns,
   SP!Patterns, Scan!MaxPatLen, SP!MaxPatLen, Scan!Larger, SP!Larger,
   Scan!Smaller, SP!Smaller, Scan!BlockSize, SP!BlockSize,
   Scan!ChunkSize, SP!ChunkSize, Scan!Overlap, SP!Overlap, Scan!Buffer,
   SP!Buffer, Scan!NoneFound, SP!NoneFound, Scan!Init, SP!Init,
   Scan!Cardinality, SP!Cardinality, Scan!IsFiniteSet, SP!IsFiniteSet

(* it takes the same steps,                                                *)
LEMMA ScanNext == Scan!Next => SP!Next
BY DEF Scan!Addr, SP!Addr, Scan!NoFooter, SP!NoFooter, Scan!Patterns,
   SP!Patterns, Scan!MaxPatLen, SP!MaxPatLen, Scan!Larger, SP!Larger,
   Scan!Smaller, SP!Smaller, Scan!BlockSize, SP!BlockSize,
   Scan!ChunkSize, SP!ChunkSize, Scan!Overlap, SP!Overlap, Scan!Buffer,
   SP!Buffer, Scan!Want, SP!Want, Scan!BlockLen, SP!BlockLen, Scan!Span,
   SP!Span, Scan!MayFail, SP!MayFail, Scan!Filled, SP!Filled, Scan!Wiped,
   SP!Wiped, Scan!SkipReport, SP!SkipReport, Scan!ReadChunk,
   SP!ReadChunk, Scan!SkipChunk, SP!SkipChunk, Scan!StartRetry,
   SP!StartRetry, Scan!AdvanceBlock, SP!AdvanceBlock, Scan!RetryBlock,
   SP!RetryBlock, Scan!SkipBlock, SP!SkipBlock, Scan!WindowLen,
   SP!WindowLen, Scan!MatchesAt, SP!MatchesAt, Scan!IsFresh, SP!IsFresh,
   Scan!NewMatches, SP!NewMatches, Scan!KeptTail, SP!KeptTail,
   Scan!ScannedInWindow, SP!ScannedInWindow, Scan!MatchWindow,
   SP!MatchWindow, Scan!Return, SP!Return, Scan!Next, SP!Next

(* it is typed alike,                                                      *)
LEMMA ScanTypes == SP!TypeOK => Scan!TypeOK
BY DEF Scan!Addr, SP!Addr, Scan!NoFooter, SP!NoFooter, Scan!Patterns,
   SP!Patterns, Scan!MaxPatLen, SP!MaxPatLen, Scan!Larger, SP!Larger,
   Scan!Smaller, SP!Smaller, Scan!BlockSize, SP!BlockSize,
   Scan!ChunkSize, SP!ChunkSize, Scan!Overlap, SP!Overlap, Scan!Buffer,
   SP!Buffer, Scan!Reports, SP!Reports, Scan!TypeOK, SP!TypeOK

(* and its addresses are the same.                                         *)
LEMMA ScanNames ==
    /\ Scan!Addr = SP!Addr /\ Scan!Skipped = SP!Skipped
    /\ \A a, n : Scan!Span(a, n) = SP!Span(a, n)
BY DEF Scan!Addr, SP!Addr, Scan!Skipped, SP!Skipped, Scan!Span, SP!Span

(* The planner takes the steps of CarvePlannerProofs,                      *)
LEMMA PlannerNext == Planner!Next => PP!Next
BY DEF Planner!Next, PP!Next, Planner!PlanOne, PP!PlanOne, Planner!Retain,
   PP!Retain, Planner!Resolved, PP!Resolved, Planner!ParseResults,
   PP!ParseResults, Planner!Verdicts, PP!Verdicts, Planner!Plannable,
   PP!Plannable, Planner!PlanFor, PP!PlanFor, Planner!Start, PP!Start,
   Planner!Cap, PP!Cap, Planner!NoParse, PP!NoParse, Planner!FooterSize,
   PP!FooterSize, Planner!NoFooter, PP!NoFooter, Planner!Stops, PP!Stops,
   Planner!SizeTo, PP!SizeTo, Planner!First, PP!First, Planner!Smaller,
   PP!Smaller, Planner!NextInOrder, PP!NextInOrder, Planner!Covered,
   PP!Covered

(* it is typed alike,                                                      *)
LEMMA PlannerTypes == PP!TypeOK => Planner!TypeOK
BY DEF Planner!TypeOK, PP!TypeOK, Planner!Hits, PP!Hits, Planner!Addr,
   PP!Addr, Planner!Sigs, PP!Sigs, Planner!Plans, PP!Plans,
   Planner!Types, PP!Types, Planner!NoParse, PP!NoParse

(* and it is done when that one is.                                        *)
LEMMA PlannerDone == Planner!Done <=> PP!Done
BY DEF Planner!Done, PP!Done

(* The carve loop starts with a list of plans, the empty one,              *)
LEMMA SaveInit == Save!Init => RP!Init
<1>1. << >> \in PlanList
  BY MaxKeptIsNumber DEF PlanList
<1> QED
  BY <1>1
  DEF Save!Init, RP!Init, Save!Path, RP!Path, Save!MaxCounter,
   RP!MaxCounter, Save!NoFile, RP!NoFile, Save!Foreign, RP!Foreign,
   Save!Inode, RP!Inode, Save!Index, RP!Index, Save!LogFile, RP!LogFile,
   Save!NoLog, RP!NoLog, Save!Cardinality, RP!Cardinality,
   Save!IsFiniteSet, RP!IsFiniteSet

(* it takes the steps of RecoveryProofs,                                   *)
LEMMA SaveNext == Save!Next => RP!Next
BY DEF Save!Next, RP!Next, Save!Start, RP!Start, Save!Step, RP!Step,
   Save!Kill, RP!Kill, Save!EnterDir, RP!EnterDir, Save!EnterDirFails,
   RP!EnterDirFails, Save!Probe, RP!Probe, Save!ProbeFails,
   RP!ProbeFails, Save!Create, RP!Create,
   Save!CreateFails, RP!CreateFails, Save!CopyChunk, RP!CopyChunk,
   Save!ReadFails, RP!ReadFails, Save!WriteFails, RP!WriteFails,
   Save!GiveUp, RP!GiveUp, Save!Enter, RP!Enter, Save!Discard,
   RP!Discard, Save!EndLoop, RP!EndLoop, Save!OpenLog, RP!OpenLog,
   Save!FillLog, RP!FillLog, Save!LogFails, RP!LogFails, Save!fs, RP!fs,
   Save!book, RP!book, Save!Plan, RP!Plan, Save!Fault, RP!Fault,
   Save!FailedPlan, RP!FailedPlan, Save!Fail, RP!Fail, Save!StopFull,
   RP!StopFull, Save!Remove, RP!Remove, Save!Exists, RP!Exists,
   Save!NextNumber, RP!NextNumber, Save!Put, RP!Put, Save!SourceChunk,
   RP!SourceChunk, Save!Length, RP!Length, Save!LogFile, RP!LogFile,
   Save!TornLog, RP!TornLog, Save!Over, RP!Over, Save!NoFile, RP!NoFile,
   Save!Foreign, RP!Foreign, Save!Torn, RP!Torn, Save!Hole, RP!Hole

(* it is typed alike,                                                      *)
LEMMA SaveTypes == RP!TypeOK => Save!TypeOK
BY DEF Save!TypeOK, RP!TypeOK, Save!IsPlanList, RP!IsPlanList, Save!Path,
   RP!Path, Save!Inode, RP!Inode, Save!NoFile, RP!NoFile, Save!Foreign,
   RP!Foreign, Save!Bytes, RP!Bytes, Save!Torn, RP!Torn, Save!Hole,
   RP!Hole, Save!Index, RP!Index, Save!MaxCounter, RP!MaxCounter,
   Save!Wrapup, RP!Wrapup, Save!Over, RP!Over, Save!Cardinality,
   RP!Cardinality, Save!IsFiniteSet, RP!IsFiniteSet

(* and its log entries are the same.                                       *)
LEMMA SaveEntries == Save!Entries(1) = RP!Entries(1)
BY DEF Save!Entries, RP!Entries

-----------------------------------------------------------------------------
(* The invariant.                                                          *)

(* The planner has not looked at a hit.                                    *)
Unbegun ==
    /\ headers \subseteq PP!Hits
    /\ footers \in [Sigs -> SUBSET Scan!Addr]
    /\ comment \in [Scan!Addr -> Nat]
    /\ pending = headers
    /\ candidates = {} /\ rest = {} /\ kept = {}
    /\ last_end = [t \in ValidTypeNames |-> 0]

(* The planner's hits are those the scan recorded, and the comment lengths *)
(* those on the source, as far as it can be read.                          *)
HitsHanded ==
    /\ headers = Recorded(FALSE)
    /\ \A s \in Sigs : footers[s] = {h.addr : h \in {g \in Recorded(TRUE) : g.sig = s}}
    /\ \A s \in Sigs : \A f \in footers[s] :
          DB[s].has_comment /\ f + DB[s].footer - 1 \in Scan!Addr \ flaky =>
              comment[f] = disk[f + DB[s].footer - 1]

(* A plan as the carve loop is given it.                                   *)
Handed(p) == [type |-> p.type_name, size |-> Chunks(p.size),
              offset |-> p.offset, bytes |-> p.size]

(* The carve loop's plans are those the planner kept.                      *)
PlansHanded ==
    /\ plans \in PlanList
    /\ \A k \in DOMAIN plans : \E p \in kept : plans[k] = Handed(p)
    /\ \A p \in kept : \E k \in DOMAIN plans : plans[k] = Handed(p)

(* The components' invariants, and what was handed over.                   *)
Inv ==
    /\ phase \in {"scan", "plan", "save"}
    /\ SP!IInv
    /\ PP!PlanInv
    /\ RP!IInv
    /\ phase = "scan" => Unbegun
    /\ phase # "scan" => scan_pc = "done" /\ HitsHanded
    /\ phase # "save" => RP!Init
    /\ phase = "save" => PP!Done /\ PlansHanded

-----------------------------------------------------------------------------
(* Components that wait.                                                   *)

(* The scan's invariant survives the steps of the others,                  *)
LEMMA ScanStays == SP!IInv /\ UNCHANGED scanning => SP!IInv'
<1>1. UNCHANGED scanning => UNCHANGED SP!vars
  BY DEF scanning, SP!vars
<1> QED
  BY <1>1, SP!StepHolds, ScannerAssumptions

(* so does the planner's,                                                  *)
LEMMA PlannerStays == PP!PlanInv /\ UNCHANGED planning => PP!PlanInv'
<1>1. UNCHANGED planning => UNCHANGED PP!vars
  BY DEF planning, PP!vars
<1> QED
  BY <1>1, PP!PlanInvStep, PlannerAssumptions

(* and so does the carve loop's.                                           *)
LEMMA SaveStays == RP!IInv /\ UNCHANGED saving => RP!IInv'
<1>1. UNCHANGED saving => UNCHANGED RP!vars
  BY DEF saving, RP!vars
<1> QED
  BY <1>1, RP!StepIInv, SaveAssumption

(* A planner that has planned nothing is in a legal state, whatever hits   *)
(* it was given.                                                           *)
LEMMA UnbegunPlans == Unbegun => PP!PlanInv
<1> SUFFICES ASSUME Unbegun PROVE PP!PlanInv
  OBVIOUS
<1>1. PP!Sigs = Sigs /\ PP!Types = ValidTypeNames /\ PP!Addr = Scan!Addr
  BY DEF PP!Sigs, Sigs, PP!Types, ValidTypeNames, PP!Addr, Scan!Addr
<1>2. PP!TypeOK
  BY <1>1 DEF Unbegun, PP!TypeOK
<1>3. PP!InBounds /\ PP!Sorted /\ PP!EndsRecorded /\ PP!NoSameTypeOverlap /\ PP!DropsJustified
  BY <1>1 DEF Unbegun, PP!InBounds, PP!Sorted, PP!EndsRecorded, PP!NoSameTypeOverlap,
     PP!DropsJustified
<1>4. PP!Made /\ PP!NoHitLost
  BY DEF Unbegun, PP!Made, PP!NoHitLost
<1> QED
  BY <1>2, <1>3, <1>4 DEF PP!PlanInv, PP!IInv

(* So it is in the next state.                                             *)
LEMMA UnbegunPlansNext == (Unbegun => PP!PlanInv)'
BY UnbegunPlans, PTL

(* Likewise a carve loop that has its plans and has carved nothing.        *)
LEMMA SaveInitNext == (RP!Init => RP!IInv)'
<1>1. RP!Init => RP!IInv
  BY RP!InitIInv, SaveAssumption
<1> QED
  BY <1>1, PTL

-----------------------------------------------------------------------------
(* What is handed over.                                                    *)

(* What was recorded is a pattern of an active signature, where it was     *)
(* found.                                                                  *)
LEMMA RecordedFacts ==
    ASSUME SP!TypeOK, NEW b \in BOOLEAN
    PROVE  /\ \A g \in Recorded(b) :
                 /\ g = [addr |-> g.addr, sig |-> g.sig]
                 /\ g.addr \in Scan!Addr /\ g.sig \in Sigs
                 /\ \E p \in SP!Patterns :
                       /\ p.is_footer = b /\ p.sig = g.sig /\ found[<<p, g.addr>>] > 0
           /\ \A p \in SP!Patterns, a \in Scan!Addr :
                 p.is_footer = b /\ found[<<p, a>>] > 0 =>
                    [addr |-> a, sig |-> p.sig] \in Recorded(b)
<1>1. DOMAIN found = SP!Patterns \X Scan!Addr
  BY ScanNames DEF SP!TypeOK
<1>2. ASSUME NEW g \in Recorded(b)
      PROVE  \E p \in SP!Patterns, a \in Scan!Addr :
                /\ p.is_footer = b /\ found[<<p, a>>] > 0
                /\ g = [addr |-> a, sig |-> p.sig]
  <2>1. PICK x \in DOMAIN found : /\ found[x] > 0 /\ x[1].is_footer = b
                                  /\ g = [addr |-> x[2], sig |-> x[1].sig]
    BY DEF Recorded
  <2> QED
    BY <1>1, <2>1
<1>3. ASSUME NEW g \in Recorded(b)
      PROVE  /\ g = [addr |-> g.addr, sig |-> g.sig]
             /\ g.addr \in Scan!Addr /\ g.sig \in Sigs
             /\ \E p \in SP!Patterns :
                   /\ p.is_footer = b /\ p.sig = g.sig /\ found[<<p, g.addr>>] > 0
  <2>1. PICK p \in SP!Patterns, a \in Scan!Addr :
                /\ p.is_footer = b /\ found[<<p, a>>] > 0
                /\ g = [addr |-> a, sig |-> p.sig]
    BY <1>2
  <2>2. g.addr = a /\ g.sig = p.sig
    BY <2>1
  <2>3. p.sig \in Sigs
    BY PatternShape
  <2> QED
    BY <2>1, <2>2, <2>3
<1>4. ASSUME NEW p \in SP!Patterns, NEW a \in Scan!Addr,
             p.is_footer = b, found[<<p, a>>] > 0
      PROVE  [addr |-> a, sig |-> p.sig] \in Recorded(b)
  <2>1. <<p, a>> \in DOMAIN found
    BY <1>1
  <2> QED
    BY <1>4, <2>1 DEF Recorded
<1> QED
  BY <1>3, <1>4

(* What the scan has recorded has the form of a hit.                       *)
LEMMA RecordedHits ==
    ASSUME SP!TypeOK
    PROVE  /\ \A g \in Recorded(FALSE) : g \in [addr : Scan!Addr, sig : Sigs]
           /\ \A g \in Recorded(TRUE) : g.addr \in Scan!Addr /\ g.sig \in Sigs
<1>1. ASSUME NEW b \in BOOLEAN, NEW g \in Recorded(b)
      PROVE  /\ g = [addr |-> g.addr, sig |-> g.sig]
             /\ g.addr \in Scan!Addr /\ g.sig \in Sigs
  BY RecordedFacts
<1>2. ASSUME NEW b \in BOOLEAN, NEW g \in Recorded(b)
      PROVE  g \in [addr : Scan!Addr, sig : Sigs]
  BY <1>1
<1>3. TRUE \in BOOLEAN /\ FALSE \in BOOLEAN
  OBVIOUS
<1> QED
  BY <1>1, <1>2, <1>3, Zenon

(* Only one end record can begin at an address and have a comment.         *)
LEMMA CommentAddrFacts ==
    ASSUME SP!TypeOK, NEW f
    PROVE  /\ \A a, b \in CommentAddr(f) : a = b
           /\ \A g \in Recorded(TRUE) : g.addr = f /\ DB[g.sig].has_comment =>
                 f + DB[g.sig].footer - 1 \in CommentAddr(f)
<1>1. ASSUME NEW a \in CommentAddr(f)
      PROVE  \E s \in Sigs : DB[s].has_comment /\ a = f + DB[s].footer - 1
  <2>1. PICK g \in Recorded(TRUE) : /\ g.addr = f /\ DB[g.sig].has_comment
                                    /\ a = f + DB[g.sig].footer - 1
    BY DEF CommentAddr
  <2> QED
    BY <2>1, RecordedHits
<1>2. \A a, b \in CommentAddr(f) : a = b
  BY <1>1, TableAssumption
<1>3. \A g \in Recorded(TRUE) : g.addr = f /\ DB[g.sig].has_comment =>
         f + DB[g.sig].footer - 1 \in CommentAddr(f)
  BY DEF CommentAddr
<1> QED
  BY <1>2, <1>3

(* The planner may be given what the scan has recorded.                    *)
LEMMA PlanHitsStep ==
    ASSUME Inv, PlanHits
    PROVE  Inv'
<1>1. /\ SP!TypeOK /\ disk \in [Scan!Addr -> Byte]
      /\ UNCHANGED <<scanning, saving>> /\ phase = "scan" /\ phase' = "plan"
      /\ scan_pc = "done"
  BY ScanNames DEF Inv, SP!IInv, SP!TypeOK, PlanHits
<1>2. /\ headers' = Recorded(FALSE) /\ pending' = headers'
      /\ footers' = [s \in Sigs |-> {h.addr : h \in {g \in Recorded(TRUE) : g.sig = s}}]
      /\ UNCHANGED <<candidates, rest, kept, last_end>>
  BY DEF PlanHits
<1>3. PICK lost \in SUBSET flaky :
         comment' = [f \in Scan!Addr |->
                         IF CommentAddr(f) \cap (Scan!Addr \ lost) = {} THEN 0
                         ELSE disk[CHOOSE a \in CommentAddr(f) : TRUE]]
  BY DEF PlanHits
<1>4. comment' \in [Scan!Addr -> Nat]
  <2>1. ASSUME NEW f \in Scan!Addr, CommentAddr(f) \cap (Scan!Addr \ lost) # {}
        PROVE  (CHOOSE a \in CommentAddr(f) : TRUE) \in Scan!Addr
    <3>1. PICK x \in Scan!Addr : x \in CommentAddr(f)
      BY <2>1
    <3>2. \A a, b \in CommentAddr(f) : a = b
      BY <1>1, CommentAddrFacts
    <3>3. (CHOOSE a \in CommentAddr(f) : TRUE) \in CommentAddr(f)
      BY <3>1, Zenon
    <3> QED
      BY <3>1, <3>2, <3>3, Zenon
  <2>2. \A a \in Scan!Addr : disk[a] \in Nat
    BY <1>1, NumbersAssumption
  <2>3. \A f \in Scan!Addr : comment'[f] \in Nat
    BY <1>3, <2>1, <2>2
  <2> QED
    BY <1>3, <2>3
<1>5. \A s \in Sigs : \A f \in footers'[s] :
         /\ f \in Scan!Addr
         /\ \E g \in Recorded(TRUE) : g.sig = s /\ g.addr = f
  BY <1>1, <1>2, RecordedHits
<1>6. Unbegun'
  <2>1. headers' \subseteq PP!Hits
    <3>1. PP!Hits = [addr : Scan!Addr, sig : Sigs]
      BY DEF PP!Hits, PP!Addr, Scan!Addr, PP!Sigs, Sigs
    <3> QED
      BY <1>1, <1>2, <3>1, RecordedHits
  <2>2. footers' \in [Sigs -> SUBSET Scan!Addr]
    BY <1>2, <1>5
  <2> QED
    BY <1>1, <1>2, <1>4, <2>1, <2>2 DEF Inv, Unbegun, Scan!Addr
<1>7. HitsHanded'
  <2>1. Recorded(TRUE)' = Recorded(TRUE) /\ Recorded(FALSE)' = Recorded(FALSE)
    BY <1>1 DEF Recorded, scanning
  <2>2. ASSUME NEW s \in Sigs, NEW f \in footers'[s], DB[s].has_comment,
               f + DB[s].footer - 1 \in Scan!Addr \ flaky
        PROVE  comment'[f] = disk[f + DB[s].footer - 1]
    <3>1. f + DB[s].footer - 1 \in CommentAddr(f) /\ f \in Scan!Addr
      <4>1. PICK g \in Recorded(TRUE) : g.sig = s /\ g.addr = f
        BY <1>5
      <4>2. f + DB[g.sig].footer - 1 \in CommentAddr(f)
        BY <1>1, <2>2, <4>1, CommentAddrFacts
      <4> QED
        BY <1>5, <4>1, <4>2
    <3>2. CommentAddr(f) \cap (Scan!Addr \ lost) # {}
      BY <2>2, <3>1
    <3>3. (CHOOSE a \in CommentAddr(f) : TRUE) = f + DB[s].footer - 1
      BY <1>1, <3>1, CommentAddrFacts
    <3> QED
      BY <1>3, <3>1, <3>2, <3>3
  <2>3. disk' = disk /\ flaky' = flaky /\ Scan!Addr' = Scan!Addr
    BY <1>1 DEF scanning, Scan!Addr
  <2> QED
    BY <1>2, <2>1, <2>2, <2>3 DEF HitsHanded
<1>8. SP!IInv' /\ scan_pc' = "done"
  BY <1>1, ScanStays DEF Inv, scanning
<1>9. RP!IInv'
  BY <1>1, SaveStays DEF Inv
<1>10. RP!Init'
  BY <1>1 DEF Inv, RP!Init, saving
<1> QED
  BY <1>1, <1>6, <1>7, <1>8, <1>9, <1>10, UnbegunPlansNext DEF Inv

-----------------------------------------------------------------------------
(* The list of plans.                                                      *)

(* Plans kept are finitely many: of one type, no two begin at one address. *)
LEMMA KeptIsFew ==
    ASSUME PP!IInv
    PROVE  IsFiniteSet(kept) /\ Cardinality(kept) <= MaxKept /\ Cardinality(kept) \in Nat
<1> DEFINE Places == ValidTypeNames \X Scan!Addr
           place == [p \in kept |-> <<p.type_name, p.offset>>]
<1>1. \A p \in kept : /\ p.type_name \in ValidTypeNames /\ p.offset \in Nat
                      /\ p.size \in Nat \ {0} /\ p.offset + p.size <= TotalSize
  <2>1. PP!Types = ValidTypeNames
    BY DEF PP!Types, ValidTypeNames, PP!Sigs, Sigs
  <2>2. kept \subseteq candidates /\ candidates \subseteq PP!Plans
    BY DEF PP!IInv, PP!TypeOK
  <2>3. \A p \in candidates : p.offset + p.size <= TotalSize
    BY DEF PP!IInv, PP!InBounds
  <2> QED
    BY <2>1, <2>2, <2>3 DEF PP!Plans
<1>2. place \in Injection(kept, Places)
  <2>1. \A p \in kept : p.offset \in Scan!Addr
    BY <1>1, NumbersAssumption DEF Scan!Addr
  <2>2. place \in [kept -> Places]
    BY <1>1, <2>1
  <2>3. ASSUME NEW p \in kept, NEW q \in kept, place[p] = place[q] PROVE p = q
    <3>1. p.type_name = q.type_name /\ p.offset = q.offset
      BY <2>3
    <3>2. p # q => p.offset + p.size <= q.offset \/ q.offset + q.size <= p.offset
      BY <3>1 DEF PP!IInv, PP!NoSameTypeOverlap
    <3> QED
      BY <1>1, <3>1, <3>2
  <2> QED
    BY <2>2, <2>3 DEF Injection, IsInjective
<1>3. /\ IsFiniteSet(Scan!Addr) /\ Cardinality(Scan!Addr) = TotalSize
  <2>1. 0 \in Int /\ TotalSize - 1 \in Int /\ TotalSize \in Nat
    BY NumbersAssumption
  <2>2. /\ IsFiniteSet(0 .. (TotalSize - 1))
        /\ Cardinality(0 .. (TotalSize - 1)) =
              IF 0 > TotalSize - 1 THEN 0 ELSE TotalSize - 1 - 0 + 1
    BY <2>1, FS_Interval
  <2> QED
    BY <2>1, <2>2 DEF Scan!Addr
<1>4. /\ IsFiniteSet(Places)
      /\ Cardinality(Places) = Cardinality(ValidTypeNames) * TotalSize
  BY <1>3, FormatsAssumption, FS_Product
<1>5. Cardinality(Places) = MaxKept
  <2>1. Cardinality(ValidTypeNames) \in Nat
    BY FormatsAssumption, FS_CardinalityType
  <2>2. \A x, y \in Nat : x * y = y * x
    OBVIOUS
  <2> QED
    BY <1>4, <2>1, <2>2, NumbersAssumption DEF MaxKept
<1> HIDE DEF Places, place
<1>6. IsFiniteSet(kept) /\ Cardinality(kept) <= Cardinality(Places)
  BY <1>2, <1>4, FS_Injection
<1> QED
  BY <1>5, <1>6, FS_CardinalityType

(* A plan is copied in at least one chunk.                                 *)
LEMMA ChunksPositive ==
    ASSUME NEW n \in Nat \ {0}
    PROVE  Chunks(n) \in Nat \ {0}
<1>1. CopyBuf \in Nat \ {0}
  BY NumbersAssumption
<1> QED
  BY <1>1 DEF Chunks

(* A list of all members of a finite set has no other length than its size *)
(* and leaves none out.                                                    *)
LEMMA ListsAll ==
    ASSUME NEW S, IsFiniteSet(S), NEW ps \in SetToSeqs(S)
    PROVE  /\ ps \in [1 .. Cardinality(S) -> S]
           /\ \A x \in S : \E k \in 1 .. Cardinality(S) : ps[k] = x
<1> DEFINE D == 1 .. Cardinality(S)
           R == {ps[k] : k \in D}
<1>1. ps \in [D -> S] /\ \A i, j \in D : i # j => ps[i] # ps[j]
  BY DEF SetToSeqs
<1>2. Cardinality(S) \in Nat
  BY FS_CardinalityType
<1>3. IsFiniteSet(D) /\ Cardinality(D) = Cardinality(S)
  BY <1>2, FS_Interval
<1>4. R \in SUBSET S /\ IsFiniteSet(R) /\ Cardinality(R) \in Nat
  BY <1>1, FS_Subset, FS_CardinalityType
<1>5. ps \in Injection(D, R)
  BY <1>1 DEF Injection, IsInjective
<1> HIDE DEF D, R
<1>6. Cardinality(D) <= Cardinality(R)
  BY <1>4, <1>5, FS_Injection
<1>7. Cardinality(R) <= Cardinality(S) /\ (Cardinality(R) = Cardinality(S) => R = S)
  BY <1>4, FS_Subset
<1>8. R = S
  BY <1>2, <1>3, <1>4, <1>6, <1>7
<1> QED
  BY <1>1, <1>8 DEF D, R

(* Nothing was found, planned or saved at first.                           *)
LEMMA InitInv == Init => Inv
<1> SUFFICES ASSUME Init PROVE Inv
  OBVIOUS
<1>1. SP!IInv
  BY ScanInit, SP!InitHolds, ScannerAssumptions DEF Init
<1>2. Unbegun
  BY DEF Init, Unbegun
<1>3. RP!Init
  BY SaveInit DEF Init
<1>4. RP!IInv
  BY <1>3, RP!InitIInv, SaveAssumption
<1>5. phase = "scan"
  BY DEF Init
<1> QED
  BY <1>1, <1>2, <1>3, <1>4, <1>5, UnbegunPlans DEF Inv

(* A step of the scan.                                                     *)
LEMMA ScanStep ==
    ASSUME Inv, phase = "scan", Scan!Next, UNCHANGED <<phase, planning, saving>>
    PROVE  Inv'
<1>1. SP!IInv'
  BY ScanNext, SP!StepHolds, ScannerAssumptions DEF Inv
<1>2. PP!PlanInv' /\ RP!IInv'
  BY PlannerStays, SaveStays DEF Inv
<1>3. RP!Init'
  BY DEF Inv, RP!Init, saving
<1>4. Unbegun'
  BY DEF Inv, Unbegun, planning
<1>5. phase' = "scan"
  OBVIOUS
<1> QED
  BY <1>1, <1>2, <1>3, <1>4, <1>5 DEF Inv

(* A step of the planner: hits and comment lengths stay what they were.    *)
LEMMA PlannerStep ==
    ASSUME Inv, phase = "plan", Planner!Next, UNCHANGED <<phase, scanning, saving>>
    PROVE  Inv'
<1>1. SP!IInv' /\ RP!IInv'
  BY ScanStays, SaveStays DEF Inv
<1>2. PP!Next
  BY PlannerNext
<1>3. PP!PlanInv'
  BY <1>2, PP!PlanInvStep, PlannerAssumptions DEF Inv
<1>4. UNCHANGED <<headers, footers, comment>>
  BY <1>2, PP!SourceStays, PlannerAssumptions
<1>5. HitsHanded'
  <2>1. Recorded(TRUE)' = Recorded(TRUE) /\ Recorded(FALSE)' = Recorded(FALSE)
    BY DEF Recorded, scanning
  <2>2. HitsHanded /\ disk' = disk /\ flaky' = flaky /\ Scan!Addr' = Scan!Addr
    BY DEF Inv, scanning, Scan!Addr
  <2> QED
    BY <1>4, <2>1, <2>2 DEF HitsHanded
<1>6. RP!Init'
  BY DEF Inv, RP!Init, saving
<1>7. phase' = "plan" /\ scan_pc' = "done"
  BY DEF Inv, scanning
<1> QED
  BY <1>1, <1>3, <1>5, <1>6, <1>7 DEF Inv

(* The plans that were kept make a list the carve loop may be given.       *)
LEMMA CarvePlansStep ==
    ASSUME Inv, CarvePlans
    PROVE  Inv'
<1>1. /\ PP!IInv /\ PP!Done /\ phase' = "save"
      /\ UNCHANGED <<scanning, planning>>
  BY PlannerDone DEF Inv, PP!PlanInv, CarvePlans
<1>2. PICK ps \in SetToSeqs(kept) :
         plans' = [k \in DOMAIN ps |->
                      [type |-> ps[k].type_name, size |-> Chunks(ps[k].size),
                       offset |-> ps[k].offset, bytes |-> ps[k].size]]
  BY DEF CarvePlans
<1>3. IsFiniteSet(kept) /\ Cardinality(kept) <= MaxKept /\ Cardinality(kept) \in Nat
  BY <1>1, KeptIsFew
<1> DEFINE n == Cardinality(kept)
<1>4. ps \in [1 .. n -> kept] /\ \A x \in kept : \E k \in 1 .. n : ps[k] = x
  BY <1>3, ListsAll
<1>5. plans' = [k \in 1 .. n |-> Handed(ps[k])]
  BY <1>2, <1>4 DEF Handed
<1> DEFINE P == [type : ValidTypeNames, size : Nat \ {0}, offset : Nat, bytes : Nat \ {0}]
<1>6. \A p \in kept : Handed(p) \in P
  <2>1. PP!Types = ValidTypeNames
    BY DEF PP!Types, ValidTypeNames, PP!Sigs, Sigs
  <2>2. \A p \in kept : p \in PP!Plans
    BY <1>1 DEF PP!IInv, PP!TypeOK
  <2>3. ASSUME NEW p \in kept PROVE Handed(p) \in P
    <3>1. p.type_name \in ValidTypeNames /\ p.offset \in Nat /\ p.size \in Nat \ {0}
      BY <2>1, <2>2 DEF PP!Plans
    <3> QED
      BY <3>1, ChunksPositive DEF Handed
  <2> QED
    BY <2>3
<1> HIDE DEF P
<1>7. plans' \in PlanList
  <2>1. \A k \in 1 .. n : Handed(ps[k]) \in P
    BY <1>4, <1>6
  <2>2. plans' \in Seq(P) /\ Len(plans') = n
    BY <1>3, <1>5, <2>1
  <2> QED
    BY <1>3, <2>2 DEF PlanList, P
<1>8. PlansHanded'
  <2>1. kept' = kept /\ DOMAIN plans' = 1 .. n
    BY <1>1, <1>5 DEF planning
  <2>2. \A k \in 1 .. n : ps[k] \in kept /\ plans'[k] = Handed(ps[k])
    BY <1>4, <1>5
  <2>3. \A p \in kept : \E k \in 1 .. n : plans'[k] = Handed(p)
    BY <1>4, <2>2
  <2>4. \A p : Handed(p)' = Handed(p)
    BY DEF Handed
  <2> HIDE DEF n
  <2> QED
    BY <1>7, <2>1, <2>2, <2>3, <2>4 DEF PlansHanded, PlanList
<1>9. RP!Init'
  BY <1>7 DEF Inv, CarvePlans, RP!Init
<1>10. RP!IInv'
  BY <1>9, SaveInitNext
<1>11. SP!IInv' /\ PP!PlanInv' /\ PP!Done' /\ scan_pc' = "done"
  BY <1>1, ScanStays, PlannerStays DEF Inv, CarvePlans, planning, scanning, PP!Done
<1>12. HitsHanded'
  BY <1>1 DEF Inv, CarvePlans, HitsHanded, Recorded, scanning, planning, Scan!Addr
<1> QED
  BY <1>1, <1>8, <1>10, <1>11, <1>12 DEF Inv

(* A step of the carve loop: its list stays what it was.                   *)
LEMMA SaveStep ==
    ASSUME Inv, phase = "save", Save!Next, UNCHANGED <<phase, scanning, planning>>
    PROVE  Inv'
<1>1. SP!IInv' /\ PP!PlanInv'
  BY ScanStays, PlannerStays DEF Inv
<1>2. RP!Next
  BY SaveNext
<1>3. RP!IInv' /\ plans' = plans
  BY <1>2, RP!StepIInv, SaveAssumption DEF Inv, RP!Next
<1>4. HitsHanded'
  BY DEF Inv, HitsHanded, Recorded, scanning, planning, Scan!Addr
<1>5. PP!Done' /\ PlansHanded'
  BY <1>3 DEF Inv, PP!Done, PlansHanded, PlanList, Handed, planning
<1>6. phase' = "save" /\ scan_pc' = "done"
  BY DEF Inv, scanning
<1> QED
  BY <1>1, <1>3, <1>4, <1>5, <1>6 DEF Inv

(* No step.                                                                *)
LEMMA StutterStep ==
    ASSUME Inv, UNCHANGED vars
    PROVE  Inv'
<1>1. phase' = phase /\ UNCHANGED <<scanning, planning, saving>>
  BY DEF vars
<1>2. SP!IInv' /\ PP!PlanInv' /\ RP!IInv'
  BY <1>1, ScanStays, PlannerStays, SaveStays DEF Inv
<1>3. Unbegun' <=> Unbegun
  BY <1>1 DEF Unbegun, planning
<1>4. HitsHanded' <=> HitsHanded
  BY <1>1 DEF HitsHanded, Recorded, scanning, planning, Scan!Addr
<1>5. (RP!Init' <=> RP!Init) /\ (PlansHanded' <=> PlansHanded) /\ (PP!Done' <=> PP!Done)
  BY <1>1 DEF RP!Init, PlansHanded, PlanList, Handed, PP!Done, planning, saving
<1>6. scan_pc' = scan_pc
  BY <1>1 DEF scanning
<1> QED
  BY <1>1, <1>2, <1>3, <1>4, <1>5, <1>6 DEF Inv

(* The invariant the others follow from.                                   *)
THEOREM InductiveInvariant == Spec => []Inv
<1>1. Inv /\ [Next]_vars => Inv'
  BY ScanStep, PlanHitsStep, PlannerStep, CarvePlansStep, SaveStep, StutterStep DEF Next
<1> QED
  BY <1>1, InitInv, PTL DEF Spec

(* The type invariant of the whole: each component keeps its own over the  *)
(* states that the component before it hands to it.                        *)
THEOREM PipelineTypeOK == Spec => []TypeOK
<1>1. Inv => TypeOK
  BY ScanTypes, PlannerTypes, SaveTypes
  DEF Inv, TypeOK, SP!IInv, PP!PlanInv, PP!IInv, RP!IInv
<1> QED
  BY <1>1, InductiveInvariant, PTL
-----------------------------------------------------------------------------
(* Sequences.                                                              *)

(* FlattenSeq is what its recursion says: F satisfies it, and no other     *)
(* function does.                                                          *)
LEMMA FlattenIs ==
    ASSUME NEW seqs, Len(seqs) \in Nat \ {0}, NEW T, NEW F \in [1 .. Len(seqs) -> T],
           \A i \in 1 .. Len(seqs) :
              F[i] = IF i = 1 THEN seqs[i] ELSE F[i - 1] \o seqs[i]
    PROVE  FlattenSeq(seqs) = F[Len(seqs)]
<1>0. PICK m \in Nat \ {0} : m = Len(seqs)
  OBVIOUS
<1> DEFINE G == CHOOSE g : g = [i \in 1 .. Len(seqs) |->
                                  IF i = 1 THEN seqs[i] ELSE g[i - 1] \o seqs[i]]
<1>1. G = [i \in 1 .. m |-> IF i = 1 THEN seqs[i] ELSE G[i - 1] \o seqs[i]]
  <2>1. F = [i \in 1 .. Len(seqs) |-> IF i = 1 THEN seqs[i] ELSE F[i - 1] \o seqs[i]]
    OBVIOUS
  <2>2. G = [i \in 1 .. Len(seqs) |-> IF i = 1 THEN seqs[i] ELSE G[i - 1] \o seqs[i]]
    BY <2>1, Zenon
  <2> HIDE DEF G
  <2> QED
    BY <1>0, <2>2
<1>2. FlattenSeq(seqs) = G[m]
  <2>1. Len(seqs) # 0
    OBVIOUS
  <2>2. FlattenSeq(seqs) = G[Len(seqs)]
    BY <2>1, Zenon DEF FlattenSeq
  <2> HIDE DEF G
  <2> QED
    BY <1>0, <2>2
<1> HIDE DEF G
<1> DEFINE Bad == {i \in 1 .. m : G[i] # F[i]}
<1>3. Bad = {}
  <2> SUFFICES ASSUME Bad # {} PROVE FALSE
    OBVIOUS
  <2>1. Bad \subseteq Nat
    OBVIOUS
  <2>2. PICK i \in Bad : \A j \in Bad : ~ (<<j, i>> \in OpToRel(<, Nat))
    BY <2>1, WFMin, NatLessThanWellFounded
  <2>3. \A j \in Bad : <<j, i>> \in OpToRel(<, Nat) <=> j < i
    BY <2>1, <2>2 DEF OpToRel
  <2>4. \A j \in Bad : ~ (j < i)
    BY <2>2, <2>3, Zenon
  <2>5. i \in 1 .. m /\ G[i] # F[i]
    OBVIOUS
  <2> HIDE DEF Bad
  <2>6. CASE i = 1
    <3>1. G[i] = seqs[i]
      BY <1>1, <2>5, <2>6
    <3>2. F[i] = seqs[i]
      BY <1>0, <2>5, <2>6
    <3> QED
      BY <2>5, <3>1, <3>2
  <2>7. CASE i # 1
    <3>1. i - 1 \in 1 .. m /\ i - 1 < i
      BY <2>5, <2>7
    <3>2. G[i - 1] = F[i - 1]
      BY <2>4, <3>1 DEF Bad
    <3>3. G[i] = G[i - 1] \o seqs[i]
      BY <1>1, <2>5, <2>7
    <3>4. F[i] = F[i - 1] \o seqs[i]
      BY <1>0, <2>5, <2>7
    <3> QED
      BY <2>5, <3>2, <3>3, <3>4
  <2> QED
    BY <2>6, <2>7
<1>4. m \in 1 .. m
  OBVIOUS
<1> QED
  BY <1>0, <1>2, <1>3, <1>4

(* A stretch of the source is a sequence of bytes.                         *)
LEMMA StretchIsSeq ==
    ASSUME disk \in [Scan!Addr -> Byte], NEW a \in Nat, NEW n \in Nat,
           a + n <= TotalSize
    PROVE  FromDisk(a, n) \in Seq(Byte) /\ Len(FromDisk(a, n)) = n
<1>1. \A i \in 1 .. n : a + i - 1 \in Scan!Addr
  BY NumbersAssumption DEF Scan!Addr
<1>2. \A i \in 1 .. n : disk[a + i - 1] \in Byte
  BY <1>1
<1>3. FromDisk(a, n) \in [1 .. n -> Byte]
  BY <1>2 DEF FromDisk
<1>4. FromDisk(a, n) \in Seq(Byte)
  BY <1>3, SeqDef
<1>5. Len(FromDisk(a, n)) = n
  BY <1>2 DEF FromDisk
<1> QED
  BY <1>4, <1>5

(* A stretch is its first part and the rest.                               *)
LEMMA StretchSplits ==
    ASSUME disk \in [Scan!Addr -> Byte], NEW a \in Nat, NEW m \in Nat,
           NEW n \in Nat, a + m + n <= TotalSize
    PROVE  FromDisk(a, m + n) = FromDisk(a, m) \o FromDisk(a + m, n)
<1> DEFINE l == FromDisk(a, m)
           r == FromDisk(a + m, n)
           w == FromDisk(a, m + n)
<1>1. /\ l \in Seq(Byte) /\ Len(l) = m /\ r \in Seq(Byte) /\ Len(r) = n
      /\ w \in Seq(Byte) /\ Len(w) = m + n
  <2>1. a + m \in Nat /\ m + n \in Nat /\ a + (m + n) <= TotalSize /\ a + m <= TotalSize
    BY NumbersAssumption
  <2> QED
    BY <2>1, StretchIsSeq
<1>2. /\ \A i \in 1 .. m : l[i] = disk[a + i - 1]
      /\ \A i \in 1 .. n : r[i] = disk[a + m + i - 1]
      /\ \A i \in 1 .. (m + n) : w[i] = disk[a + i - 1]
  BY DEF FromDisk
<1> HIDE DEF l, r, w
<1>3. /\ l \o r \in Seq(Byte) /\ Len(l \o r) = m + n
      /\ \A i \in 1 .. (m + n) : (l \o r)[i] = IF i <= m THEN l[i] ELSE r[i - m]
  BY <1>1, ConcatProperties
<1>4. ASSUME NEW i \in 1 .. (m + n) PROVE w[i] = (l \o r)[i]
  <2>1. CASE i <= m
    BY <1>2, <1>3, <2>1
  <2>2. CASE ~ (i <= m)
    <3>1. i - m \in 1 .. n /\ a + m + (i - m) - 1 = a + i - 1
      BY <2>2
    <3>2. r[i - m] = disk[a + m + (i - m) - 1]
      BY <1>2, <3>1
    <3> QED
      BY <1>2, <1>3, <2>2, <3>1, <3>2
  <2> QED
    BY <2>1, <2>2
<1>5. w = l \o r
  BY <1>1, <1>3, <1>4, SeqEqual
<1> QED
  BY <1>5 DEF l, r, w

(* The last chunk, and only the last, may be short.                        *)
LEMMA ChunkArithmetic ==
    ASSUME NEW n \in Nat \ {0}
    PROVE  /\ \A j \in 0 .. Chunks(n) : j * CopyBuf \in Nat
           /\ \A j \in 1 .. Chunks(n) : j * CopyBuf = (j - 1) * CopyBuf + CopyBuf
           /\ \A j \in 0 .. (Chunks(n) - 1) : j * CopyBuf < n
           /\ n <= Chunks(n) * CopyBuf
<1>1. CopyBuf \in Nat \ {0} /\ Chunks(n) \in Nat \ {0}
  BY NumbersAssumption, ChunksPositive
<1> DEFINE C == CopyBuf
           m == Chunks(n)
<1>2. n <= m * C /\ (m - 1) * C < n
  <2>1. m = (n + C - 1) \div C
    BY DEF Chunks
  <2>2. \A x \in Nat, y \in Nat \ {0} : (x \div y) * y <= x /\ x < (x \div y) * y + y
    OBVIOUS
  <2>3. n + C - 1 \in Nat
    BY <1>1
  <2>4. m * C <= n + C - 1 /\ n + C - 1 < m * C + C
    BY <1>1, <2>1, <2>2, <2>3
  <2>5. (m - 1) * C = m * C - C /\ m * C \in Nat
    BY <1>1
  <2> QED
    BY <1>1, <2>4, <2>5
<1>3. ASSUME NEW j \in 0 .. (m - 1) PROVE j * C <= (m - 1) * C
  <2>1. \A x, y, z \in Nat : x <= y => x * z <= y * z
    OBVIOUS
  <2> QED
    BY <1>1, <2>1
<1>4. \A j \in 0 .. m : j * C \in Nat
  BY <1>1
<1>5. \A j \in 1 .. m : j * C = (j - 1) * C + C
  BY <1>1
<1>6. ASSUME NEW j \in 0 .. (m - 1) PROVE j * C < n
  <2>1. j * C \in Nat /\ (m - 1) * C \in Nat
    BY <1>1, <1>4
  <2> QED
    BY <1>2, <1>3, <2>1
<1> QED
  BY <1>2, <1>4, <1>5, <1>6

(* The chunks of a plan, one after the other, are its stretch of the       *)
(* source.                                                                 *)
LEMMA ChunksMakeStretch ==
    ASSUME disk \in [Scan!Addr -> Byte], NEW k, NEW a \in Nat, NEW n \in Nat \ {0},
           plans[k].offset = a, plans[k].bytes = n, a + n <= TotalSize
    PROVE  FlattenSeq([j \in 1 .. Chunks(n) |-> ChunkBytes(k, j)]) = FromDisk(a, n)
<1>splits. \A l, r \in Nat : a + l + r <= TotalSize =>
              FromDisk(a, l + r) = FromDisk(a, l) \o FromDisk(a + l, r)
  BY StretchSplits
<1> DEFINE C == CopyBuf
           m == Chunks(n)
           Upto(j) == IF j = m THEN n ELSE j * C
           F == [j \in 1 .. m |-> FromDisk(a, Upto(j))]
           seqs == [j \in 1 .. m |-> ChunkBytes(k, j)]
<1>1. C \in Nat \ {0} /\ m \in Nat \ {0}
  BY NumbersAssumption, ChunksPositive
<1>2. ASSUME NEW j \in 1 .. m
      PROVE  /\ (j - 1) * C \in Nat /\ Upto(j) \in Nat
             /\ Upto(j) - (j - 1) * C \in Nat
             /\ a + Upto(j) <= TotalSize
             /\ Upto(j) - (j - 1) * C =
                   IF n - (j - 1) * C < C THEN n - (j - 1) * C ELSE C
  <2>1. (j - 1) * C \in Nat /\ (j - 1) * C < n
    BY <1>1, ChunkArithmetic
  <2>2. j * C = (j - 1) * C + C
    BY ChunkArithmetic
  <2>3. CASE j = m
    <3>1. n <= j * C
      BY <2>3, ChunkArithmetic
    <3>2. Upto(j) = n
      BY <2>3
    <3> HIDE DEF Upto, m
    <3> QED
      BY <1>1, <2>1, <2>2, <3>1, <3>2, NumbersAssumption
  <2>4. CASE j # m
    <3>1. j * C < n
      BY <1>1, <2>4, ChunkArithmetic
    <3> HIDE DEF m
    <3> QED
      BY <1>1, <2>1, <2>2, <2>4, <3>1, NumbersAssumption
  <2> QED
    BY <2>3, <2>4
<1>3. ASSUME NEW j \in 1 .. m
      PROVE  seqs[j] = FromDisk(a + (j - 1) * C, Upto(j) - (j - 1) * C)
  <2>1. seqs[j] = ChunkBytes(k, j)
    OBVIOUS
  <2> HIDE DEF Upto, m
  <2> QED
    BY <1>2, <2>1 DEF ChunkBytes, FromDisk
<1> HIDE DEF seqs
<1>4. ASSUME NEW j \in 1 .. m
      PROVE  F[j] = IF j = 1 THEN seqs[j] ELSE F[j - 1] \o seqs[j]
  <2>1. F[j] = FromDisk(a, Upto(j))
    OBVIOUS
  <2>2. CASE j = 1
    <3>1. (j - 1) * C = 0 /\ a + 0 = a /\ Upto(j) - 0 = Upto(j)
      BY <1>1, <1>2, <2>2
    <3> HIDE DEF Upto, F, m
    <3>2. seqs[j] = FromDisk(a, Upto(j))
      BY <1>3, <3>1
    <3> QED
      BY <2>1, <2>2, <3>2
  <2>3. CASE j # 1
    <3>1. j - 1 \in 1 .. m /\ j - 1 # m
      BY <1>1, <2>3
    <3>2. F[j - 1] = FromDisk(a, (j - 1) * C)
      BY <3>1
    <3>3. PICK l \in Nat : l = (j - 1) * C
      BY <1>2
    <3>4. PICK r \in Nat : r = Upto(j) - (j - 1) * C
      BY <1>2
    <3>5. l + r = Upto(j) /\ a + l + r <= TotalSize
      BY <1>2, <3>3, <3>4
    <3> HIDE DEF Upto, F, m
    <3>6. FromDisk(a, l + r) = FromDisk(a, l) \o FromDisk(a + l, r)
      BY <1>splits, <3>5
    <3>7. seqs[j] = FromDisk(a + l, r)
      BY <1>3, <3>3, <3>4
    <3>8. F[j] = FromDisk(a, l) \o FromDisk(a + l, r)
      BY <2>1, <3>5, <3>6
    <3>9. F[j - 1] = FromDisk(a, l)
      BY <3>2, <3>3
    <3> QED
      BY <2>3, <3>7, <3>8, <3>9, Zenon
  <2> QED
    BY <2>2, <2>3
<1>5. Len(seqs) = m
  BY <1>1 DEF seqs
<1>6. F[m] = FromDisk(a, n)
  BY <1>1
<1>7. PICK T : F \in [1 .. m -> T]
  <2>1. F \in [1 .. m -> {FromDisk(a, Upto(j)) : j \in 1 .. m}]
    OBVIOUS
  <2> QED
    BY <2>1
<1> HIDE DEF F, m, Upto
<1>8. FlattenSeq(seqs) = F[m]
  <2>1. F \in [1 .. Len(seqs) -> T] /\ Len(seqs) \in Nat \ {0}
    BY <1>1, <1>5, <1>7
  <2>2. \A i \in 1 .. Len(seqs) :
           F[i] = IF i = 1 THEN seqs[i] ELSE F[i - 1] \o seqs[i]
    BY <1>4, <1>5
  <2>3. FlattenSeq(seqs) = F[Len(seqs)]
    BY <2>1, <2>2, FlattenIs, Zenon
  <2> QED
    BY <1>5, <2>3
<1>9. FlattenSeq(seqs) = FromDisk(a, n)
  BY <1>6, <1>8
<1> QED
  BY <1>9, Zenon DEF seqs, m

-----------------------------------------------------------------------------
(* From the scan to the entries.                                           *)

Pattern(s, footer) == IF footer THEN Footer[s] ELSE Header[s]

(* The pattern lies at address a of what the scan has seen.                *)
InImage(pattern, a) ==
    /\ a + Len(pattern) <= TotalSize
    /\ \A j \in 1 .. Len(pattern) : SP!Image[a + j - 1] = pattern[j]

(* When the scan is over, what was recorded is what is in the image.       *)
LEMMA RecordedIsInImage ==
    ASSUME SP!IInv, scan_pc = "done", NEW b \in BOOLEAN
    PROVE  /\ \A g \in Recorded(b) : /\ g.addr \in Scan!Addr /\ g.sig \in ActiveSignatures
                                     /\ InImage(Pattern(g.sig, b), g.addr)
           /\ \A s \in ActiveSignatures, a \in Scan!Addr :
                 /\ Pattern(s, b) # << >>
                 /\ InImage(Pattern(s, b), a)
                 => [addr |-> a, sig |-> s] \in Recorded(b)
<1>1. SP!TypeOK /\ SP!FoundExactlyOnce /\ pos = TotalSize
  BY DEF SP!IInv, SP!Progress
<1>2. ASSUME NEW p \in SP!Patterns, NEW a \in Scan!Addr
      PROVE  found[<<p, a>>] > 0 <=> InImage(p.bytes, a)
  <2>1. found[<<p, a>>] = IF SP!OccursIn(SP!Image, p, a) /\ a + Len(p.bytes) <= pos
                          THEN 1 ELSE 0
    BY <1>1, ScanNames DEF SP!FoundExactlyOnce
  <2> QED
    BY <1>1, <2>1 DEF SP!OccursIn, InImage
<1>3. ASSUME NEW g \in Recorded(b)
      PROVE  /\ g.addr \in Scan!Addr /\ g.sig \in ActiveSignatures
             /\ InImage(Pattern(g.sig, b), g.addr)
  <2>1. g.addr \in Scan!Addr
    BY <1>1, RecordedFacts
  <2>2. PICK p \in SP!Patterns : /\ p.is_footer = b /\ p.sig = g.sig
                                 /\ found[<<p, g.addr>>] > 0
    BY <1>1, RecordedFacts
  <2>3. p.sig \in ActiveSignatures /\ p.bytes = Pattern(g.sig, b)
    BY <2>2, PatternShape DEF Pattern
  <2> QED
    BY <1>2, <2>1, <2>2, <2>3
<1>4. ASSUME NEW s \in ActiveSignatures, NEW a \in Scan!Addr,
             Pattern(s, b) # << >>, InImage(Pattern(s, b), a)
      PROVE  [addr |-> a, sig |-> s] \in Recorded(b)
  <2>1. PICK p \in SP!Patterns : /\ p.is_footer = b /\ p.sig = s
                                 /\ p.bytes = Pattern(s, b)
    <3>1. CASE b = TRUE
      <4> DEFINE q == [bytes |-> Footer[s], sig |-> s, is_footer |-> TRUE]
      <4>1. q \in SP!Patterns
        BY <1>4, <3>1 DEF SP!Patterns, SP!NoFooter, Pattern
      <4>2. q.is_footer = b /\ q.sig = s /\ q.bytes = Pattern(s, b)
        BY <3>1 DEF Pattern
      <4> QED
        BY <4>1, <4>2
    <3>2. CASE b = FALSE
      <4> DEFINE q == [bytes |-> Header[s], sig |-> s, is_footer |-> FALSE]
      <4>1. q \in SP!Patterns
        BY DEF SP!Patterns
      <4>2. q.is_footer = b /\ q.sig = s /\ q.bytes = Pattern(s, b)
        BY <3>2 DEF Pattern
      <4> QED
        BY <4>1, <4>2
    <3> QED
      BY <3>1, <3>2
  <2>2. found[<<p, a>>] > 0
    BY <1>2, <1>4, <2>1
  <2> QED
    BY <1>1, <2>1, <2>2, RecordedFacts
<1> QED
  BY <1>3, <1>4

(* What is in the image at addresses not skipped is on the source.         *)
LEMMA ImageIsDisk ==
    \A a \in Scan!Addr : SP!Image[a] = IF a \in Scan!Skipped THEN Zero ELSE disk[a]
BY ScanNames DEF SP!Image, SP!Zeroed

(* A plan that is kept.                                                    *)
LEMMA KeptFacts ==
    ASSUME Inv, NEW p \in kept
    PROVE  /\ p \in candidates /\ p.sig \in Sigs
           /\ p.type_name \in DB[p.sig].names /\ p.type_name \in TypeArg
           /\ p.offset \in Nat /\ p.size \in Nat \ {0}
           /\ p.offset + p.size <= TotalSize /\ p.size <= MaxSizeArg
           /\ \E h \in headers : h.sig = p.sig /\ h.addr = p.offset + DB[p.sig].shift
<1>1. PP!TypeOK /\ PP!InBounds /\ PP!Made
  BY DEF Inv, PP!PlanInv, PP!IInv
<1>2. p \in candidates /\ p \in PP!Plans
  BY <1>1 DEF PP!TypeOK
<1>3. p.type_name \in DB[p.sig].names
  <2>1. PICK h \in headers :
           \E t \in DB[h.sig].names, parsed \in PP!ParseResults(h.sig) :
              p = PP!PlanFor(h, t, parsed)
    BY <1>1, <1>2 DEF PP!Made
  <2> QED
    BY <2>1 DEF PP!PlanFor
<1>4. p.offset \in Nat /\ p.size \in Nat \ {0} /\ p.sig \in Sigs
  BY <1>2 DEF PP!Plans, PP!Sigs, Sigs
<1> QED
  BY <1>1, <1>2, <1>3, <1>4 DEF PP!InBounds

(* A plan in the carve loop's list.                                        *)
LEMMA ListFacts ==
    ASSUME Inv, phase = "save"
    PROVE  /\ DOMAIN plans = 1 .. Len(plans) /\ Len(plans) \in Nat
           /\ \A k \in 1 .. Len(plans) : \E p \in kept : plans[k] = Handed(p)
<1>1. plans \in PlanList /\ \A k \in DOMAIN plans : \E p \in kept : plans[k] = Handed(p)
  BY DEF Inv, PlansHanded
<1>2. DOMAIN plans = 1 .. Len(plans) /\ Len(plans) \in Nat
  BY <1>1, LenProperties DEF PlanList
<1> QED
  BY <1>1, <1>2

(* The carve loop writes nothing until it has its plans.                   *)
LEMMA NoEntryBefore ==
    ASSUME Inv, phase # "save"
    PROVE  Save!Entries(1) = {} /\ pc[1] = "new"
BY DEF Inv, RP!Init, Save!Entries

(* What an entry names is the stretch of the source that its plan says.    *)
LEMMA EntryHolds ==
    ASSUME Inv, NEW e \in Save!Entries(1)
    PROVE  /\ phase = "save" /\ e.plan \in 1 .. Len(plans)
           /\ Contents(e) = FromDisk(plans[e.plan].offset, plans[e.plan].bytes)
<1>1. phase = "save"
  BY NoEntryBefore
<1>2. e \in RP!Entries(1)
  BY SaveEntries
<1>3. RP!IInv /\ 1 \in {1}
  BY DEF Inv
<1>4. /\ e.plan \in 1 .. at[1] /\ dir[e.file] = <<1, e.plan>>
      /\ data[<<1, e.plan>>] = RP!WholePlan(e.plan)
  <2>1. /\ e.plan \in 1 .. at[1] /\ e.plan \in RP!Index
        /\ data[<<1, e.plan>>] = RP!WholePlan(e.plan)
        /\ dir[e.file] = <<1, e.plan>> \/ RP!Overlooked(e.file, <<1, e.plan>>)
    BY <1>2, <1>3, RP!EntryFacts, SaveAssumption
  <2>2. <<1, e.file, <<1, e.plan>>>> \notin overlooked
    BY <1>3, <2>1 DEF RP!IInv, RP!Unseen
  <2> QED
    BY <2>1, <2>2 DEF RP!Overlooked
<1>5. e.plan \in 1 .. Len(plans)
  <2>1. at[1] \in 0 .. Len(plans)
    BY <1>3 DEF RP!IInv, RP!TypeOK
  <2>2. Len(plans) \in Nat
    BY <1>1, ListFacts
  <2> QED
    BY <1>4, <2>1, <2>2
<1>6. PICK p \in kept : plans[e.plan] = Handed(p)
  BY <1>1, <1>5, ListFacts
<1>7. PICK k : k = e.plan
  OBVIOUS
<1>8. /\ plans[k].offset = p.offset /\ plans[k].bytes = p.size
      /\ plans[k].size = Chunks(p.size)
  BY <1>6, <1>7 DEF Handed
<1>9. p.offset \in Nat /\ p.size \in Nat \ {0} /\ p.offset + p.size <= TotalSize
  BY KeptFacts
<1>10. disk \in [Scan!Addr -> Byte]
  BY ScanNames DEF Inv, SP!IInv, SP!TypeOK
<1> DEFINE chunks == data[dir[e.file]]
<1>11. chunks = [j \in 1 .. Chunks(p.size) |-> <<k, j>>]
  BY <1>4, <1>7, <1>8 DEF RP!WholePlan
<1> HIDE DEF chunks
<1>12. [j \in DOMAIN chunks |-> ChunkBytes(chunks[j][1], chunks[j][2])] =
          [j \in 1 .. Chunks(p.size) |-> ChunkBytes(k, j)]
  BY <1>11
<1>13. Contents(e) = FlattenSeq([j \in DOMAIN chunks |->
                                    ChunkBytes(chunks[j][1], chunks[j][2])])
  BY Zenon DEF Contents, chunks
<1>14. FlattenSeq([j \in 1 .. Chunks(p.size) |-> ChunkBytes(k, j)]) =
          FromDisk(p.offset, p.size)
  BY <1>8, <1>9, <1>10, ChunksMakeStretch
<1>15. Contents(e) = FromDisk(p.offset, p.size)
  BY <1>12, <1>13, <1>14, Zenon
<1> QED
  BY <1>1, <1>5, <1>7, <1>8, <1>15

(* Nothing is made up: every file in the log is of a type asked for, is a  *)
(* stretch of the source within the size limits, and begins with a header  *)
(* of that type, but for bytes the scan reported as unreadable.            *)
THEOREM LogIsGenuine == Spec => []EntriesGenuine
<1>1. ASSUME Inv PROVE EntriesGenuine
  <2> SUFFICES ASSUME NEW e \in Save!Entries(1), NEW p, p = plans[e.plan]
               PROVE  /\ p.type \in TypeArg
                      /\ p.bytes <= MaxSizeArg
                      /\ Contents(e) = FromDisk(p.offset, p.bytes)
                      /\ \E s \in Sigs :
                            /\ p.type \in DB[s].names
                            /\ \A i \in DOMAIN Header[s] :
                                  LET a == p.offset + DB[s].shift + i - 1
                                  IN disk[a] = Header[s][i] \/ a \in Scan!Skipped
    BY DEF EntriesGenuine
  <2>1. /\ phase = "save" /\ e.plan \in 1 .. Len(plans)
        /\ Contents(e) = FromDisk(p.offset, p.bytes)
    BY <1>1, EntryHolds
  <2>2. PICK q \in kept : p = Handed(q)
    BY <1>1, <2>1, ListFacts
  <2>3. p.type = q.type_name /\ p.offset = q.offset /\ p.bytes = q.size
    BY <2>2 DEF Handed
  <2>4. /\ q.sig \in Sigs /\ q.type_name \in DB[q.sig].names /\ q.type_name \in TypeArg
        /\ q.size <= MaxSizeArg /\ q.offset \in Nat
    BY <1>1, KeptFacts
  <2>5. PICK h \in headers : h.sig = q.sig /\ h.addr = q.offset + DB[q.sig].shift
    BY <1>1, KeptFacts
  <2>6. /\ h.addr \in Scan!Addr /\ InImage(Header[q.sig], h.addr)
    <3>1. h \in Recorded(FALSE) /\ SP!IInv /\ scan_pc = "done"
      BY <1>1, <2>1 DEF Inv, HitsHanded
    <3>2. InImage(Pattern(h.sig, FALSE), h.addr) /\ h.addr \in Scan!Addr
      BY <3>1, RecordedIsInImage
    <3> QED
      BY <2>5, <3>2 DEF Pattern
  <2>7. ASSUME NEW i \in DOMAIN Header[q.sig], NEW a,
               a = p.offset + DB[q.sig].shift + i - 1
        PROVE  disk[a] = Header[q.sig][i] \/ a \in Scan!Skipped
    <3>1. Header[q.sig] \in Seq(Byte) /\ DB[q.sig].shift \in Nat
      BY <2>4, FormatsAssumption
    <3>2. i \in 1 .. Len(Header[q.sig]) /\ Len(Header[q.sig]) \in Nat
      BY <3>1
    <3>3. a = h.addr + i - 1
      BY <2>3, <2>5, <2>7
    <3>4. a \in Scan!Addr
      BY <2>6, <3>2, <3>3, NumbersAssumption DEF InImage, Scan!Addr
    <3>5. SP!Image[a] = Header[q.sig][i]
      BY <2>6, <3>2, <3>3 DEF InImage
    <3> QED
      BY <3>4, <3>5, ImageIsDisk
  <2> QED
    BY <2>1, <2>3, <2>4, <2>7
<1> QED
  BY <1>1, InductiveInvariant, PTL

-----------------------------------------------------------------------------
(* From an intact file to its plan.                                        *)

(* Where the scan has given up nothing, the image is the source.           *)
LEMMA CleanImage ==
    ASSUME NEW a \in Nat, NEW n \in Nat,
           Scan!Span(a, n) \subseteq Scan!Addr \ Scan!Skipped,
           NEW pattern \in Seq(Byte), NEW x \in Nat,
           a <= x, x + Len(pattern) <= a + n,
           disk \in [Scan!Addr -> Byte]
    PROVE  InImage(pattern, x) <=> IsAt(pattern, x)
<1>1. Len(pattern) \in Nat /\ TotalSize \in Nat
  BY NumbersAssumption
<1>2. ASSUME NEW j \in 1 .. Len(pattern)
      PROVE  x + j - 1 \in Scan!Addr /\ SP!Image[x + j - 1] = disk[x + j - 1]
  <2>1. x + j - 1 \in Scan!Span(a, n)
    BY <1>1 DEF Scan!Span
  <2> QED
    BY <2>1, ImageIsDisk
<1>3. ASSUME x + Len(pattern) <= TotalSize
      PROVE  FromDisk(x, Len(pattern)) = pattern <=>
                \A j \in 1 .. Len(pattern) : disk[x + j - 1] = pattern[j]
  <2>1. FromDisk(x, Len(pattern)) \in Seq(Byte)
        /\ Len(FromDisk(x, Len(pattern))) = Len(pattern)
    BY <1>1, <1>3, StretchIsSeq
  <2>2. \A j \in 1 .. Len(pattern) : FromDisk(x, Len(pattern))[j] = disk[x + j - 1]
    BY DEF FromDisk
  <2>3. (\A j \in 1 .. Len(pattern) : disk[x + j - 1] = pattern[j]) =>
           FromDisk(x, Len(pattern)) = pattern
    BY <2>1, <2>2, SeqEqual
  <2> QED
    BY <2>2, <2>3
<1> QED
  BY <1>2, <1>3 DEF InImage, IsAt

(* What the theorem says of a file.                                        *)
PlainFile(s, a, n) ==
    /\ Footer[s] # << >>
    /\ ~ DB[s].parser /\ ~ DB[s].strict /\ ~ TurnedDown(s, a)
    /\ DB[s].names \subseteq TypeArg
    /\ IntactFile(s, a, n)

(* The numbers of an intact file.                                          *)
LEMMA PlainFacts ==
    ASSUME Inv, phase = "save", NEW s \in Sigs, NEW a \in Scan!Addr,
           NEW n \in 1 .. TotalSize, PlainFile(s, a, n)
    PROVE  /\ a \in Nat /\ n \in Nat \ {0} /\ a + n <= TotalSize
           /\ disk \in [Scan!Addr -> Byte] /\ scan_pc = "done" /\ SP!IInv
           /\ s \in ActiveSignatures
           /\ Header[s] \in Seq(Byte) \ {<< >>} /\ Footer[s] \in Seq(Byte)
           /\ Len(Header[s]) \in Nat \ {0} /\ Len(Footer[s]) \in Nat \ {0}
           /\ DB[s].shift \in Nat /\ DB[s].footer \in Nat \ {0}
           /\ DB[s].min_size \in Nat \ {0} /\ DB[s].max_size \in Nat
           /\ Len(Footer[s]) <= DB[s].footer
           /\ Scan!Span(a, n) \subseteq Scan!Addr \ Scan!Skipped
           /\ Scan!Span(a, n) \cap flaky = {}
<1>1. a \in Nat /\ n \in Nat \ {0} /\ TotalSize \in Nat
  BY NumbersAssumption DEF Scan!Addr
<1>2. Scan!Span(a, n) \subseteq Scan!Addr \ (Scan!Skipped \cup flaky)
  BY DEF PlainFile, IntactFile
<1>3. a + n <= TotalSize
  <2>1. a + n - 1 \in Scan!Span(a, n)
    BY <1>1 DEF Scan!Span
  <2>2. a + n - 1 \in 0 .. (TotalSize - 1)
    BY <1>2, <2>1 DEF Scan!Addr
  <2> QED
    BY <1>1, <2>2
<1>4. disk \in [Scan!Addr -> Byte] /\ scan_pc = "done" /\ SP!IInv
  BY ScanNames DEF Inv, SP!IInv, SP!TypeOK
<1>5. /\ DB[s].shift \in Nat /\ DB[s].footer \in Nat
      /\ DB[s].min_size \in Nat \ {0} /\ DB[s].max_size \in Nat
      /\ DB[s].names # {}
  BY FormatsAssumption
<1>6. /\ Header[s] \in Seq(Byte) \ {<< >>} /\ Footer[s] \in Seq(Byte) \ {<< >>}
      /\ Len(Footer[s]) <= DB[s].footer
  BY FormatsAssumption DEF PlainFile
<1>7. Len(Header[s]) \in Nat \ {0} /\ Len(Footer[s]) \in Nat \ {0}
  BY <1>6, EmptySeq
<1>8. DB[s].footer \in Nat \ {0}
  BY <1>5, <1>6, <1>7
<1>9. s \in ActiveSignatures
  BY <1>5 DEF PlainFile, ActiveSignatures
<1> QED
  BY <1>1, <1>2, <1>3, <1>4, <1>5, <1>6, <1>7, <1>8, <1>9

(* Its header is among the planner's hits.                                 *)
LEMMA PlainHit ==
    ASSUME Inv, phase = "save", NEW s \in Sigs, NEW a \in Scan!Addr,
           NEW n \in 1 .. TotalSize, PlainFile(s, a, n)
    PROVE  /\ [addr |-> a + DB[s].shift, sig |-> s] \in headers
           /\ InImage(Header[s], a + DB[s].shift)
<1>1. DB[s].shift + Len(Header[s]) <= n /\ IsAt(Header[s], a + DB[s].shift)
  BY DEF PlainFile, IntactFile
<1>2. InImage(Header[s], a + DB[s].shift)
  <2>1. /\ a + DB[s].shift \in Nat /\ a <= a + DB[s].shift
        /\ a + DB[s].shift + Len(Header[s]) <= a + n
    BY <1>1, PlainFacts
  <2> QED
    BY <1>1, <2>1, PlainFacts, CleanImage
<1>3. a + DB[s].shift \in Scan!Addr
  BY <1>1, PlainFacts, NumbersAssumption DEF Scan!Addr
<1>4. [addr |-> a + DB[s].shift, sig |-> s] \in Recorded(FALSE)
  <2>1. Pattern(s, FALSE) = Header[s] /\ FALSE \in BOOLEAN /\ Header[s] # << >>
    BY PlainFacts DEF Pattern
  <2>2. SP!IInv /\ scan_pc = "done" /\ s \in ActiveSignatures
    BY PlainFacts
  <2> QED
    BY <1>2, <1>3, <2>1, <2>2, RecordedIsInImage
<1>5. headers = Recorded(FALSE)
  BY DEF Inv, HitsHanded
<1> QED
  BY <1>2, <1>4, <1>5

(* So are its end records, and they say what they say on the source.       *)
LEMMA PlainFooters ==
    ASSUME Inv, phase = "save", NEW s \in Sigs, NEW a \in Scan!Addr,
           NEW n \in 1 .. TotalSize, PlainFile(s, a, n),
           NEW f \in (a + 1) .. (a + n - DB[s].footer)
    PROVE  /\ f \in footers[s] <=> IsAt(Footer[s], f)
           /\ f \in footers[s] => PP!SizeTo(s, a, f) = SizeOnDisk(s, a, f)
<1>1. f \in Nat /\ a <= f /\ f + Len(Footer[s]) <= a + n /\ f \in Scan!Addr
  <2>1. /\ a \in Nat /\ n \in Nat /\ a + n <= TotalSize
        /\ DB[s].footer \in Nat \ {0} /\ Len(Footer[s]) \in Nat \ {0}
        /\ Len(Footer[s]) <= DB[s].footer
    BY PlainFacts
  <2> DEFINE record == DB[s].footer
             len == Len(Footer[s])
  <2>2. f \in (a + 1) .. (a + n - record)
    OBVIOUS
  <2>3. TotalSize \in Nat
    BY NumbersAssumption
  <2> HIDE DEF record, len
  <2>4. f \in Int /\ a + 1 <= f /\ f <= a + n - record
    BY <2>2
  <2>5. record \in Nat \ {0} /\ len \in Nat \ {0} /\ len <= record
    BY <2>1 DEF record, len
  <2>6. f \in Nat /\ a <= f /\ f + len <= a + n /\ f < TotalSize
    BY <2>1, <2>3, <2>4, <2>5
  <2>7. f \in Scan!Addr
    BY <2>3, <2>6 DEF Scan!Addr
  <2> QED
    BY <2>6, <2>7 DEF len
<1>2. InImage(Footer[s], f) <=> IsAt(Footer[s], f)
  BY <1>1, PlainFacts, CleanImage
<1>3. footers[s] = {h.addr : h \in {g \in Recorded(TRUE) : g.sig = s}}
  BY DEF Inv, HitsHanded
<1>4. SP!IInv /\ scan_pc = "done" /\ s \in ActiveSignatures /\ TRUE \in BOOLEAN
  BY PlainFacts
<1>5. Pattern(s, TRUE) = Footer[s] /\ Footer[s] # << >>
  BY DEF Pattern, PlainFile
<1>6. ASSUME f \in footers[s] PROVE InImage(Footer[s], f)
  <2>1. PICK g \in Recorded(TRUE) : g.sig = s /\ g.addr = f
    BY <1>3, <1>6
  <2>2. InImage(Pattern(g.sig, TRUE), g.addr)
    BY <1>4, RecordedIsInImage
  <2> QED
    BY <1>5, <2>1, <2>2
<1>7. ASSUME InImage(Footer[s], f) PROVE f \in footers[s]
  <2> DEFINE g == [addr |-> f, sig |-> s]
  <2>1. g \in Recorded(TRUE)
    BY <1>1, <1>4, <1>5, <1>7, RecordedIsInImage
  <2>2. g.addr = f /\ g.sig = s
    OBVIOUS
  <2> QED
    BY <1>3, <2>1, <2>2
<1>8. ASSUME f \in footers[s] PROVE PP!SizeTo(s, a, f) = SizeOnDisk(s, a, f)
  <2>1. DB[s].has_comment => comment[f] = disk[f + DB[s].footer - 1]
    <3>1. f + DB[s].footer - 1 \in Scan!Span(a, n)
      BY PlainFacts DEF Scan!Span
    <3>2. f + DB[s].footer - 1 \in Scan!Addr \ flaky
      BY <3>1, PlainFacts
    <3> QED
      BY <1>8, <3>2 DEF Inv, HitsHanded
  <2>2. /\ f \in Int /\ DB[s].footer \in Int /\ a \in Int
        /\ DB[s].has_comment => comment[f] \in Int
    <3>1. comment \in [PP!Addr -> Nat]
      BY DEF Inv, PP!PlanInv, PP!IInv, PP!TypeOK
    <3> QED
      BY <1>1, <3>1, PlainFacts DEF PP!Addr, Scan!Addr
  <2>3. CASE DB[s].has_comment
    <3>1. PP!SizeTo(s, a, f) = f + DB[s].footer + (comment[f] - a)
      BY <2>3, Zenon DEF PP!SizeTo
    <3>2. SizeOnDisk(s, a, f) = ((f + DB[s].footer) - a) + disk[(f + DB[s].footer) - 1]
      BY <2>3, Zenon DEF SizeOnDisk
    <3> QED
      BY <2>1, <2>2, <2>3, <3>1, <3>2
  <2>4. CASE ~ DB[s].has_comment
    <3>1. PP!SizeTo(s, a, f) = f + DB[s].footer + (0 - a)
      BY <2>4, Zenon DEF PP!SizeTo
    <3>2. SizeOnDisk(s, a, f) = ((f + DB[s].footer) - a) + 0
      BY <2>4, Zenon DEF SizeOnDisk
    <3> QED
      BY <2>2, <3>1, <3>2
  <2> QED
    BY <2>3, <2>4
<1> QED
  BY <1>2, <1>6, <1>7, <1>8

(* The search for its end finds its last record.                           *)
LEMMA PlainFooterSize ==
    ASSUME Inv, phase = "save", NEW s \in Sigs, NEW a \in Scan!Addr,
           NEW n \in 1 .. TotalSize, PlainFile(s, a, n),
           NEW cap \in Int, n <= cap
    PROVE  PP!FooterSize(s, a, cap) = n
<1>1. PICK f \in (a + 1) .. (a + n - DB[s].footer) :
          /\ IsAt(Footer[s], f)
          /\ SizeOnDisk(s, a, f) = n
          /\ n >= DB[s].min_size
          /\ \A g \in (a + 1) .. (f - 1) :
                IsAt(Footer[s], g) => SizeOnDisk(s, a, g) < DB[s].min_size
  BY DEF PlainFile, IntactFile
<1>2. f \in footers[s] /\ PP!SizeTo(s, a, f) = n
  BY <1>1, PlainFooters
<1>3. a \in Nat /\ n \in Nat /\ DB[s].min_size \in Nat /\ DB[s].footer \in Nat
  BY PlainFacts
<1>4. f > a /\ f \in Int
  BY <1>3
<1> DEFINE stops == {g \in footers[s] : g > a /\ PP!Stops(s, a, cap, g)}
<1>5. f \in stops
  BY <1>1, <1>2, <1>3, <1>4 DEF PP!Stops
<1>6. stops \in SUBSET PP!Addr
  <2>1. footers \in [PP!Sigs -> SUBSET PP!Addr] /\ s \in PP!Sigs
    BY DEF Inv, PP!PlanInv, PP!IInv, PP!TypeOK, PP!Sigs, Sigs
  <2> QED
    BY <2>1
<1>7. ASSUME NEW g \in stops PROVE f <= g
  <2> SUFFICES ASSUME g < f PROVE FALSE
    BY <1>4, <1>6, NumbersAssumption DEF PP!Addr
  <2>1. g \in footers[s] /\ g > a /\ g \in Int /\ PP!Stops(s, a, cap, g)
    BY <1>6, NumbersAssumption DEF PP!Addr
  <2>2. g \in (a + 1) .. (f - 1) /\ g \in (a + 1) .. (a + n - DB[s].footer)
    BY <1>3, <1>4, <2>1
  <2>3. IsAt(Footer[s], g) /\ PP!SizeTo(s, a, g) = SizeOnDisk(s, a, g)
    BY <2>1, <2>2, PlainFooters
  <2>4. PP!SizeTo(s, a, g) < DB[s].min_size
    BY <1>1, <2>2, <2>3
  <2>5. PP!SizeTo(s, a, g) \in Int
    <3>1. comment \in [PP!Addr -> Nat] /\ g \in PP!Addr
      BY <1>6 DEF Inv, PP!PlanInv, PP!IInv, PP!TypeOK
    <3>2. comment[g] \in Nat
      BY <3>1
    <3> QED
      BY <1>3, <2>1, <3>2 DEF PP!SizeTo
  <2> QED
    BY <1>1, <1>3, <2>1, <2>4, <2>5 DEF PP!Stops
<1> HIDE DEF stops
<1>8. PP!First(stops) = f
  <2>1. PP!First(stops) \in stops /\ \A g \in stops : PP!First(stops) <= g
    BY <1>5, <1>6, PP!FirstIsFirst, PlannerAssumptions
  <2>2. PP!First(stops) \in Int
    BY <1>6, <2>1, NumbersAssumption DEF PP!Addr
  <2> QED
    BY <1>4, <1>5, <1>7, <2>1, <2>2
<1>9. PP!FooterSize(s, a, cap) =
         IF stops = {} \/ PP!SizeTo(s, a, PP!First(stops)) > cap THEN PP!NoFooter
         ELSE PP!SizeTo(s, a, PP!First(stops))
  BY Zenon DEF PP!FooterSize, stops
<1> QED
  BY <1>2, <1>3, <1>5, <1>8, <1>9

(* A candidate of its signature that begins where it begins is the file.   *)
LEMMA PlainSize ==
    ASSUME Inv, phase = "save", NEW s \in Sigs, NEW a \in Scan!Addr,
           NEW n \in 1 .. TotalSize, PlainFile(s, a, n),
           NEW p \in candidates, p.sig = s, p.offset = a
    PROVE  p.size = n /\ p.type_name \in DB[s].names
<1>1. PICK h \in headers :
         \E t \in DB[h.sig].names, parsed \in PP!ParseResults(h.sig) :
            PP!Plannable(h, t, parsed) /\ p = PP!PlanFor(h, t, parsed)
  BY DEF Inv, PP!PlanInv, PP!Made
<1>2. PICK t \in DB[h.sig].names, parsed \in PP!ParseResults(h.sig) :
         PP!Plannable(h, t, parsed) /\ p = PP!PlanFor(h, t, parsed)
  BY <1>1
<1>3. h.sig = s /\ PP!Start(h) = a /\ p.type_name = t
  BY <1>2 DEF PP!PlanFor
<1>4. parsed = PP!NoParse
  BY <1>3 DEF PlainFile, PP!ParseResults
<1>5. PP!Cap(h) \in Int /\ n <= PP!Cap(h)
  <2>1. n <= DB[s].max_size /\ n <= MaxSizeArg
    BY DEF PlainFile, IntactFile
  <2> QED
    BY <1>3, <2>1, PlainFacts, NumbersAssumption DEF PP!Cap, PP!Smaller
<1>6. PP!FooterSize(h.sig, PP!Start(h), PP!Cap(h)) = n
  BY <1>3, <1>5, PlainFooterSize
<1>7. DB[h.sig].footer # 0 /\ n # PP!NoFooter
  BY <1>3, PlainFacts DEF PP!NoFooter
<1>8. p.size = n
  BY <1>2, <1>4, <1>6, <1>7 DEF PP!PlanFor
<1> QED
  BY <1>2, <1>3, <1>8

(* There is one.                                                           *)
LEMMA PlainCandidate ==
    ASSUME Inv, phase = "save", NEW s \in Sigs, NEW a \in Scan!Addr,
           NEW n \in 1 .. TotalSize, PlainFile(s, a, n)
    PROVE  \E p \in candidates : p.sig = s /\ p.offset = a
<1> DEFINE h == [addr |-> a + DB[s].shift, sig |-> s]
<1>1. h \in headers /\ h.sig = s /\ h.addr = a + DB[s].shift
  BY PlainHit
<1> HIDE DEF h
<1>2. h \notin pending
  BY DEF Inv, PP!Done
<1>3. PP!Start(h) = a /\ PP!Start(h) >= 0
  BY <1>1, PlainFacts DEF PP!Start
<1>4. PP!Cap(h) >= DB[s].min_size
  <2>1. n <= DB[s].max_size /\ n <= MaxSizeArg /\ n >= DB[s].min_size
    BY DEF PlainFile, IntactFile
  <2> QED
    BY <1>1, <1>3, <2>1, PlainFacts, NumbersAssumption DEF PP!Cap, PP!Smaller
<1>5. CASE DB[s].validated
  BY <1>5, PlainHit DEF PlainFile, TurnedDown
<1>6. CASE ~ DB[s].validated
  <2>1. \E p \in candidates : p.sig = h.sig /\ p.offset = PP!Start(h)
    BY <1>1, <1>2, <1>3, <1>4, <1>6 DEF Inv, PP!PlanInv, PP!NoHitLost, PlainFile
  <2> QED
    BY <1>1, <1>3, <2>1
<1> QED
  BY <1>5, <1>6

(* Two formats of one type do not begin at one address.                    *)
LEMMA OneHeader ==
    ASSUME NEW s \in Sigs, NEW t \in Sigs, NEW a \in Nat,
           DB[s].names \cap DB[t].names # {},
           InImage(Header[s], a + DB[s].shift), InImage(Header[t], a + DB[t].shift)
    PROVE  s = t
<1> SUFFICES ASSUME s # t PROVE FALSE
  OBVIOUS
<1>1. PICK i \in DOMAIN Header[s], j \in DOMAIN Header[t] :
         DB[s].shift + i = DB[t].shift + j /\ Header[s][i] # Header[t][j]
  BY TableAssumption
<1>2. /\ Header[s] \in Seq(Byte) /\ Header[t] \in Seq(Byte)
      /\ DB[s].shift \in Nat /\ DB[t].shift \in Nat
  BY FormatsAssumption
<1>3. i \in 1 .. Len(Header[s]) /\ j \in 1 .. Len(Header[t]) /\ i \in Nat /\ j \in Nat
  BY <1>2, LenProperties
<1>4. /\ SP!Image[a + DB[s].shift + i - 1] = Header[s][i]
      /\ SP!Image[a + DB[t].shift + j - 1] = Header[t][j]
  BY <1>3 DEF InImage
<1>5. a + DB[s].shift + i - 1 = a + DB[t].shift + j - 1
  <2>1. PICK x \in Nat : x = DB[s].shift
    BY <1>2
  <2>2. PICK y \in Nat : y = DB[t].shift
    BY <1>2
  <2>3. x + i = y + j
    BY <1>1, <2>1, <2>2
  <2>4. a + x + i - 1 = a + y + j - 1
    BY <1>3, <2>3
  <2> QED
    BY <2>1, <2>2, <2>4
<1> QED
  BY <1>1, <1>4, <1>5

(* The file is kept as a plan, or it begins inside another of its type.    *)
LEMMA PlainKept ==
    ASSUME Inv, phase = "save", NEW s \in Sigs, NEW a \in Scan!Addr,
           NEW n \in 1 .. TotalSize, PlainFile(s, a, n)
    PROVE  \E q \in kept :
              /\ q.type_name \in DB[s].names
              /\ \/ q.offset = a /\ q.size = n
                 \/ q.offset < a /\ a < q.offset + q.size
<1>1. PICK p \in candidates : p.sig = s /\ p.offset = a
  BY PlainCandidate
<1>2. p.size = n /\ p.type_name \in DB[s].names
  BY <1>1, PlainSize
<1>3. CASE p \in kept
  BY <1>1, <1>2, <1>3
<1>4. CASE p \notin kept
  <2>1. rest = {} /\ PP!DropsJustified
    BY DEF Inv, PP!Done, PP!PlanInv, PP!IInv
  <2>2. PICK q \in kept : PP!Inside(p, q)
    BY <1>4, <2>1 DEF PP!DropsJustified
  <2>3. /\ q.type_name = p.type_name /\ q.offset <= a
        /\ a < q.offset + q.size
    BY <1>1, <2>2 DEF PP!Inside
  <2>4. /\ q \in candidates /\ q.sig \in Sigs /\ q.type_name \in DB[q.sig].names
        /\ q.offset \in Nat /\ a \in Nat
    BY KeptFacts, PlainFacts
  <2>5. CASE q.offset = a
    <3>1. PICK h \in headers : h.sig = q.sig /\ h.addr = q.offset + DB[q.sig].shift
      BY KeptFacts
    <3>2. InImage(Header[q.sig], a + DB[q.sig].shift)
      <4>1. h \in Recorded(FALSE) /\ SP!IInv /\ scan_pc = "done"
        BY <3>1 DEF Inv, HitsHanded
      <4>2. InImage(Pattern(h.sig, FALSE), h.addr)
        BY <4>1, RecordedIsInImage
      <4> QED
        BY <2>5, <3>1, <4>2 DEF Pattern
    <3>3. q.sig = s
      BY <1>2, <2>3, <2>4, <3>2, PlainHit, OneHeader
    <3>4. q.size = n
      BY <2>4, <2>5, <3>3, PlainSize
    <3> QED
      BY <1>2, <2>3, <2>5, <3>4
  <2>6. CASE q.offset # a
    BY <1>2, <2>3, <2>4, <2>6
  <2> QED
    BY <2>5, <2>6
<1> QED
  BY <1>3, <1>4

(* From end to end: a file of a wanted format that has a footer and no     *)
(* parser, that lies whole and readable on the source and that its         *)
(* validator does not turn down is copied out byte by byte and entered in  *)
(* the log, or an error says why not, or the output disk was full, or it   *)
(* begins inside another plan of its type.                                 *)
THEOREM PlainFilesRecovered == Spec => []IntactFilesRecovered
<1>1. ASSUME Inv PROVE IntactFilesRecovered
  <2> SUFFICES ASSUME pc[1] = "done", NEW s \in Sigs, NEW a \in Scan!Addr,
                      NEW n \in 1 .. TotalSize, PlainFile(s, a, n)
               PROVE  \E k \in DOMAIN plans :
                         /\ plans[k].type \in DB[s].names
                         /\ \/ /\ plans[k].offset = a
                               /\ plans[k].bytes = n
                               /\ \/ k \in errors[1]
                                  \/ nospace[1] /\ k > at[1]
                                  \/ \E e \in Save!Entries(1) :
                                        e.plan = k /\ Contents(e) = FromDisk(a, n)
                            \/ plans[k].offset < a /\ a < plans[k].offset + plans[k].bytes
    BY DEF IntactFilesRecovered, PlainFile
  <2>1. phase = "save"
    BY <1>1, NoEntryBefore
  <2>2. PICK q \in kept :
            /\ q.type_name \in DB[s].names
            /\ \/ q.offset = a /\ q.size = n
               \/ q.offset < a /\ a < q.offset + q.size
    BY <1>1, <2>1, PlainKept
  <2>3. PICK k \in DOMAIN plans : plans[k] = Handed(q)
    BY <1>1, <2>1 DEF Inv, PlansHanded
  <2>4. /\ plans[k].type = q.type_name /\ plans[k].offset = q.offset
        /\ plans[k].bytes = q.size
    BY <2>3 DEF Handed
  <2>5. CASE q.offset < a /\ a < q.offset + q.size
    BY <2>2, <2>4, <2>5
  <2>6. CASE q.offset = a /\ q.size = n
    <3>1. /\ RP!Entered(1) \cup errors[1] = 1 .. at[1]
          /\ at[1] < Len(plans) => nospace[1]
          /\ at[1] \in 0 .. Len(plans)
      BY <1>1 DEF Inv, RP!IInv, RP!Accounted, RP!TypeOK
    <3>2. k \in 1 .. Len(plans) /\ Len(plans) \in Nat
      BY <1>1, <2>1, ListFacts
    <3>3. k \in RP!Entered(1) \/ k \in errors[1] \/ (nospace[1] /\ k > at[1])
      BY <3>1, <3>2
    <3>4. ASSUME k \in RP!Entered(1)
          PROVE  \E e \in Save!Entries(1) : e.plan = k /\ Contents(e) = FromDisk(a, n)
      <4>1. PICK e \in Save!Entries(1) : e.plan = k
        BY <3>4, SaveEntries DEF RP!Entered
      <4>2. Contents(e) = FromDisk(plans[k].offset, plans[k].bytes)
        BY <1>1, <4>1, EntryHolds
      <4> QED
        BY <2>4, <2>6, <4>1, <4>2
    <3> QED
      BY <2>2, <2>4, <2>6, <3>3, <3>4
  <2> QED
    BY <2>2, <2>5, <2>6
<1> QED
  BY <1>1, InductiveInvariant, PTL
=============================================================================
