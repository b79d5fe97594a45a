--------------------------- MODULE RecoveryProofs ---------------------------
(***************************************************************************)
(* Recoveries into one directory, for all lists of plans, any number of    *)
(* runs, any files that were there before, and any number of faults and    *)
(* kills.                                                                  *)
(***************************************************************************)
EXTENDS Recovery, FiniteSetTheorems, TLAPS

Live(r) == pc[r] \notin Over \cup {"new"}

(* Where a run has chosen a path, and where it may have created the file.  *)
HasPath == {"create", "copy", "verify", "full"}
HasFile == {"copy", "verify", "full"}

(* The file of the plan that run r has come to.                            *)
Mine(r) == <<r, at[r] + 1>>

(* Runs do not overlap in time.                                            *)
OneLive == \A q, r \in Run : Live(q) /\ Live(r) => q = r

(* Where a run is in its list.                                             *)
InPlan ==
    \A r \in Run :
        /\ pc[r] = "new" => at[r] = 0 /\ counter[r] = 1
        /\ pc[r] \in {"probe"} \cup HasPath => at[r] < Len(plans)
        /\ pc[r] \in HasPath => path[r] \in Path /\ path[r][2] < counter[r]

(* A file has one path and belongs to a plan its run has come to; its run  *)
(* has passed its number.                                                  *)
Filed ==
    /\ \A f \in Path : dir[f] = Foreign => f \in Earlier
    /\ \A f, g \in Path : dir[f] = dir[g] /\ dir[f] \notin {NoFile, Foreign} => f = g
    /\ \A f \in Path, r \in Run, k \in Index : dir[f] = <<r, k>> =>
          \/ k <= at[r]
          \/ k = at[r] + 1 /\ pc[r] = "dead"
          \/ k = at[r] + 1 /\ pc[r] \in HasFile /\ f = path[r]
    /\ \A f \in Path, r \in Run, k \in Index : dir[f] = <<r, k>> => f[2] < counter[r]

(* Run r has overlooked the file that is still at its path.                *)
Astray(r) == <<r, path[r], dir[path[r]]>> \in overlooked

(* What a run overlooked is the file of another, with a number it passed.  *)
Unseen ==
    \A o \in overlooked : o[3] \notin {o[1]} \X Index /\ o[2][2] < counter[o[1]]

(* What the file a run is writing holds.                                   *)
Writing ==
    \A r \in Run :
        /\ pc[r] = "create" => dir[path[r]] = NoFile \/ Astray(r)
        /\ pc[r] \in {"copy", "verify"} =>
              handle[r] = Mine(r) /\ dir[path[r]] = Mine(r)
        /\ pc[r] = "copy" =>
              /\ off[r] < Plan(r).size
              /\ data[Mine(r)] = [j \in 1 .. off[r] |-> <<at[r] + 1, j>>]
        /\ pc[r] = "verify" => data[Mine(r)] = WholePlan(at[r] + 1)
        /\ pc[r] = "full" => dir[path[r]] \in {NoFile, Mine(r)} \/ Astray(r)

(* The files of the log entries are whole; each has its path still, or was *)
(* overlooked there, and has no other.  A plan has one entry at most.      *)
Logged ==
    \A r \in Run : \A e \in Entries(r) :
        /\ data[<<r, e.plan>>] = WholePlan(e.plan)
        /\ dir[e.file] = <<r, e.plan>> \/ Overlooked(e.file, <<r, e.plan>>)
        /\ \A f \in Path : dir[f] = <<r, e.plan>> => f = e.file
        /\ \A d \in Entries(r) : d.plan = e.plan => d = e

(* Every plan dealt with has an entry or an error; why a run stopped.      *)
Accounted ==
    \A r \in Run :
        /\ Entered(r) \cup errors[r] = 1 .. at[r]
        /\ Entered(r) \cap errors[r] = {}
        /\ pc[r] = "full" => nospace[r]
        /\ pc[r] \in {"log", "logging", "done"} /\ at[r] < Len(plans) => nospace[r]

(* The numbers under which run r found or may find files of others, those  *)
(* under which it overlooked one, and those it has passed without finding  *)
(* a file: it has used each of the latter for a plan.                      *)
Taken(r) ==
    {c \in 1 .. MaxCounter :
        \E t \in Types : dir[<<t, c>>] \notin {NoFile} \cup ({r} \X Index)}
Claimed(r) == {o[2][2] : o \in {u \in overlooked : u[1] = r}}
Avoided(r) == Taken(r) \ Claimed(r)
Passed(r) == (1 .. (counter[r] - 1)) \ Avoided(r)
Used(r) == at[r] + (IF pc[r] \in HasPath THEN 1 ELSE 0)
Counted == \A r \in Run : Live(r) => Cardinality(Passed(r)) <= Used(r)

IInv ==
    /\ TypeOK
    /\ OneLive
    /\ InPlan
    /\ Filed
    /\ Unseen
    /\ Writing
    /\ Logged
    /\ Accounted
    /\ Counted
-----------------------------------------------------------------------------
(* Counting names.                                                         *)

(* MaxCounter is a number: there are only so many files.                   *)
LEMMA BoundsAreNumbers ==
    /\ Cardinality(Earlier) \in Nat
    /\ IsFiniteSet(Run \X Index) /\ Cardinality(Run \X Index) = Cardinality(Run) * MaxPlans
    /\ Cardinality(Run \X Index) \in Nat
    /\ MaxCounter = Cardinality(Earlier) + Cardinality(Run \X Index) + 1
    /\ MaxCounter \in Nat \ {0}
<1>1. IsFiniteSet(Index) /\ Cardinality(Index) = MaxPlans
  BY RecoveryAssumption, FS_Interval DEF Index
<1>2. /\ IsFiniteSet(Run \X Index)
      /\ Cardinality(Run \X Index) = Cardinality(Run) * MaxPlans
  BY <1>1, RecoveryAssumption, FS_Product
<1>3. Cardinality(Earlier) \in Nat /\ Cardinality(Run \X Index) \in Nat
  BY <1>2, RecoveryAssumption, FS_CardinalityType
<1>4. MaxCounter = Cardinality(Earlier) + Cardinality(Run \X Index) + 1
  BY <1>2 DEF MaxCounter
<1>5. QED
  BY <1>2, <1>3, <1>4

(* A run leaves room for all its own files.                                *)
LEMMA OthersFilesAreFew ==
    ASSUME NEW r \in Run
    PROVE  /\ IsFiniteSet((Run \ {r}) \X Index)
           /\ Cardinality((Run \ {r}) \X Index) + MaxPlans = Cardinality(Run \X Index)
<1> DEFINE All == Run \X Index
           Own == {r} \X Index
<1>1. IsFiniteSet(Index) /\ Cardinality(Index) = MaxPlans /\ MaxPlans \in Nat
  BY RecoveryAssumption, FS_Interval DEF Index
<1>2. IsFiniteSet(Own) /\ Cardinality(Own) = MaxPlans
  <2>1. IsFiniteSet({r}) /\ Cardinality({r}) = 1
    BY FS_Singleton
  <2>2. Cardinality(Own) = 1 * MaxPlans /\ IsFiniteSet(Own)
    BY <1>1, <2>1, FS_Product
  <2>3. QED
    BY <1>1, <2>2
<1>3. (Run \ {r}) \X Index = All \ Own /\ All \cap Own = Own
  OBVIOUS
<1>4. IsFiniteSet(All) /\ Cardinality(All) \in Nat
  BY BoundsAreNumbers
<1>5. IsFiniteSet(All \ Own) /\ Cardinality(All \ Own) = Cardinality(All) - Cardinality(All \cap Own)
  BY <1>4, FS_Difference
<1>6. Cardinality((Run \ {r}) \X Index) = Cardinality(All) - Cardinality(Own)
  BY <1>3, <1>5
<1>7. IsFiniteSet((Run \ {r}) \X Index)
  BY <1>3, <1>5
<1> HIDE DEF Own, All
<1>8. Cardinality((Run \ {r}) \X Index) + MaxPlans = Cardinality(All)
  BY <1>1, <1>2, <1>4, <1>6
<1>9. QED
  BY <1>7, <1>8 DEF All

(* Files of others have no more numbers than there are files of others.    *)
LEMMA TakenIsFew ==
    ASSUME IInv, NEW r \in Run
    PROVE  /\ IsFiniteSet(Taken(r))
           /\ Cardinality(Taken(r)) + MaxPlans < MaxCounter
<1> DEFINE Others == (Run \ {r}) \X Index
           TakenE == {c \in Taken(r) : \E t \in Types : dir[<<t, c>>] = Foreign}
           TakenO == {c \in Taken(r) : \E t \in Types : dir[<<t, c>>] \in Others}
<1>1. Taken(r) = TakenE \cup TakenO
  <2>1. ASSUME NEW c \in Taken(r) PROVE c \in TakenE \cup TakenO
    <3>1. PICK t \in Types : dir[<<t, c>>] \notin {NoFile} \cup ({r} \X Index)
      BY DEF Taken
    <3>2. <<t, c>> \in Path
      BY DEF Taken, Path
    <3>3. dir[<<t, c>>] \in (Run \X Index) \cup {Foreign}
      BY <3>1, <3>2 DEF IInv, TypeOK, Inode
    <3>4. QED
      BY <3>1, <3>3
  <2>2. QED
    BY <2>1
<1>2. IsFiniteSet(Taken(r)) /\ IsFiniteSet(TakenE) /\ IsFiniteSet(TakenO)
  <2> MaxCounter \in Int
    BY BoundsAreNumbers
  <2>1. IsFiniteSet(1 .. MaxCounter)
    BY FS_Interval
  <2>2. Taken(r) \in SUBSET (1 .. MaxCounter)
    BY DEF Taken
  <2>3. IsFiniteSet(Taken(r))
    BY <2>1, <2>2, FS_Subset
  <2>4. TakenE \in SUBSET Taken(r) /\ TakenO \in SUBSET Taken(r)
    OBVIOUS
  <2>5. QED
    BY <2>3, <2>4, FS_Subset
<1>3. Cardinality(TakenE) <= Cardinality(Earlier)
  <2> DEFINE at_(c) == <<CHOOSE t \in Types : dir[<<t, c>>] = Foreign, c>>
             m == [c \in TakenE |-> at_(c)]
  <2>1. \A c \in TakenE : at_(c) \in Path /\ dir[at_(c)] = Foreign
    BY DEF Taken, Path
  <2>2. \A c \in TakenE : at_(c) \in Earlier
    BY <2>1 DEF IInv, Filed
  <2>3. m \in Injection(TakenE, Earlier)
    BY <2>2 DEF Injection, IsInjective
  <2>4. QED
    BY <2>3, RecoveryAssumption, FS_Injection
<1>4. Cardinality(TakenO) <= Cardinality(Others)
  <2> DEFINE at_(c) == <<CHOOSE t \in Types : dir[<<t, c>>] \in Others, c>>
             m == [c \in TakenO |-> dir[at_(c)]]
  <2>1. \A c \in TakenO : at_(c) \in Path /\ dir[at_(c)] \in Others
    BY DEF Taken, Path
  <2>2. Others \cap {NoFile, Foreign} = {}
    BY DEF NoFile, Foreign
  <2>3. \A c, d \in TakenO : dir[at_(c)] = dir[at_(d)] => at_(c) = at_(d)
    BY <2>1, <2>2 DEF IInv, Filed
  <2>4. \A c, d \in TakenO : dir[at_(c)] = dir[at_(d)] => c = d
    BY <2>3
  <2>5. m \in Injection(TakenO, Others)
    BY <2>1, <2>4 DEF Injection, IsInjective
  <2>6. QED
    BY <2>5, OthersFilesAreFew, FS_Injection
<1>5. /\ Cardinality(TakenE) \in Nat /\ Cardinality(TakenO) \in Nat
      /\ Cardinality(TakenE \cap TakenO) \in Nat
      /\ Cardinality(Others) \in Nat
  BY <1>2, FS_CardinalityType, FS_Intersection, OthersFilesAreFew
<1>6. Cardinality(Taken(r)) =
        Cardinality(TakenE) + Cardinality(TakenO) - Cardinality(TakenE \cap TakenO)
  <2>1. Cardinality(TakenE \cup TakenO) =
          Cardinality(TakenE) + Cardinality(TakenO) - Cardinality(TakenE \cap TakenO)
    BY <1>2, FS_Union
  <2>2. QED
    BY <1>1, <2>1
<1>7. MaxPlans \in Nat
  BY RecoveryAssumption
<1> HIDE DEF TakenE, TakenO, Others
<1>8. Cardinality(Taken(r)) \in Int /\ Cardinality(Taken(r)) <= Cardinality(Earlier) + Cardinality(Others)
  BY <1>3, <1>4, <1>5, <1>6, BoundsAreNumbers
<1>9. Cardinality(Others) + MaxPlans = Cardinality(Run \X Index)
  BY OthersFilesAreFew DEF Others
<1>10. QED
  BY <1>2, <1>5, <1>7, <1>8, <1>9, BoundsAreNumbers

(* A run that looks for a name has not come to the last number.            *)
LEMMA NumbersLeft ==
    ASSUME IInv, NEW r \in Run, pc[r] = "probe"
    PROVE  counter[r] < MaxCounter
<1> DEFINE Front == 1 .. (counter[r] - 1)
<1>1. counter[r] \in Nat \ {0} /\ at[r] \in Nat /\ Len(plans) \in Nat /\ MaxPlans \in Nat
      /\ MaxCounter \in Nat
  BY BoundsAreNumbers, RecoveryAssumption DEF IInv, TypeOK, IsPlanList
<1>2. IsFiniteSet(Front) /\ Cardinality(Front) = counter[r] - 1
  <2>1. counter[r] - 1 \in Int /\ 1 \in Int /\ ~ (1 > counter[r] - 1 /\ counter[r] # 1)
    BY <1>1
  <2>2. /\ IsFiniteSet(Front)
        /\ Cardinality(Front) = IF 1 > counter[r] - 1 THEN 0 ELSE counter[r] - 1 - 1 + 1
    BY <2>1, FS_Interval
  <2>3. QED
    BY <1>1, <2>2
<1>3. at[r] < Len(plans) /\ Len(plans) <= MaxPlans
  BY DEF IInv, InPlan, TypeOK, IsPlanList
<1>4. Cardinality(Passed(r)) <= at[r]
  <2>1. Live(r) /\ Used(r) = at[r]
    BY <1>1 DEF Live, Over, Used, HasPath
  <2>2. QED
    BY <2>1 DEF IInv, Counted
<1>5. Cardinality(Passed(r)) = Cardinality(Front) - Cardinality(Front \cap Avoided(r))
  BY <1>2, FS_Difference DEF Passed
<1>6. IsFiniteSet(Taken(r)) /\ Cardinality(Taken(r)) + MaxPlans < MaxCounter
  BY TakenIsFew
<1>7. Cardinality(Front \cap Avoided(r)) <= Cardinality(Taken(r))
  <2>1. Front \cap Avoided(r) \in SUBSET Taken(r)
    BY DEF Avoided
  <2>2. QED
    BY <1>6, <2>1, FS_Subset
<1>8. Cardinality(Taken(r)) \in Nat /\ Cardinality(Front \cap Avoided(r)) \in Nat
  BY <1>2, <1>6, FS_CardinalityType, FS_Intersection
<1>9. QED
  BY <1>1, <1>2, <1>3, <1>4, <1>5, <1>6, <1>7, <1>8
-----------------------------------------------------------------------------
(* What a step of a run leaves alone.                                      *)

Moves(r) == (Start(r) \/ Step(r) \/ Kill(r)) /\ UNCHANGED plans

(* The values that belong to run q.                                        *)
Own(q) == <<pc[q], at[q], counter[q], path[q], handle[q], off[q], entries[q],
            errors[q], nospace[q]>>

(* A step changes nothing that belongs to another run, and every other run *)
(* has ended or not begun.                                                 *)
LEMMA OthersWait ==
    ASSUME IInv, NEW r \in Run, Moves(r), NEW q \in Run \ {r}
    PROVE  /\ pc[q] \in Over \cup {"new"}
           /\ UNCHANGED Own(q)
<1>1. pc[q] \in Over \cup {"new"}
  <2>1. CASE Start(r)
    BY <2>1 DEF Start
  <2>2. CASE Step(r) \/ Kill(r)
    <3>1. Live(r)
      BY <2>2 DEF Live, Over, Kill, Step, EnterDir, EnterDirFails, Probe,
         ProbeFails, Create, CreateFails, CopyChunk, ReadFails, WriteFails, GiveUp, Enter,
         Discard, EndLoop, OpenLog, FillLog, LogFails
    <3>2. QED
      BY <3>1 DEF IInv, OneLive, Live
  <2>3. QED
    BY <2>1, <2>2 DEF Moves
<1>2. UNCHANGED Own(q)
  <2>1. CASE Start(r)
    BY <2>1 DEF Start, fs, book, IInv, TypeOK, Own
  <2>2. CASE EnterDir(r)
    BY <2>2 DEF EnterDir, book, IInv, TypeOK, Own
  <2>3. CASE EnterDirFails(r)
    BY <2>3 DEF EnterDirFails, fs, Fail, IInv, TypeOK, Own
  <2>4. CASE Probe(r)
    BY <2>4 DEF Probe, fs, book, IInv, TypeOK, Own
  <2>4a. CASE ProbeFails(r)
    BY <2>4a DEF ProbeFails, fs, book, IInv, TypeOK, Own
  <2>5. CASE Create(r)
    BY <2>5 DEF Create, book, IInv, TypeOK, Own
  <2>6. CASE CreateFails(r)
    BY <2>6 DEF CreateFails, fs, Fail, StopFull, IInv, TypeOK, Own
  <2>7. CASE CopyChunk(r)
    BY <2>7 DEF CopyChunk, book, IInv, TypeOK, Own
  <2>8. CASE ReadFails(r)
    BY <2>8 DEF ReadFails, fs, Fail, IInv, TypeOK, Own
  <2>9. CASE WriteFails(r)
    BY <2>9 DEF WriteFails, Fail, StopFull, IInv, TypeOK, Own
  <2>10. CASE GiveUp(r)
    BY <2>10 DEF GiveUp, IInv, TypeOK, Own
  <2>11. CASE Enter(r)
    BY <2>11 DEF Enter, fs, IInv, TypeOK, Own
  <2>12. CASE Discard(r)
    BY <2>12 DEF Discard, Fail, IInv, TypeOK, Own
  <2>13. CASE EndLoop(r)
    BY <2>13 DEF EndLoop, fs, book, IInv, TypeOK, Own
  <2>14. CASE OpenLog(r)
    BY <2>14 DEF OpenLog, fs, book, IInv, TypeOK, Own
  <2>15. CASE FillLog(r)
    BY <2>15 DEF FillLog, fs, book, IInv, TypeOK, Own
  <2>16. CASE LogFails(r)
    BY <2>16 DEF LogFails, fs, book, IInv, TypeOK, Own
  <2>17. CASE Kill(r)
    BY <2>17 DEF Kill, fs, book, IInv, TypeOK, Own
  <2>18. QED
    BY <2>1, <2>2, <2>3, <2>4, <2>4a, <2>5, <2>6, <2>7, <2>8, <2>9, <2>10, <2>11,
       <2>12, <2>13, <2>14, <2>15, <2>16, <2>17 DEF Moves, Step
<1>3. QED
  BY <1>1, <1>2

(* What holds of the plan and the path while a run is carving.             *)
LEMMA CarvingFacts ==
    ASSUME IInv, NEW r \in Run
    PROVE  /\ at[r] \in Nat /\ Len(plans) \in Nat /\ Len(plans) <= MaxPlans
           /\ at[r] < Len(plans) =>
                 /\ at[r] + 1 \in 0 .. Len(plans) /\ at[r] + 1 \in Index
                 /\ Mine(r) \in Inode
                 /\ Plan(r).type \in Types /\ Plan(r).size \in Nat \ {0}
           /\ pc[r] \in {"probe"} \cup HasPath => at[r] < Len(plans)
           /\ pc[r] \in HasPath => path[r] \in Path /\ path[r][2] < counter[r]
<1>1. IsPlanList(plans) /\ at[r] \in 0 .. Len(plans) /\ InPlan
  BY DEF IInv, TypeOK
<1>2. Len(plans) \in 0 .. MaxPlans /\ MaxPlans \in Nat
  BY <1>1, RecoveryAssumption DEF IsPlanList
<1>3. at[r] \in Nat /\ Len(plans) \in Nat /\ Len(plans) <= MaxPlans
  BY <1>1, <1>2
<1>4. at[r] < Len(plans) =>
         /\ at[r] + 1 \in 0 .. Len(plans) /\ at[r] + 1 \in Index
         /\ Mine(r) \in Inode
         /\ Plan(r).type \in Types /\ Plan(r).size \in Nat \ {0}
  BY <1>1, <1>2, <1>3 DEF IsPlanList, Index, Mine, Inode, Plan
<1>5. QED
  BY <1>1, <1>2, <1>3, <1>4 DEF InPlan

(* The types of what an error, or the end of a plan, changes.              *)
LEMMA FailTypes ==
    ASSUME IInv, NEW r \in Run, at[r] < Len(plans), Fail(r)
    PROVE  /\ errors' \in [Run -> SUBSET Index]
           /\ at' \in [Run -> 0 .. Len(plans)]
           /\ pc' \in [Run -> {"new", "next", "probe", "create", "copy", "verify"} \cup Wrapup]
BY CarvingFacts DEF IInv, TypeOK, Fail, FailedPlan

(* The same of the end of a recovery on a full disk.                       *)
LEMMA StopFullTypes ==
    ASSUME IInv, NEW r \in Run, StopFull(r)
    PROVE  /\ errors' \in [Run -> SUBSET Index]
           /\ at' \in [Run -> 0 .. Len(plans)]
           /\ pc' \in [Run -> {"new", "next", "probe", "create", "copy", "verify"} \cup Wrapup]
           /\ nospace' \in [Run -> BOOLEAN]
BY DEF IInv, TypeOK, StopFull, Wrapup

(* Overwriting a chunk leaves a file of chunks.                            *)
LEMMA PutType ==
    ASSUME NEW c \in Seq(Bytes), NEW k \in Nat \ {0}, NEW b \in Bytes
    PROVE  Put(c, k, b) \in Seq(Bytes)
BY DEF Put, Bytes

(* Removing a file, or failing to, keeps the type of dir.                  *)
LEMMA RemoveType ==
    ASSUME IInv, NEW r \in Run, Remove(r)
    PROVE  dir' \in [Path -> Inode \cup {NoFile}]
BY DEF IInv, TypeOK, Remove

(* Every step keeps the types.                                             *)
LEMMA TypeStep ==
    ASSUME IInv, NEW r \in Run, Moves(r)
    PROVE  TypeOK'
<1>1. TypeOK /\ plans' = plans /\ IsPlanList(plans)'
  BY DEF IInv, Moves, TypeOK
<1>2. CASE Start(r)
  BY <1>2, <1>1 DEF Start, fs, book, TypeOK, Wrapup, Over
<1>3. CASE EnterDir(r)
  <2>1. dirs' \in SUBSET Types
    BY <1>3, <1>1, CarvingFacts DEF EnterDir, TypeOK
  <2>2. QED
    BY <1>3, <1>1, <2>1 DEF EnterDir, TypeOK, book
<1>4. CASE EnterDirFails(r)
  <2>1. at[r] < Len(plans) /\ Fail(r) /\ nospace' \in [Run -> BOOLEAN]
    BY <1>4, <1>1 DEF EnterDirFails, TypeOK
  <2>2. faults' \in 0 .. MaxFaults
    BY <1>4, <1>1, RecoveryAssumption DEF EnterDirFails, Fault, TypeOK
  <2>3. QED
    BY <1>4, <1>1, <2>1, <2>2, FailTypes DEF EnterDirFails, TypeOK, fs
<1>5. CASE Probe(r)
  <2>1. counter[r] \in 1 .. MaxCounter /\ counter[r] + 1 \in 1 .. MaxCounter
    <3>1. counter[r] < MaxCounter
      BY <1>5, NumbersLeft DEF Probe
    <3>2. MaxCounter \in Nat
      BY BoundsAreNumbers
    <3>3. QED
      BY <1>1, <3>1, <3>2 DEF TypeOK
  <2>2. <<Plan(r).type, counter[r]>> \in Path
    BY <1>5, <2>1, CarvingFacts DEF Probe, Path
  <2>3. counter' \in [Run -> 1 .. MaxCounter]
    BY <1>5, <1>1, <2>1 DEF Probe, TypeOK, NextNumber
  <2>4. path' \in [Run -> Path \cup {NoFile}]
    BY <1>5, <1>1, <2>2 DEF Probe, TypeOK
  <2>5. QED
    BY <1>5, <1>1, <2>3, <2>4 DEF Probe, TypeOK, fs, book
<1>5a. CASE ProbeFails(r)
  <2>1. counter[r] \in 1 .. MaxCounter /\ counter[r] + 1 \in 1 .. MaxCounter
    <3>1. counter[r] < MaxCounter
      BY <1>5a, NumbersLeft DEF ProbeFails
    <3>2. MaxCounter \in Nat
      BY BoundsAreNumbers
    <3>3. QED
      BY <1>1, <3>1, <3>2 DEF TypeOK
  <2> DEFINE f == <<Plan(r).type, counter[r]>>
  <2>2. f \in Path /\ dir[f] \in Inode
    <3>1. f \in Path
      BY <1>5a, <2>1, CarvingFacts DEF ProbeFails, Path
    <3>2. QED
      BY <1>5a, <1>1, <3>1 DEF ProbeFails, Exists, TypeOK
  <2>3. counter' \in [Run -> 1 .. MaxCounter]
    BY <1>5a, <1>1, <2>1 DEF ProbeFails, TypeOK, NextNumber
  <2>4. path' \in [Run -> Path \cup {NoFile}] /\ overlooked' \subseteq Run \X Path \X Inode
    <3>1. /\ path' = [path EXCEPT ![r] = f]
          /\ overlooked' = overlooked \cup {<<r, f, dir[f]>>}
      BY <1>5a DEF ProbeFails
    <3> HIDE DEF f
    <3>2. <<r, f, dir[f]>> \in Run \X Path \X Inode
      BY <2>2
    <3>3. QED
      BY <1>1, <2>2, <3>1, <3>2 DEF TypeOK
  <2>5. faults' \in 0 .. MaxFaults
    BY <1>5a, <1>1, RecoveryAssumption DEF ProbeFails, Fault, TypeOK
  <2>6. QED
    BY <1>5a, <1>1, <2>3, <2>4, <2>5 DEF ProbeFails, TypeOK, fs, book
<1>6. CASE Create(r)
  <2> DEFINE n == Mine(r)
  <2>1. path[r] \in Path /\ n \in Inode
    BY <1>6, CarvingFacts DEF Create, HasPath
  <2>2. /\ dir' = [dir EXCEPT ![path[r]] = n]
        /\ data' = [data EXCEPT ![n] = << >>]
        /\ handle' = [handle EXCEPT ![r] = n]
    BY <1>6 DEF Create, Mine
  <2>3. << >> \in Seq(Bytes)
    OBVIOUS
  <2> HIDE DEF n
  <2>4. /\ dir' \in [Path -> Inode \cup {NoFile}]
        /\ data' \in [Inode -> Seq(Bytes)]
        /\ handle' \in [Run -> Inode]
    BY <1>1, <2>1, <2>2, <2>3 DEF TypeOK
  <2>5. QED
    BY <1>6, <1>1, <2>4 DEF Create, TypeOK, book
<1>7. CASE CreateFails(r)
  <2>1. at[r] < Len(plans)
    BY <1>7, CarvingFacts DEF CreateFails, HasPath
  <2>2. faults' \in 0 .. MaxFaults
    BY <1>7, <1>1, RecoveryAssumption DEF CreateFails, Fault, TypeOK
  <2>3. CASE Fail(r) /\ UNCHANGED nospace
    BY <1>7, <1>1, <2>1, <2>2, <2>3, FailTypes DEF CreateFails, TypeOK, fs
  <2>4. CASE StopFull(r)
    BY <1>7, <1>1, <2>2, <2>4, StopFullTypes DEF CreateFails, TypeOK, fs
  <2>5. QED
    BY <1>7, <2>3, <2>4 DEF CreateFails
<1>8. CASE CopyChunk(r)
  <2>1. handle[r] \in Inode /\ off[r] + 1 \in Nat \ {0} /\ data[handle[r]] \in Seq(Bytes)
    BY <1>1 DEF TypeOK
  <2>2. SourceChunk(r) \in Bytes
    BY <1>8, <2>1, CarvingFacts DEF CopyChunk, HasPath, SourceChunk, Bytes
  <2>3. data' \in [Inode -> Seq(Bytes)]
    BY <1>8, <1>1, <2>1, <2>2, PutType DEF CopyChunk, TypeOK
  <2>4. QED
    BY <1>8, <1>1, <2>1, <2>3 DEF CopyChunk, TypeOK, book
<1>9. CASE ReadFails(r)
  <2>1. at[r] < Len(plans) /\ Fail(r)
    BY <1>9, CarvingFacts DEF ReadFails, HasPath
  <2>2. faults' \in 0 .. MaxFaults
    BY <1>9, <1>1, RecoveryAssumption DEF ReadFails, Fault, TypeOK
  <2>3. QED
    BY <1>9, <1>1, <2>1, <2>2, FailTypes DEF ReadFails, TypeOK, fs
<1>10. CASE WriteFails(r)
  <2>1. at[r] < Len(plans)
    BY <1>10, CarvingFacts DEF WriteFails, HasPath
  <2>2. faults' \in 0 .. MaxFaults
    BY <1>10, <1>1, RecoveryAssumption DEF WriteFails, Fault, TypeOK
  <2>3. handle[r] \in Inode /\ off[r] + 1 \in Nat \ {0} /\ data[handle[r]] \in Seq(Bytes)
    BY <1>1 DEF TypeOK
  <2>4. SourceChunk(r) \in Bytes /\ Torn \in Bytes
    BY <1>10, <2>3, CarvingFacts DEF WriteFails, HasPath, SourceChunk, Bytes
  <2>5. data' \in [Inode -> Seq(Bytes)]
    <3>1. CASE data' = data
      BY <1>1, <3>1 DEF TypeOK
    <3>2. CASE \E b \in {Torn, SourceChunk(r)} :
                  data' = [data EXCEPT ![handle[r]] = Put(data[handle[r]], off[r] + 1, b)]
      <4>1. PICK b \in Bytes : data' = [data EXCEPT ![handle[r]] = Put(data[handle[r]], off[r] + 1, b)]
        BY <2>4, <3>2
      <4>2. Put(data[handle[r]], off[r] + 1, b) \in Seq(Bytes)
        BY <2>3, PutType
      <4>3. QED
        BY <1>1, <4>1, <4>2 DEF TypeOK
    <3>3. QED
      BY <1>10, <3>1, <3>2 DEF WriteFails
  <2>6. CASE Fail(r) /\ UNCHANGED nospace
    BY <1>10, <1>1, <2>1, <2>2, <2>5, <2>6, FailTypes DEF WriteFails, TypeOK
  <2>7. CASE StopFull(r)
    BY <1>10, <1>1, <2>2, <2>5, <2>7, StopFullTypes DEF WriteFails, TypeOK
  <2>8. QED
    BY <1>10, <2>6, <2>7 DEF WriteFails
<1>11. CASE GiveUp(r)
  <2>1. at[r] < Len(plans)
    BY <1>11, CarvingFacts DEF GiveUp, HasPath
  <2>2. dir' \in [Path -> Inode \cup {NoFile}]
    BY <1>11, RemoveType DEF GiveUp
  <2>3. at' \in [Run -> 0 .. Len(plans)] /\ errors' \in [Run -> SUBSET Index]
    BY <1>11, <1>1, <2>1, CarvingFacts DEF GiveUp, TypeOK, FailedPlan
  <2>4. QED
    BY <1>11, <1>1, <2>2, <2>3 DEF GiveUp, TypeOK, Wrapup
<1>12. CASE Enter(r)
  <2>1. at[r] < Len(plans) /\ path[r] \in Path
    BY <1>12, CarvingFacts DEF Enter, HasPath
  <2>2. [file |-> path[r], plan |-> at[r] + 1] \in [file : Path, plan : Index]
    BY <2>1, CarvingFacts
  <2>3. Append(entries[r], [file |-> path[r], plan |-> at[r] + 1])
          \in Seq([file : Path, plan : Index])
    <3>1. \A S, s, x : s \in Seq(S) /\ x \in S => Append(s, x) \in Seq(S)
      OBVIOUS
    <3>2. entries[r] \in Seq([file : Path, plan : Index])
      BY <1>1 DEF TypeOK
    <3>3. QED
      BY <2>2, <3>1, <3>2, Zenon
  <2>4. entries' \in [Run -> Seq([file : Path, plan : Index])]
    BY <1>12, <1>1, <2>3 DEF Enter, TypeOK
  <2>5. at' \in [Run -> 0 .. Len(plans)]
    BY <1>12, <1>1, <2>1, CarvingFacts DEF Enter, TypeOK
  <2>6. QED
    BY <1>12, <1>1, <2>4, <2>5 DEF Enter, TypeOK, fs
<1>13. CASE Discard(r)
  <2>1. at[r] < Len(plans) /\ Fail(r)
    BY <1>13, CarvingFacts DEF Discard, HasPath
  <2>2. faults' \in 0 .. MaxFaults
    BY <1>13, <1>1, RecoveryAssumption DEF Discard, Fault, TypeOK
  <2>3. dir' \in [Path -> Inode \cup {NoFile}]
    BY <1>13, RemoveType DEF Discard
  <2>4. QED
    BY <1>13, <1>1, <2>1, <2>2, <2>3, FailTypes DEF Discard, TypeOK
<1>14. CASE EndLoop(r)
  BY <1>14, <1>1 DEF EndLoop, fs, book, TypeOK, Wrapup, Over
<1>15. CASE OpenLog(r)
  BY <1>15, <1>1 DEF OpenLog, fs, book, TypeOK, Wrapup, Over
<1>16. CASE FillLog(r)
  BY <1>16, <1>1 DEF FillLog, fs, book, TypeOK, Wrapup, Over
<1>17. CASE LogFails(r)
  <2>1. faults' \in 0 .. MaxFaults
    BY <1>17, <1>1, RecoveryAssumption DEF LogFails, Fault, TypeOK
  <2>2. QED
    BY <1>17, <1>1, <2>1 DEF LogFails, TypeOK, fs, book, Wrapup, Over
<1>18. CASE Kill(r)
  <2>1. faults' \in 0 .. MaxFaults
    BY <1>18, <1>1, RecoveryAssumption DEF Kill, Fault, TypeOK
  <2>2. QED
    BY <1>18, <1>1, <2>1 DEF Kill, TypeOK, fs, book, Wrapup, Over
<1>19. QED
  BY <1>2, <1>3, <1>4, <1>5, <1>5a, <1>6, <1>7, <1>8, <1>9, <1>10, <1>11, <1>12,
     <1>13, <1>14, <1>15, <1>16, <1>17, <1>18 DEF Moves, Step

(* No file is called like one that is not there or that is foreign.        *)
LEMMA NamesDiffer ==
    /\ NoFile # Foreign /\ NoFile # Scrap /\ Foreign # Scrap
    /\ \A a, b : <<a, b>> \notin {NoFile, Foreign, Scrap}
BY DEF NoFile, Foreign, Scrap

(* A step changes no path but the one its run has chosen, where it creates *)
(* or removes the file of its plan, or one it overlooked, and writes no    *)
(* file but that of its plan.                                              *)
LEMMA FilesKept ==
    ASSUME IInv, NEW r \in Run, Moves(r)
    PROVE  /\ \A f \in Path : dir'[f] # dir[f] =>
                 /\ pc[r] \in HasPath /\ f = path[r]
                 /\ \/ dir[f] \in {NoFile, Mine(r)}
                    \/ Astray(r) /\ pc[r] \in {"create", "full"}
                 /\ dir'[f] = NoFile \/ (dir'[f] = Mine(r) /\ pc[r] = "create")
           /\ \A n \in Inode : data'[n] # data[n] =>
                 n = Mine(r) /\ pc[r] \in {"create", "copy"}
<1>1. /\ dir \in [Path -> Inode \cup {NoFile}]
      /\ data \in [Inode -> Seq(Bytes)]
      /\ Writing
  BY DEF IInv, TypeOK
<1>2. CASE Start(r)
  BY <1>2 DEF Start, fs
<1>3. CASE EnterDir(r)
  BY <1>3 DEF EnterDir
<1>4. CASE EnterDirFails(r)
  BY <1>4 DEF EnterDirFails, fs
<1>5. CASE Probe(r)
  BY <1>5 DEF Probe, fs
<1>5a. CASE ProbeFails(r)
  BY <1>5a DEF ProbeFails, fs
<1>6. CASE Create(r)
  <2>1. (dir[path[r]] = NoFile \/ Astray(r)) /\ path[r] \in Path
    BY <1>6, <1>1, CarvingFacts DEF Create, HasPath, Writing
  <2>2. /\ dir' = [dir EXCEPT ![path[r]] = Mine(r)]
        /\ data' = [data EXCEPT ![Mine(r)] = << >>]
        /\ pc[r] = "create"
    BY <1>6 DEF Create, Mine
  <2>3. QED
    BY <1>1, <2>1, <2>2 DEF HasPath
<1>7. CASE CreateFails(r)
  BY <1>7 DEF CreateFails, fs
<1>8. CASE CopyChunk(r)
  <2>1. handle[r] = Mine(r) /\ dir' = dir /\ pc[r] = "copy"
    BY <1>8, <1>1 DEF CopyChunk, Writing
  <2>2. data' = [data EXCEPT ![Mine(r)] = Put(data[Mine(r)], off[r] + 1, SourceChunk(r))]
    BY <1>8, <2>1 DEF CopyChunk
  <2>3. QED
    BY <1>1, <2>1, <2>2
<1>9. CASE ReadFails(r)
  BY <1>9 DEF ReadFails, fs
<1>10. CASE WriteFails(r)
  <2>1. handle[r] = Mine(r) /\ dir' = dir /\ pc[r] = "copy"
    BY <1>10, <1>1 DEF WriteFails, Writing
  <2>2. \/ data' = data
        \/ \E b : data' = [data EXCEPT ![Mine(r)] = Put(data[Mine(r)], off[r] + 1, b)]
    BY <1>10, <2>1 DEF WriteFails
  <2>3. QED
    BY <1>1, <2>1, <2>2
<1>11. CASE GiveUp(r)
  <2>1. /\ dir[path[r]] \in {NoFile, Mine(r)} \/ (Astray(r) /\ pc[r] = "full")
        /\ path[r] \in Path /\ pc[r] \in HasPath /\ data' = data
    BY <1>11, <1>1, CarvingFacts DEF GiveUp, HasPath, Writing
  <2>2. dir' \in {dir, [dir EXCEPT ![path[r]] = NoFile]}
    BY <1>11 DEF GiveUp, Remove
  <2>3. QED
    BY <1>1, <2>1, <2>2
<1>12. CASE Enter(r)
  BY <1>12 DEF Enter, fs
<1>13. CASE Discard(r)
  <2>1. /\ dir[path[r]] \in {NoFile, Mine(r)} /\ path[r] \in Path
        /\ pc[r] \in HasPath /\ data' = data
    BY <1>13, <1>1, CarvingFacts DEF Discard, HasPath, Writing
  <2>2. dir' \in {dir, [dir EXCEPT ![path[r]] = NoFile]}
    BY <1>13 DEF Discard, Remove
  <2>3. QED
    BY <1>1, <2>1, <2>2
<1>14. CASE EndLoop(r)
  BY <1>14 DEF EndLoop, fs
<1>15. CASE OpenLog(r)
  BY <1>15 DEF OpenLog, fs
<1>16. CASE FillLog(r)
  BY <1>16 DEF FillLog, fs
<1>17. CASE LogFails(r)
  BY <1>17 DEF LogFails, fs
<1>18. CASE Kill(r)
  BY <1>18 DEF Kill, fs
<1>19. QED
  BY <1>2, <1>3, <1>4, <1>5, <1>5a, <1>6, <1>7, <1>8, <1>9, <1>10, <1>11, <1>12,
     <1>13, <1>14, <1>15, <1>16, <1>17, <1>18 DEF Moves, Step

(* Runs still do not overlap.                                              *)
LEMMA OneLiveStep ==
    ASSUME IInv, NEW r \in Run, Moves(r)
    PROVE  OneLive'
<1>1. \A q \in Run \ {r} : pc'[q] \in Over \cup {"new"}
  BY OthersWait DEF Own
<1>2. QED
  BY <1>1 DEF OneLive, Live

(* A run that is over or has not begun keeps its place.                    *)
LEMMA InPlanStep ==
    ASSUME IInv, NEW r \in Run, Moves(r)
    PROVE  InPlan'
<1> DEFINE Place(q) ==
              /\ pc[q] = "new" => at[q] = 0 /\ counter[q] = 1
              /\ pc[q] \in {"probe"} \cup HasPath => at[q] < Len(plans)
              /\ pc[q] \in HasPath => path[q] \in Path /\ path[q][2] < counter[q]
<1>1. ASSUME NEW q \in Run \ {r} PROVE Place(q)'
  <2>1. pc[q] \in Over \cup {"new"} /\ UNCHANGED Own(q)
    BY OthersWait
  <2>2. Place(q)
    BY DEF IInv, InPlan
  <2>3. QED
    BY <2>1, <2>2 DEF Own, Over, HasPath
<1>2. Place(r)'
  <2>0. /\ TypeOK /\ Place(r) /\ plans' = plans
        /\ counter[r] \in 1 .. MaxCounter
    BY DEF IInv, InPlan, Moves, TypeOK
  <2>1. CASE Start(r)
    BY <2>1, <2>0 DEF Start, fs, TypeOK, HasPath, Wrapup, Over
  <2>2. CASE EnterDir(r)
    BY <2>2, <2>0 DEF EnterDir, TypeOK, HasPath, Wrapup, Over
  <2>3. CASE EnterDirFails(r)
    BY <2>3, <2>0 DEF EnterDirFails, fs, Fail, TypeOK, HasPath, Wrapup, Over
  <2>4. CASE Probe(r)
    <3>1. counter[r] \in 1 .. MaxCounter
      BY <2>0
    <3>2. <<Plan(r).type, counter[r]>> \in Path
      BY <2>4, <3>1, CarvingFacts DEF Probe, Path
    <3>3. counter[r] \in Nat /\ counter'[r] = counter[r] + 1
      <4>1. counter[r] \in Nat
        BY <3>1, BoundsAreNumbers
      <4>2. QED
        BY <2>4, <2>0, <4>1 DEF Probe, NextNumber, TypeOK
    <3>4. \/ pc'[r] = "probe"
          \/ pc'[r] = "create" /\ path'[r] = <<Plan(r).type, counter[r]>>
      BY <2>4, <2>0 DEF Probe, TypeOK
    <3>5. at' = at /\ pc[r] = "probe" /\ at[r] < Len(plans)
      BY <2>4, <2>0 DEF Probe
    <3>6. QED
      BY <2>0, <3>2, <3>3, <3>4, <3>5 DEF HasPath
  <2>4a. CASE ProbeFails(r)
    <3>1. counter[r] \in 1 .. MaxCounter
      BY <2>0
    <3>2. <<Plan(r).type, counter[r]>> \in Path
      BY <2>4a, <3>1, CarvingFacts DEF ProbeFails, Path
    <3>3. counter[r] \in Nat /\ counter'[r] = counter[r] + 1
      <4>1. counter[r] \in Nat
        BY <3>1, BoundsAreNumbers
      <4>2. QED
        BY <2>4a, <2>0, <4>1 DEF ProbeFails, NextNumber, TypeOK
    <3>4. /\ pc'[r] = "create" /\ path'[r] = <<Plan(r).type, counter[r]>>
          /\ at' = at /\ pc[r] = "probe" /\ at[r] < Len(plans)
      BY <2>4a, <2>0 DEF ProbeFails, TypeOK
    <3>5. QED
      BY <2>0, <3>2, <3>3, <3>4 DEF HasPath
  <2>5. CASE Create(r)
    BY <2>5, <2>0 DEF Create, TypeOK, HasPath, Wrapup, Over
  <2>6. CASE CreateFails(r)
    BY <2>6, <2>0 DEF CreateFails, fs, Fail, StopFull, TypeOK, HasPath, Wrapup,
       Over
  <2>7. CASE CopyChunk(r)
    BY <2>7, <2>0 DEF CopyChunk, TypeOK, HasPath, Wrapup, Over
  <2>8. CASE ReadFails(r)
    BY <2>8, <2>0 DEF ReadFails, fs, Fail, TypeOK, HasPath, Wrapup, Over
  <2>9. CASE WriteFails(r)
    BY <2>9, <2>0 DEF WriteFails, Fail, StopFull, TypeOK, HasPath, Wrapup, Over
  <2>10. CASE GiveUp(r)
    BY <2>10, <2>0 DEF GiveUp, TypeOK, HasPath, Wrapup, Over
  <2>11. CASE Enter(r)
    BY <2>11, <2>0 DEF Enter, fs, TypeOK, HasPath, Wrapup, Over
  <2>12. CASE Discard(r)
    BY <2>12, <2>0 DEF Discard, Fail, TypeOK, HasPath, Wrapup, Over
  <2>13. CASE EndLoop(r)
    BY <2>13, <2>0 DEF EndLoop, fs, TypeOK, HasPath, Wrapup, Over
  <2>14. CASE OpenLog(r)
    BY <2>14, <2>0 DEF OpenLog, fs, TypeOK, HasPath, Wrapup, Over
  <2>15. CASE FillLog(r)
    BY <2>15, <2>0 DEF FillLog, fs, TypeOK, HasPath, Wrapup, Over
  <2>16. CASE LogFails(r)
    BY <2>16, <2>0 DEF LogFails, fs, TypeOK, HasPath, Wrapup, Over
  <2>17. CASE Kill(r)
    BY <2>17, <2>0 DEF Kill, fs, TypeOK, HasPath, Wrapup, Over
  <2>18. QED
    BY <2>1, <2>2, <2>3, <2>4, <2>4a, <2>5, <2>6, <2>7, <2>8, <2>9, <2>10, <2>11,
       <2>12, <2>13, <2>14, <2>15, <2>16, <2>17 DEF Moves, Step
<1>3. QED
  BY <1>1, <1>2 DEF InPlan

(* A run stays with its plan or leaves it behind, dealt with.              *)
LEMMA Course ==
    ASSUME IInv, NEW r \in Run, Moves(r)
    PROVE  /\ pc[r] \notin Over /\ at'[r] \in {at[r], at[r] + 1}
           /\ \/ counter'[r] = counter[r]
              \/ pc[r] = "probe" /\ counter'[r] = counter[r] + 1
           /\ pc[r] \in HasFile => \/ at'[r] = at[r] + 1
                                   \/ pc'[r] = "dead"
                                   \/ pc'[r] \in HasFile /\ path'[r] = path[r]
           /\ pc[r] = "create" =>
                 \/ pc'[r] \in HasFile /\ path'[r] = path[r] /\ at'[r] = at[r]
                 \/ UNCHANGED <<dir, data>>
           /\ overlooked' = overlooked \/ ProbeFails(r)
<1>1. TypeOK
  BY DEF IInv
<1>2. CASE Start(r)
  BY <1>2, <1>1 DEF Start, fs, TypeOK, HasFile, Over
<1>3. CASE EnterDir(r)
  BY <1>3, <1>1 DEF EnterDir, TypeOK, HasFile, Over
<1>4. CASE EnterDirFails(r)
  BY <1>4, <1>1 DEF EnterDirFails, fs, Fail, TypeOK, HasFile, Over
<1>5. CASE Probe(r)
  BY <1>5, <1>1 DEF Probe, fs, NextNumber, TypeOK, HasFile, Over
<1>5a. CASE ProbeFails(r)
  BY <1>5a, <1>1 DEF ProbeFails, fs, NextNumber, TypeOK, HasFile, Over
<1>6. CASE Create(r)
  BY <1>6, <1>1 DEF Create, TypeOK, HasFile, Over
<1>7. CASE CreateFails(r)
  BY <1>7, <1>1 DEF CreateFails, fs, Fail, StopFull, TypeOK, HasFile, Over
<1>8. CASE CopyChunk(r)
  BY <1>8, <1>1 DEF CopyChunk, TypeOK, HasFile, Over
<1>9. CASE ReadFails(r)
  BY <1>9, <1>1 DEF ReadFails, fs, Fail, TypeOK, HasFile, Over
<1>10. CASE WriteFails(r)
  BY <1>10, <1>1 DEF WriteFails, Fail, StopFull, TypeOK, HasFile, Over
<1>11. CASE GiveUp(r)
  BY <1>11, <1>1 DEF GiveUp, TypeOK, HasFile, Over
<1>12. CASE Enter(r)
  BY <1>12, <1>1 DEF Enter, fs, TypeOK, HasFile, Over
<1>13. CASE Discard(r)
  BY <1>13, <1>1 DEF Discard, Fail, TypeOK, HasFile, Over
<1>14. CASE EndLoop(r)
  BY <1>14, <1>1 DEF EndLoop, fs, TypeOK, HasFile, Over
<1>15. CASE OpenLog(r)
  BY <1>15, <1>1 DEF OpenLog, fs, TypeOK, HasFile, Over
<1>16. CASE FillLog(r)
  BY <1>16, <1>1 DEF FillLog, fs, TypeOK, HasFile, Over
<1>17. CASE LogFails(r)
  BY <1>17, <1>1 DEF LogFails, fs, TypeOK, HasFile, Over
<1>18. CASE Kill(r)
  BY <1>18, <1>1 DEF Kill, fs, TypeOK, HasFile, Over
<1>19. QED
  BY <1>2, <1>3, <1>4, <1>5, <1>5a, <1>6, <1>7, <1>8, <1>9, <1>10, <1>11, <1>12,
     <1>13, <1>14, <1>15, <1>16, <1>17, <1>18 DEF Moves, Step

(* Files still have one path each, in their run's list.                    *)
LEMMA FiledStep ==
    ASSUME IInv, NEW r \in Run, Moves(r)
    PROVE  Filed'
<1>1. Filed /\ at[r] \in Nat /\ pc[r] \notin Over
  BY CarvingFacts, Course DEF IInv
<1>2. ASSUME NEW f \in Path, dir'[f] # dir[f]
      PROVE  pc[r] \in HasPath /\ f = path[r] /\ dir'[f] \in {NoFile, Mine(r)}
  BY <1>2, FilesKept
<1>3. ASSUME NEW f \in Path, dir'[f] = Foreign PROVE f \in Earlier
  <2>1. dir[f] = Foreign
    BY <1>2, <1>3, NamesDiffer DEF Mine
  <2>2. QED
    BY <1>1, <2>1 DEF Filed
<1>4. ASSUME NEW f \in Path, dir[f] = Mine(r), pc[r] \in HasPath
      PROVE  pc[r] \in HasFile /\ f = path[r]
  <2>1. at[r] + 1 \in Index
    BY <1>4, CarvingFacts
  <2>2. QED
    BY <1>1, <1>4, <2>1 DEF Filed, Mine, Over
<1>5. ASSUME NEW f \in Path, NEW g \in Path, dir'[f] = dir'[g],
             dir'[f] \notin {NoFile, Foreign}
      PROVE  f = g
  <2>1. CASE dir'[f] = dir[f] /\ dir'[g] = dir[g]
    BY <1>1, <1>5, <2>1 DEF Filed
  <2>2. CASE dir'[f] # dir[f]
    BY <1>2, <1>4, <1>5, <2>2
  <2>3. CASE dir'[g] # dir[g]
    BY <1>2, <1>4, <1>5, <2>3
  <2>4. QED
    BY <2>1, <2>2, <2>3
<1>6. ASSUME NEW f \in Path, NEW q \in Run, NEW k \in Index, dir'[f] = <<q, k>>
      PROVE  \/ k <= at'[q]
             \/ k = at'[q] + 1 /\ pc'[q] = "dead"
             \/ k = at'[q] + 1 /\ pc'[q] \in HasFile /\ f = path'[q]
  <2>1. CASE q # r
    <3>1. dir[f] = <<q, k>>
      BY <1>2, <1>6, <2>1, NamesDiffer DEF Mine
    <3>2. UNCHANGED <<at[q], pc[q], path[q]>>
      BY <2>1, OthersWait DEF Own
    <3>3. QED
      BY <1>1, <3>1, <3>2 DEF Filed
  <2>2. CASE q = r
    <3>1. at'[r] \in {at[r], at[r] + 1}
      BY Course
    <3>2. \/ k <= at[r]
          \/ k = at[r] + 1 /\ f = path[r] /\ pc[r] \in HasFile \cup {"create"}
      <4>1. CASE dir'[f] = dir[f]
        BY <1>1, <1>6, <2>2, <4>1 DEF Filed, Over
      <4>2. CASE dir'[f] # dir[f]
        <5>1. k = at[r] + 1 /\ f = path[r] /\ pc[r] \in HasPath
          BY <1>2, <1>6, <2>2, <4>2, NamesDiffer DEF Mine
        <5>2. QED
          BY <5>1 DEF HasPath, HasFile
      <4>3. QED
        BY <4>1, <4>2
    <3>3. CASE k <= at[r]
      BY <1>1, <2>2, <3>1, <3>3 DEF Index
    <3>4. CASE k = at[r] + 1 /\ f = path[r] /\ pc[r] \in HasFile
      BY <1>1, <2>2, <3>1, <3>4, Course
    <3>5. CASE k = at[r] + 1 /\ f = path[r] /\ pc[r] = "create"
      <4>1. dir[f] # <<r, k>>
        <5>1. dir[f] = NoFile \/ <<r, f, dir[f]>> \in overlooked
          BY <3>5 DEF IInv, Writing, Astray
        <5>2. <<r, f, dir[f]>> \in overlooked => dir[f] \notin {r} \X Index
          BY DEF IInv, Unseen
        <5>3. QED
          BY <5>1, <5>2, NamesDiffer
      <4>2. dir'[f] # dir[f]
        BY <1>6, <2>2, <4>1
      <4>3. pc'[r] \in HasFile /\ path'[r] = path[r]
        BY <3>5, <4>2, Course
      <4>4. QED
        BY <1>1, <2>2, <3>1, <3>5, <4>3
    <3>6. QED
      BY <3>2, <3>3, <3>4, <3>5
  <2>3. QED
    BY <2>1, <2>2
<1>7. ASSUME NEW f \in Path, NEW q \in Run, NEW k \in Index, dir'[f] = <<q, k>>
      PROVE  f[2] < counter'[q]
  <2>1. counter[q] \in Nat /\ counter[q] <= counter'[q] /\ counter'[q] \in Nat
    <3>1. counter[q] \in Nat
      BY BoundsAreNumbers DEF IInv, TypeOK
    <3>2. counter'[q] = counter[q] \/ counter'[q] = counter[q] + 1
      BY Course, OthersWait DEF Own
    <3>3. QED
      BY <3>1, <3>2
  <2>2. f[2] \in Nat
    BY DEF Path
  <2>3. CASE dir[f] = <<q, k>>
    BY <1>1, <2>1, <2>2, <2>3 DEF Filed
  <2>4. CASE dir[f] # <<q, k>>
    <3>1. q = r /\ f = path[r] /\ pc[r] \in HasPath
      BY <1>2, <1>7, <2>4, NamesDiffer DEF Mine
    <3>2. QED
      BY <2>1, <2>2, <3>1, CarvingFacts
  <2>5. QED
    BY <2>3, <2>4
<1>8. QED
  BY <1>3, <1>5, <1>6, <1>7 DEF Filed

(* A run overlooks no file of its own, and no number twice.                *)
LEMMA UnseenStep ==
    ASSUME IInv, NEW r \in Run, Moves(r)
    PROVE  Unseen'
<1>1. TypeOK /\ Unseen /\ Filed
  BY DEF IInv
<1>2. ASSUME NEW q \in Run
      PROVE  counter[q] \in Nat /\ counter'[q] \in Nat /\ counter[q] <= counter'[q]
  <2>1. counter[q] \in Nat
    BY <1>1, BoundsAreNumbers DEF TypeOK
  <2>2. counter'[q] = counter[q] \/ counter'[q] = counter[q] + 1
    BY Course, OthersWait DEF Own
  <2>3. QED
    BY <2>1, <2>2
<1>3. ASSUME NEW o \in overlooked
      PROVE  o[3] \notin {o[1]} \X Index /\ o[2][2] < counter'[o[1]]
  <2>1. o[1] \in Run /\ o[2][2] \in Nat
    BY <1>1 DEF TypeOK, Path
  <2>2. o[3] \notin {o[1]} \X Index /\ o[2][2] < counter[o[1]]
    BY <1>1 DEF Unseen
  <2>3. QED
    BY <1>2, <2>1, <2>2
<1>4. CASE overlooked' = overlooked
  BY <1>3, <1>4 DEF Unseen
<1>5. CASE ProbeFails(r)
  <2> DEFINE f == <<Plan(r).type, counter[r]>>
  <2>1. /\ overlooked' = overlooked \cup {<<r, f, dir[f]>>}
        /\ counter'[r] = counter[r] + 1 /\ pc[r] = "probe"
    BY <1>1, <1>5 DEF ProbeFails, NextNumber, TypeOK
  <2>2. f \in Path
    BY <1>1, <2>1, CarvingFacts DEF Path, TypeOK
  <2>3. dir[f] \notin {r} \X Index
    <3>1. counter[r] \in Nat /\ f[2] = counter[r]
      BY <1>2
    <3>2. QED
      BY <1>1, <2>2, <3>1 DEF Filed
  <2>4. f[2] < counter'[r]
    BY <1>2, <2>1
  <2>5. QED
    BY <1>3, <2>1, <2>3, <2>4 DEF Unseen
<1>6. QED
  BY <1>4, <1>5, Course

(* Log entries are of the right form.                                      *)
LEMMA EntryIsRecord ==
    ASSUME IInv, NEW q \in Run, NEW e \in Entries(q)
    PROVE  e \in [file : Path, plan : Index]
<1>1. entries[q] \in Seq([file : Path, plan : Index])
  BY DEF IInv, TypeOK
<1>2. \A S, s : s \in Seq(S) => \A k \in 1 .. Len(s) : s[k] \in S
  OBVIOUS
<1>3. PICK k \in 1 .. Len(entries[q]) : e = entries[q][k]
  BY DEF Entries
<1>4. QED
  BY <1>1, <1>2, <1>3, Zenon

(* A file that has an entry in the log.                                    *)
LEMMA EntryFacts ==
    ASSUME IInv, NEW q \in Run, NEW e \in Entries(q)
    PROVE  /\ e.file \in Path /\ e.plan \in Index /\ <<q, e.plan>> \in Inode
           /\ e.plan \in 1 .. at[q]
           /\ data[<<q, e.plan>>] = WholePlan(e.plan)
           /\ dir[e.file] = <<q, e.plan>> \/ Overlooked(e.file, <<q, e.plan>>)
<1>1. e \in [file : Path, plan : Index]
  BY EntryIsRecord
<1>2. e.plan \in Entered(q) /\ Entered(q) \subseteq 1 .. at[q]
  BY DEF Entered, IInv, Accounted
<1>3. QED
  BY <1>1, <1>2 DEF IInv, Logged, Inode

(* A run enters the path and number of its plan, and nothing else.         *)
LEMMA NewEntry ==
    ASSUME IInv, NEW r \in Run, Moves(r), entries'[r] # entries[r]
    PROVE  /\ Entries(r)' = Entries(r) \cup {[file |-> path[r], plan |-> at[r] + 1]}
           /\ pc[r] = "verify" /\ at'[r] = at[r] + 1 /\ pc'[r] = "next"
           /\ UNCHANGED <<dir, data, errors, nospace>>
<1>1. TypeOK
  BY DEF IInv
<1>2. CASE Start(r)
  BY <1>2, <1>1 DEF Start, fs, book, TypeOK
<1>3. CASE EnterDir(r)
  BY <1>3, <1>1 DEF EnterDir, book, TypeOK
<1>4. CASE EnterDirFails(r)
  BY <1>4, <1>1 DEF EnterDirFails, fs, Fail, TypeOK
<1>5. CASE Probe(r)
  BY <1>5, <1>1 DEF Probe, fs, book, TypeOK
<1>5a. CASE ProbeFails(r)
  BY <1>5a, <1>1 DEF ProbeFails, fs, book, TypeOK
<1>6. CASE Create(r)
  BY <1>6, <1>1 DEF Create, book, TypeOK
<1>7. CASE CreateFails(r)
  BY <1>7, <1>1 DEF CreateFails, fs, Fail, StopFull, TypeOK
<1>8. CASE CopyChunk(r)
  BY <1>8, <1>1 DEF CopyChunk, book, TypeOK
<1>9. CASE ReadFails(r)
  BY <1>9, <1>1 DEF ReadFails, fs, Fail, TypeOK
<1>10. CASE WriteFails(r)
  BY <1>10, <1>1 DEF WriteFails, Fail, StopFull, TypeOK
<1>11. CASE GiveUp(r)
  BY <1>11, <1>1 DEF GiveUp, TypeOK
<1>12. CASE Enter(r)
  <2> DEFINE e == [file |-> path[r], plan |-> at[r] + 1]
  <2>1. \A S, s, x : s \in Seq(S) => {Append(s, x)[k] : k \in 1 .. Len(Append(s, x))}
                                        = {s[k] : k \in 1 .. Len(s)} \cup {x}
    <3> SUFFICES ASSUME NEW S, NEW s \in Seq(S), NEW x
                 PROVE  {Append(s, x)[k] : k \in 1 .. Len(Append(s, x))}
                           = {s[k] : k \in 1 .. Len(s)} \cup {x}
      OBVIOUS
    <3>1. /\ Len(Append(s, x)) = Len(s) + 1 /\ Len(s) \in Nat
          /\ \A k \in 1 .. Len(s) : Append(s, x)[k] = s[k]
          /\ Append(s, x)[Len(s) + 1] = x
      OBVIOUS
    <3>2. QED
      BY <3>1
  <2>2. entries'[r] = Append(entries[r], e)
    BY <1>12, <1>1 DEF Enter, TypeOK
  <2>3. entries[r] \in Seq([file : Path, plan : Index])
    BY <1>1 DEF TypeOK
  <2>4. Entries(r)' = Entries(r) \cup {e}
    BY <2>1, <2>2, <2>3 DEF Entries
  <2>5. QED
    BY <1>12, <1>1, <2>4 DEF Enter, TypeOK, fs
<1>13. CASE Discard(r)
  BY <1>13, <1>1 DEF Discard, Fail, TypeOK
<1>14. CASE EndLoop(r)
  BY <1>14, <1>1 DEF EndLoop, fs, book, TypeOK
<1>15. CASE OpenLog(r)
  BY <1>15, <1>1 DEF OpenLog, fs, book, TypeOK
<1>16. CASE FillLog(r)
  BY <1>16, <1>1 DEF FillLog, fs, book, TypeOK
<1>17. CASE LogFails(r)
  BY <1>17, <1>1 DEF LogFails, fs, book, TypeOK
<1>18. CASE Kill(r)
  BY <1>18, <1>1 DEF Kill, fs, book, TypeOK
<1>19. QED
  BY <1>2, <1>3, <1>4, <1>5, <1>5a, <1>6, <1>7, <1>8, <1>9, <1>10, <1>11, <1>12,
     <1>13, <1>14, <1>15, <1>16, <1>17, <1>18 DEF Moves, Step

(* The running run still knows what its file holds.                        *)
LEMMA WritingStep ==
    ASSUME IInv, NEW r \in Run, Moves(r)
    PROVE  Writing'
<1> DEFINE Write(q) ==
              /\ pc[q] = "create" => dir[path[q]] = NoFile \/ Astray(q)
              /\ pc[q] \in {"copy", "verify"} =>
                    handle[q] = Mine(q) /\ dir[path[q]] = Mine(q)
              /\ pc[q] = "copy" =>
                    /\ off[q] < Plan(q).size
                    /\ data[Mine(q)] = [j \in 1 .. off[q] |-> <<at[q] + 1, j>>]
              /\ pc[q] = "verify" => data[Mine(q)] = WholePlan(at[q] + 1)
              /\ pc[q] = "full" => dir[path[q]] \in {NoFile, Mine(q)} \/ Astray(q)
<1>1. ASSUME NEW q \in Run \ {r} PROVE Write(q)'
  <2>1. pc'[q] \in Over \cup {"new"}
    BY OthersWait DEF Own
  <2>2. QED
    BY <2>1 DEF Over
<1>2. Write(r)'
  <2>0. TypeOK /\ Write(r) /\ plans' = plans
    BY DEF IInv, Writing, Moves
  <2>1. CASE Start(r)
    BY <2>1, <2>0 DEF Start, TypeOK
  <2>2. CASE EnterDir(r)
    BY <2>2, <2>0 DEF EnterDir, TypeOK
  <2>3. CASE EnterDirFails(r)
    BY <2>3, <2>0 DEF EnterDirFails, Fail, TypeOK
  <2>4. CASE Probe(r)
    <3>1. CASE pc'[r] = "create"
      <4>1. path'[r] = <<Plan(r).type, counter[r]>> /\ ~ Exists(<<Plan(r).type, counter[r]>>)
        BY <2>4, <2>0, <3>1 DEF Probe, TypeOK
      <4>2. dir'[path'[r]] = NoFile
        BY <2>4, <4>1 DEF Probe, Exists, fs
      <4>3. QED
        BY <3>1, <4>2
    <3>2. CASE pc'[r] # "create"
      BY <2>4, <2>0, <3>2 DEF Probe, TypeOK
    <3>3. QED
      BY <3>1, <3>2
  <2>4a. CASE ProbeFails(r)
    <3>1. LET f == <<Plan(r).type, counter[r]>> IN
          /\ pc'[r] = "create" /\ path'[r] = f
          /\ <<r, f, dir'[f]>> \in overlooked'
      BY <2>4a, <2>0 DEF ProbeFails, fs, TypeOK
    <3>2. QED
      BY <3>1 DEF Astray
  <2>5. CASE Create(r)
    <3>1. path[r] \in Path /\ Mine(r) \in Inode /\ Plan(r).size \in Nat \ {0}
      BY <2>5, CarvingFacts DEF Create, HasPath
    <3>2. /\ dir' = [dir EXCEPT ![path[r]] = Mine(r)]
          /\ data' = [data EXCEPT ![Mine(r)] = << >>]
          /\ handle' = [handle EXCEPT ![r] = Mine(r)]
          /\ pc'[r] = "copy" /\ off'[r] = 0 /\ UNCHANGED <<at, path, plans>>
      BY <2>5, <2>0 DEF Create, Mine, TypeOK
    <3>3. Mine(r)' = Mine(r) /\ Plan(r)' = Plan(r)
      BY <3>2 DEF Mine, Plan
    <3>4. data'[Mine(r)] = << >> /\ dir'[path[r]] = Mine(r) /\ handle'[r] = Mine(r)
      BY <2>0, <3>1, <3>2 DEF TypeOK
    <3>5. << >> = [j \in 1 .. 0 |-> <<at[r] + 1, j>>]
      OBVIOUS
    <3>6. QED
      BY <3>1, <3>2, <3>3, <3>4, <3>5
  <2>6. CASE CreateFails(r)
    <3>1. CASE pc'[r] = "full"
      BY <2>6, <2>0, <3>1 DEF CreateFails, fs, Astray
    <3>2. CASE pc'[r] # "full"
      BY <2>6, <2>0, <3>2 DEF CreateFails, Fail, StopFull, TypeOK
    <3>3. QED
      BY <3>1, <3>2
  <2>7. CASE CopyChunk(r)
    <3>1. /\ Mine(r) \in Inode /\ Plan(r).size \in Nat \ {0} /\ off[r] \in Nat
          /\ pc[r] = "copy" /\ at[r] < Len(plans)
      BY <2>7, <2>0, CarvingFacts DEF CopyChunk, HasPath, TypeOK
    <3>2. /\ data' = [data EXCEPT ![Mine(r)] = Put(data[Mine(r)], off[r] + 1, SourceChunk(r))]
          /\ off'[r] = off[r] + 1
          /\ pc'[r] = IF off[r] + 1 = Plan(r).size THEN "verify" ELSE "copy"
          /\ UNCHANGED <<dir, handle, at, path, plans>>
      BY <2>7, <2>0 DEF CopyChunk, TypeOK, book
    <3>3. Mine(r)' = Mine(r) /\ Plan(r)' = Plan(r) /\ WholePlan(at[r] + 1)' = WholePlan(at[r] + 1)
      BY <3>2 DEF Mine, Plan, WholePlan
    <3>4. Put(data[Mine(r)], off[r] + 1, SourceChunk(r)) = [j \in 1 .. off[r] + 1 |-> <<at[r] + 1, j>>]
      <4> DEFINE c == [j \in 1 .. off[r] |-> <<at[r] + 1, j>>]
      <4>1. data[Mine(r)] = c /\ Len(c) = off[r]
        BY <2>0, <3>1
      <4>2. Put(c, off[r] + 1, SourceChunk(r)) =
              [j \in 1 .. off[r] + 1 |-> IF j = off[r] + 1 THEN SourceChunk(r)
                                         ELSE IF j <= off[r] THEN c[j] ELSE Hole]
        BY <3>1, <4>1 DEF Put
      <4>3. \A j \in 1 .. off[r] + 1 :
              (IF j = off[r] + 1 THEN SourceChunk(r) ELSE IF j <= off[r] THEN c[j] ELSE Hole)
                 = <<at[r] + 1, j>>
        BY <3>1 DEF SourceChunk
      <4>4. QED
        BY <4>1, <4>2, <4>3
    <3>5. data'[Mine(r)] = [j \in 1 .. off'[r] |-> <<at[r] + 1, j>>]
      BY <2>0, <3>1, <3>2, <3>4 DEF TypeOK
    <3>6. off'[r] = Plan(r).size => data'[Mine(r)] = WholePlan(at[r] + 1)
      BY <3>5 DEF WholePlan, Plan
    <3>7. pc'[r] = "copy" => off'[r] < Plan(r).size
      BY <2>0, <3>1, <3>2
    <3>8. QED
      BY <2>0, <3>1, <3>2, <3>3, <3>5, <3>6, <3>7
  <2>8. CASE ReadFails(r)
    BY <2>8, <2>0 DEF ReadFails, Fail, TypeOK
  <2>9. CASE WriteFails(r)
    <3>1. CASE StopFull(r)
      BY <2>9, <2>0, <3>1 DEF WriteFails, StopFull, TypeOK, Mine
    <3>2. CASE Fail(r)
      BY <2>9, <2>0, <3>2 DEF Fail, TypeOK
    <3>3. QED
      BY <2>9, <3>1, <3>2 DEF WriteFails
  <2>10. CASE GiveUp(r)
    BY <2>10, <2>0 DEF GiveUp, TypeOK
  <2>11. CASE Enter(r)
    BY <2>11, <2>0 DEF Enter, TypeOK
  <2>12. CASE Discard(r)
    BY <2>12, <2>0 DEF Discard, Fail, TypeOK
  <2>13. CASE EndLoop(r)
    BY <2>13, <2>0 DEF EndLoop, TypeOK
  <2>14. CASE OpenLog(r)
    BY <2>14, <2>0 DEF OpenLog, TypeOK
  <2>15. CASE FillLog(r)
    BY <2>15, <2>0 DEF FillLog, TypeOK
  <2>16. CASE LogFails(r)
    BY <2>16, <2>0 DEF LogFails, TypeOK
  <2>17. CASE Kill(r)
    BY <2>17, <2>0 DEF Kill, TypeOK
  <2>18. QED
    BY <2>1, <2>2, <2>3, <2>4, <2>4a, <2>5, <2>6, <2>7, <2>8, <2>9, <2>10, <2>11,
       <2>12, <2>13, <2>14, <2>15, <2>16, <2>17 DEF Moves, Step
<1>3. QED
  BY <1>1, <1>2 DEF Writing

(* What was entered stays there, whole, through all that follows.          *)
LEMMA LoggedStep ==
    ASSUME IInv, NEW r \in Run, Moves(r)
    PROVE  Logged'
<1>1. plans' = plans /\ at[r] \in Nat /\ overlooked \subseteq overlooked'
  BY CarvingFacts, Course DEF Moves, ProbeFails
<1>2. ASSUME NEW q \in Run, NEW e \in Entries(q)
      PROVE  /\ data'[<<q, e.plan>>] = WholePlan(e.plan)
             /\ dir'[e.file] = <<q, e.plan>> \/ Overlooked(e.file, <<q, e.plan>>)'
             /\ \A f \in Path : dir'[f] = <<q, e.plan>> => f = e.file
  <2>1. <<q, e.plan>> # Mine(r) /\ <<q, e.plan>> # NoFile
    <3>1. e.plan \in 1 .. at[q]
      BY EntryFacts
    <3>2. q = r => e.plan # at[r] + 1
      BY <1>1, <3>1
    <3>3. QED
      BY <3>2, NamesDiffer DEF Mine
  <2>2. data'[<<q, e.plan>>] = WholePlan(e.plan) /\ e.file \in Path
    BY <2>1, EntryFacts, FilesKept
  <2>3. ASSUME Overlooked(e.file, <<q, e.plan>>)
        PROVE  Overlooked(e.file, <<q, e.plan>>)'
    BY <1>1, <2>2, <2>3 DEF Overlooked
  <2>4. ASSUME dir[e.file] = <<q, e.plan>>
        PROVE  dir'[e.file] = <<q, e.plan>> \/ Overlooked(e.file, <<q, e.plan>>)'
    <3>1. \/ dir'[e.file] = dir[e.file]
          \/ Astray(r) /\ e.file = path[r]
      BY <2>1, <2>2, <2>4, FilesKept
    <3>2. QED
      BY <1>1, <2>2, <2>4, <3>1 DEF Astray, Overlooked
  <2>5. ASSUME NEW f \in Path, dir'[f] = <<q, e.plan>> PROVE f = e.file
    <3>1. dir[f] = <<q, e.plan>>
      BY <2>1, <2>5, FilesKept
    <3>2. QED
      BY <3>1 DEF IInv, Logged
  <2>6. QED
    BY <2>2, <2>3, <2>4, <2>5, EntryFacts
<1>3. ASSUME NEW q \in Run, NEW e \in Entries(q)'
      PROVE  e \in Entries(q) \/ /\ q = r /\ pc[r] = "verify" /\ UNCHANGED <<dir, data>>
                                 /\ e = [file |-> path[r], plan |-> at[r] + 1]
  <2>1. CASE entries'[q] = entries[q]
    BY <1>3, <2>1 DEF Entries
  <2>2. CASE entries'[q] # entries[q]
    <3>1. q = r
      BY <2>2, OthersWait DEF Own
    <3>2. QED
      BY <1>3, <2>2, <3>1, NewEntry
  <2>3. QED
    BY <2>1, <2>2
<1>4. ASSUME pc[r] = "verify", UNCHANGED <<dir, data>>
      PROVE  /\ dir'[path[r]] = Mine(r) /\ data'[Mine(r)] = WholePlan(at[r] + 1)
             /\ \A f \in Path : dir'[f] = Mine(r) => f = path[r]
  <2>1. dir[path[r]] = Mine(r) /\ data[Mine(r)] = WholePlan(at[r] + 1) /\ path[r] \in Path
    BY <1>4, CarvingFacts DEF IInv, Writing, HasPath
  <2>2. \A f \in Path : dir[f] = Mine(r) => f = path[r]
    BY <2>1, NamesDiffer DEF IInv, Filed, Mine
  <2>3. QED
    BY <1>4, <2>1, <2>2
<1>5. \A k : WholePlan(k)' = WholePlan(k)
  BY <1>1 DEF WholePlan
<1>6. ASSUME NEW q \in Run, NEW e \in Entries(q)'
      PROVE  /\ data'[<<q, e.plan>>] = WholePlan(e.plan)
             /\ dir'[e.file] = <<q, e.plan>> \/ Overlooked(e.file, <<q, e.plan>>)'
             /\ \A f \in Path : dir'[f] = <<q, e.plan>> => f = e.file
  <2>1. CASE e \in Entries(q)
    BY <1>2, <2>1
  <2>2. CASE e \notin Entries(q)
    <3>1. /\ q = r /\ pc[r] = "verify" /\ UNCHANGED <<dir, data>>
          /\ e.file = path[r] /\ e.plan = at[r] + 1
      BY <1>3, <1>6, <2>2
    <3>2. QED
      BY <1>4, <3>1 DEF Mine
  <2>3. QED
    BY <2>1, <2>2
<1>7. ASSUME NEW q \in Run, NEW e \in Entries(q)', NEW d \in Entries(q)', d.plan = e.plan
      PROVE  d = e
  <2>1. \A x \in Entries(q) : x.plan \in 1 .. at[q]
    BY EntryFacts
  <2>2. CASE d \in Entries(q) /\ e \in Entries(q)
    BY <1>7, <2>2 DEF IInv, Logged
  <2>3. CASE d \notin Entries(q)
    <3>1. q = r /\ d = [file |-> path[r], plan |-> at[r] + 1]
      BY <1>3, <2>3
    <3>2. e \notin Entries(q)
      BY <1>1, <1>7, <2>1, <3>1
    <3>3. QED
      BY <1>3, <3>1, <3>2
  <2>4. CASE e \notin Entries(q)
    <3>1. q = r /\ e = [file |-> path[r], plan |-> at[r] + 1]
      BY <1>3, <2>4
    <3>2. d \notin Entries(q)
      BY <1>1, <1>7, <2>1, <3>1
    <3>3. QED
      BY <1>3, <3>1, <3>2
  <2>5. QED
    BY <2>2, <2>3, <2>4
<1>8. QED
  BY <1>5, <1>6, <1>7 DEF Logged

(* A plan that is left behind without an entry has an error.               *)
LEMMA PlanDealtWith ==
    ASSUME IInv, NEW r \in Run, Moves(r), entries'[r] = entries[r]
    PROVE  \/ at'[r] = at[r] /\ errors'[r] = errors[r]
           \/ at'[r] = at[r] + 1 /\ errors'[r] = errors[r] \cup {at[r] + 1}
<1>1. TypeOK
  BY DEF IInv
<1>2. CASE Start(r)
  BY <1>2, <1>1 DEF Start, book, TypeOK
<1>3. CASE EnterDir(r)
  BY <1>3, <1>1 DEF EnterDir, book, TypeOK
<1>4. CASE EnterDirFails(r)
  BY <1>4, <1>1 DEF EnterDirFails, Fail, FailedPlan, TypeOK
<1>5. CASE Probe(r)
  BY <1>5, <1>1 DEF Probe, book, TypeOK
<1>5a. CASE ProbeFails(r)
  BY <1>5a, <1>1 DEF ProbeFails, book, TypeOK
<1>6. CASE Create(r)
  BY <1>6, <1>1 DEF Create, book, TypeOK
<1>7. CASE CreateFails(r)
  BY <1>7, <1>1 DEF CreateFails, Fail, StopFull, FailedPlan, TypeOK
<1>8. CASE CopyChunk(r)
  BY <1>8, <1>1 DEF CopyChunk, book, TypeOK
<1>9. CASE ReadFails(r)
  BY <1>9, <1>1 DEF ReadFails, Fail, FailedPlan, TypeOK
<1>10. CASE WriteFails(r)
  BY <1>10, <1>1 DEF WriteFails, Fail, StopFull, FailedPlan, TypeOK
<1>11. CASE GiveUp(r)
  BY <1>11, <1>1 DEF GiveUp, FailedPlan, TypeOK
<1>12. CASE Enter(r)
  <2>1. entries'[r] = Append(entries[r], [file |-> path[r], plan |-> at[r] + 1])
    BY <1>12, <1>1 DEF Enter, TypeOK
  <2>2. Len(entries'[r]) # Len(entries[r])
    BY <1>1, <2>1 DEF TypeOK
  <2>3. QED
    BY <2>2
<1>13. CASE Discard(r)
  BY <1>13, <1>1 DEF Discard, Fail, FailedPlan, TypeOK
<1>14. CASE EndLoop(r)
  BY <1>14, <1>1 DEF EndLoop, book, TypeOK
<1>15. CASE OpenLog(r)
  BY <1>15, <1>1 DEF OpenLog, book, TypeOK
<1>16. CASE FillLog(r)
  BY <1>16, <1>1 DEF FillLog, book, TypeOK
<1>17. CASE LogFails(r)
  BY <1>17, <1>1 DEF LogFails, book, TypeOK
<1>18. CASE Kill(r)
  BY <1>18, <1>1 DEF Kill, book, TypeOK
<1>19. QED
  BY <1>2, <1>3, <1>4, <1>5, <1>5a, <1>6, <1>7, <1>8, <1>9, <1>10, <1>11, <1>12,
     <1>13, <1>14, <1>15, <1>16, <1>17, <1>18 DEF Moves, Step

(* Each plan still has an entry or an error.                               *)
LEMMA AccountedStep ==
    ASSUME IInv, NEW r \in Run, Moves(r)
    PROVE  Accounted'
<1> DEFINE Account(q) ==
              /\ Entered(q) \cup errors[q] = 1 .. at[q]
              /\ Entered(q) \cap errors[q] = {}
              /\ pc[q] = "full" => nospace[q]
              /\ pc[q] \in {"log", "logging", "done"} /\ at[q] < Len(plans) => nospace[q]
<1>1. /\ TypeOK /\ plans' = plans /\ at[r] \in Nat /\ at[r] <= Len(plans)
      /\ Len(plans) \in Nat
  <2>1. TypeOK /\ at[r] \in 0 .. Len(plans) /\ plans' = plans
    BY DEF IInv, Moves, TypeOK
  <2>2. QED
    BY <2>1, CarvingFacts
<1>2. \A q \in Run : Account(q)
  BY DEF IInv, Accounted
<1>3. ASSUME NEW q \in Run \ {r} PROVE Account(q)'
  <2>1. UNCHANGED Own(q)
    BY OthersWait
  <2>2. Entered(q)' = Entered(q)
    BY <2>1 DEF Own, Entered, Entries
  <2>3. QED
    BY <1>1, <1>2, <2>1, <2>2 DEF Own
<1>4. /\ 1 .. (at[r] + 1) = (1 .. at[r]) \cup {at[r] + 1}
      /\ at[r] + 1 \notin 1 .. at[r]
  BY <1>1
<1>5. CASE entries'[r] # entries[r]
  <2>1. Entered(r)' = Entered(r) \cup {at[r] + 1}
    <3>1. Entries(r)' = Entries(r) \cup {[file |-> path[r], plan |-> at[r] + 1]}
      BY <1>5, NewEntry
    <3>2. [file |-> path[r], plan |-> at[r] + 1].plan = at[r] + 1
      OBVIOUS
    <3>3. \A S, x : {e.plan : e \in S \cup {x}} = {e.plan : e \in S} \cup {x.plan}
      OBVIOUS
    <3>4. /\ Entered(r)' = {e.plan : e \in Entries(r)'}
          /\ Entered(r) = {e.plan : e \in Entries(r)}
      BY Zenon DEF Entered
    <3>5. {e.plan : e \in Entries(r)'} =
             {e.plan : e \in Entries(r)} \cup {[file |-> path[r], plan |-> at[r] + 1].plan}
      BY <3>1, <3>3, Zenon
    <3>6. QED
      BY <3>2, <3>4, <3>5, Zenon
  <2>2. Account(r)'
    BY <1>1, <1>2, <1>4, <1>5, <2>1, NewEntry
  <2>3. QED
    BY <1>3, <2>2 DEF Accounted
<1>6. CASE entries'[r] = entries[r]
  <2>1. Entered(r)' = Entered(r)
    BY <1>6 DEF Entered, Entries
  <2>2. \/ at'[r] = at[r] /\ errors'[r] = errors[r]
        \/ at'[r] = at[r] + 1 /\ errors'[r] = errors[r] \cup {at[r] + 1}
    BY <1>6, PlanDealtWith
  <2>3. /\ pc'[r] = "full" => nospace'[r]
        /\ pc'[r] \in {"log", "logging", "done"} /\ at'[r] < Len(plans) => nospace'[r]
    <3>1. CASE Start(r)
      BY <3>1, <1>1, <1>2 DEF Start, book, TypeOK
    <3>2. CASE EnterDir(r)
      BY <3>2, <1>1, <1>2 DEF EnterDir, book, TypeOK
    <3>3. CASE EnterDirFails(r)
      BY <3>3, <1>1, <1>2 DEF EnterDirFails, Fail, FailedPlan, TypeOK
    <3>4. CASE Probe(r)
      BY <3>4, <1>1, <1>2 DEF Probe, book, TypeOK
    <3>4a. CASE ProbeFails(r)
      BY <3>4a, <1>1, <1>2 DEF ProbeFails, book, TypeOK
    <3>5. CASE Create(r)
      BY <3>5, <1>1, <1>2 DEF Create, book, TypeOK
    <3>6. CASE CreateFails(r)
      BY <3>6, <1>1, <1>2 DEF CreateFails, Fail, StopFull, FailedPlan, TypeOK
    <3>7. CASE CopyChunk(r)
      BY <3>7, <1>1, <1>2 DEF CopyChunk, book, TypeOK
    <3>8. CASE ReadFails(r)
      BY <3>8, <1>1, <1>2 DEF ReadFails, Fail, FailedPlan, TypeOK
    <3>9. CASE WriteFails(r)
      BY <3>9, <1>1, <1>2 DEF WriteFails, Fail, StopFull, FailedPlan, TypeOK
    <3>10. CASE GiveUp(r)
      BY <3>10, <1>1, <1>2 DEF GiveUp, FailedPlan, TypeOK
    <3>11. CASE Enter(r)
      BY <3>11, <1>1, <1>2 DEF Enter, TypeOK
    <3>12. CASE Discard(r)
      BY <3>12, <1>1, <1>2 DEF Discard, Fail, FailedPlan, TypeOK
    <3>13. CASE EndLoop(r)
      BY <3>13, <1>1, <1>2 DEF EndLoop, book, TypeOK
    <3>14. CASE OpenLog(r)
      BY <3>14, <1>1, <1>2 DEF OpenLog, book, TypeOK
    <3>15. CASE FillLog(r)
      BY <3>15, <1>1, <1>2 DEF FillLog, book, TypeOK
    <3>16. CASE LogFails(r)
      BY <3>16, <1>1, <1>2 DEF LogFails, book, TypeOK
    <3>17. CASE Kill(r)
      BY <3>17, <1>1, <1>2 DEF Kill, book, TypeOK
    <3>18. QED
      BY <3>1, <3>2, <3>3, <3>4, <3>4a, <3>5, <3>6, <3>7, <3>8, <3>9, <3>10, <3>11,
         <3>12, <3>13, <3>14, <3>15, <3>16, <3>17 DEF Moves, Step
  <2>4. Account(r)'
    BY <1>1, <1>2, <1>4, <2>1, <2>2, <2>3
  <2>5. QED
    BY <1>3, <2>4 DEF Accounted
<1>7. QED
  BY <1>5, <1>6

(* A run still has used each number it passed that is not taken.           *)
LEMMA CountedStep ==
    ASSUME IInv, NEW r \in Run, Moves(r)
    PROVE  Counted'
<1>1. TypeOK /\ at[r] \in Nat /\ counter[r] \in Nat /\ counter[r] >= 1
  <2>1. TypeOK /\ counter[r] \in 1 .. MaxCounter
    BY DEF IInv, TypeOK
  <2>2. MaxCounter \in Nat
    BY BoundsAreNumbers
  <2>3. QED
    BY <2>1, <2>2, CarvingFacts
<1>2. ~ ProbeFails(r) => Avoided(r)' = Avoided(r) /\ Claimed(r)' = Claimed(r)
  <2> SUFFICES ASSUME ~ ProbeFails(r)
               PROVE  Avoided(r)' = Avoided(r) /\ Claimed(r)' = Claimed(r)
    OBVIOUS
  <2>1. overlooked' = overlooked
    BY Course
  <2>2. Claimed(r)' = Claimed(r)
    BY <2>1 DEF Claimed
  <2>3. ASSUME NEW f \in Path, f[2] \notin Claimed(r)
        PROVE  dir'[f] \notin {NoFile} \cup ({r} \X Index)
                  <=> dir[f] \notin {NoFile} \cup ({r} \X Index)
    <3>1. CASE dir'[f] = dir[f]
      BY <3>1
    <3>2. CASE dir'[f] # dir[f]
      <4>1. /\ dir[f] \in {NoFile, Mine(r)} \/ (Astray(r) /\ f = path[r])
            /\ dir'[f] \in {NoFile, Mine(r)} /\ pc[r] \in HasPath
        BY <3>2, FilesKept
      <4>2. Mine(r) \in {r} \X Index
        BY <4>1, CarvingFacts DEF Mine
      <4>3. Astray(r) => path[r][2] \in Claimed(r)
        BY DEF Astray, Claimed
      <4>4. QED
        BY <2>3, <4>1, <4>2, <4>3
    <3>3. QED
      BY <3>1, <3>2
  <2>4. \A t \in Types, c \in 1 .. MaxCounter : <<t, c>> \in Path
    BY DEF Path
  <2>5. Avoided(r)' = Avoided(r)
    <3>1. ASSUME NEW c \in 1 .. MaxCounter, c \notin Claimed(r)
          PROVE  c \in Taken(r)' <=> c \in Taken(r)
      BY <2>3, <2>4, <3>1 DEF Taken
    <3>2. \A c \in Taken(r) \cup Taken(r)' : c \in 1 .. MaxCounter
      BY DEF Taken
    <3>3. QED
      BY <2>2, <3>1, <3>2 DEF Avoided
  <2>6. QED
    BY <2>2, <2>5
<1>3. SUFFICES ASSUME Live(r)' PROVE Cardinality(Passed(r)') <= Used(r)'
  <2>1. \A q \in Run \ {r} : ~ Live(q)'
    BY OthersWait DEF Own, Live
  <2>2. QED
    BY <2>1 DEF Counted
<1>4. IsFiniteSet(Passed(r)) /\ Cardinality(Passed(r)) \in Nat
  <2>1. IsFiniteSet(1 .. (counter[r] - 1))
    BY <1>1, FS_Interval
  <2>2. IsFiniteSet(Passed(r))
    BY <2>1, FS_Difference DEF Passed
  <2>3. QED
    BY <2>2, FS_CardinalityType
<1>5. pc[r] # "new" => Cardinality(Passed(r)) <= Used(r)
  BY Course DEF IInv, Counted, Live
<1>6. CASE Start(r)
  <2>1. counter'[r] = 1
    BY <1>6 DEF Start, IInv, InPlan
  <2>2. Passed(r)' = {}
    BY <2>1 DEF Passed
  <2>3. Used(r)' \in Nat
    BY <1>1, <1>6 DEF Start, Used
  <2>4. QED
    BY <2>2, <2>3, FS_EmptySet
<1>7. ASSUME /\ pc[r] = "probe" /\ at'[r] = at[r] /\ pc'[r] = "create"
             /\ Passed(r)' \subseteq Passed(r) \cup {counter[r]}
      PROVE  Cardinality(Passed(r)') <= Used(r)'
  <2>1. /\ IsFiniteSet(Passed(r) \cup {counter[r]})
        /\ Cardinality(Passed(r) \cup {counter[r]}) \in Nat
        /\ Cardinality(Passed(r) \cup {counter[r]}) <= Cardinality(Passed(r)) + 1
    BY <1>4, FS_AddElement
  <2>2. /\ Cardinality(Passed(r)') <= Cardinality(Passed(r) \cup {counter[r]})
        /\ Cardinality(Passed(r)') \in Nat
    BY <1>7, <2>1, FS_Subset, FS_CardinalityType
  <2>3. Used(r) = at[r] /\ Used(r)' = at[r] + 1
    BY <1>1, <1>7 DEF Used, HasPath
  <2>4. QED
    BY <1>1, <1>4, <1>5, <1>7, <2>1, <2>2, <2>3
<1>8. CASE Probe(r)
  <2> DEFINE f == <<Plan(r).type, counter[r]>>
  <2>1. /\ pc[r] = "probe" /\ at'[r] = at[r] /\ counter'[r] = counter[r] + 1
        /\ pc'[r] = IF Exists(f) THEN "probe" ELSE "create"
        /\ overlooked' = overlooked /\ dir' = dir
    BY <1>1, <1>8 DEF Probe, NextNumber, TypeOK, fs
  <2>2. Avoided(r)' = Avoided(r)
    BY <2>1 DEF Avoided, Taken, Claimed
  <2>3. Passed(r)' \subseteq Passed(r) \cup {counter[r]}
    BY <1>1, <2>1, <2>2 DEF Passed
  <2>4. CASE Exists(f)
    <3>1. counter[r] \in 1 .. MaxCounter
      BY <1>1 DEF TypeOK
    <3>2. f \in Path /\ Plan(r).type \in Types
      BY <2>1, <3>1, CarvingFacts DEF Path
    <3>3. dir[f] \notin {r} \X Index
      BY <1>1, <3>2 DEF IInv, Filed
    <3>4. counter[r] \in Taken(r)
      BY <2>4, <3>1, <3>2, <3>3 DEF Taken, Exists
    <3>5. counter[r] \notin Claimed(r)
      BY <1>1 DEF IInv, Unseen, Claimed
    <3>6. Passed(r)' \subseteq Passed(r)
      BY <2>2, <2>3, <3>4, <3>5 DEF Passed, Avoided
    <3>7. Cardinality(Passed(r)') <= Cardinality(Passed(r))
      BY <1>4, <3>6, FS_Subset
    <3>8. Used(r)' = Used(r)
      BY <2>1, <2>4 DEF Used, HasPath
    <3>9. Cardinality(Passed(r)') \in Nat /\ Used(r) \in Nat
      BY <1>1, <1>4, <2>1, <3>6, FS_Subset, FS_CardinalityType DEF Used, HasPath
    <3>10. QED
      BY <1>4, <1>5, <2>1, <3>7, <3>8, <3>9
  <2>5. CASE ~ Exists(f)
    BY <1>7, <2>1, <2>3, <2>5
  <2>6. QED
    BY <2>4, <2>5
<1>9. CASE ProbeFails(r)
  <2> DEFINE f == <<Plan(r).type, counter[r]>>
  <2>1. /\ pc[r] = "probe" /\ at'[r] = at[r] /\ counter'[r] = counter[r] + 1
        /\ pc'[r] = "create" /\ dir' = dir
        /\ overlooked' = overlooked \cup {<<r, f, dir[f]>>}
    BY <1>1, <1>9 DEF ProbeFails, NextNumber, TypeOK, fs
  <2>2. Claimed(r)' \subseteq Claimed(r) \cup {counter[r]}
    <3>1. f[2] = counter[r]
      OBVIOUS
    <3>2. \A o \in overlooked' : o \in overlooked \/ o = <<r, f, dir[f]>>
      BY <2>1
    <3>3. QED
      BY <3>1, <3>2 DEF Claimed
  <2>3. Taken(r)' = Taken(r)
    BY <2>1 DEF Taken
  <2>4. Passed(r)' \subseteq Passed(r) \cup {counter[r]}
    BY <1>1, <2>1, <2>2, <2>3 DEF Passed, Avoided
  <2>5. QED
    BY <1>7, <2>1, <2>4
<1>10. CASE ~ (Start(r) \/ Probe(r) \/ ProbeFails(r))
  <2>1. /\ counter'[r] = counter[r] /\ pc[r] # "new"
        /\ \/ at'[r] = at[r] + 1
           \/ at'[r] = at[r] /\ (pc[r] \in HasPath => pc'[r] \in HasPath)
    <3>1. CASE EnterDir(r)
      BY <3>1, <1>1, <1>3 DEF EnterDir, book, TypeOK, Live, Over, HasPath
    <3>2. CASE EnterDirFails(r)
      BY <3>2, <1>1, <1>3 DEF EnterDirFails, Fail, FailedPlan, TypeOK, Live,
         Over, HasPath
    <3>3. CASE Create(r)
      BY <3>3, <1>1, <1>3 DEF Create, book, TypeOK, Live, Over, HasPath
    <3>4. CASE CreateFails(r)
      BY <3>4, <1>1, <1>3 DEF CreateFails, Fail, StopFull, FailedPlan, TypeOK,
         Live, Over, HasPath
    <3>5. CASE CopyChunk(r)
      BY <3>5, <1>1, <1>3 DEF CopyChunk, book, TypeOK, Live, Over, HasPath
    <3>6. CASE ReadFails(r)
      BY <3>6, <1>1, <1>3 DEF ReadFails, Fail, FailedPlan, TypeOK, Live, Over,
         HasPath
    <3>7. CASE WriteFails(r)
      BY <3>7, <1>1, <1>3 DEF WriteFails, Fail, StopFull, FailedPlan, TypeOK,
         Live, Over, HasPath
    <3>8. CASE GiveUp(r)
      BY <3>8, <1>1, <1>3 DEF GiveUp, FailedPlan, TypeOK, Live, Over, HasPath
    <3>9. CASE Enter(r)
      BY <3>9, <1>1, <1>3 DEF Enter, TypeOK, Live, Over, HasPath
    <3>10. CASE Discard(r)
      BY <3>10, <1>1, <1>3 DEF Discard, Fail, FailedPlan, TypeOK, Live, Over,
         HasPath
    <3>11. CASE EndLoop(r)
      BY <3>11, <1>1, <1>3 DEF EndLoop, book, TypeOK, Live, Over, HasPath
    <3>12. CASE OpenLog(r)
      BY <3>12, <1>1, <1>3 DEF OpenLog, book, TypeOK, Live, Over, HasPath
    <3>13. CASE FillLog(r)
      BY <3>13, <1>1, <1>3 DEF FillLog, book, TypeOK, Live, Over, HasPath
    <3>14. CASE LogFails(r)
      BY <3>14, <1>1, <1>3 DEF LogFails, book, TypeOK, Live, Over, HasPath
    <3>15. CASE Kill(r)
      BY <3>15, <1>1, <1>3 DEF Kill, book, TypeOK, Live, Over, HasPath
    <3>16. QED
      BY <1>10, <3>1, <3>2, <3>3, <3>4, <3>5, <3>6, <3>7, <3>8, <3>9, <3>10,
         <3>11, <3>12, <3>13, <3>14, <3>15 DEF Moves, Step
  <2>2. Passed(r)' = Passed(r)
    BY <1>2, <1>10, <2>1 DEF Passed
  <2>3. Used(r) \in Nat /\ Used(r)' \in Nat /\ Used(r) <= Used(r)'
    BY <1>1, <2>1 DEF Used
  <2>4. QED
    BY <1>4, <1>5, <2>1, <2>2, <2>3
<1>11. QED
  BY <1>6, <1>8, <1>9, <1>10

-----------------------------------------------------------------------------
(* The invariant.                                                          *)

(* The invariant holds before the first run.                               *)
LEMMA InitIInv == Init => IInv
<1> SUFFICES ASSUME Init PROVE IInv
  OBVIOUS
<1>1. IsPlanList(plans) /\ Len(plans) \in Nat
  BY RecoveryAssumption DEF Init, IsPlanList
<1>2. \A f \in Path : dir[f] = IF f \in Earlier THEN Foreign ELSE NoFile
  BY DEF Init
<1>3. \A r \in Run : /\ pc[r] = "new" /\ at[r] = 0 /\ counter[r] = 1
                     /\ entries[r] = << >> /\ errors[r] = {}
  BY DEF Init
<1>4. TypeOK
  <2>1. data \in [Inode -> Seq(Bytes)]
    <3>1. Foreign \in Bytes
      BY DEF Bytes
    <3>2. <<Foreign>> \in Seq(Bytes) /\ << >> \in Seq(Bytes)
      BY <3>1
    <3>3. data = [n \in Inode |-> IF n = Foreign THEN <<Foreign>> ELSE << >>]
      BY DEF Init
    <3>4. QED
      BY <3>2, <3>3, Zenon
  <2>2. counter \in [Run -> 1 .. MaxCounter]
    BY BoundsAreNumbers DEF Init
  <2>3. entries \in [Run -> Seq([file : Path, plan : Index])]
    BY DEF Init
  <2>4. /\ dirs \subseteq Types
        /\ dir \in [Path -> Inode \cup {NoFile}]
        /\ pc \in [Run -> {"new", "next", "probe", "create", "copy", "verify"} \cup Wrapup]
        /\ at \in [Run -> 0 .. Len(plans)]
        /\ path \in [Run -> Path \cup {NoFile}]
        /\ handle \in [Run -> Inode]
        /\ off \in [Run -> Nat]
        /\ errors \in [Run -> SUBSET Index]
        /\ nospace \in [Run -> BOOLEAN]
        /\ overlooked \subseteq Run \X Path \X Inode
        /\ faults \in 0 .. MaxFaults
    BY <1>1, RecoveryAssumption DEF Init, Inode
  <2>5. QED
    BY <1>1, <2>1, <2>2, <2>3, <2>4 DEF TypeOK
<1>5. OneLive /\ Counted
  BY <1>3 DEF OneLive, Counted, Live
<1>6. InPlan /\ Writing
  BY <1>3 DEF InPlan, Writing, HasPath
<1>7. Filed /\ Unseen
  <2>1. Filed
    BY <1>2, NamesDiffer DEF Filed
  <2>2. Unseen
    BY DEF Init, Unseen
  <2>3. QED
    BY <2>1, <2>2
<1>8. \A r \in Run : Entries(r) = {}
  BY <1>3 DEF Entries
<1>9. Logged /\ Accounted
  BY <1>3, <1>8 DEF Logged, Accounted, Entered
<1>10. QED
  BY <1>4, <1>5, <1>6, <1>7, <1>9 DEF IInv

(* A step is one of some run.                                              *)
LEMMA NextMoves == [Next]_vars => UNCHANGED vars \/ \E r \in Run : Moves(r)
BY DEF Next, Moves

(* A step that changes nothing keeps the invariant.                        *)
LEMMA StutterIInv == IInv /\ UNCHANGED vars => IInv'
<1> SUFFICES ASSUME IInv, UNCHANGED vars PROVE IInv'
  OBVIOUS
<1>1. UNCHANGED <<plans, dirs, dir, data, pc, at, counter, path, handle, off,
                  entries, errors, nospace, overlooked, faults>>
  BY DEF vars
<1>2. TypeOK'
  BY <1>1 DEF IInv, TypeOK
<1>3. OneLive' /\ InPlan'
  BY <1>1 DEF IInv, OneLive, Live, InPlan
<1>4. Filed' /\ Unseen'
  BY <1>1 DEF IInv, Filed, Unseen
<1>5. \A r : /\ Mine(r)' = Mine(r) /\ Plan(r)' = Plan(r) /\ Entries(r)' = Entries(r)
             /\ WholePlan(r)' = WholePlan(r) /\ Used(r)' = Used(r)
             /\ Avoided(r)' = Avoided(r) /\ Live(r)' = Live(r)
             /\ Astray(r)' = Astray(r)
  BY <1>1 DEF Mine, Plan, Entries, WholePlan, Used, Avoided, Taken, Claimed,
     Live, Astray
<1>6. \A r : Entered(r)' = Entered(r) /\ Passed(r)' = Passed(r)
  BY <1>1, <1>5 DEF Entered, Passed
<1>7. Writing' /\ Logged'
  BY <1>1, <1>5 DEF IInv, Writing, Logged, Overlooked
<1>8. Accounted' /\ Counted'
  BY <1>1, <1>5, <1>6 DEF IInv, Accounted, Counted
<1>9. QED
  BY <1>2, <1>3, <1>4, <1>7, <1>8 DEF IInv

(* Every step of a run keeps it.                                           *)
LEMMA MovesIInv ==
    ASSUME IInv, NEW r \in Run, Moves(r)
    PROVE  IInv'
BY TypeStep, OneLiveStep, InPlanStep, FiledStep, UnseenStep, WritingStep,
   LoggedStep, AccountedStep, CountedStep DEF IInv

(* Each step keeps the invariant.                                          *)
LEMMA StepIInv == IInv /\ [Next]_vars => IInv'
BY MovesIInv, StutterIInv, NextMoves

(* The invariant that the theorems below follow from.                      *)
THEOREM InductiveInvariant == Spec => []IInv
BY InitIInv, StepIInv, PTL DEF Spec

-----------------------------------------------------------------------------
(* The theorems.                                                           *)

(* The type invariant.  Its hard part is the number in a file's name: the  *)
(* loop of next_path ends, since each number it passes is that of a file   *)
(* of others, of which there are only so many, or was used for a plan.     *)
THEOREM RecoveryTypeOK == Spec => []TypeOK
<1>1. IInv => TypeOK
  BY DEF IInv
<1>2. QED
  BY <1>1, InductiveInvariant, PTL

(* The files that the log entries name are there and hold all bytes of     *)
(* their plans, through any errors, kills and later runs; the only entries *)
(* this may fail for are those whose very file, at its path, a failing     *)
(* test of the name did not see.                                           *)
THEOREM EntriesStayFaithful == Spec => []EntriesFaithful
<1>1. IInv => EntriesFaithful
  <2> SUFFICES ASSUME IInv, NEW r \in Run, NEW e \in Entries(r),
                      ~ Overlooked(e.file, <<r, e.plan>>)
               PROVE  dir[e.file] # NoFile /\ data[dir[e.file]] = WholePlan(e.plan)
    BY DEF EntriesFaithful
  <2>1. QED
    BY EntryFacts, NamesDiffer
<1>2. QED
  BY <1>1, InductiveInvariant, PTL

(* When a run has tried its plans or stopped, each plan it came to has an  *)
(* entry or an error and not both, and so has each file it created.        *)
THEOREM PlansAccounted == Spec => []EveryPlanAccounted
<1>1. IInv => EveryPlanAccounted
  <2> SUFFICES ASSUME IInv, NEW r \in Run, pc[r] \in {"log", "logging", "done"}
               PROVE  /\ Entered(r) \cup errors[r] = 1 .. at[r]
                      /\ Entered(r) \cap errors[r] = {}
                      /\ at[r] < Len(plans) => nospace[r]
                      /\ Started(r) \subseteq Entered(r) \cup errors[r]
    BY DEF EveryPlanAccounted
  <2>1. Accounted /\ Filed
    BY DEF IInv
  <2>2. ASSUME NEW k \in Started(r) PROVE k \in 1 .. at[r]
    <3>1. PICK f \in Path : dir[f] \in {r} \X Index /\ k = dir[f][2]
      BY DEF Started
    <3>2. k \in Index /\ dir[f] = <<r, k>>
      BY <3>1
    <3>3. k <= at[r]
      BY <2>1, <3>2 DEF Filed, HasFile
    <3>4. QED
      BY <3>2, <3>3, CarvingFacts DEF Index
  <2>3. QED
    BY <2>1, <2>2 DEF Accounted
<1>2. QED
  BY <1>1, InductiveInvariant, PTL

(* No step changes the name or the bytes of a file but of the one that the *)
(* running recovery has created for the plan it is carving, and of the one *)
(* it takes for absent since the test of its name has just failed.         *)
THEOREM OtherFilesStay == Spec => OtherFilesKept
<1>1. IInv /\ [Next]_vars =>
        [\A f \in Path \ Overlooking : dir[f] \notin Working \cup {NoFile} =>
              dir'[f] = dir[f] /\ data'[dir[f]] = data[dir[f]]]_vars
  <2> SUFFICES ASSUME IInv, NEW r \in Run, Moves(r), NEW f \in Path,
                      f \notin Overlooking, dir[f] \notin Working \cup {NoFile}
               PROVE  dir'[f] = dir[f] /\ data'[dir[f]] = data[dir[f]]
    BY NextMoves
  <2>1. dir[f] \in Inode
    BY DEF IInv, TypeOK
  <2>2. dir[f] # Mine(r) \/ pc[r] \notin HasPath
    <3>1. SUFFICES ASSUME dir[f] = Mine(r), pc[r] \in HasPath PROVE FALSE
      OBVIOUS
    <3>2. pc[r] \in HasFile
      BY <3>1, CarvingFacts DEF IInv, Filed, Mine, HasPath
    <3>3. Mine(r) \in Working
      BY <3>2 DEF Working, Mine, HasFile
    <3>4. QED
      BY <3>1, <3>3
  <2>3. ~ (Astray(r) /\ pc[r] \in {"create", "full"} /\ f = path[r])
    BY DEF Overlooking, Astray
  <2>4. QED
    BY <2>1, <2>2, <2>3, FilesKept DEF HasPath
<1>2. QED
  BY <1>1, InductiveInvariant, PTL DEF Spec, OtherFilesKept

(* Without a directory per type, no plan is carved once a call has found   *)
(* the output disk full: every such call reports it in its own way, and    *)
(* the loop of run is left.                                                *)
THEOREM FlatStopsWhenFull ==
    ASSUME ~ Organize
    PROVE  Spec => []StopsWhenFull
<1> DEFINE Stops(q) == nospace[q] => pc[q] \in Wrapup
<1>1. Init => StopsWhenFull
  BY DEF Init, StopsWhenFull
<1>2. ASSUME IInv, StopsWhenFull, NEW r \in Run, Moves(r)
      PROVE  StopsWhenFull'
  <2>1. ASSUME NEW q \in Run \ {r} PROVE Stops(q)'
    BY <1>2, OthersWait DEF StopsWhenFull, Own
  <2>2. TypeOK /\ Stops(r)
    BY <1>2 DEF IInv, StopsWhenFull
  <2>3. Stops(r)'
    <3>1. CASE Start(r)
      BY <3>1, <2>2 DEF Start, book, TypeOK, Wrapup, Over
    <3>2. CASE EnterDir(r)
      BY <3>2, <2>2 DEF EnterDir, book, TypeOK, Wrapup, Over
    <3>3. CASE EnterDirFails(r)
      BY <3>3 DEF EnterDirFails
    <3>4. CASE Probe(r)
      BY <3>4, <2>2 DEF Probe, book, TypeOK, Wrapup, Over
    <3>5. CASE ProbeFails(r)
      BY <3>5, <2>2 DEF ProbeFails, book, TypeOK, Wrapup, Over
    <3>6. CASE Create(r)
      BY <3>6, <2>2 DEF Create, book, TypeOK, Wrapup, Over
    <3>7. CASE CreateFails(r)
      BY <3>7, <2>2 DEF CreateFails, Fail, StopFull, TypeOK, Wrapup, Over
    <3>8. CASE CopyChunk(r)
      BY <3>8, <2>2 DEF CopyChunk, book, TypeOK, Wrapup, Over
    <3>9. CASE ReadFails(r)
      BY <3>9, <2>2 DEF ReadFails, Fail, TypeOK, Wrapup, Over
    <3>10. CASE WriteFails(r)
      BY <3>10, <2>2 DEF WriteFails, Fail, StopFull, TypeOK, Wrapup, Over
    <3>11. CASE GiveUp(r)
      BY <3>11, <2>2 DEF GiveUp, TypeOK, Wrapup, Over
    <3>12. CASE Enter(r)
      BY <3>12, <2>2 DEF Enter, TypeOK, Wrapup, Over
    <3>13. CASE Discard(r)
      BY <3>13, <2>2 DEF Discard, Fail, TypeOK, Wrapup, Over
    <3>14. CASE EndLoop(r)
      BY <3>14, <2>2 DEF EndLoop, book, TypeOK, Wrapup, Over
    <3>15. CASE OpenLog(r)
      BY <3>15, <2>2 DEF OpenLog, book, TypeOK, Wrapup, Over
    <3>16. CASE FillLog(r)
      BY <3>16, <2>2 DEF FillLog, book, TypeOK, Wrapup, Over
    <3>17. CASE LogFails(r)
      BY <3>17, <2>2 DEF LogFails, book, TypeOK, Wrapup, Over
    <3>18. CASE Kill(r)
      BY <3>18, <2>2 DEF Kill, book, TypeOK, Wrapup, Over
    <3>19. QED
      BY <1>2, <3>1, <3>2, <3>3, <3>4, <3>5, <3>6, <3>7, <3>8, <3>9,
         <3>10, <3>11, <3>12, <3>13, <3>14, <3>15, <3>16, <3>17, <3>18 DEF Moves, Step
  <2>4. QED
    BY <2>1, <2>3 DEF StopsWhenFull
<1>3. StopsWhenFull /\ UNCHANGED vars => StopsWhenFull'
  BY DEF StopsWhenFull, vars
<1>4. IInv /\ StopsWhenFull /\ [Next]_vars => StopsWhenFull'
  BY <1>2, <1>3, NextMoves
<1>5. QED
  BY <1>1, <1>4, InductiveInvariant, PTL DEF Spec
=============================================================================
