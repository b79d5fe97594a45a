------------------------- MODULE RecoveryRefinement -------------------------
(***************************************************************************)
(* For those who look at the output directory, saving a plan is one step:  *)
(* Recovery implements AtomicSave.  Of the steps of a run for a plan only  *)
(* one shows, which enters its file in the log, gives the plan up, or ends *)
(* the run; unless a failing test of a name overlooks a file, which the    *)
(* run may then lose.                                                      *)
(***************************************************************************)
EXTENDS RecoveryProofs

Files == [f \in Path |-> FileAt(f)]
Outcome == [r \in Run |-> [k \in Index |-> OutcomeOf(r, k)]]
LogSeen == [state |-> log.state,
            entries |-> {log.entries[k] : k \in 1 .. Len(log.entries)}]

(* The path of a file that was not there before holds an incomplete one.   *)
ScrapAppears == \E f \in Path : Files[f] = NoFile /\ Files' = [Files EXCEPT ![f] = Scrap]

(* A file that was overlooked is gone.                                     *)
FileLost == \E f \in Overlooking : Files' = [Files EXCEPT ![f] = NoFile]

-----------------------------------------------------------------------------
(* What the outcomes say.                                                  *)

(* A plan has one entry at most.                                           *)
LEMMA EntryOfPlan ==
    ASSUME IInv, NEW r \in Run, NEW e \in Entries(r)
    PROVE  /\ \A d \in Entries(r) : d.plan = e.plan => d = e
           /\ OutcomeOf(r, e.plan) = <<"saved", e.file>>
<1>1. \A d \in Entries(r) : d.plan = e.plan => d = e
  BY DEF IInv, Logged
<1>2. e.plan \in Entered(r) /\ e.plan \notin errors[r]
  BY DEF Entered, IInv, Accounted
<1>3. (CHOOSE d \in Entries(r) : d.plan = e.plan) = e
  BY <1>1
<1>4. QED
  BY <1>1, <1>2, <1>3 DEF OutcomeOf

(* The outcome of a plan is open until the run has dealt with it.          *)
LEMMA OutcomeFacts ==
    ASSUME IInv, NEW r \in Run, NEW k \in Index
    PROVE  /\ OutcomeOf(r, k) = <<"todo">> <=> k > at[r]
           /\ \A f : OutcomeOf(r, k) = <<"saved", f>> <=>
                        \E e \in Entries(r) : e.plan = k /\ e.file = f
<1>1. /\ Entered(r) \cup errors[r] = 1 .. at[r]
      /\ Entered(r) \cap errors[r] = {}
      /\ at[r] \in Nat /\ k \in Nat /\ k >= 1
  BY CarvingFacts, RecoveryAssumption DEF IInv, Accounted, Index
<1>2. /\ <<"todo">> # <<"failed">>
      /\ \A f : <<"saved", f>> # <<"todo">> /\ <<"saved", f>> # <<"failed">>
  OBVIOUS
<1>3. CASE k \in errors[r]
  <2>1. OutcomeOf(r, k) = <<"failed">> /\ k <= at[r]
    BY <1>1, <1>3 DEF OutcomeOf
  <2>2. \A e \in Entries(r) : e.plan # k
    BY <1>1, <1>3 DEF Entered
  <2>3. QED
    BY <1>1, <1>2, <2>1, <2>2
<1>4. CASE k \in Entered(r)
  <2>1. PICK e \in Entries(r) : e.plan = k
    BY <1>4 DEF Entered
  <2>2. OutcomeOf(r, k) = <<"saved", e.file>> /\ \A d \in Entries(r) : d.plan = k => d = e
    BY <2>1, EntryOfPlan
  <2>3. \A f : <<"saved", e.file>> = <<"saved", f>> <=> e.file = f
    OBVIOUS
  <2>4. k <= at[r]
    BY <1>1, <1>4
  <2>5. QED
    BY <1>1, <1>2, <2>1, <2>2, <2>3, <2>4
<1>5. CASE k \notin errors[r] \cup Entered(r)
  <2>1. OutcomeOf(r, k) = <<"todo">> /\ k > at[r]
    BY <1>1, <1>5 DEF OutcomeOf
  <2>2. \A e \in Entries(r) : e.plan # k
    BY <1>5 DEF Entered
  <2>3. QED
    BY <1>2, <2>1, <2>2
<1>6. QED
  BY <1>3, <1>4, <1>5

(* A step that writes neither entry nor error leaves all outcomes open or  *)
(* closed as they are.                                                     *)
LEMMA OutcomeStays ==
    ASSUME NEW r \in Run, NEW k, entries'[r] = entries[r],
           (k \in errors'[r]) <=> (k \in errors[r])
    PROVE  OutcomeOf(r, k)' = OutcomeOf(r, k)
BY DEF OutcomeOf, Entered, Entries

(* An entry is what becomes of its plan.                                   *)
LEMMA EntrySaved ==
    IInv => \A r \in Run : \A e \in Entries(r) : OutcomeOf(r, e.plan) = <<"saved", e.file>>
BY EntryOfPlan

(* Likewise after a step.                                                  *)
LEMMA EntrySavedNext ==
    IInv' => (\A r \in Run : \A e \in Entries(r) : OutcomeOf(r, e.plan) = <<"saved", e.file>>)'
BY EntrySaved, PTL

-----------------------------------------------------------------------------
(* What the paths show.                                                    *)

View(f) ==
    /\ dir[f] \in Working \cup {NoFile} => FileAt(f) = NoFile
    /\ dir[f] = Foreign => FileAt(f) = Foreign
    /\ \A q \in Run, k \in Index : dir[f] = <<q, k>> /\ <<q, k>> \notin Working =>
          FileAt(f) = IF k \in Entered(q) THEN <<"plan", k>> ELSE Scrap

(* A file that nobody writes shows as whole if its plan has an entry.      *)
LEMMA PathsShow == IInv => \A f \in Path : View(f)
<1> SUFFICES ASSUME IInv, NEW f \in Path PROVE View(f)
  OBVIOUS
<1>1. Foreign \notin Working /\ NoFile \notin Working
  BY NamesDiffer DEF Working
<1>2. ASSUME NEW q \in Run, NEW k \in Index, dir[f] = <<q, k>>, <<q, k>> \notin Working
      PROVE  FileAt(f) = IF k \in Entered(q) THEN <<"plan", k>> ELSE Scrap
  <2>1. dir[f] \notin {NoFile, Foreign} /\ dir[f][1] = q /\ dir[f][2] = k
    BY <1>2, NamesDiffer
  <2>2. ASSUME NEW e \in Entries(q), e.plan = k
        PROVE  e.file = f /\ data[dir[f]] = WholePlan(e.plan)
    <3>1. data[dir[f]] = WholePlan(e.plan)
      BY <1>2, <2>2, EntryFacts
    <3>2. QED
      BY <1>2, <2>2, <3>1 DEF IInv, Logged
  <2>3. (\E e \in Entries(q) : e.file = f /\ e.plan = k /\ data[dir[f]] = WholePlan(e.plan))
           <=> k \in Entered(q)
    BY <2>2 DEF Entered
  <2>4. QED
    BY <1>2, <2>1, <2>3 DEF FileAt
<1>3. QED
  BY <1>1, <1>2 DEF View, FileAt

(* Likewise after a step.                                                  *)
LEMMA PathsShowNext == IInv' => (\A f \in Path : View(f))'
BY PathsShow, PTL

(* While run r moves, only r writes a file.                                *)
LEMMA OneWorks ==
    ASSUME IInv, NEW r \in Run, Moves(r)
    PROVE  /\ \A n : n \in Working <=> n = Mine(r) /\ pc[r] \in HasFile
           /\ \A n : n \in Working' <=> n = Mine(r)' /\ pc'[r] \in HasFile
           /\ \A q \in Run \ {r} : Entered(q)' = Entered(q)
<1>1. \A q \in Run \ {r} : pc[q] \notin HasFile /\ pc'[q] \notin HasFile
  BY OthersWait DEF Own, Over, HasFile
<1>2. \A q \in Run \ {r} : Entered(q)' = Entered(q)
  BY OthersWait DEF Own, Entered, Entries
<1>3. QED
  BY <1>1, <1>2 DEF Working, Mine, HasFile

(* A path shows nothing of the file of the plan that a run has come to.    *)
LEMMA MineIsWorking ==
    ASSUME IInv, NEW r \in Run, Moves(r), NEW f \in Path, NEW k \in Index,
           dir[f] = <<r, k>>
    PROVE  k <= at[r] \/ dir[f] \in Working
<1>1. Filed /\ pc[r] # "dead"
  BY Course DEF IInv, Over
<1>2. QED
  BY <1>1, OneWorks DEF Filed, Mine

(* A step without a new entry shows at most at the path of its run, and    *)
(* there the scrap of its plan, or that a file it overlooked is gone.      *)
LEMMA StepShows ==
    ASSUME IInv, NEW r \in Run, Moves(r), entries'[r] = entries[r], NEW f \in Path
    PROVE  \/ FileAt(f)' = FileAt(f)
           \/ /\ f = path[r] /\ FileAt(f) = NoFile /\ FileAt(f)' = Scrap
              /\ at'[r] # at[r] \/ pc'[r] = "dead"
           \/ f = path[r] /\ f \in Overlooking /\ FileAt(f)' = NoFile
<1>1. View(f) /\ View(f)'
  BY MovesIInv, PathsShow, PathsShowNext
<1>2. \A q \in Run : Entered(q)' = Entered(q)
  <2>1. Entered(r)' = Entered(r)
    BY DEF Entered, Entries
  <2>2. QED
    BY <2>1, OneWorks
<1>3. at[r] \in Nat /\ at'[r] \in {at[r], at[r] + 1}
  BY Course, CarvingFacts
<1>4. at[r] + 1 \notin Entered(r)
  BY <1>3 DEF IInv, Accounted
<1>5. CASE dir'[f] = dir[f]
  <2>1. CASE dir[f] \in {NoFile, Foreign}
    BY <1>1, <1>5, <2>1 DEF View
  <2>2. CASE \E q \in Run, k \in Index : dir[f] = <<q, k>>
    <3>1. PICK q \in Run, k \in Index : dir[f] = <<q, k>>
      BY <2>2
    <3>2. CASE q # r
      <4>1. <<q, k>> \notin Working /\ <<q, k>> \notin Working'
        BY <3>2, OneWorks DEF Mine
      <4>2. QED
        BY <1>1, <1>2, <1>5, <3>1, <4>1 DEF View
    <3>3. CASE q = r
      <4>1. <<r, k>> \in Working' => <<r, k>> \in Working
        <5>1. SUFFICES ASSUME <<r, k>> \in Working', <<r, k>> \notin Working PROVE FALSE
          OBVIOUS
        <5>2. k = at'[r] + 1
          BY <5>1, OneWorks DEF Mine
        <5>3. k <= at[r]
          BY <3>1, <3>3, <5>1, MineIsWorking
        <5>4. QED
          BY <1>3, <5>2, <5>3
      <4>2. CASE <<r, k>> \in Working /\ <<r, k>> \notin Working'
        <5>1. <<r, k>> = Mine(r) /\ k = at[r] + 1
          BY <4>2, OneWorks DEF Mine
        <5>2. k \notin Entered(r)'
          BY <1>2, <1>4, <5>1
        <5>3. FileAt(f) = NoFile
          BY <1>1, <3>1, <3>3, <4>2 DEF View
        <5>4. FileAt(f)' = Scrap
          BY <1>1, <1>5, <3>1, <3>3, <4>2, <5>2 DEF View
        <5>5. f = path[r]
          <6>1. Filed /\ pc[r] # "dead" /\ ~ (k <= at[r])
            BY <1>3, <5>1, Course DEF IInv, Over
          <6>2. QED
            BY <3>1, <3>3, <6>1 DEF Filed
        <5>6. at'[r] # at[r] \/ pc'[r] = "dead"
          <6>1. pc[r] \in HasFile
            BY <4>2, OneWorks
          <6>2. at'[r] = at[r] /\ pc'[r] \in HasFile => <<r, k>> \in Working'
            BY <1>3, <5>1, OneWorks DEF Mine
          <6>3. QED
            BY <1>3, <4>2, <6>1, <6>2, Course
        <5>7. QED
          BY <5>3, <5>4, <5>5, <5>6
      <4>3. CASE <<r, k>> \in Working /\ <<r, k>> \in Working'
        BY <1>1, <1>5, <3>1, <3>3, <4>3 DEF View
      <4>4. CASE <<r, k>> \notin Working /\ <<r, k>> \notin Working'
        BY <1>1, <1>2, <1>5, <3>1, <3>3, <4>4 DEF View
      <4>5. QED
        BY <4>1, <4>2, <4>3, <4>4
    <3>4. QED
      BY <3>2, <3>3
  <2>3. QED
    BY <2>1, <2>2 DEF IInv, TypeOK, Inode
<1>6. CASE dir'[f] # dir[f]
  <2>1. /\ pc[r] \in HasPath /\ f = path[r] /\ at[r] + 1 \in Index
        /\ dir[f] \in {NoFile, Mine(r)} \/ (Astray(r) /\ pc[r] \in {"create", "full"})
        /\ dir'[f] = NoFile \/ (dir'[f] = Mine(r) /\ pc[r] = "create")
    BY <1>6, FilesKept, CarvingFacts
  <2>2. FileAt(f)' = NoFile
    <3>1. ASSUME dir'[f] = Mine(r), pc[r] = "create" PROVE dir'[f] \in Working'
      <4>1. pc'[r] \in HasFile /\ at'[r] = at[r]
        BY <1>6, <3>1, Course
      <4>2. QED
        BY <3>1, <4>1, OneWorks DEF Mine
    <3>2. QED
      BY <1>1, <2>1, <3>1 DEF View
  <2>3. CASE dir[f] \in {NoFile, Mine(r)}
    <3>1. dir[f] = Mine(r) => dir[f] \in Working
      BY <1>3, <2>1, MineIsWorking DEF Mine
    <3>2. FileAt(f) = NoFile
      BY <1>1, <2>3, <3>1 DEF View
    <3>3. QED
      BY <2>2, <3>2
  <2>4. CASE Astray(r) /\ pc[r] \in {"create", "full"}
    BY <2>1, <2>2, <2>4 DEF Overlooking, Astray
  <2>5. QED
    BY <2>1, <2>3, <2>4
<1>7. QED
  BY <1>5, <1>6

(* All paths together.                                                     *)
LEMMA StepFiles ==
    ASSUME IInv, NEW r \in Run, Moves(r), entries'[r] = entries[r]
    PROVE  /\ Files' = Files \/ ScrapAppears \/ FileLost
           /\ at'[r] = at[r] /\ pc'[r] # "dead" => Files' = Files \/ FileLost
<1>1. \A f \in Path : Files[f] = FileAt(f) /\ Files'[f] = FileAt(f)'
  BY DEF Files
<1>2. CASE \A f \in Path : FileAt(f)' = FileAt(f)
  BY <1>2 DEF Files
<1>3. CASE \E f \in Path : FileAt(f)' # FileAt(f)
  <2>1. PICK f \in Path : FileAt(f)' # FileAt(f)
    BY <1>3
  <2>2. f = path[r] /\ \A g \in Path \ {f} : FileAt(g)' = FileAt(g)
    BY <2>1, StepShows
  <2>3. Files' = [Files EXCEPT ![f] = FileAt(f)']
    BY <2>2 DEF Files
  <2>4. CASE /\ FileAt(f) = NoFile /\ FileAt(f)' = Scrap
             /\ at'[r] # at[r] \/ pc'[r] = "dead"
    BY <1>1, <2>3, <2>4 DEF ScrapAppears
  <2>5. CASE f \in Overlooking /\ FileAt(f)' = NoFile
    BY <2>3, <2>5 DEF FileLost
  <2>6. QED
    BY <2>1, <2>4, <2>5, StepShows
<1>4. QED
  BY <1>2, <1>3

(* Paths are chosen, and kept on a full disk, by these steps only.         *)
LEMMA PathChosen ==
    ASSUME IInv, NEW r \in Run, Moves(r), pc'[r] \in {"create", "full"}
    PROVE  \/ ProbeFails(r)
           \/ pc'[r] = "create" /\ dir'[path'[r]] = NoFile
           \/ pc[r] = "create" /\ path'[r] = path[r] /\ UNCHANGED <<dir, overlooked>>
           \/ dir'[path'[r]] = Mine(r)
<1>1. TypeOK /\ Writing
  BY DEF IInv
<1>2. CASE Start(r)
  BY <1>2, <1>1 DEF Start, TypeOK
<1>3. CASE EnterDir(r)
  BY <1>3, <1>1 DEF EnterDir, TypeOK
<1>4. CASE EnterDirFails(r)
  BY <1>4, <1>1 DEF EnterDirFails, Fail, TypeOK
<1>5. CASE Probe(r)
  BY <1>5, <1>1 DEF Probe, Exists, fs, TypeOK
<1>6. CASE ProbeFails(r)
  BY <1>6
<1>7. CASE Create(r)
  BY <1>7, <1>1 DEF Create, TypeOK
<1>8. CASE CreateFails(r)
  BY <1>8, <1>1 DEF CreateFails, Fail, StopFull, fs, TypeOK
<1>9. CASE CopyChunk(r)
  BY <1>9, <1>1 DEF CopyChunk, TypeOK
<1>10. CASE ReadFails(r)
  BY <1>10, <1>1 DEF ReadFails, Fail, TypeOK
<1>11. CASE WriteFails(r)
  BY <1>11, <1>1 DEF WriteFails, Fail, StopFull, Writing, TypeOK
<1>12. CASE GiveUp(r)
  BY <1>12, <1>1 DEF GiveUp, TypeOK
<1>13. CASE Enter(r)
  BY <1>13, <1>1 DEF Enter, TypeOK
<1>14. CASE Discard(r)
  BY <1>14, <1>1 DEF Discard, Fail, TypeOK
<1>15. CASE EndLoop(r)
  BY <1>15, <1>1 DEF EndLoop, TypeOK
<1>16. CASE OpenLog(r)
  BY <1>16, <1>1 DEF OpenLog, TypeOK
<1>17. CASE FillLog(r)
  BY <1>17, <1>1 DEF FillLog, TypeOK
<1>18. CASE LogFails(r)
  BY <1>18, <1>1 DEF LogFails, TypeOK
<1>19. CASE Kill(r)
  BY <1>19, <1>1 DEF Kill, TypeOK
<1>20. QED
  BY <1>2, <1>3, <1>4, <1>5, <1>6, <1>7, <1>8, <1>9, <1>10,
     <1>11, <1>12, <1>13, <1>14, <1>15, <1>16, <1>17, <1>18, <1>19 DEF Moves, Step

(* What is overlooked at a moment.                                         *)
LEMMA OverlookingFacts ==
    ASSUME IInv, NEW r \in Run, Moves(r)
    PROVE  /\ \A f : f \in Overlooking <=>
                 f = path[r] /\ Astray(r) /\ pc[r] \in {"create", "full"}
           /\ \A f : f \in Overlooking' <=>
                 f = path'[r] /\ Astray(r)' /\ pc'[r] \in {"create", "full"}
<1>1. \A q \in Run \ {r} : pc[q] \notin {"create", "full"} /\ pc'[q] \notin {"create", "full"}
  BY OthersWait DEF Own, Over
<1>2. QED
  BY <1>1 DEF Overlooking, Astray

(* Only a failing test of a name overlooks a file.                         *)
LEMMA Forgets ==
    ASSUME IInv, NEW r \in Run, Moves(r), ~ ProbeFails(r)
    PROVE  Overlooking' \subseteq Overlooking
<1> SUFFICES ASSUME NEW f, f \in Overlooking' PROVE f \in Overlooking
  OBVIOUS
<1>1. f = path'[r] /\ Astray(r)' /\ pc'[r] \in {"create", "full"}
  BY OverlookingFacts
<1>2. /\ <<r, path'[r], dir'[path'[r]]>> \in overlooked /\ overlooked' = overlooked
      /\ overlooked \subseteq Run \X Path \X Inode
  BY <1>1, Course DEF Astray, IInv, TypeOK
<1>3. dir'[path'[r]] \in Inode /\ dir'[path'[r]] \notin {r} \X Index
  BY <1>2 DEF IInv, Unseen
<1>4. dir'[path'[r]] # NoFile
  BY <1>3, NamesDiffer DEF Inode
<1>5. dir'[path'[r]] # Mine(r)
  BY <1>3, NamesDiffer DEF Inode, Mine
<1>6. pc[r] = "create" /\ path'[r] = path[r] /\ UNCHANGED <<dir, overlooked>>
  BY <1>1, <1>4, <1>5, PathChosen
<1>7. QED
  BY <1>1, <1>6, OverlookingFacts DEF Astray

(* A failing test overlooks a file that shows.                             *)
LEMMA ProbeOverlooks ==
    ASSUME IInv, NEW r \in Run, Moves(r), ProbeFails(r)
    PROVE  \E f \in Path : /\ Files[f] # NoFile /\ Files' = Files
                           /\ Overlooking' = Overlooking \cup {f}
<1>1. /\ TypeOK /\ pc[r] = "probe" /\ pc'[r] = "create" /\ at' = at /\ dir' = dir
      /\ entries' = entries /\ path'[r] = <<Plan(r).type, counter[r]>>
      /\ dir[path'[r]] # NoFile /\ <<r, path'[r], dir[path'[r]]>> \in overlooked'
  BY DEF IInv, TypeOK, ProbeFails, fs, book, Exists
<1> PICK f : f = path'[r]
  OBVIOUS
<1>2. f \in Path
  BY <1>1, CarvingFacts DEF Path, TypeOK
<1>3. Overlooking = {}
  BY <1>1, OverlookingFacts
<1>4. Overlooking' = {f}
  BY <1>1, OverlookingFacts DEF Astray
<1>5. Files' = Files
  BY <1>1, <1>3, StepFiles DEF FileLost
<1>6. FileAt(f) # NoFile
  <2>1. dir[f] \in Inode /\ dir[f] \notin Working /\ View(f)
    BY <1>1, <1>2, OneWorks, PathsShow DEF TypeOK, HasFile
  <2>2. CASE dir[f] = Foreign
    BY <2>1, <2>2, NamesDiffer DEF View
  <2>3. CASE \E q \in Run, k \in Index : dir[f] = <<q, k>>
    BY <2>1, <2>3, NamesDiffer DEF View
  <2>4. QED
    BY <2>1, <2>2, <2>3 DEF Inode
<1>7. QED
  BY <1>2, <1>3, <1>4, <1>5, <1>6 DEF Files

(* The plans with an entry grow by that of a new one.                      *)
LEMMA EnteredMore ==
    ASSUME IInv, NEW r \in Run, Moves(r), entries'[r] # entries[r]
    PROVE  Entered(r)' = Entered(r) \cup {at[r] + 1}
<1> DEFINE new == [file |-> path[r], plan |-> at[r] + 1]
<1>1. Entries(r)' = Entries(r) \cup {new} /\ new.plan = at[r] + 1
  BY NewEntry
<1>2. Entered(r)' = {e.plan : e \in Entries(r)'}
  BY DEF Entered
<1> HIDE DEF new
<1>3. QED
  BY <1>1, <1>2 DEF Entered

(* A new entry shows its file.                                             *)
LEMMA EnterFiles ==
    ASSUME IInv, NEW r \in Run, Moves(r), entries'[r] # entries[r]
    PROVE  /\ path[r] \in Path /\ Files[path[r]] = NoFile
           /\ Files' = [Files EXCEPT ![path[r]] = <<"plan", at[r] + 1>>]
<1>1. /\ pc[r] = "verify" /\ pc'[r] = "next" /\ dir' = dir
      /\ Entered(r)' = Entered(r) \cup {at[r] + 1}
  BY NewEntry, EnteredMore
<1>2. /\ path[r] \in Path /\ dir[path[r]] = Mine(r) /\ Mine(r) \in Run \X Index
      /\ Mine(r) \in Working /\ at[r] + 1 \in Index
  <2>1. path[r] \in Path /\ at[r] + 1 \in Index
    BY <1>1, CarvingFacts DEF HasPath
  <2>2. dir[path[r]] = Mine(r)
    BY <1>1 DEF IInv, Writing
  <2>3. Mine(r) \in Working
    BY <1>1, OneWorks DEF HasFile
  <2>4. QED
    BY <2>1, <2>2, <2>3 DEF Mine
<1>3. Working' = {} /\ \A n : n \in Working <=> n = Mine(r)
  BY <1>1, OneWorks DEF HasFile
<1>4. \A f \in Path : View(f) /\ View(f)'
  BY MovesIInv, PathsShow, PathsShowNext
<1> PICK p \in Path : p = path[r]
  BY <1>2
<1>5. FileAt(p) = NoFile
  BY <1>2, <1>4 DEF View
<1>6. FileAt(p)' = <<"plan", at[r] + 1>>
  <2>1. dir'[p] = <<r, at[r] + 1>> /\ <<r, at[r] + 1>> \notin Working'
    BY <1>1, <1>2, <1>3 DEF Mine
  <2>2. at[r] + 1 \in Entered(r)' /\ at[r] + 1 \in Index /\ View(p)'
    BY <1>1, <1>2, <1>4
  <2>3. QED
    BY <2>1, <2>2 DEF View
<1>7. ASSUME NEW f \in Path, f # p PROVE FileAt(f)' = FileAt(f)
  <2>1. dir[f] # Mine(r)
    <3>1. Filed /\ Mine(r) \notin {NoFile, Foreign}
      BY NamesDiffer DEF IInv, Mine
    <3>2. QED
      BY <1>2, <1>7, <3>1 DEF Filed
  <2>2. CASE dir[f] \in {NoFile, Foreign}
    BY <1>1, <1>4, <2>2 DEF View
  <2>3. CASE \E q \in Run, k \in Index : dir[f] = <<q, k>>
    <3>1. PICK q \in Run, k \in Index : dir[f] = <<q, k>>
      BY <2>3
    <3>2. <<q, k>> \notin Working /\ <<q, k>> \notin Working'
      BY <1>3, <2>1, <3>1
    <3>3. k \in Entered(q)' <=> k \in Entered(q)
      <4>1. CASE q # r
        BY <4>1, OneWorks
      <4>2. CASE q = r
        BY <1>1, <2>1, <3>1, <4>2 DEF Mine
      <4>3. QED
        BY <4>1, <4>2
    <3>4. QED
      BY <1>1, <1>4, <3>1, <3>2, <3>3 DEF View
  <2>4. QED
    BY <2>2, <2>3 DEF IInv, TypeOK, Inode
<1>8. QED
  BY <1>2, <1>5, <1>6, <1>7 DEF Files

-----------------------------------------------------------------------------
(* What becomes of the plans.                                              *)

(* A plan dealt with was the next one.                                     *)
LEMMA NextPlan ==
    ASSUME IInv, NEW r \in Run, Moves(r), at'[r] = at[r] + 1
    PROVE  /\ at[r] + 1 \in Index /\ Outcome[r][at[r] + 1] = <<"todo">>
           /\ \A j \in Index : j < at[r] + 1 => Outcome[r][j] # <<"todo">>
<1>1. at[r] + 1 \in Index /\ at[r] \in Nat
  <2>1. at'[r] \in 0 .. Len(plans)' /\ plans' = plans
    BY MovesIInv DEF IInv, TypeOK, Moves
  <2>2. QED
    BY <2>1, CarvingFacts
<1>2. \A k \in Index : Outcome[r][k] = OutcomeOf(r, k) /\ k \in Nat
  BY RecoveryAssumption DEF Outcome, Index
<1>3. QED
  BY <1>1, <1>2, OutcomeFacts

(* Nothing becomes of the plans of other runs.                             *)
LEMMA OthersOutcomes ==
    ASSUME IInv, NEW r \in Run, Moves(r), NEW q \in Run \ {r}, NEW k \in Index
    PROVE  OutcomeOf(q, k)' = OutcomeOf(q, k)
<1>1. entries'[q] = entries[q] /\ errors'[q] = errors[q]
  BY OthersWait DEF Own
<1>2. QED
  BY <1>1, OutcomeStays

(* Without an entry or an error nothing becomes of any plan.               *)
LEMMA OutcomesStay ==
    ASSUME IInv, NEW r \in Run, Moves(r), entries'[r] = entries[r], errors'[r] = errors[r]
    PROVE  Outcome' = Outcome
<1>1. \A q \in Run, k \in Index : OutcomeOf(q, k)' = OutcomeOf(q, k)
  BY OthersOutcomes, OutcomeStays
<1>2. QED
  BY <1>1 DEF Outcome

(* An error is what becomes of its plan.                                   *)
LEMMA PlanFails ==
    ASSUME IInv, NEW r \in Run, Moves(r), entries'[r] = entries[r],
           at[r] + 1 \in Index, errors'[r] = errors[r] \cup {at[r] + 1}
    PROVE  Outcome' = [Outcome EXCEPT ![r][at[r] + 1] = <<"failed">>]
<1> PICK n \in Index : n = at[r] + 1
  OBVIOUS
<1>1. \A q \in Run \ {r}, k \in Index : OutcomeOf(q, k)' = OutcomeOf(q, k)
  BY OthersOutcomes
<1>2. ASSUME NEW k \in Index, k # n PROVE OutcomeOf(r, k)' = OutcomeOf(r, k)
  BY <1>2, OutcomeStays
<1>3. OutcomeOf(r, n)' = <<"failed">>
  BY DEF OutcomeOf
<1>4. QED
  BY <1>1, <1>2, <1>3 DEF Outcome

(* And so is an entry, which names the file.                               *)
LEMMA PlanSaved ==
    ASSUME IInv, NEW r \in Run, Moves(r), entries'[r] # entries[r]
    PROVE  Outcome' = [Outcome EXCEPT ![r][at[r] + 1] = <<"saved", path[r]>>]
<1> DEFINE new == [file |-> path[r], plan |-> at[r] + 1]
<1>1. /\ Entries(r)' = Entries(r) \cup {new} /\ errors' = errors
      /\ at'[r] = at[r] + 1
  BY NewEntry
<1> PICK n \in Index : n = at[r] + 1
  BY <1>1, NextPlan
<1> PICK p : p = path[r]
  OBVIOUS
<1>2. \A q \in Run \ {r}, k \in Index : OutcomeOf(q, k)' = OutcomeOf(q, k)
  BY OthersOutcomes
<1>3. OutcomeOf(r, n)' = <<"saved", p>>
  <2>1. \A e \in Entries(r)' : OutcomeOf(r, e.plan)' = <<"saved", e.file>>
    BY MovesIInv, EntrySavedNext
  <2>2. new \in Entries(r)' /\ new.plan = n /\ new.file = p
    BY <1>1
  <2> HIDE DEF new
  <2>3. QED
    BY <2>1, <2>2
<1>4. ASSUME NEW k \in Index, k # n PROVE OutcomeOf(r, k)' = OutcomeOf(r, k)
  <2>1. k \in errors'[r] <=> k \in errors[r]
    BY <1>1
  <2>2. k \in Entered(r)' <=> k \in Entered(r)
    BY <1>4, EnteredMore
  <2>3. CASE k \in errors[r]
    BY <1>1, <2>3 DEF OutcomeOf
  <2>4. CASE k \notin errors[r] \cup Entered(r)
    BY <1>1, <2>2, <2>4 DEF OutcomeOf
  <2>5. CASE k \in Entered(r)
    <3>1. PICK e \in Entries(r) : e.plan = k
      BY <2>5 DEF Entered
    <3>2. OutcomeOf(r, k) = <<"saved", e.file>>
      BY <3>1, EntryOfPlan
    <3>3. OutcomeOf(r, k)' = <<"saved", e.file>>
      <4>1. \A d \in Entries(r)' : OutcomeOf(r, d.plan)' = <<"saved", d.file>>
        BY MovesIInv, EntrySavedNext
      <4>2. e \in Entries(r)'
        BY <1>1
      <4>3. QED
        BY <3>1, <4>1, <4>2
    <3>4. QED
      BY <3>2, <3>3
  <2>6. QED
    BY <2>3, <2>4, <2>5
<1>5. QED
  BY <1>2, <1>3, <1>4 DEF Outcome

-----------------------------------------------------------------------------
(* The log.                                                                *)

(* A step that writes the log does nothing else that shows.                *)
LEMMA LogStep ==
    ASSUME IInv, NEW r \in Run, Moves(r), log' # log
    PROVE  /\ log' \in {TornLog, LogFile("whole", entries[r])}
           /\ UNCHANGED <<at, entries, errors>> /\ pc'[r] # "dead"
           /\ pc[r] \in {"log", "logging"} /\ ~ ProbeFails(r)
<1>1. TypeOK
  BY DEF IInv
<1>2. CASE Start(r)
  BY <1>2 DEF Start, fs, book
<1>3. CASE EnterDir(r)
  BY <1>3 DEF EnterDir
<1>4. CASE EnterDirFails(r)
  BY <1>4 DEF EnterDirFails, fs, Fail
<1>5. CASE Probe(r)
  BY <1>5 DEF Probe, fs, book
<1>5a. CASE ProbeFails(r)
  BY <1>5a DEF ProbeFails, fs, book
<1>6. CASE Create(r)
  BY <1>6 DEF Create, book
<1>7. CASE CreateFails(r)
  BY <1>7 DEF CreateFails, fs, Fail, StopFull
<1>8. CASE CopyChunk(r)
  BY <1>8 DEF CopyChunk, book
<1>9. CASE ReadFails(r)
  BY <1>9 DEF ReadFails, fs, Fail
<1>10. CASE WriteFails(r)
  BY <1>10 DEF WriteFails, Fail, StopFull
<1>11. CASE GiveUp(r)
  BY <1>11 DEF GiveUp
<1>12. CASE Enter(r)
  BY <1>12 DEF Enter, fs
<1>13. CASE Discard(r)
  BY <1>13 DEF Discard, Fail
<1>14. CASE EndLoop(r)
  BY <1>14 DEF EndLoop, fs, book
<1>15. CASE OpenLog(r)
  BY <1>1, <1>15 DEF OpenLog, fs, book, TypeOK, ProbeFails
<1>16. CASE FillLog(r)
  BY <1>1, <1>16 DEF FillLog, fs, book, TypeOK, ProbeFails
<1>17. CASE LogFails(r)
  BY <1>17 DEF LogFails, fs, book
<1>18. CASE Kill(r)
  BY <1>18 DEF Kill, fs, book
<1>19. QED
  BY <1>2, <1>3, <1>4, <1>5, <1>5a, <1>6, <1>7, <1>8, <1>9, <1>10, <1>11,
     <1>12, <1>13, <1>14, <1>15, <1>16, <1>17, <1>18 DEF Moves, Step

(* What the entries of a run list is what it has saved.                    *)
LEMMA EntriesListed ==
    ASSUME IInv, NEW r \in Run
    PROVE  Entries(r) = {e \in [file : Path, plan : Index] :
                            Outcome[r][e.plan] = <<"saved", e.file>>}
<1>1. ASSUME NEW e \in Entries(r)
      PROVE  /\ e \in [file : Path, plan : Index]
             /\ Outcome[r][e.plan] = <<"saved", e.file>>
  BY EntryIsRecord, EntryOfPlan DEF Outcome
<1>2. ASSUME NEW e \in [file : Path, plan : Index], Outcome[r][e.plan] = <<"saved", e.file>>
      PROVE  e \in Entries(r)
  <2>1. OutcomeOf(r, e.plan) = <<"saved", e.file>>
    BY <1>2 DEF Outcome
  <2>2. PICK d \in Entries(r) : d.plan = e.plan /\ d.file = e.file
    BY <2>1, OutcomeFacts
  <2>3. d \in [file : Path, plan : Index]
    BY EntryIsRecord
  <2>4. d = e
    BY <2>2, <2>3
  <2>5. QED
    BY <2>4
<1>3. QED
  BY <1>1, <1>2

-----------------------------------------------------------------------------
(* Every step of a run is one of AtomicSave or does not show.              *)

(* Entering a file in the log saves its plan.                              *)
LEMMA EnterSaves ==
    ASSUME IInv, NEW r \in Run, Moves(r), entries'[r] # entries[r]
    PROVE  /\ at[r] + 1 \in Index /\ path[r] \in Path
           /\ Atomic!Save(r, at[r] + 1, path[r])
<1>1. at'[r] = at[r] + 1
  BY NewEntry
<1>2. LogSeen' = LogSeen
  BY LogStep DEF LogSeen
<1>3. Atomic!IsNext(r, at[r] + 1)
  BY <1>1, NextPlan DEF Atomic!IsNext, Atomic!Todo, Outcome
<1>4. Overlooking' \subseteq Overlooking
  <2>1. at[r] \in Nat
    BY CarvingFacts
  <2>2. at' # at
    BY <1>1, <2>1
  <2>3. QED
    BY <2>2, Forgets DEF ProbeFails
<1>5. QED
  BY <1>1, <1>2, <1>3, <1>4, EnterFiles, PlanSaved, NextPlan
  DEF Atomic!Save, Atomic!Whole, Atomic!SavedAt, Atomic!Forget, Files, Outcome,
      LogSeen

(* Recording an error fails the plan, and may leave its scrap.             *)
LEMMA ErrorFails ==
    ASSUME IInv, NEW r \in Run, Moves(r), entries'[r] = entries[r], at'[r] = at[r] + 1
    PROVE  at[r] + 1 \in Index /\ Atomic!Fail(r, at[r] + 1)
<1>1. errors'[r] = errors[r] \cup {at[r] + 1}
  BY PlanDealtWith, CarvingFacts
<1>2. at[r] + 1 \in Index /\ Atomic!IsNext(r, at[r] + 1)
  BY NextPlan DEF Atomic!IsNext, Atomic!Todo, Outcome
<1>3. Outcome' = [Outcome EXCEPT ![r][at[r] + 1] = <<"failed">>]
  BY <1>1, <1>2, PlanFails
<1>4. LogSeen' = LogSeen
  <2>1. at' # at
    BY CarvingFacts
  <2>2. log' = log
    BY <2>1, LogStep
  <2>3. QED
    BY <2>2 DEF LogSeen
<1>5. Files' = Files \/ Atomic!LeaveScrap \/ Atomic!LoseFile
  BY StepFiles DEF ScrapAppears, FileLost, Atomic!LeaveScrap, Atomic!LoseFile, Files
<1>6. Overlooking' \subseteq Overlooking
  <2>1. at[r] \in Nat
    BY CarvingFacts
  <2>2. at' # at
    BY <2>1
  <2>3. QED
    BY <2>2, Forgets DEF ProbeFails
<1>7. QED
  BY <1>2, <1>3, <1>4, <1>5, <1>6
  DEF Atomic!Fail, Atomic!Failed, Atomic!Forget, Files, Outcome, LogSeen

(* In the middle of a plan only the end of the run or its log shows, or    *)
(* what becomes of a file that is overlooked.                              *)
LEMMA QuietStep ==
    ASSUME IInv, NEW r \in Run, Moves(r), entries'[r] = entries[r], at'[r] = at[r]
    PROVE  \/ Atomic!Die \/ Atomic!Lose \/ Atomic!WriteLog(r)
           \/ \E f \in Path : Atomic!Overlook(f)
<1>1. Outcome' = Outcome
  <2>1. errors'[r] = errors[r]
    BY PlanDealtWith, CarvingFacts
  <2>2. QED
    BY <2>1, OutcomesStay
<1>2. CASE log' = log
  <2>1. LogSeen' = LogSeen
    BY <1>2 DEF LogSeen
  <2>2. CASE ProbeFails(r)
    BY <1>1, <2>1, <2>2, ProbeOverlooks DEF Atomic!Overlook, Files, Outcome, LogSeen
  <2>3. CASE ~ ProbeFails(r)
    <3>1. Files' = Files \/ Atomic!LeaveScrap \/ Atomic!LoseFile
      BY StepFiles DEF ScrapAppears, FileLost, Atomic!LeaveScrap, Atomic!LoseFile, Files
    <3>2. Overlooking' \subseteq Overlooking
      BY <2>3, Forgets
    <3>3. QED
      BY <1>1, <2>1, <3>1, <3>2
      DEF Atomic!Die, Atomic!Lose, Atomic!Forget, Files, Outcome, LogSeen
  <2>4. QED
    BY <2>2, <2>3
<1>3. CASE log' # log
  <2>1. log' \in {TornLog, LogFile("whole", entries[r])} /\ pc'[r] # "dead"
    BY <1>3, LogStep
  <2>2. Files' = Files /\ Overlooking' = Overlooking
    <3>1. Overlooking = {} /\ Overlooking' \subseteq Overlooking
      BY <1>3, LogStep, OverlookingFacts, Forgets
    <3>2. QED
      BY <2>1, <3>1, StepFiles DEF FileLost
  <2>3. Entries(r) = Atomic!Listing(r)
    BY EntriesListed DEF Atomic!Listing, Atomic!SavedAt, Outcome
  <2>4. CASE log' = TornLog
    <3>1. LogSeen' = [state |-> "torn", entries |-> {}]
      <4>1. log'.state = "torn" /\ log'.entries = << >> /\ Len(<< >>) = 0
        BY <2>4 DEF TornLog, LogFile
      <4>2. {log'.entries[k] : k \in 1 .. Len(log'.entries)} = {}
        BY <4>1
      <4>3. QED
        BY <4>1, <4>2 DEF LogSeen
    <3>2. QED
      BY <1>1, <2>2, <3>1 DEF Atomic!WriteLog, Files, Outcome, LogSeen
  <2>5. CASE log' = LogFile("whole", entries[r])
    <3>1. LogSeen' = [state |-> "whole", entries |-> Atomic!Listing(r)]
      BY <2>3, <2>5 DEF LogFile, LogSeen, Entries
    <3>2. QED
      BY <1>1, <2>2, <3>1 DEF Atomic!WriteLog, Files, Outcome, LogSeen
  <2>6. QED
    BY <2>1, <2>4, <2>5
<1>4. QED
  BY <1>2, <1>3

(* All steps together.                                                     *)
LEMMA StepSaves ==
    ASSUME IInv, [Next]_vars
    PROVE  [Atomic!Next]_Atomic!avars
<1>1. CASE UNCHANGED vars
  <2>1. /\ \A f \in Path : FileAt(f)' = FileAt(f)
        /\ \A r \in Run, k \in Index : OutcomeOf(r, k)' = OutcomeOf(r, k)
        /\ log' = log /\ Overlooking' = Overlooking
    BY <1>1 DEF vars, fs, book, FileAt, Working, Entries, WholePlan, OutcomeOf,
       Entered, Overlooking
  <2>2. QED
    BY <2>1 DEF Atomic!avars
<1>2. CASE \E r \in Run : Moves(r)
  <2>1. PICK r \in Run : Moves(r)
    BY <1>2
  <2>2. CASE entries'[r] # entries[r]
    BY <2>1, <2>2, EnterSaves DEF Atomic!Next
  <2>3. CASE entries'[r] = entries[r] /\ at'[r] = at[r] + 1
    BY <2>1, <2>3, ErrorFails DEF Atomic!Next
  <2>4. CASE entries'[r] = entries[r] /\ at'[r] = at[r]
    BY <2>1, <2>4, QuietStep DEF Atomic!Next
  <2>5. QED
    BY <2>1, <2>2, <2>3, <2>4, Course
<1>3. QED
  BY <1>1, <1>2, NextMoves

(* To begin with there are files of others, and no plan has been tried.    *)
LEMMA InitSaves == Init => Atomic!Init
<1> SUFFICES ASSUME Init PROVE Atomic!Init
  OBVIOUS
<1>1. Working = {} /\ Overlooking = {}
  BY DEF Init, Working, Overlooking
<1>2. \A r \in Run : Entries(r) = {} /\ Entered(r) = {} /\ errors[r] = {}
  <2>1. \A r \in Run : entries[r] = << >> /\ errors[r] = {}
    BY DEF Init
  <2>2. Len(<< >>) = 0
    OBVIOUS
  <2>3. \A r \in Run : Entries(r) = {}
    BY <2>1, <2>2 DEF Entries
  <2>4. QED
    BY <2>1, <2>3 DEF Entered
<1>3. Files \in [Path -> {NoFile, Foreign}]
  BY <1>1 DEF Init, Files, FileAt
<1>4. Outcome = [r \in Run |-> [k \in Index |-> <<"todo">>]]
  BY <1>2 DEF Outcome, OutcomeOf
<1>5. LogSeen = [state |-> "absent", entries |-> {}]
  <2>1. log.state = "absent" /\ log.entries = << >> /\ Len(<< >>) = 0
    BY DEF Init, NoLog, LogFile
  <2>2. {log.entries[k] : k \in 1 .. Len(log.entries)} = {}
    BY <2>1
  <2>3. QED
    BY <2>1, <2>2 DEF LogSeen
<1>6. QED
  BY <1>1, <1>3, <1>4, <1>5 DEF Atomic!Init, Atomic!Todo, Files, Outcome, LogSeen

-----------------------------------------------------------------------------
(* Saving is atomic for those who look at the output directory: an entered *)
(* file appears whole and in one step under a new path, a failed plan      *)
(* leaves at most one scrap, and a whole log lists what its run has saved, *)
(* whichever calls fail and whenever runs are killed.  A file is lost only *)
(* by the run that overlooks it at that moment.                            *)
THEOREM RecoverySavesAtomically == Spec => SavesAtomically
<1>1. IInv /\ [Next]_vars => [Atomic!Next]_Atomic!avars
  BY StepSaves
<1>2. QED
  BY <1>1, InitSaves, InductiveInvariant, PTL DEF Spec, SavesAtomically, Atomic!Spec
=============================================================================
