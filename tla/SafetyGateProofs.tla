-------------------------- MODULE SafetyGateProofs --------------------------
(***************************************************************************)
(* What the safety checks of run guarantee, for all disks, arguments and   *)
(* users.  Consent holds even when devices are exchanged at any moment;    *)
(* what was compared stays compared as long as none is.                    *)
(*                                                                         *)
(* Each property speaks of the end of the run; the invariants say what is  *)
(* already known at every step on the way (Consent, Differs).              *)
(***************************************************************************)
EXTENDS SafetyGate, TLAPS

Consented == args.force \/ answer = "YES"

IsData(w) == w.what # "dir"

(* Consent comes before the source is opened, and data after that.         *)
Consent ==
    /\ pc \in {"open", "carve", "log", "done"} => Consented
    /\ (\E w \in written : IsData(w)) => Consented /\ pc \in {"log", "done", "failed"}

DryRun ==
    /\ pc = "carve" => ~ args.dry_run
    /\ DryRunWritesNothing

IInv == TypeOK /\ Consent /\ DryRun

Apart(s) == s # source.slice /\ unit[s] # source.shown

(* Each place that was checked differs from the source in device and in    *)
(* number, unless there was a warning or a call failed unnoticed.          *)
Differs ==
    replugs = 0 /\ kind = "device" /\ ~ warned /\ ~ missed =>
        /\ pc \in {"checklog", "confirm", "open", "carve", "log"} => Apart(out.slice)
        /\ pc \in {"confirm", "open", "carve", "log"} /\ args.log # NoLog =>
              Apart(args.log.slice)
        /\ \A w \in written : IsData(w) => Apart(w.slice)

SameSource ==
    replugs = 0 => /\ opened \subseteq {source.slice}
                   /\ kind = "device" => source.type = "device"

StillInv == IInv /\ Differs /\ SameSource

-----------------------------------------------------------------------------
(* Consent and dry runs.                                                   *)

(* Nothing is written before the run begins.                               *)
LEMMA InitHolds == Init => IInv
<1> SUFFICES ASSUME Init PROVE IInv
  OBVIOUS
<1>1. replugs \in 0 .. MaxReplugs
  BY GateAssumption DEF Init
<1>2. TypeOK
  BY <1>1 DEF Init, TypeOK
<1>3. Consent /\ DryRun
  BY DEF Init, Consent, DryRun, DryRunWritesNothing
<1> QED
  BY <1>2, <1>3 DEF IInv

(* What a check may change.                                                *)
LEMMA CheckFacts ==
    ASSUME NEW p, NEW next, CheckSameDisk(p, next), TypeOK
    PROVE  pc' \in {next, "refused"} /\ warned' \in BOOLEAN /\ missed' \in BOOLEAN
BY DEF CheckSameDisk, TypeOK

(* Every step preserves the type invariant.                                *)
LEMMA TypeStep == TypeOK /\ [Next]_vars => TypeOK'
<1> SUFFICES ASSUME TypeOK, [Next]_vars PROVE TypeOK'
  OBVIOUS
<1>1. CASE DetectKind
  BY <1>1 DEF DetectKind, TypeOK, Ended, Accepted, Source
<1>2. CASE DetectRefuses
  BY <1>2 DEF DetectRefuses, TypeOK, Ended
<1>3. CASE MakeOutput
  <2>1. out' \in Place
    BY <1>3 DEF MakeOutput, MakesOutput, TypeOK, Place, Args
  <2>2. written' \subseteq Writes
    BY <1>3 DEF MakeOutput, Write, TypeOK, Place, Writes
  <2> QED
    BY <1>3, <2>1, <2>2 DEF MakeOutput, TypeOK, Ended
<1>4. CASE CheckOutput
  <2>1. pc' \in {"confirm", "checklog", "refused"} /\ warned' \in BOOLEAN /\ missed' \in BOOLEAN
    BY <1>4, CheckFacts DEF CheckOutput
  <2> QED
    BY <1>4, <2>1 DEF CheckOutput, TypeOK, Ended
<1>5. CASE CheckLog
  <2>1. pc' \in {"confirm", "refused"} /\ warned' \in BOOLEAN /\ missed' \in BOOLEAN
    BY <1>5, CheckFacts DEF CheckLog
  <2> QED
    BY <1>5, <2>1 DEF CheckLog, TypeOK, Ended
<1>6. CASE Confirm
  BY <1>6 DEF Confirm, TypeOK, Ended
<1>7. CASE Open
  BY <1>7 DEF Open, TypeOK, Ended, Source
<1>8. CASE Carve
  BY <1>8 DEF Carve, Write, TypeOK, Ended, Place, Writes
<1>9. CASE WriteLog
  <2>1. args.log # NoLog => args.log.slice \in Slice
    BY DEF TypeOK, Args, Place
  <2>2. out.slice \in Slice
    BY DEF TypeOK, Place
  <2>3. written' \subseteq Writes
    BY <1>9, <2>1, <2>2 DEF WriteLog, Write, TypeOK, Writes
  <2> QED
    BY <1>9, <2>3 DEF WriteLog, TypeOK, Ended
<1>10. CASE Abandon
  BY <1>10 DEF Abandon, TypeOK, Ended
<1>11. CASE Replug
  BY <1>11, GateAssumption DEF Replug, TypeOK, Ended
<1>12. CASE UNCHANGED vars
  BY <1>12 DEF vars, TypeOK
<1> QED
  BY <1>1, <1>2, <1>3, <1>4, <1>5, <1>6, <1>7, <1>8, <1>9, <1>10, <1>11, <1>12 DEF Next

(* Every step preserves that consent comes before data.                    *)
LEMMA ConsentStep == TypeOK /\ Consent /\ [Next]_vars => Consent'
<1> SUFFICES ASSUME TypeOK, Consent, [Next]_vars PROVE Consent'
  OBVIOUS
<1> USE DEF Consent, Consented
<1>1. CASE DetectKind
  BY <1>1 DEF DetectKind
<1>2. CASE DetectRefuses
  BY <1>2 DEF DetectRefuses
<1>3. CASE MakeOutput
  <2>1. \A w \in written' : ~ IsData(w)
    BY <1>3 DEF MakeOutput, Write, IsData
  <2> QED
    BY <1>3, <2>1 DEF MakeOutput
<1>4. CASE CheckOutput
  BY <1>4, CheckFacts DEF CheckOutput
<1>5. CASE CheckLog
  BY <1>5, CheckFacts DEF CheckLog
<1>6. CASE Confirm
  BY <1>6 DEF Confirm, Confirms
<1>7. CASE Open
  BY <1>7 DEF Open
<1>8. CASE Carve
  BY <1>8 DEF Carve
<1>9. CASE WriteLog
  BY <1>9 DEF WriteLog
<1>10. CASE Abandon
  BY <1>10 DEF Abandon, Ended
<1>11. CASE Replug
  BY <1>11 DEF Replug
<1>12. CASE UNCHANGED vars
  BY <1>12 DEF vars
<1> QED
  BY <1>1, <1>2, <1>3, <1>4, <1>5, <1>6, <1>7, <1>8, <1>9, <1>10, <1>11, <1>12 DEF Next

(* Every step preserves that a dry run writes nothing.                     *)
LEMMA DryRunStep == TypeOK /\ DryRun /\ [Next]_vars => DryRun'
<1> SUFFICES ASSUME TypeOK, DryRun, [Next]_vars PROVE DryRun'
  OBVIOUS
<1> USE DEF DryRun, DryRunWritesNothing
<1>1. CASE DetectKind
  BY <1>1 DEF DetectKind
<1>2. CASE DetectRefuses
  BY <1>2 DEF DetectRefuses
<1>3. CASE MakeOutput
  BY <1>3 DEF MakeOutput, MakesOutput
<1>4. CASE CheckOutput
  BY <1>4, CheckFacts DEF CheckOutput
<1>5. CASE CheckLog
  BY <1>5, CheckFacts DEF CheckLog
<1>6. CASE Confirm
  BY <1>6 DEF Confirm
<1>7. CASE Open
  BY <1>7 DEF Open
<1>8. CASE Carve
  BY <1>8 DEF Carve
<1>9. CASE WriteLog
  BY <1>9 DEF WriteLog
<1>10. CASE Abandon
  BY <1>10 DEF Abandon
<1>11. CASE Replug
  BY <1>11 DEF Replug
<1>12. CASE UNCHANGED vars
  BY <1>12 DEF vars
<1> QED
  BY <1>1, <1>2, <1>3, <1>4, <1>5, <1>6, <1>7, <1>8, <1>9, <1>10, <1>11, <1>12 DEF Next

-----------------------------------------------------------------------------
(* Devices that stay.                                                      *)

(* A check that passes without a warning has compared the place and found  *)
(* another device and another number.                                      *)
LEMMA CheckTellsApart ==
    ASSUME NEW p, NEW next, CheckSameDisk(p, next), kind = "device",
           source.type = "device", pc' # "refused", ~ warned', ~ missed'
    PROVE  ~ warned /\ ~ missed /\ Apart(p.slice)
<1>1. PICK s \in Found(p), df \in Answers(p), dev \in Answers(p) :
          /\ ~ SameDisk(s, df, dev)
          /\ warned' = (warned \/ ~ Comparable(s, df))
          /\ missed' = (missed \/ s # p.slice \/ ~ dev)
  BY DEF CheckSameDisk
<1>2. ~ warned /\ ~ missed /\ Comparable(s, df) /\ s = p.slice /\ dev
  BY <1>1, Zenon
<1> QED
  BY <1>1, <1>2 DEF SameDisk, Comparable, Apart

(* Every step preserves that checked places differ from the source.        *)
LEMMA DiffersStep ==
    ASSUME IInv, Differs, SameSource, [Next]_vars
    PROVE  Differs' /\ SameSource'
<1> USE DEF Differs, SameSource, Apart
<1>0. TypeOK /\ out.slice \in Slice /\ (args.log # NoLog => args.log.slice \in Slice)
  BY DEF IInv, TypeOK, Args, Place
<1>1. CASE DetectKind
  <2>1. \A w \in written : ~ IsData(w)
    BY <1>1 DEF DetectKind, IInv, Consent
  <2> QED
    BY <1>1, <2>1 DEF DetectKind
<1>2. CASE DetectRefuses
  BY <1>2 DEF DetectRefuses
<1>3. CASE MakeOutput
  <2>1. \A w \in written' : ~ IsData(w)
    BY <1>3 DEF MakeOutput, Write, IInv, Consent, IsData
  <2> QED
    BY <1>3, <2>1 DEF MakeOutput
<1>4. CASE CheckOutput
  <2>1. UNCHANGED <<args, unit, source, out, kind, opened, written, replugs>>
    BY <1>4 DEF CheckOutput
  <2>2. SameSource'
    BY <2>1
  <2>3. \A w \in written : ~ IsData(w)
    BY <1>4 DEF CheckOutput, IInv, Consent
  <2>4. pc' \in {"refused", "confirm", "checklog"}
        /\ (pc' = "confirm" => args.log = NoLog)
    BY <1>0, <1>4, CheckFacts DEF CheckOutput
  <2>5. ASSUME replugs = 0, kind = "device", ~ warned', ~ missed', pc' # "refused"
        PROVE  Apart(out.slice)
    BY <1>4, <2>5, CheckTellsApart DEF CheckOutput
  <2> QED
    BY <2>1, <2>2, <2>3, <2>4, <2>5
<1>5. CASE CheckLog
  <2>1. UNCHANGED <<args, unit, source, out, kind, opened, written, replugs>> /\ pc = "checklog"
    BY <1>5 DEF CheckLog
  <2>2. SameSource'
    BY <2>1
  <2>3. \A w \in written : ~ IsData(w)
    BY <2>1 DEF IInv, Consent
  <2>4. pc' \in {"refused", "confirm"}
    BY <1>0, <1>5, CheckFacts DEF CheckLog
  <2>5. ASSUME replugs = 0, kind = "device", ~ warned', ~ missed', pc' # "refused"
        PROVE  ~ warned /\ ~ missed /\ Apart(args.log.slice)
    BY <1>5, <2>5, CheckTellsApart DEF CheckLog
  <2>6. ASSUME kind = "device", ~ warned', ~ missed' PROVE ~ warned /\ ~ missed
    BY <1>5, <2>6 DEF CheckLog, CheckSameDisk
  <2> QED
    BY <2>1, <2>2, <2>3, <2>4, <2>5, <2>6
<1>6. CASE Confirm
  BY <1>6 DEF Confirm
<1>7. CASE Open
  BY <1>7 DEF Open
<1>8. CASE Carve
  BY <1>8 DEF Carve, Write
<1>9. CASE WriteLog
  BY <1>9 DEF WriteLog, Write
<1>10. CASE Abandon
  BY <1>10 DEF Abandon
<1>11. CASE Replug
  BY <1>0, <1>11 DEF Replug, TypeOK
<1>12. CASE UNCHANGED vars
  BY <1>12 DEF vars
<1> QED
  BY <1>1, <1>2, <1>3, <1>4, <1>5, <1>6, <1>7, <1>8, <1>9, <1>10, <1>11, <1>12 DEF Next

-----------------------------------------------------------------------------
(* The theorems.                                                           *)

(* The invariant the first three follow from.                              *)
THEOREM InductiveInvariant == Spec => []IInv
<1>1. IInv /\ [Next]_vars => IInv'
  BY TypeStep, ConsentStep, DryRunStep DEF IInv
<1> QED
  BY <1>1, InitHolds, PTL DEF Spec

(* The type invariant holds for all disks and arguments.                   *)
THEOREM GateTypeOK == Spec => []TypeOK
<1>1. IInv => TypeOK
  BY DEF IInv
<1> QED
  BY <1>1, InductiveInvariant, PTL

(* A run that is refused, or not confirmed by YES or --force, writes no    *)
(* file and no log, even if devices are exchanged while it waits.          *)
THEOREM GateConsent == Spec => []NothingWithoutConsent
<1>1. IInv => NothingWithoutConsent
  BY DEF IInv, Consent, Consented, IsData, NothingWithoutConsent
<1> QED
  BY <1>1, InductiveInvariant, PTL

(* A dry run without --log-file writes nothing, whatever happens.          *)
THEOREM GateDryRun == Spec => []DryRunWritesNothing
<1>1. IInv => DryRunWritesNothing
  BY DEF IInv, DryRun
<1> QED
  BY <1>1, InductiveInvariant, PTL

(* As long as no device is exchanged, a run that did not warn has put      *)
(* neither files nor log on the device it read, nor on any slice with the  *)
(* number its name shows, unless a call of the check failed unnoticed.     *)
THEOREM GateCompared == Spec => []ComparedElsewhere
<1>1. Init => StillInv
  BY InitHolds DEF Init, StillInv, Differs, SameSource
<1>2. IInv /\ [Next]_vars => IInv'
  BY TypeStep, ConsentStep, DryRunStep DEF IInv
<1>3. StillInv /\ [Next]_vars => StillInv'
  BY <1>2, DiffersStep DEF StillInv
<1>4. StillInv => ComparedElsewhere
  BY DEF StillInv, Differs, SameSource, Apart, IsData, ComparedElsewhere
<1> QED
  BY <1>1, <1>3, <1>4, PTL DEF Spec
=============================================================================
