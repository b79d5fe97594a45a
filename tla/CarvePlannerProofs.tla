------------------------- MODULE CarvePlannerProofs -------------------------
(***************************************************************************)
(* Planning is right for every source, signature database and order in     *)
(* which the hits are handled: plans stay in bounds, plans of one type do  *)
(* not overlap, and a plan is only dropped when it begins inside one that  *)
(* is kept.                                                                *)
(*                                                                         *)
(* The deduplication compares a plan with one number per type, the end of  *)
(* the last plan kept.  That this is enough is what IInv adds: last_end    *)
(* bounds every plan kept and is the end of one of them (EndsRecorded),    *)
(* and the plans left begin at or after all those already seen (Sorted).   *)
(* PlanInv adds where the plans come from: each is the plan for one of the *)
(* hits (Made), and no plain hit is lost (NoHitLost).                      *)
(***************************************************************************)
EXTENDS CarvePlanner, WellFoundedInduction, TLAPS

Sorted ==
    /\ pending # {} => kept = {} /\ rest = candidates
    /\ \A p \in candidates \ rest, q \in rest : p.offset <= q.offset
    /\ kept \cap rest = {}

EndsRecorded ==
    /\ \A k \in kept : k.offset + k.size <= last_end[k.type_name]
    /\ \A t \in Types :
          last_end[t] = 0 \/ \E k \in kept : /\ k.type_name = t
                                             /\ k.offset + k.size = last_end[t]

IInv ==
    /\ TypeOK
    /\ InBounds
    /\ Sorted
    /\ EndsRecorded
    /\ NoSameTypeOverlap
    /\ DropsJustified

-----------------------------------------------------------------------------
(* One plan.                                                               *)

(* What the assumption says of one signature.                              *)
LEMMA DBFacts ==
    ASSUME NEW s \in Sigs
    PROVE  /\ DB[s].names \subseteq Types
           /\ DB[s].shift \in Nat /\ DB[s].footer \in Nat
           /\ DB[s].min_size \in Nat \ {0} /\ DB[s].max_size \in Nat
           /\ DB[s].parser \in BOOLEAN /\ DB[s].strict \in BOOLEAN
BY DatabaseAssumption

(* First of a set of addresses that is not empty is its least element.     *)
LEMMA FirstIsFirst ==
    ASSUME NEW F \in SUBSET Addr, F # {}
    PROVE  First(F) \in F /\ \A g \in F : First(F) <= g
<1>1. F \subseteq Nat
  BY ArgumentAssumption DEF Addr
<1>2. PICK f \in F : \A g \in F : ~ (<<g, f>> \in OpToRel(<, Nat))
  BY <1>1, WFMin, NatLessThanWellFounded
<1>3. \A g \in F : <<g, f>> \in OpToRel(<, Nat) <=> g < f
  BY <1>1, <1>2 DEF OpToRel
<1>4. \A g \in F : ~ (g < f)
  BY <1>2, <1>3, Zenon
<1>5. \A g \in F : f <= g
  BY <1>1, <1>4
<1> QED
  BY <1>5 DEF First

(* A plan capped at Cap ends within the source.                            *)
LEMMA CapFacts ==
    ASSUME NEW h \in Hits, Start(h) >= 0
    PROVE  /\ Start(h) \in Nat /\ Cap(h) \in Int
           /\ Cap(h) <= DB[h.sig].max_size
           /\ Cap(h) <= MaxSizeArg
           /\ Start(h) + Cap(h) <= DiskSize
<1>1. h.sig \in Sigs /\ h.addr \in Int
  BY ArgumentAssumption DEF Hits, Addr
<1> QED
  BY <1>1, DBFacts, ArgumentAssumption DEF Start, Cap, Smaller

(* A footer never makes a file larger than the cap.                        *)
LEMMA FooterFacts ==
    ASSUME TypeOK, NEW s \in Sigs, NEW off \in Nat, NEW cap \in Int,
           FooterSize(s, off, cap) # NoFooter
    PROVE  /\ FooterSize(s, off, cap) \in Int
           /\ FooterSize(s, off, cap) <= cap
<1> DEFINE stops == {f \in footers[s] : f > off /\ Stops(s, off, cap, f)}
<1>1. stops # {} /\ stops \in SUBSET Addr
  BY DEF FooterSize, TypeOK
<1>2. First(stops) \in Addr
  BY <1>1, FirstIsFirst
<1>3. /\ FooterSize(s, off, cap) = SizeTo(s, off, First(stops))
      /\ ~ (SizeTo(s, off, First(stops)) > cap)
  BY DEF FooterSize
<1>4. SizeTo(s, off, First(stops)) \in Int
  <2> HIDE DEF stops
  <2>1. First(stops) \in Int /\ comment[First(stops)] \in Nat
    BY <1>2, ArgumentAssumption DEF Addr, TypeOK
  <2> QED
    BY <2>1, DBFacts DEF SizeTo
<1> QED
  BY <1>3, <1>4

(* A plan that is made is a plan, in bounds.                               *)
LEMMA PlanFacts ==
    ASSUME TypeOK, NEW h \in headers, NEW t \in DB[h.sig].names,
           NEW parsed \in ParseResults(h.sig), Plannable(h, t, parsed),
           NEW p, p = PlanFor(h, t, parsed)
    PROVE  /\ p \in Plans
           /\ p.offset + p.size <= DiskSize
           /\ p.size \in DB[p.sig].min_size .. DB[p.sig].max_size
           /\ p.size <= MaxSizeArg
           /\ p.type_name \in Wanted
           /\ h.sig = p.sig /\ h.addr = p.offset + DB[p.sig].shift
<1>1. h \in Hits /\ h.sig \in Sigs /\ h.addr \in Int
  BY ArgumentAssumption DEF TypeOK, Hits, Addr
<1>2. t \in Types /\ parsed \in Nat \cup {NoParse}
  BY <1>1, DBFacts, ArgumentAssumption DEF ParseResults
<1>3. PICK off \in Nat : off = Start(h)
  BY <1>1, CapFacts DEF Plannable
<1>4. PICK cap \in Int : cap = Cap(h)
  BY <1>1, <1>3, CapFacts DEF Plannable
<1>5. off + cap <= DiskSize /\ cap <= DB[h.sig].max_size /\ cap <= MaxSizeArg
  BY <1>1, <1>3, <1>4, CapFacts
<1>6. /\ p.offset = off /\ p.type_name = t /\ p.sig = h.sig /\ p.parsed = parsed
      /\ p.truncated \in BOOLEAN
  <2>1. p.offset = off /\ p.type_name = t /\ p.sig = h.sig /\ p.parsed = parsed
    BY <1>3 DEF PlanFor
  <2>2. PlanFor(h, t, parsed).truncated \in BOOLEAN
    BY Zenon DEF PlanFor
  <2> QED
    BY <2>1, <2>2
<1>7. p.size \in Int /\ p.size <= cap
  <2>1. CASE parsed # NoParse
    <3>1. p.size = Smaller(parsed, cap)
      BY <2>1, <1>4 DEF PlanFor
    <3> QED
      BY <1>2, <2>1, <3>1 DEF Smaller
  <2>2. CASE parsed = NoParse
    <3>1. \/ /\ p.size = FooterSize(h.sig, off, cap)
             /\ FooterSize(h.sig, off, cap) # NoFooter
          \/ p.size = cap
      BY <1>3, <1>4, <2>2 DEF PlanFor
    <3> QED
      BY <1>1, <3>1, FooterFacts
  <2> QED
    BY <2>1, <2>2
<1>8. p.size >= DB[h.sig].min_size /\ t \in Wanted
  BY DEF Plannable
<1>9. p = [offset |-> p.offset, size |-> p.size, type_name |-> p.type_name,
           truncated |-> p.truncated, sig |-> p.sig, parsed |-> p.parsed]
  BY DEF PlanFor
<1>10. DB[h.sig].min_size \in Nat \ {0} /\ DB[h.sig].max_size \in Nat /\ DB[h.sig].shift \in Nat
  BY <1>1, DBFacts
<1>11. p.size \in Nat \ {0}
  BY <1>7, <1>8, <1>10
<1>12. p \in Plans
  BY <1>1, <1>2, <1>6, <1>9, <1>11 DEF Plans
<1>13. h.addr = off + DB[h.sig].shift
  BY <1>1, <1>3, <1>10 DEF Start
<1> QED
  BY <1>5, <1>6, <1>7, <1>8, <1>10, <1>12, <1>13, ArgumentAssumption
-----------------------------------------------------------------------------
(* The steps.                                                              *)

(* There are no plans at first.                                            *)
LEMMA InitHolds ==
    ASSUME Init
    PROVE  IInv
<1>1. comment \in [Addr -> CommentLens \cup {0}]
  BY DEF Init
<1>2. footers \in [Sigs -> SUBSET Addr] /\ headers \subseteq Hits
  BY DEF Init
<1>3. /\ pending = headers /\ candidates = {} /\ rest = {} /\ kept = {}
      /\ last_end = [t \in Types |-> 0]
  BY DEF Init
<1>4. comment \in [Addr -> Nat]
  <2>1. CommentLens \cup {0} \subseteq Nat
    BY ArgumentAssumption
  <2> QED
    BY <1>1, <2>1
<1>5. TypeOK
  <2>1. last_end \in [Types -> Nat]
    BY <1>3
  <2>2. pending \subseteq headers /\ candidates \subseteq Plans
        /\ rest \subseteq candidates /\ kept \subseteq candidates
    BY <1>3
  <2> QED
    BY <1>2, <1>4, <2>1, <2>2 DEF TypeOK
<1> QED
  BY <1>3, <1>5 DEF IInv, InBounds, Sorted, EndsRecorded, NoSameTypeOverlap,
     DropsJustified

(* Planning a hit.                                                         *)
LEMMA PlanOneStep ==
    ASSUME IInv, NEW h \in pending, PlanOne(h)
    PROVE  IInv'
<1>1. PICK t \in DB[h.sig].names, parsed \in ParseResults(h.sig),
            valid \in Verdicts(h.sig) :
         LET made == IF valid /\ Plannable(h, t, parsed)
                     THEN {PlanFor(h, t, parsed)} ELSE {}
         IN /\ candidates' = candidates \cup made
            /\ rest' = rest \cup made
  BY DEF PlanOne, Resolved
<1>2. PICK made : /\ made = IF valid /\ Plannable(h, t, parsed)
                            THEN {PlanFor(h, t, parsed)} ELSE {}
                  /\ candidates' = candidates \cup made
                  /\ rest' = rest \cup made
  BY <1>1
<1>3. /\ kept = {} /\ rest = candidates /\ pending' \subseteq pending
      /\ UNCHANGED <<headers, footers, comment, kept, last_end>>
  BY DEF IInv, Sorted, PlanOne
<1>4. h \in headers
  BY DEF IInv, TypeOK
<1>5. \A p \in made :
         /\ p \in Plans
         /\ p.offset + p.size <= DiskSize
         /\ p.size \in DB[p.sig].min_size .. DB[p.sig].max_size
         /\ p.size <= MaxSizeArg
         /\ p.type_name \in Wanted
         /\ h.sig = p.sig /\ h.addr = p.offset + DB[p.sig].shift
  <2>1. ASSUME NEW p \in made
        PROVE  Plannable(h, t, parsed) /\ p = PlanFor(h, t, parsed)
    BY <1>2
  <2> QED
    BY <1>4, <2>1, PlanFacts DEF IInv
<1>6. TypeOK'
  <2>1. candidates' \subseteq Plans
    BY <1>2, <1>5 DEF IInv, TypeOK
  <2> QED
    BY <1>2, <1>3, <2>1 DEF IInv, TypeOK
<1>7. InBounds'
  <2>1. \A p \in made : 0 <= p.offset
    BY <1>5 DEF Plans
  <2> QED
    BY <1>2, <1>3, <1>4, <1>5, <2>1 DEF IInv, InBounds
<1>8. Sorted' /\ EndsRecorded' /\ NoSameTypeOverlap' /\ DropsJustified'
  BY <1>2, <1>3 DEF IInv, Sorted, EndsRecorded, NoSameTypeOverlap, DropsJustified
<1> QED
  BY <1>6, <1>7, <1>8 DEF IInv

(* What is known of the plan the deduplication has come to.                *)
LEMMA RetainFacts ==
    ASSUME IInv, NEW p \in rest, Retain(p)
    PROVE  /\ p \in candidates /\ p \in Plans /\ p \notin kept
           /\ p.offset \in Nat /\ p.size \in Nat \ {0} /\ p.type_name \in Types
           /\ last_end[p.type_name] \in Nat
           /\ \A q \in rest : p.offset <= q.offset
           /\ \A q \in candidates \ rest : q.offset <= p.offset
           /\ rest' = rest \ {p} /\ candidates' = candidates
           /\ pending = {} /\ pending' = {}
           /\ UNCHANGED <<headers, footers, comment>>
BY DEF IInv, TypeOK, Plans, Sorted, Retain, NextInOrder

(* Plans are still taken in order of their offsets.                        *)
LEMMA SortedStep ==
    ASSUME IInv, NEW p \in rest, Retain(p)
    PROVE  Sorted'
<1>1. \A c \in candidates : c.offset \in Nat
  BY DEF IInv, TypeOK, Plans
<1>2. kept' \subseteq kept \cup {p}
  BY DEF Retain
<1>3. ASSUME NEW c \in candidates' \ rest', NEW q \in rest'
      PROVE  c.offset <= q.offset
  <2>1. CASE c = p
    BY <2>1, RetainFacts
  <2>2. CASE c # p
    BY <2>2, RetainFacts DEF IInv, Sorted
  <2> QED
    BY <2>1, <2>2
<1> QED
  BY <1>2, <1>3, RetainFacts DEF IInv, Sorted

(* A plan that is dropped begins inside the last plan of its type kept.    *)
LEMMA DropStep ==
    ASSUME IInv, NEW p \in rest, Retain(p), Covered(p)
    PROVE  EndsRecorded' /\ NoSameTypeOverlap' /\ DropsJustified'
<1>1. kept' = kept /\ last_end' = last_end
  BY DEF Retain
<1>2. PICK k \in kept : /\ k.type_name = p.type_name
                        /\ k.offset + k.size = last_end[p.type_name]
  BY RetainFacts DEF IInv, EndsRecorded, Covered
<1>3. k \in candidates \ rest
  BY DEF IInv, TypeOK, Sorted
<1>4. Inside(p, k)
  BY <1>2, <1>3, RetainFacts DEF Inside, Covered
<1>5. DropsJustified'
  <2>1. ASSUME NEW q \in candidates' \ (rest' \cup kept')
        PROVE  \E k2 \in kept' : Inside(q, k2)
    <3>1. CASE q = p
      BY <1>1, <1>4, <3>1
    <3>2. CASE q # p
      BY <1>1, <3>2, RetainFacts DEF IInv, DropsJustified
    <3> QED
      BY <3>1, <3>2
  <2> QED
    BY <2>1 DEF DropsJustified, Inside
<1> QED
  BY <1>1, <1>5 DEF IInv, EndsRecorded, NoSameTypeOverlap

(* A plan that is kept begins at or after the end of all of its type.      *)
LEMMA KeepStep ==
    ASSUME IInv, NEW p \in rest, Retain(p), ~ Covered(p)
    PROVE  TypeOK' /\ EndsRecorded' /\ NoSameTypeOverlap' /\ DropsJustified'
<1>1. /\ kept' = kept \cup {p}
      /\ last_end' = [last_end EXCEPT ![p.type_name] = p.offset + p.size]
  BY DEF Retain
<1>2. \A k \in kept : /\ k \in Plans /\ k.offset \in Nat /\ k.size \in Nat
                      /\ k.type_name \in Types
  BY DEF IInv, TypeOK, Plans
<1>3. last_end[p.type_name] <= p.offset
  BY RetainFacts DEF Covered
<1>4. ASSUME NEW k \in kept, k.type_name = p.type_name
      PROVE  k.offset + k.size <= p.offset
  <2>1. k.offset + k.size <= last_end[p.type_name]
    BY <1>4 DEF IInv, EndsRecorded
  <2> QED
    BY <1>2, <1>3, <2>1, RetainFacts
<1>5. TypeOK'
  <2>1. last_end' \in [Types -> Nat]
    BY <1>1, RetainFacts DEF IInv, TypeOK
  <2> QED
    BY <1>1, <2>1, RetainFacts DEF IInv, TypeOK
<1>6. \A t \in Types : last_end'[t] = IF t = p.type_name THEN p.offset + p.size
                                      ELSE last_end[t]
  BY <1>1 DEF IInv, TypeOK
<1>7. EndsRecorded'
  <2>1. ASSUME NEW k \in kept'
        PROVE  k.offset + k.size <= last_end'[k.type_name]
    <3>1. CASE k = p
      BY <1>6, <3>1, RetainFacts
    <3>2. CASE k # p /\ k.type_name = p.type_name
      BY <1>1, <1>2, <1>4, <1>6, <3>2, RetainFacts
    <3>3. CASE k # p /\ k.type_name # p.type_name
      BY <1>1, <1>2, <1>6, <3>3 DEF IInv, EndsRecorded
    <3> QED
      BY <3>1, <3>2, <3>3
  <2>2. ASSUME NEW t \in Types, last_end'[t] # 0
        PROVE  \E k \in kept' : k.type_name = t /\ k.offset + k.size = last_end'[t]
    <3>1. CASE t = p.type_name
      BY <1>1, <1>6, <3>1
    <3>2. CASE t # p.type_name
      BY <1>1, <1>6, <2>2, <3>2 DEF IInv, EndsRecorded
    <3> QED
      BY <3>1, <3>2
  <2> QED
    BY <2>1, <2>2 DEF EndsRecorded
<1>8. NoSameTypeOverlap'
  BY <1>1, <1>4 DEF IInv, NoSameTypeOverlap
<1>9. DropsJustified'
  BY <1>1, RetainFacts DEF IInv, DropsJustified, Inside
<1> QED
  BY <1>5, <1>7, <1>8, <1>9

(* Keeping or dropping a plan.                                             *)
LEMMA RetainStep ==
    ASSUME IInv, NEW p \in rest, Retain(p)
    PROVE  IInv'
<1>1. InBounds'
  BY RetainFacts DEF IInv, InBounds
<1>2. CASE Covered(p)
  <2>1. TypeOK'
    BY <1>2, RetainFacts DEF IInv, TypeOK, Retain
  <2> QED
    BY <1>1, <1>2, <2>1, SortedStep, DropStep DEF IInv
<1>3. CASE ~ Covered(p)
  BY <1>1, <1>3, SortedStep, KeepStep DEF IInv
<1> QED
  BY <1>2, <1>3

(* A step that changes nothing.                                            *)
LEMMA StutterStep ==
    ASSUME IInv, UNCHANGED vars
    PROVE  IInv'
BY DEF vars, IInv, TypeOK, InBounds, Sorted, EndsRecorded, NoSameTypeOverlap,
   DropsJustified, Inside

(* What planning a hit does to the candidates.                             *)
LEMMA PlanOneMakes ==
    ASSUME IInv, NEW h \in pending, PlanOne(h)
    PROVE  \E t \in DB[h.sig].names, parsed \in ParseResults(h.sig),
              valid \in Verdicts(h.sig) :
              candidates' = candidates \cup (IF valid /\ Plannable(h, t, parsed)
                                             THEN {PlanFor(h, t, parsed)} ELSE {})
BY DEF PlanOne, Resolved

(* A footer that ends a file is the first that makes it a legal size.      *)
LEMMA FooterIsFirstFit ==
    ASSUME TypeOK, NEW s \in Sigs, NEW off \in Nat, NEW cap \in Int,
           FooterSize(s, off, cap) # NoFooter
    PROVE  /\ FooterSize(s, off, cap) \in DB[s].min_size .. cap
           /\ \E f \in footers[s] :
                 /\ f > off /\ FooterSize(s, off, cap) = SizeTo(s, off, f)
                 /\ \A g \in footers[s] :
                       g > off /\ SizeTo(s, off, g) \in DB[s].min_size .. cap => f <= g
<1> DEFINE stops == {f \in footers[s] : f > off /\ Stops(s, off, cap, f)}
<1>1. stops # {} /\ stops \in SUBSET Addr
  BY DEF FooterSize, TypeOK
<1>2. PICK f : f = First(stops)
  OBVIOUS
<1>3. f \in stops /\ \A g \in stops : f <= g
  BY <1>1, <1>2, FirstIsFirst
<1>4. /\ FooterSize(s, off, cap) = SizeTo(s, off, f)
      /\ FooterSize(s, off, cap) \in Int /\ FooterSize(s, off, cap) <= cap
  BY <1>2, FooterFacts DEF FooterSize
<1>5. DB[s].min_size \in Nat
  BY DBFacts
<1>6. FooterSize(s, off, cap) >= DB[s].min_size
  BY <1>3, <1>4, <1>5 DEF Stops
<1>7. ASSUME NEW g \in footers[s], g > off, SizeTo(s, off, g) \in DB[s].min_size .. cap
      PROVE  f <= g
  BY <1>3, <1>5, <1>7 DEF Stops
<1> QED
  BY <1>3, <1>4, <1>5, <1>6, <1>7

(* So it does in a plan that is made.                                      *)
LEMMA NewPlanEnds ==
    ASSUME TypeOK, NEW h \in headers, NEW t \in DB[h.sig].names,
           NEW parsed \in ParseResults(h.sig), Plannable(h, t, parsed),
           NEW p, p = PlanFor(h, t, parsed), FromFooter(p), ~ p.truncated
    PROVE  \E f \in footers[p.sig] :
              /\ Fits(p, f)
              /\ p.size = SizeTo(p.sig, p.offset, f)
              /\ \A g \in footers[p.sig] : Fits(p, g) => f <= g
<1>1. h \in Hits /\ h.sig \in Sigs /\ h.addr \in Int
  BY ArgumentAssumption DEF TypeOK, Hits, Addr
<1>2. Start(h) \in Nat /\ Cap(h) \in Int
  BY <1>1, CapFacts DEF Plannable
<1>3. p.offset = Start(h) /\ p.sig = h.sig /\ p.parsed = parsed
  BY DEF PlanFor
<1>4. parsed = NoParse /\ DB[h.sig].footer # 0
  BY <1>3 DEF FromFooter
<1> DEFINE end == FooterSize(h.sig, Start(h), Cap(h))
<1>5. end # NoFooter /\ p.size = end
  BY <1>4 DEF PlanFor
<1>6. [addr |-> p.offset + DB[p.sig].shift, sig |-> p.sig] = h
  BY <1>1, <1>3, PlanFacts DEF Hits
<1>7. \A f : Fits(p, f) <=> /\ f > Start(h)
                            /\ SizeTo(h.sig, Start(h), f) \in DB[h.sig].min_size .. Cap(h)
  BY <1>3, <1>6 DEF Fits
<1> QED
  BY <1>1, <1>2, <1>3, <1>5, <1>7, FooterIsFirstFit

(* Of a format without validator and parser, a hit becomes a plan.         *)
LEMMA PlainHitPlanned ==
    ASSUME IInv, NEW h \in pending, PlanOne(h),
           ~ DB[h.sig].validated, ~ DB[h.sig].parser, ~ DB[h.sig].strict,
           DB[h.sig].names \subseteq Wanted,
           Start(h) >= 0, Cap(h) >= DB[h.sig].min_size
    PROVE  \E p \in candidates' : p.sig = h.sig /\ p.offset = Start(h)
<1>1. h \in Hits /\ h.sig \in Sigs /\ TypeOK
  BY DEF IInv, TypeOK, Hits
<1>2. PICK t \in DB[h.sig].names, parsed \in ParseResults(h.sig),
           valid \in Verdicts(h.sig) :
           candidates' = candidates \cup (IF valid /\ Plannable(h, t, parsed)
                                          THEN {PlanFor(h, t, parsed)} ELSE {})
  BY PlanOneMakes
<1>3. valid = TRUE /\ parsed = NoParse
  BY DEF Verdicts, ParseResults
<1>4. Start(h) \in Nat /\ Cap(h) \in Int /\ DB[h.sig].min_size \in Nat
  BY <1>1, CapFacts, DBFacts
<1>5. PlanFor(h, t, parsed).size >= DB[h.sig].min_size
  <2>1. \/ /\ PlanFor(h, t, parsed).size = FooterSize(h.sig, Start(h), Cap(h))
           /\ FooterSize(h.sig, Start(h), Cap(h)) # NoFooter
        \/ PlanFor(h, t, parsed).size = Cap(h)
    BY <1>3 DEF PlanFor
  <2> QED
    BY <1>1, <1>4, <2>1, FooterIsFirstFit
<1>6. Plannable(h, t, parsed)
  BY <1>3, <1>5 DEF Plannable
<1>7. PlanFor(h, t, parsed) \in candidates'
  BY <1>2, <1>3, <1>6
<1> QED
  BY <1>7 DEF PlanFor

(* The hits, footers and comments stay, and so do the candidates.          *)
LEMMA SourceStays ==
    ASSUME [Next]_vars
    PROVE  /\ UNCHANGED <<headers, footers, comment>>
           /\ candidates \subseteq candidates'
           /\ \/ UNCHANGED <<pending, candidates>>
              \/ \E h \in pending : PlanOne(h) /\ pending' = pending \ {h}
BY DEF Next, PlanOne, Retain, vars

-----------------------------------------------------------------------------
(* Steps.                                                                  *)

(* Each step keeps IInv.                                                   *)
LEMMA StepHolds ==
    ASSUME IInv, [Next]_vars
    PROVE  IInv'
BY PlanOneStep, RetainStep, StutterStep DEF Next

(* Every candidate is the plan for a hit.                                  *)
Made ==
    \A p \in candidates : \E h \in headers :
        \E t \in DB[h.sig].names, parsed \in ParseResults(h.sig) :
            Plannable(h, t, parsed) /\ p = PlanFor(h, t, parsed)

(* The hits and what planning reads do not change, so a plan stays the     *)
(* plan for its hit.                                                       *)
LEMMA MadeStep ==
    ASSUME IInv, Made, [Next]_vars
    PROVE  Made'
<1> DEFINE Plan(p) ==
              \E h \in headers :
                  \E t \in DB[h.sig].names, parsed \in ParseResults(h.sig) :
                      Plannable(h, t, parsed) /\ p = PlanFor(h, t, parsed)
<1>1. headers' = headers /\ footers' = footers /\ comment' = comment
  BY SourceStays
<1>2. \A p \in candidates : Plan(p)
  BY DEF Made
<1>3. ASSUME NEW p \in candidates' PROVE Plan(p)
  <2>1. CASE UNCHANGED candidates
    BY <1>2, <2>1
  <2>2. CASE \E h \in pending : PlanOne(h)
    <3>1. PICK h \in pending : PlanOne(h)
      BY <2>2
    <3>2. h \in headers
      BY DEF IInv, TypeOK
    <3>3. \/ p \in candidates
          \/ \E t \in DB[h.sig].names, parsed \in ParseResults(h.sig) :
                Plannable(h, t, parsed) /\ p = PlanFor(h, t, parsed)
      BY <3>1, PlanOneMakes
    <3> QED
      BY <1>2, <3>2, <3>3
  <2> QED
    BY <2>1, <2>2, SourceStays
<1>4. ASSUME NEW s, NEW off, NEW cap
      PROVE  FooterSize(s, off, cap)' = FooterSize(s, off, cap)
  BY <1>1 DEF FooterSize, Stops, SizeTo, First
<1>5. ASSUME NEW h, NEW t, NEW parsed
      PROVE  PlanFor(h, t, parsed)' = PlanFor(h, t, parsed)
  BY <1>4 DEF PlanFor, Cap, Start
<1>6. ASSUME NEW h, NEW t, NEW parsed
      PROVE  Plannable(h, t, parsed)' <=> Plannable(h, t, parsed)
  BY <1>5 DEF Plannable, Cap, Start
<1> QED
  BY <1>1, <1>3, <1>5, <1>6 DEF Made

(* A hit leaves pending only when it is planned.                           *)
LEMMA HitsStep ==
    ASSUME IInv, NoHitLost, [Next]_vars
    PROVE  NoHitLost'
<1>1. ASSUME NEW h \in headers' \ pending',
             ~ DB[h.sig].validated, ~ DB[h.sig].parser, ~ DB[h.sig].strict,
             DB[h.sig].names \subseteq Wanted,
             Start(h) >= 0, Cap(h) >= DB[h.sig].min_size
      PROVE  \E p \in candidates' : p.sig = h.sig /\ p.offset = Start(h)
  <2>1. h \in headers /\ candidates \subseteq candidates'
    BY <1>1, SourceStays
  <2>2. CASE h \notin pending
    <3>1. \E p \in candidates : p.sig = h.sig /\ p.offset = Start(h)
      BY <1>1, <2>1, <2>2 DEF NoHitLost
    <3> QED
      BY <2>1, <3>1
  <2>3. CASE h \in pending
    <3>1. PlanOne(h)
      BY <1>1, <2>3, SourceStays
    <3> QED
      BY <1>1, <2>3, <3>1, PlainHitPlanned
  <2> QED
    BY <2>2, <2>3
<1> QED
  BY <1>1 DEF NoHitLost

(* All that holds of the plans.                                            *)
PlanInv == IInv /\ Made /\ NoHitLost

(* Each step keeps all of it.                                              *)
LEMMA PlanInvStep ==
    ASSUME PlanInv, [Next]_vars
    PROVE  PlanInv'
BY StepHolds, MadeStep, HitsStep DEF PlanInv

-----------------------------------------------------------------------------
(* The theorems.                                                           *)

(* The invariant the others follow from.                                   *)
THEOREM InductiveInvariant == Spec => []PlanInv
<1>1. Init => PlanInv
  BY InitHolds DEF Init, PlanInv, Made, NoHitLost
<1> QED
  BY <1>1, PlanInvStep, PTL DEF Spec

(* The type invariant of planning, for every source and database.          *)
THEOREM PlannerTypeOK == Spec => []TypeOK
<1>1. PlanInv => TypeOK
  BY DEF PlanInv, IInv
<1> QED
  BY <1>1, InductiveInvariant, PTL

(* For every source and database, every plan lies inside the source and    *)
(* respects the size limits and the filter, whatever a header claims.      *)
THEOREM PlansInBounds == Spec => []InBounds
<1>1. PlanInv => InBounds
  BY DEF PlanInv, IInv
<1> QED
  BY <1>1, InductiveInvariant, PTL

(* For every set of hits, and in every order of planning them, no byte is  *)
(* carved twice as the same type.                                          *)
THEOREM PlansDisjoint == Spec => []NoSameTypeOverlap
<1>1. PlanInv => NoSameTypeOverlap
  BY DEF PlanInv, IInv
<1> QED
  BY <1>1, InductiveInvariant, PTL

(* For every set of hits, a plan is dropped only when it begins inside one *)
(* of its type that is kept.                                               *)
THEOREM PlansDroppedForCause == Spec => []DropsJustified
<1>1. PlanInv => DropsJustified
  BY DEF PlanInv, IInv
<1> QED
  BY <1>1, InductiveInvariant, PTL

(* A file that a footer ends is ended by the first footer that makes it a  *)
(* legal size, for every source and database.                              *)
THEOREM PlansEndAtFirstFit == Spec => []EndsAtFirstFit
<1>1. ASSUME PlanInv PROVE EndsAtFirstFit
  <2>1. TypeOK /\ Made
    BY <1>1 DEF PlanInv, IInv
  <2>2. ASSUME NEW p \in candidates, FromFooter(p), ~ p.truncated
        PROVE  \E f \in footers[p.sig] :
                  /\ Fits(p, f)
                  /\ p.size = SizeTo(p.sig, p.offset, f)
                  /\ \A g \in footers[p.sig] : Fits(p, g) => f <= g
    BY <2>1, <2>2, NewPlanEnds DEF Made
  <2> QED
    BY <2>2 DEF EndsAtFirstFit
<1> QED
  BY <1>1, InductiveInvariant, PTL

(* Of a format without validator and parser every wanted hit with room for *)
(* the smallest file gets a plan, for every source and database.           *)
THEOREM PlainHitsPlanned == Spec => []NoHitLost
<1>1. PlanInv => NoHitLost
  BY DEF PlanInv
<1> QED
  BY <1>1, InductiveInvariant, PTL
=============================================================================
