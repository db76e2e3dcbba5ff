--------------------------- MODULE SandboxProofs ---------------------------
(***************************************************************************)
(* Proofs about module Sandbox, for any programs, inputs and outputs:      *)
(* whatever fails to launch, is killed or is late, what the sandbox calls  *)
(* clean, broken or passed is so.  And about module TaskPool, for any      *)
(* inputs and sizes: every C program does what its description says, and   *)
(* every weak translation differs from it by the bugs it was given only.   *)
(***************************************************************************)
EXTENDS PoolTests, FoldProofs

(* What a result tells of an execution, given the sets of those that did   *)
(* not take place and of those that were late.                             *)
Reported(lostOnes, lateOnes, execution, does, res) ==
    \/ res = Ran(does) /\ execution \notin lostOnes \union lateOnes
    \/ res = Killed /\ execution \in lateOnes \ lostOnes
    \/ res = NotLaunched /\ execution \in lostOnes
    \/ docker /\ res \in {NoOutput, Killed} /\ execution \in lostOnes

(* Each side runs once.                                                    *)
Fresh(side) == \A i \in Inputs : <<side, i>> \notin ours \union late

FreshOnes ==
    /\ phase = "screen" => Fresh("san")
    /\ phase \in {"screen", "reference"} => Fresh("c")
    /\ phase \in {"screen", "reference", "candidate"} => Fresh("rust")

(* What is clean, ends by itself and is defined.                           *)
CleanIsDefined ==
    phase # "screen" => \A i \in Valid : i \notin ub /\ c[i] \notin {Crash, Hang}

NotRunYet == phase \in {"screen", "reference"} => DOMAIN cres = {}

ReferenceRan ==
    phase \in {"candidate", "compare"} =>
        /\ DOMAIN cres \subseteq Valid
        /\ \A i \in DOMAIN cres : Reported(ours, late, <<"c", i>>, c[i], cres[i])

CandidateRan ==
    phase = "compare" =>
        /\ DOMAIN rres = DOMAIN cres
        /\ \A i \in DOMAIN rres : Reported(ours, late, <<"rust", i>>, rust[i], rres[i])

IInv ==
    /\ c \in [Inputs -> Behaviours] /\ rust \in [Inputs -> Behaviours]
    /\ FreshOnes
    /\ ScreenIsExact
    /\ CleanIsDefined
    /\ NotRunYet
    /\ ReferenceRan
    /\ CandidateRan
    /\ phase # "done" => passed = {} /\ divergences = {}
    /\ BrokenMeansDiffers
    /\ PassedMeansAgrees
    /\ FaithfulPasses
    /\ DifferenceIsSeen

-----------------------------------------------------------------------------
(* Programs and batches.                                                   *)

LEMMA BehaviourFacts ==
    ASSUME NEW does \in Behaviours
    PROVE  /\ does = Exit(does.exit, does.out, does.ends)
           /\ does \notin {Crash, Hang} => does.exit \in {0, 101} /\ does.ends
           /\ does.exit = -9 => does \in {Crash, Hang}
           /\ does = Crash => does.exit = -9 /\ does.ends
           /\ does = Hang => does.exit = -9 /\ ~ does.ends
  BY DEF Behaviours, Exit, Crash, Hang, Codes

LEMMA RanFacts ==
    ASSUME NEW does \in Behaviours
    PROVE  /\ Ran(does).exit = does.exit
           /\ Ran(does).out = Capped[does.out]
           /\ Ran(does).timed_out <=> ~ does.ends
  BY DEF Ran, Result

LEMMA OtherResults ==
    /\ Killed.exit = -9 /\ Killed.timed_out
    /\ NotLaunched.exit = -1 /\ ~ NotLaunched.timed_out
    /\ NoOutput.exit = -1 /\ NoOutput.timed_out
  BY DEF Killed, NotLaunched, NoOutput, Result

(* A batch reports truthfully, and says nothing of the other sides.        *)
LEMMA BatchReports ==
    ASSUME NEW side, NEW does, NEW lost, NEW slow, NEW fate \in Fates,
           DOMAIN does \subseteq Inputs, Fresh(side),
           Recorded(side, does, lost, slow, fate)
    PROVE  /\ DOMAIN Batch(does, lost, slow, fate) = DOMAIN does
           /\ \A i \in DOMAIN does :
                 Reported(ours', late', <<side, i>>, does[i],
                          Batch(does, lost, slow, fate)[i])
           /\ \A other, i : other # side =>
                 /\ <<other, i>> \in ours' <=> <<other, i>> \in ours
                 /\ <<other, i>> \in late' <=> <<other, i>> \in late
<1>1. /\ ours' = ours \union ({side} \X IF fate = "ran" THEN lost ELSE DOMAIN does)
      /\ late' = late \union ({side} \X IF fate = "ran" THEN slow ELSE {})
      /\ lost \intersect slow = {}
  BY DEF Recorded
<1>2. ASSUME NEW i \in DOMAIN does
      PROVE  Reported(ours', late', <<side, i>>, does[i],
                      Batch(does, lost, slow, fate)[i])
  <2>1. <<side, i>> \notin ours \union late
    BY DEF Fresh
  <2>2. CASE fate = "ran"
    <3>1. /\ <<side, i>> \in ours' <=> i \in lost
          /\ <<side, i>> \in late' <=> i \in slow
      BY <1>1, <2>1, <2>2
    <3>2. CASE i \in lost
      BY <2>2, <3>1, <3>2 DEF Batch, Reported
    <3>3. CASE i \in slow
      BY <1>1, <2>2, <3>1, <3>3 DEF Batch, Reported
    <3>4. CASE i \notin lost \union slow
      BY <2>2, <3>1, <3>4 DEF Batch, Reported
    <3> QED BY <3>2, <3>3, <3>4
  <2>3. CASE fate # "ran"
    <3>1. docker /\ fate \in {"no output", "killed"}
      BY <2>3 DEF Fates
    <3>2. <<side, i>> \in ours'
      BY <1>1, <2>3
    <3> QED BY <3>1, <3>2 DEF Batch, Reported
  <2> QED BY <2>2, <2>3
<1>3. DOMAIN Batch(does, lost, slow, fate) = DOMAIN does
  BY DEF Batch
<1>4. ASSUME NEW other, NEW i, other # side
      PROVE  /\ <<other, i>> \in ours' <=> <<other, i>> \in ours
             /\ <<other, i>> \in late' <=> <<other, i>> \in late
  BY <1>1, <1>4
<1> QED BY <1>2, <1>3, <1>4

-----------------------------------------------------------------------------
(* The steps.                                                              *)

LEMMA InitInvariant == Init => IInv
<1> SUFFICES ASSUME Init PROVE IInv
  OBVIOUS
<1>1. phase = "screen" /\ ours = {} /\ late = {} /\ passed = {} /\ divergences = {}
  BY DEF Init
<1> QED
  BY <1>1 DEF Init, IInv, FreshOnes, Fresh, ScreenIsExact, CleanIsDefined, NotRunYet,
              Nothing, ReferenceRan, CandidateRan, BrokenMeansDiffers, PassedMeansAgrees,
              FaithfulPasses, DifferenceIsSeen, FairlyTested

(* Nothing is judged before the comparison.                                *)
LEMMA NotJudgedYet ==
    ASSUME passed' = {}, divergences' = {}, phase' # "done" \/ DOMAIN cres' = {}
    PROVE  /\ BrokenMeansDiffers' /\ PassedMeansAgrees'
           /\ FaithfulPasses' /\ DifferenceIsSeen'
  BY DEF BrokenMeansDiffers, PassedMeansAgrees, FaithfulPasses, DifferenceIsSeen,
         FairlyTested, Tested

LEMMA ScreenInvariant ==
    ASSUME IInv, NEW lost, NEW slow, NEW fate \in Fates, Screen(lost, slow, fate)
    PROVE  IInv'
<1> DEFINE res == Batch(c, lost, slow, fate)
           reported == IF fate = "ran" THEN ub \ (lost \union slow) ELSE {}
<1>1. /\ phase = "screen" /\ phase' = "reference"
      /\ screened' = [i \in Inputs |-> Verdict(res[i], i \in reported)]
      /\ Recorded("san", c, lost, slow, fate)
      /\ UNCHANGED <<docker, ub, c, rust, cres, rres, passed, divergences>>
  BY DEF Screen, truth
<1>2. /\ \A i \in Inputs : Reported(ours', late', <<"san", i>>, c[i], res[i])
      /\ \A other, i : other # "san" =>
            /\ <<other, i>> \in ours' <=> <<other, i>> \in ours
            /\ <<other, i>> \in late' <=> <<other, i>> \in late
  <2>1. DOMAIN c = Inputs /\ Fresh("san")
    BY <1>1 DEF IInv, FreshOnes
  <2> QED BY <1>1, <2>1, BatchReports
<1>3. \A i \in Inputs : i \in reported =>
         i \in ub /\ <<"san", i>> \notin late' /\ <<"san", i>> \notin ours'
  BY <1>1 DEF IInv, FreshOnes, Fresh, Recorded
<1>4. \A i \in Inputs : i \in ub /\ <<"san", i>> \notin ours' \union late' => i \in reported
  <2> SUFFICES ASSUME NEW i \in Inputs, i \in ub, <<"san", i>> \notin ours' \union late'
               PROVE  i \in reported
    OBVIOUS
  <2>1. DOMAIN c = Inputs
    BY DEF IInv
  <2>2. /\ ours' = ours \union ({"san"} \X IF fate = "ran" THEN lost ELSE Inputs)
        /\ late' = late \union ({"san"} \X IF fate = "ran" THEN slow ELSE {})
    BY <1>1, <2>1 DEF Recorded
  <2>3. fate = "ran" /\ i \notin lost /\ i \notin slow
    BY <2>2
  <2> QED BY <2>3
<1> HIDE DEF res, reported
<1>5. ASSUME NEW i \in Inputs
      PROVE  /\ <<"san", i>> \notin ours' =>
                   screened'[i] = IF i \in ub \/ c[i] \in {Crash, Hang} \/ <<"san", i>> \in late'
                                  THEN "invalid" ELSE "clean"
             /\ screened'[i] = "clean" => i \notin ub /\ c[i] \notin {Crash, Hang}
  <2>1. screened'[i] = Verdict(res[i], i \in reported)
    BY <1>1
  <2>2. c[i] \in Behaviours
    BY DEF IInv
  <2>3. CASE res[i] = Ran(c[i]) /\ <<"san", i>> \notin ours' \union late'
    <3>1. (i \in reported) = (i \in ub)
      BY <1>3, <1>4, <2>3
    <3>2. CASE c[i] \in {Crash, Hang}
      <4>1. res[i].exit = -9
        <5>1. c[i].exit = -9
          BY <2>2, <3>2, BehaviourFacts
        <5> QED BY <2>2, <2>3, <5>1, RanFacts
      <4>2. screened'[i] = "invalid"
        BY <2>1, <4>1 DEF Verdict
      <4> QED BY <4>2, <3>2
    <3>3. CASE c[i] \notin {Crash, Hang}
      <4>1. res[i].exit \in {0, 101} /\ ~ res[i].timed_out
        <5>1. c[i].exit \in {0, 101} /\ c[i].ends
          BY <2>2, <3>3, BehaviourFacts
        <5> QED BY <2>2, <2>3, <5>1, RanFacts
      <4>2. screened'[i] = IF i \in ub THEN "invalid" ELSE "clean"
        BY <2>1, <3>1, <4>1 DEF Verdict
      <4> QED BY <4>2, <2>3, <3>3
    <3> QED BY <3>2, <3>3
  <2>4. CASE res[i] = Killed /\ <<"san", i>> \in late'
    <3>1. screened'[i] = "invalid"
      BY <2>1, <2>4, OtherResults DEF Verdict
    <3> QED BY <3>1, <2>4
  <2>5. CASE res[i] \in {NotLaunched, NoOutput, Killed} /\ <<"san", i>> \in ours'
    <3>1. screened'[i] # "clean"
      BY <2>1, <2>5, OtherResults DEF Verdict
    <3> QED BY <3>1, <2>5
  <2> QED BY <1>2, <2>3, <2>4, <2>5 DEF Reported
<1>6. ScreenIsExact' /\ CleanIsDefined'
  BY <1>1, <1>5 DEF ScreenIsExact, CleanIsDefined, Valid
<1>7. FreshOnes'
  BY <1>1, <1>2 DEF IInv, FreshOnes, Fresh
<1>8. NotRunYet' /\ ReferenceRan' /\ CandidateRan'
  BY <1>1 DEF IInv, NotRunYet, ReferenceRan, CandidateRan
<1>9. passed' = {} /\ divergences' = {}
  BY <1>1 DEF IInv
<1> QED BY <1>1, <1>6, <1>7, <1>8, <1>9, NotJudgedYet DEF IInv

LEMMA ScreenBuildFailsInvariant == IInv /\ ScreenBuildFails => IInv'
<1> SUFFICES ASSUME IInv, ScreenBuildFails PROVE IInv'
  OBVIOUS
<1>1. /\ phase = "screen" /\ phase' = "reference"
      /\ screened' = [i \in Inputs |-> "invalid"]
      /\ ours' = {"san"} \X Inputs
      /\ UNCHANGED <<docker, ub, c, rust, cres, rres, passed, divergences, late>>
  BY DEF ScreenBuildFails, truth
<1>2. ScreenIsExact' /\ CleanIsDefined'
  BY <1>1 DEF ScreenIsExact, CleanIsDefined, Valid
<1>3. FreshOnes'
  BY <1>1 DEF IInv, FreshOnes, Fresh
<1>4. NotRunYet' /\ ReferenceRan' /\ CandidateRan'
  BY <1>1 DEF IInv, NotRunYet, ReferenceRan, CandidateRan
<1>5. passed' = {} /\ divergences' = {}
  BY <1>1 DEF IInv
<1> QED BY <1>1, <1>2, <1>3, <1>4, <1>5, NotJudgedYet DEF IInv

LEMMA ReferenceInvariant ==
    ASSUME IInv, NEW lost, NEW slow, NEW fate \in Fates, RunReference(lost, slow, fate)
    PROVE  IInv'
<1>1. PICK tests \in (HiddenTests \union {Valid}) \ {{}} :
        /\ cres' = Batch(On(c, tests), lost, slow, fate)
        /\ Recorded("c", On(c, tests), lost, slow, fate)
  BY DEF RunReference
<1>2. /\ phase = "reference" /\ phase' = "candidate"
      /\ UNCHANGED <<docker, ub, c, rust, screened, rres, passed, divergences>>
  BY DEF RunReference, truth
<1>3. tests \subseteq Valid /\ Valid \subseteq Inputs
  BY <1>1 DEF HiddenTests, Valid
<1>4. /\ DOMAIN On(c, tests) = tests
      /\ \A i \in tests : On(c, tests)[i] = c[i]
  BY DEF On
<1>5. /\ DOMAIN cres' = tests
      /\ \A i \in tests : Reported(ours', late', <<"c", i>>, c[i], cres'[i])
      /\ \A other, i : other # "c" =>
            /\ <<other, i>> \in ours' <=> <<other, i>> \in ours
            /\ <<other, i>> \in late' <=> <<other, i>> \in late
  <2>1. DOMAIN On(c, tests) \subseteq Inputs /\ Fresh("c")
    BY <1>2, <1>3, <1>4 DEF IInv, FreshOnes
  <2>2. /\ DOMAIN cres' = DOMAIN On(c, tests)
        /\ \A i \in DOMAIN On(c, tests) :
              Reported(ours', late', <<"c", i>>, On(c, tests)[i], cres'[i])
    BY <1>1, <2>1, BatchReports
  <2>3. \A other, i : other # "c" =>
            /\ <<other, i>> \in ours' <=> <<other, i>> \in ours
            /\ <<other, i>> \in late' <=> <<other, i>> \in late
    BY <1>1, <2>1, BatchReports
  <2> QED BY <1>4, <2>2, <2>3
<1>6. ScreenIsExact' /\ CleanIsDefined'
  BY <1>2, <1>5 DEF IInv, ScreenIsExact, CleanIsDefined, Valid
<1>7. FreshOnes'
  BY <1>2, <1>5 DEF IInv, FreshOnes, Fresh
<1>8. NotRunYet' /\ ReferenceRan' /\ CandidateRan'
  BY <1>2, <1>3, <1>5 DEF NotRunYet, ReferenceRan, CandidateRan, Valid, Reported
<1>9. passed' = {} /\ divergences' = {}
  BY <1>2 DEF IInv
<1> QED BY <1>2, <1>6, <1>7, <1>8, <1>9, NotJudgedYet DEF IInv

LEMMA CandidateInvariant ==
    ASSUME IInv, NEW lost, NEW slow, NEW fate \in Fates, RunCandidate(lost, slow, fate)
    PROVE  IInv'
<1> DEFINE does == On(rust, Tested)
<1>1. /\ rres' = Batch(does, lost, slow, fate)
      /\ Recorded("rust", does, lost, slow, fate)
      /\ phase = "candidate" /\ phase' = "compare"
      /\ UNCHANGED <<docker, ub, c, rust, screened, cres, passed, divergences>>
  BY DEF RunCandidate, truth
<1>2. Tested \subseteq Valid /\ Valid \subseteq Inputs
  BY <1>1 DEF IInv, ReferenceRan, Tested, Valid
<1>3. /\ DOMAIN does = Tested
      /\ \A i \in Tested : does[i] = rust[i]
  BY DEF On
<1> HIDE DEF does
<1>4. /\ DOMAIN rres' = Tested
      /\ \A i \in Tested : Reported(ours', late', <<"rust", i>>, rust[i], rres'[i])
      /\ \A other, i : other # "rust" =>
            /\ <<other, i>> \in ours' <=> <<other, i>> \in ours
            /\ <<other, i>> \in late' <=> <<other, i>> \in late
  <2>1. DOMAIN does \subseteq Inputs /\ Fresh("rust")
    BY <1>1, <1>2, <1>3 DEF IInv, FreshOnes
  <2>2. /\ DOMAIN rres' = DOMAIN does
        /\ \A i \in DOMAIN does : Reported(ours', late', <<"rust", i>>, does[i], rres'[i])
    BY <1>1, <2>1, BatchReports
  <2>3. \A other, i : other # "rust" =>
            /\ <<other, i>> \in ours' <=> <<other, i>> \in ours
            /\ <<other, i>> \in late' <=> <<other, i>> \in late
    BY <1>1, <2>1, BatchReports
  <2> QED BY <1>3, <2>2, <2>3
<1>5. ScreenIsExact' /\ CleanIsDefined'
  BY <1>1, <1>4 DEF IInv, ScreenIsExact, CleanIsDefined, Valid
<1>6. FreshOnes'
  BY <1>1 DEF FreshOnes
<1>7. ReferenceRan'
  <2>1. \A i : Reported(ours, late, <<"c", i>>, c[i], cres[i]) =>
                 Reported(ours', late', <<"c", i>>, c[i], cres[i])
    BY <1>4 DEF Reported
  <2>2. ReferenceRan
    BY DEF IInv
  <2> QED BY <1>1, <2>1, <2>2 DEF ReferenceRan, Valid, Reported
<1>8. NotRunYet' /\ CandidateRan'
  BY <1>1, <1>4 DEF NotRunYet, CandidateRan, Tested, Reported
<1>9. passed' = {} /\ divergences' = {}
  BY <1>1 DEF IInv
<1> QED BY <1>1, <1>5, <1>6, <1>7, <1>8, <1>9, NotJudgedYet DEF IInv

(* The verdicts of a comparison.                                           *)
LEMMA CompareInvariant == IInv /\ Compare => IInv'
<1> SUFFICES ASSUME IInv, Compare PROVE IInv'
  OBVIOUS
<1>1. /\ phase = "compare" /\ phase' = "done"
      /\ passed' = {i \in Tested : ~ Excluded(i) /\ Agree(i)}
      /\ divergences' = {i \in Tested : ~ Excluded(i) /\ ~ Agree(i)}
      /\ UNCHANGED <<docker, ub, c, rust, screened, cres, rres, ours, late>>
  BY DEF Compare, truth, mishaps
<1>2. ASSUME NEW i \in Tested
      PROVE  /\ i \in Valid /\ i \in Inputs
             /\ c[i] \in Behaviours /\ rust[i] \in Behaviours
             /\ i \notin ub /\ c[i] \notin {Crash, Hang}
             /\ Reported(ours, late, <<"c", i>>, c[i], cres[i])
             /\ Reported(ours, late, <<"rust", i>>, rust[i], rres[i])
  BY <1>1, <1>2 DEF IInv, ReferenceRan, CandidateRan, CleanIsDefined, Valid, Tested
<1>3. ASSUME ~ docker, NEW i \in divergences'
      PROVE  /\ <<"rust", i>> \notin ours /\ <<"c", i>> \notin ours
             /\ i \notin ub
             /\ rust[i] # c[i] \/ <<"rust", i>> \in late \/ <<"c", i>> \in late
  <2>1. i \in Tested /\ ~ Excluded(i) /\ ~ Agree(i)
    BY <1>1, <1>3
  <2>2. cres[i] # NotLaunched /\ rres[i] # NotLaunched
    BY <2>1, OtherResults DEF Excluded
  <2>3. /\ \/ cres[i] = Ran(c[i]) /\ <<"c", i>> \notin ours \union late
           \/ cres[i] = Killed /\ <<"c", i>> \in late \ ours
        /\ \/ rres[i] = Ran(rust[i]) /\ <<"rust", i>> \notin ours \union late
           \/ rres[i] = Killed /\ <<"rust", i>> \in late \ ours
    BY <1>2, <1>3, <2>1, <2>2 DEF Reported
  <2>4. ~ (cres[i] = Ran(c[i]) /\ rres[i] = Ran(rust[i]) /\ rust[i] = c[i])
    <3> SUFFICES ASSUME cres[i] = Ran(c[i]), rres[i] = Ran(rust[i]), rust[i] = c[i]
                 PROVE  Agree(i)
      BY <2>1
    <3>1. c[i] \in Behaviours /\ c[i] \notin {Crash, Hang}
      BY <1>2, <2>1
    <3>2. ~ Ran(c[i]).timed_out
      BY <3>1, BehaviourFacts, RanFacts
    <3> QED BY <3>2 DEF Agree
  <2>5. rust[i] # c[i] \/ <<"rust", i>> \in late \/ <<"c", i>> \in late
    BY <2>3, <2>4
  <2>6. i \notin ub
    BY <1>2, <2>1
  <2>7. <<"rust", i>> \notin ours /\ <<"c", i>> \notin ours
    BY <2>3
  <2> QED BY <2>5, <2>6, <2>7
<1>4. ASSUME NEW i \in passed'
      PROVE  /\ <<"rust", i>> \notin ours \union late
             /\ \/ /\ <<"c", i>> \notin ours \union late
                   /\ rust[i].exit = c[i].exit
                   /\ Capped[rust[i].out] = Capped[c[i].out]
                \/ /\ <<"c", i>> \in ours \union late
                   /\ rust[i] = Crash
  <2>1. i \in Tested /\ ~ Excluded(i) /\ Agree(i)
    BY <1>1, <1>4
  <2>2. rres[i] \notin {NotLaunched, NoOutput, Killed}
    BY <2>1, OtherResults DEF Excluded, Agree
  <2>3. rres[i] = Ran(rust[i]) /\ <<"rust", i>> \notin ours \union late
    BY <1>2, <2>1, <2>2 DEF Reported
  <2>b. rust[i] \in Behaviours /\ c[i] \in Behaviours
    BY <1>2, <2>1
  <2>4. CASE cres[i] = Ran(c[i]) /\ <<"c", i>> \notin ours \union late
    <3>1. Ran(rust[i]).exit = Ran(c[i]).exit /\ Ran(rust[i]).out = Ran(c[i]).out
      BY <2>1, <2>3, <2>4 DEF Agree
    <3>2. rust[i].exit = c[i].exit /\ Capped[rust[i].out] = Capped[c[i].out]
      BY <2>b, <3>1, RanFacts
    <3> QED BY <2>3, <2>4, <3>2
  <2>5. CASE cres[i] = Killed /\ <<"c", i>> \in ours \union late
    <3>0. Ran(rust[i]).exit = Killed.exit /\ ~ Ran(rust[i]).timed_out
      BY <2>1, <2>3, <2>5 DEF Agree
    <3>1. rust[i].exit = -9
      BY <2>b, <3>0, RanFacts, OtherResults
    <3>2. rust[i] \in Behaviours
      BY <2>b
    <3>3. rust[i] \in {Crash, Hang} /\ rust[i] # Hang
      <4>1. rust[i] \in {Crash, Hang}
        BY <3>1, <3>2, BehaviourFacts
      <4>2. rust[i].ends
        BY <3>0, <3>2, RanFacts
      <4> QED BY <3>2, <4>1, <4>2, BehaviourFacts
    <3> QED BY <2>3, <2>5, <3>3
  <2>6. cres[i] \notin {NotLaunched, NoOutput}
    BY <2>1, OtherResults DEF Excluded
  <2> QED BY <1>2, <2>1, <2>4, <2>3, <2>5, <2>6 DEF Reported
<1>a. ASSUME NEW i \in Tested,
             \A side \in {"c", "rust"} : <<side, i>> \notin ours \union late
      PROVE  /\ rust[i] = c[i] => i \in passed'
             /\ rust[i].exit # c[i].exit \/ Capped[rust[i].out] # Capped[c[i].out]
                => i \in divergences'
  <2>1. cres[i] = Ran(c[i]) /\ rres[i] = Ran(rust[i])
    BY <1>2, <1>a DEF Reported
  <2>2. c[i] \in Behaviours /\ rust[i] \in Behaviours /\ c[i] \notin {Crash, Hang}
    BY <1>2, <1>a
  <2>3. c[i].exit # -1 /\ rust[i].exit # -1 /\ c[i].ends
    BY <2>2, BehaviourFacts
  <2>4. ~ Excluded(i)
    BY <2>1, <2>2, <2>3, RanFacts DEF Excluded
  <2>5. Agree(i) <=> /\ Capped[c[i].out] = Capped[rust[i].out]
                     /\ c[i].exit = rust[i].exit
                     /\ rust[i].ends
    BY <2>1, <2>2, RanFacts DEF Agree
  <2> QED BY <1>1, <1>a, <2>3, <2>4, <2>5
<1>b. FaithfulPasses' /\ DifferenceIsSeen'
  BY <1>1, <1>a DEF FaithfulPasses, DifferenceIsSeen, FairlyTested, Tested
<1>5. BrokenMeansDiffers'
  BY <1>1, <1>3 DEF BrokenMeansDiffers
<1>6. PassedMeansAgrees'
  BY <1>1, <1>4 DEF PassedMeansAgrees
<1>7. FreshOnes' /\ NotRunYet' /\ ReferenceRan' /\ CandidateRan'
  BY <1>1 DEF FreshOnes, NotRunYet, ReferenceRan, CandidateRan
<1>8. ScreenIsExact' /\ CleanIsDefined'
  BY <1>1 DEF IInv, ScreenIsExact, CleanIsDefined, Valid
<1> QED BY <1>1, <1>b, <1>5, <1>6, <1>7, <1>8 DEF IInv

LEMMA NextInvariant == IInv /\ [Next]_vars => IInv'
<1> SUFFICES ASSUME IInv, [Next]_vars PROVE IInv'
  OBVIOUS
<1>1. ASSUME NEW lost \in SUBSET Inputs, NEW slow \in SUBSET Inputs, NEW fate \in Fates,
             \/ Screen(lost, slow, fate)
             \/ RunReference(lost, slow, fate)
             \/ RunCandidate(lost, slow, fate)
      PROVE  IInv'
  BY <1>1, ScreenInvariant, ReferenceInvariant, CandidateInvariant
<1>2. CASE NoTest
  <2>1. /\ phase = "reference" /\ phase' = "done"
        /\ UNCHANGED <<docker, ub, c, rust, screened, cres, rres, passed, divergences,
                       ours, late>>
    BY <1>2 DEF NoTest, truth, mishaps
  <2>2. passed' = {} /\ divergences' = {} /\ DOMAIN cres' = {}
    BY <2>1 DEF IInv, NotRunYet
  <2>3. FreshOnes' /\ NotRunYet' /\ ReferenceRan' /\ CandidateRan'
    BY <2>1 DEF FreshOnes, NotRunYet, ReferenceRan, CandidateRan
  <2>4. ScreenIsExact' /\ CleanIsDefined'
    BY <2>1 DEF IInv, ScreenIsExact, CleanIsDefined, Valid
  <2> QED BY <2>1, <2>2, <2>3, <2>4, NotJudgedYet DEF IInv
<1>3. CASE UNCHANGED vars
  <2>1. UNCHANGED <<docker, ub, c, rust, phase, screened, cres, rres, passed, divergences,
                    ours, late>>
    BY <1>3 DEF vars, truth, mishaps
  <2> QED
    BY <2>1 DEF IInv, FreshOnes, Fresh, ScreenIsExact, CleanIsDefined, NotRunYet,
                ReferenceRan, CandidateRan, BrokenMeansDiffers, PassedMeansAgrees,
                FaithfulPasses, DifferenceIsSeen, FairlyTested, Tested, Valid, Reported
<1> QED
  BY <1>1, <1>2, <1>3, ScreenBuildFailsInvariant, CompareInvariant DEF Next

(* Of the executions that took place, the sanitizer screen calls clean     *)
(* exactly those that are neither undefined, nor crash, nor hang, nor were *)
(* late.                                                                   *)
THEOREM ScreenTellsTheTruth == Spec => []ScreenIsExact
<1>1. IInv => ScreenIsExact
  BY DEF IInv
<1> QED BY <1>1, InitInvariant, NextInvariant, PTL DEF Spec

(* On the host toolchain a candidate is broken by real differences only.   *)
THEOREM BrokenForReal == Spec => []BrokenMeansDiffers
<1>1. IInv => BrokenMeansDiffers
  BY DEF IInv
<1> QED BY <1>1, InitInvariant, NextInvariant, PTL DEF Spec

(* A test is passed only by a candidate that ran to its end and agrees.    *)
THEOREM PassedForReal == Spec => []PassedMeansAgrees
<1>1. IInv => PassedMeansAgrees
  BY DEF IInv
<1> QED BY <1>1, InitInvariant, NextInvariant, PTL DEF Spec

(* A candidate that does what C does passes every test that both got to    *)
(* run in time, one that does not within the output kept fails it.         *)
THEOREM TestsAreFair == Spec => [](FaithfulPasses /\ DifferenceIsSeen)
<1>1. IInv => FaithfulPasses /\ DifferenceIsSeen
  BY DEF IInv
<1> QED BY <1>1, InitInvariant, NextInvariant, PTL DEF Spec

-----------------------------------------------------------------------------
(* Exclusive or, and crc32.                                                *)

(* FoldLeft with the step of an operator is a run.                         *)
LEMMA XorFolds ==
    ASSUME NEW a \in Nat, NEW b \in Nat, NEW in \in Seq(1 .. WordBits)
    PROVE  FoldLeft(LAMBDA x, k : 2 * x + ((a \div Pow2[WordBits - k] + b \div Pow2[WordBits - k]) % 2), 0, in)
           = Folded([p \in (Int) \X (1 .. WordBits) |-> 2 * p[1] + ((a \div Pow2[WordBits - p[2]] + b \div Pow2[WordBits - p[2]]) % 2)], 0, in)
<1> DEFINE St == Int
           X == 1 .. WordBits
           base == 0
           op(x, k) == 2 * x + ((a \div Pow2[WordBits - k] + b \div Pow2[WordBits - k]) % 2)
           H == [p \in St \X X |-> op(p[1], p[2])]
           Law(g) == g = [S \in SUBSET DOMAIN in |->
                            IF S = {} THEN base ELSE LET x == Max(S) IN op(g[S \ {x}], in[x])]
<1>1. FoldLeft(op, base, in) = (CHOOSE g : Law(g))[DOMAIN in]
  BY DEF FoldLeft, MapThenFoldSet
<1>2. \A x \in St, k \in X : op(x, k) \in St
  <2> SUFFICES ASSUME NEW x \in Int, NEW k \in 1 .. WordBits PROVE op(x, k) \in Int
    OBVIOUS
  <2>1. Pow2[WordBits - k] \in Nat \ {0}
    BY Pow2Facts, BitsAssumption
  <2>2. a \div Pow2[WordBits - k] \in Nat /\ b \div Pow2[WordBits - k] \in Nat
    <3> DEFINE w == Pow2[WordBits - k]
    <3>1. w \in Nat \ {0}
      BY <2>1
    <3> HIDE DEF w
    <3>2. a \div w \in Nat /\ b \div w \in Nat
      BY <3>1
    <3>. QED
      BY <3>2 DEF w
  <2>. QED
    BY <2>2
<1>3. \A x \in St, k \in X : H[<<x, k>>] = op(x, k)
  <2> HIDE DEF St, X, op
  <2>. QED
    OBVIOUS
<1>4. H \in [St \X X -> St] /\ base \in St /\ in \in Seq(X)
  <2>1. base \in St /\ in \in Seq(X)
    OBVIOUS
  <2> HIDE DEF St, X, op
  <2>. QED
    BY <1>2, <2>1
<1> HIDE DEF H, op, St, X, base
<1>5. ASSUME NEW g, TypedRun(H, St, base, in, g) PROVE Law(g)
  <2>1. \A S \in SUBSET (1 .. Len(in)) :
           S # {} => H[<<g[S \ {Max(S)}], in[Max(S)]>>] = op(g[S \ {Max(S)}], in[Max(S)])
    BY <1>3, <1>4, <1>5, LastPosition DEF TypedRun
  <2>2. DOMAIN in = 1 .. Len(in)
    BY <1>4
  <2>. QED
    BY <1>5, <2>1, <2>2 DEF SetRun, TypedRun
<1>6. ASSUME NEW g, Law(g) PROVE Follows(X, St, H, base, in, g)
  <2>1. DOMAIN in = 1 .. Len(in)
    BY <1>4
  <2>2. \A S \in SUBSET (1 .. Len(in)) : g[S] = IF S = {} THEN base ELSE op(g[S \ {Max(S)}], in[Max(S)])
    BY <1>6, <2>1
  <2> HIDE DEF Law
  <2>. QED
    BY <1>3, <1>4, <2>2, LastPosition DEF Follows
<1> HIDE DEF Law
<1>7. PICK f : Law(f) /\ FoldLeft(op, base, in) = f[DOMAIN in]
  BY <1>1, <1>4, <1>5, SetRunExists
<1>8. f[DOMAIN in] = Folded(H, base, in)
  <2>1. Follows(X, St, H, base, in, f)
    BY <1>6, <1>7
  <2>. QED
    BY <2>1, SetRunFolds
<1>. QED
  BY <1>7, <1>8 DEF H, op, St, X, base

(* The digits of an exclusive or, from the highest down.                   *)
Digit(a, b, k) == (a \div Pow2[WordBits - k] + b \div Pow2[WordBits - k]) % 2

XorDigits(a, b, high) ==
    /\ high[0] = 0
    /\ \A k \in 1 .. WordBits :
          /\ Digit(a, b, k) \in {0, 1}
          /\ high[k - 1] \in 0 .. (Pow2[k - 1] - 1)
          /\ high[k] = 2 * high[k - 1] + Digit(a, b, k)
    /\ high[WordBits] \in 0 .. (Word - 1)
    /\ Xor(a, b) = high[WordBits]

LEMMA XorHasDigits ==
    ASSUME NEW a \in Nat, NEW b \in Nat
    PROVE  \E high : XorDigits(a, b, high)
<1> DEFINE in == [k \in 1 .. WordBits |-> k]
           H == [p \in Int \X (1 .. WordBits) |->
                   2 * p[1] + ((a \div Pow2[WordBits - p[2]] + b \div Pow2[WordBits - p[2]]) % 2)]
<1>0. WordBits \in Nat
  BY BitsAssumption
<1>1. in \in Seq(1 .. WordBits) /\ Len(in) = WordBits
  BY <1>0
<1>2. Xor(a, b) = Folded(H, 0, in)
  BY <1>1, XorFolds DEF Xor
<1>3. \A x \in Int, k \in 1 .. WordBits : H[<<x, k>>] = 2 * x + Digit(a, b, k)
  BY DEF Digit
<1>4. PICK high : RunsTo(H, 0, Len(in), in, high) /\ Folded(H, 0, in) = high[Len(in)]
  <2> HIDE DEF H, in
  <2>. QED
    BY <1>1, FoldedRun
<1>5. \A k \in 1 .. WordBits : in[k] = k
  OBVIOUS
<1>6. high[0] = 0 /\ \A k \in 1 .. WordBits : high[k] = H[<<high[k - 1], k>>]
  <2> HIDE DEF H, in
  <2>. QED
    BY <1>1, <1>4, <1>5 DEF RunsTo
<1>7. ASSUME NEW k \in 1 .. WordBits PROVE Digit(a, b, k) \in {0, 1}
  <2>1. Pow2[WordBits - k] \in Nat \ {0}
    BY Pow2Facts, BitsAssumption
  <2>2. a \div Pow2[WordBits - k] \in Nat /\ b \div Pow2[WordBits - k] \in Nat
    BY <2>1
  <2>. QED
    BY <2>2 DEF Digit
<1> HIDE DEF H, in
<1> DEFINE T == {k \in Nat : k <= WordBits => high[k] \in 0 .. (Pow2[k] - 1)}
<1>8. 0 \in T
  BY <1>6, Pow2Facts
<1>9. ASSUME NEW k \in Nat, k \in T PROVE k + 1 \in T
  <2> SUFFICES ASSUME k + 1 <= WordBits PROVE high[k + 1] \in 0 .. (Pow2[k + 1] - 1)
    OBVIOUS
  <2>1. k + 1 \in 1 .. WordBits /\ k + 1 - 1 = k
    BY <1>0
  <2>2. high[k] \in 0 .. (Pow2[k] - 1)
    BY <1>0, <1>9
  <2>3. Pow2[k] \in Nat /\ Pow2[k + 1] = 2 * Pow2[k]
    BY Pow2Facts
  <2>4. high[k + 1] = H[<<high[k], k + 1>>]
    BY <1>6, <2>1
  <2>5. high[k + 1] = 2 * high[k] + Digit(a, b, k + 1)
    BY <1>3, <2>1, <2>2, <2>3, <2>4
  <2>6. Digit(a, b, k + 1) \in {0, 1}
    BY <1>7, <2>1
  <2>. QED
    BY <2>2, <2>3, <2>5, <2>6
<1>10. Nat \subseteq T
  <2> HIDE DEF T
  <2>. QED
    BY <1>8, <1>9, NatSetInduction
<1>11. ASSUME NEW k \in 1 .. WordBits
       PROVE  /\ high[k - 1] \in 0 .. (Pow2[k - 1] - 1)
              /\ high[k] = 2 * high[k - 1] + Digit(a, b, k)
  <2>1. k - 1 \in Nat /\ k - 1 <= WordBits
    BY <1>0
  <2>2. high[k - 1] \in 0 .. (Pow2[k - 1] - 1)
    BY <1>10, <2>1
  <2>3. high[k - 1] \in Int
    BY <2>2
  <2>. QED
    BY <1>3, <1>6, <2>2, <2>3
<1>12. high[WordBits] \in 0 .. (Word - 1)
  BY <1>0, <1>10 DEF Word
<1>. QED
  BY <1>1, <1>2, <1>4, <1>6, <1>7, <1>11, <1>12 DEF XorDigits

(* What the proofs need of exclusive or: its last bit, and the rest.       *)
LEMMA XorLaws ==
    ASSUME NEW a \in 0 .. (Word - 1), NEW b \in 0 .. (Word - 1)
    PROVE  /\ Xor(a, b) \in 0 .. (Word - 1)
           /\ Xor(a, b) % 2 = (a + b) % 2
           /\ Xor(a, b) \div 2 = Xor(a \div 2, b \div 2)
<1> DEFINE W == WordBits
           e == a \div 2
           d == b \div 2
<1>0. W \in Nat \ {0} /\ Word \in Nat \ {0}
  BY BitsAssumption, Pow2Facts DEF Word
<1>1. a \in Nat /\ b \in Nat /\ e \in Nat /\ d \in Nat
  BY <1>0
<1>2. PICK high : XorDigits(a, b, high)
  BY <1>1, XorHasDigits
<1>3. PICK low : XorDigits(e, d, low)
  <2> HIDE DEF e, d
  <2>. QED
    BY <1>1, XorHasDigits
<1>4. Digit(a, b, W) = (a + b) % 2
  <2>1. WordBits - WordBits = 0
    BY <1>0
  <2>2. Pow2[WordBits - WordBits] = 1
    BY <2>1, Pow2Facts
  <2>. QED
    BY <1>1, <2>2 DEF Digit
<1>5. high[W] = 2 * high[W - 1] + Digit(a, b, W) /\ high[W - 1] \in Nat /\ Digit(a, b, W) \in {0, 1}
  <2>1. W \in 1 .. WordBits
    BY <1>0
  <2>2. Pow2[W - 1] \in Nat
    BY <1>0, Pow2Facts
  <2>. QED
    BY <1>2, <2>1, <2>2 DEF XorDigits
<1>6. high[W] % 2 = Digit(a, b, W) /\ high[W] \div 2 = high[W - 1]
  BY <1>5
<1> DEFINE T == {k \in Nat : k + 1 <= W => low[k + 1] = high[k]}
<1>7. 0 \in T
  <2>1. 1 \in 1 .. WordBits /\ 1 - 1 = 0
    BY <1>0
  <2>2. low[0] = 0 /\ high[0] = 0 /\ low[1] = 2 * low[1 - 1] + Digit(e, d, 1)
    BY <1>2, <1>3, <2>1 DEF XorDigits
  <2>3. Word = 2 * Pow2[W - 1] /\ Pow2[W - 1] \in Nat \ {0}
    <3>1. W - 1 \in Nat /\ (W - 1) + 1 = WordBits
      BY <1>0
    <3>. QED
      BY <3>1, Pow2Facts DEF Word
  <2>4. e \in 0 .. (Pow2[W - 1] - 1) /\ d \in 0 .. (Pow2[W - 1] - 1)
    BY <1>1, <2>3
  <2>5. e \div Pow2[W - 1] = 0 /\ d \div Pow2[W - 1] = 0
    <3> HIDE DEF e, d
    <3> DEFINE p == Pow2[W - 1]
    <3>1. p \in Nat \ {0} /\ e \in 0 .. (p - 1) /\ d \in 0 .. (p - 1)
      BY <2>3, <2>4
    <3> HIDE DEF p
    <3>2. p * 0 + e = e /\ p * 0 + d = d
      BY <3>1
    <3>3. e \div p = 0 /\ d \div p = 0
      BY <3>1, <3>2, Divided
    <3>. QED
      BY <3>3 DEF p
  <2>6. Digit(e, d, 1) = 0
    BY <2>5 DEF Digit
  <2>. QED
    BY <2>1, <2>2, <2>6
<1>8. ASSUME NEW k \in Nat, k \in T PROVE k + 1 \in T
  <2> SUFFICES ASSUME (k + 1) + 1 <= W PROVE low[(k + 1) + 1] = high[k + 1]
    OBVIOUS
  <2>1. low[k + 1] = high[k]
    BY <1>0, <1>8
  <2>2. k + 1 \in 1 .. WordBits /\ k + 2 \in 1 .. WordBits /\ k + 1 - 1 = k /\ k + 2 - 1 = k + 1
    BY <1>0
  <2>3. low[k + 2] = 2 * low[k + 1] + Digit(e, d, k + 2) /\ high[k + 1] = 2 * high[k] + Digit(a, b, k + 1)
    BY <1>2, <1>3, <2>2 DEF XorDigits
  <2>4. Digit(e, d, k + 2) = Digit(a, b, k + 1)
    <3> DEFINE p == Pow2[WordBits - (k + 2)]
    <3>1. WordBits - (k + 2) \in Nat /\ WordBits - (k + 1) = (WordBits - (k + 2)) + 1
      BY <1>0, <2>2
    <3>2. p \in Nat \ {0} /\ Pow2[WordBits - (k + 1)] = 2 * p
      BY <3>1, Pow2Facts
    <3> HIDE DEF p
    <3>3. e \div p = a \div (2 * p) /\ d \div p = b \div (2 * p)
      BY <1>1, <3>2, HalfDivided
    <3> HIDE DEF e, d
    <3>. QED
      BY <3>2, <3>3 DEF Digit, p
  <2>5. (k + 1) + 1 = k + 2
    OBVIOUS
  <2>. QED
    BY <2>1, <2>3, <2>4, <2>5
<1>9. Nat \subseteq T
  <2> HIDE DEF T
  <2>. QED
    BY <1>7, <1>8, NatSetInduction
<1>10. low[W] = high[W - 1]
  <2>1. W - 1 \in Nat /\ (W - 1) + 1 = W
    BY <1>0
  <2>2. W - 1 \in T
    BY <1>9, <2>1
  <2> HIDE DEF W
  <2>. QED
    BY <2>1, <2>2
<1>. QED
  BY <1>2, <1>3, <1>4, <1>6, <1>10 DEF XorDigits

Words == 0 .. (Word - 1)
Bytes == 0 .. (Pow2[ByteBits] - 1)

LEMMA Halves ==
    ASSUME NEW a \in Words
    PROVE  a \in Nat /\ a \div 2 \in Words /\ a \div 2 <= a /\ a = 2 * (a \div 2) + (a % 2)
<1>1. Word \in Nat \ {0}
  BY BitsAssumption, Pow2Facts DEF Word
<1>. QED
  BY <1>1 DEF Words

LEMMA XorStep ==
    ASSUME NEW a \in Words, NEW b \in Words
    PROVE  Xor(a, b) \in Words /\ Xor(a, b) % 2 = (a + b) % 2 /\ Xor(a, b) \div 2 = Xor(a \div 2, b \div 2)
BY XorLaws DEF Words

LEMMA ZeroWord == 0 \in Words /\ Xor(0, 0) = 0
<1>1. 0 \in Words
  <2>1. Word \in Nat \ {0}
    BY BitsAssumption, Pow2Facts DEF Word
  <2>. QED
    BY <2>1 DEF Words
<1>2. Xor(0, 0) \in Nat /\ Xor(0, 0) \div 2 = Xor(0, 0)
  <2>1. 0 \div 2 = 0
    OBVIOUS
  <2>. QED
    BY <1>1, <2>1, XorStep, Halves
<1>. QED
  BY <1>1, <1>2

LEMMA XorAlgebra ==
    ASSUME NEW a \in Words, NEW b \in Words, NEW e \in Words
    PROVE  Xor(a, 0) = a /\ Xor(Xor(a, b), e) = Xor(Xor(a, e), b)
<1> DEFINE T == {n \in Nat : \A x, y, z \in Words :
                    x <= n /\ y <= n /\ z <= n =>
                       Xor(x, 0) = x /\ Xor(Xor(x, y), z) = Xor(Xor(x, z), y)}
<1>1. 0 \in T
  <2>1. \A x \in Words : x <= 0 => x = 0
    BY Halves
  <2>. QED
    BY <2>1, ZeroWord
<1>2. ASSUME NEW n \in Nat, n \in T PROVE n + 1 \in T
  <2> SUFFICES ASSUME NEW x \in Words, NEW y \in Words, NEW z \in Words,
                      x <= n + 1, y <= n + 1, z <= n + 1
               PROVE  Xor(x, 0) = x /\ Xor(Xor(x, y), z) = Xor(Xor(x, z), y)
    OBVIOUS
  <2>1. /\ x \div 2 \in Words /\ x \div 2 <= n
        /\ y \div 2 \in Words /\ y \div 2 <= n
        /\ z \div 2 \in Words /\ z \div 2 <= n
    BY Halves
  <2>2. Xor(x \div 2, 0) = x \div 2 /\ Xor(Xor(x \div 2, y \div 2), z \div 2) = Xor(Xor(x \div 2, z \div 2), y \div 2)
    BY <1>2, <2>1
  <2>3. Xor(x, 0) = x
    <3>1. Xor(x, 0) \in Words /\ Xor(x, 0) % 2 = (x + 0) % 2 /\ Xor(x, 0) \div 2 = x \div 2
      <4>1. 0 \div 2 = 0
        OBVIOUS
      <4>. QED
        BY <2>2, <4>1, XorStep, ZeroWord
    <3>. QED
      BY <3>1, Halves
  <2>4. /\ Xor(x, y) \in Words /\ Xor(x, y) % 2 = (x + y) % 2 /\ Xor(x, y) \div 2 = Xor(x \div 2, y \div 2)
        /\ Xor(x, z) \in Words /\ Xor(x, z) % 2 = (x + z) % 2 /\ Xor(x, z) \div 2 = Xor(x \div 2, z \div 2)
    BY XorStep
  <2> DEFINE u == Xor(Xor(x, y), z)
             v == Xor(Xor(x, z), y)
  <2>5. /\ u \in Words /\ u % 2 = (Xor(x, y) + z) % 2 /\ u \div 2 = Xor(Xor(x \div 2, y \div 2), z \div 2)
        /\ v \in Words /\ v % 2 = (Xor(x, z) + y) % 2 /\ v \div 2 = Xor(Xor(x \div 2, z \div 2), y \div 2)
    BY <2>4, XorStep
  <2>6. x \in Nat /\ y \in Nat /\ z \in Nat /\ Xor(x, y) \in Nat /\ Xor(x, z) \in Nat
    BY <2>4, Halves
  <2>7. u % 2 = v % 2
    <3> DEFINE p == Xor(x, y)
               q == Xor(x, z)
    <3>1. p \in Nat /\ q \in Nat /\ p % 2 = (x + y) % 2 /\ q % 2 = (x + z) % 2
      BY <2>4, <2>6
    <3> HIDE DEF p, q
    <3>2. (p + z) % 2 = (q + y) % 2
      BY <2>6, <3>1
    <3>. QED
      BY <2>5, <3>2 DEF p, q
  <2>8. u \div 2 = v \div 2
    BY <2>2, <2>5
  <2>9. u = v
    <3>1. u \in Words /\ v \in Words
      BY <2>5
    <3> HIDE DEF u, v
    <3>. QED
      BY <2>7, <2>8, <3>1, Halves
  <2>. QED
    BY <2>3, <2>9
<1>3. Nat \subseteq T
  <2> HIDE DEF T
  <2>. QED
    BY <1>1, <1>2, NatSetInduction
<1>4. \E n \in Nat : a <= n /\ b <= n /\ e <= n
  <2>1. a \in Nat /\ b \in Nat /\ e \in Nat
    BY Halves
  <2>. QED
    BY <2>1
<1>. QED
  BY <1>3, <1>4

-----------------------------------------------------------------------------
(* crc32.                                                                  *)

LEMMA ShiftType ==
    ASSUME NEW poly \in Words, NEW x \in Words
    PROVE  CrcShift(poly, x) \in Words
<1>1. x \div 2 \in Words
  BY Halves
<1>. QED
  BY <1>1, XorStep DEF CrcShift

LEMMA ClockType ==
    ASSUME NEW poly \in Words, NEW crc \in Words, NEW bit \in {0, 1}
    PROVE  CrcClock(poly, crc, bit) \in Words
<1>1. crc \div 2 \in Words
  BY Halves
<1>. QED
  BY <1>1, ZeroWord, XorStep DEF CrcClock

LEMMA TopWord == Word - 1 \in Words
<1>1. Word \in Nat \ {0}
  BY BitsAssumption, Pow2Facts DEF Word
<1>. QED
  BY <1>1 DEF Words

LEMMA BytesAreWords == Bytes \subseteq Words
<1>1. Pow2[ByteBits] <= Word
  BY BitsAssumption, Pow2Grows DEF Word
<1>2. Pow2[ByteBits] \in Nat /\ Word \in Nat
  BY BitsAssumption, Pow2Facts DEF Word
<1>. QED
  BY <1>1, <1>2 DEF Bytes, Words

(* The shifts of a byte.                                                   *)
LEMMA ShiftFolds ==
    ASSUME NEW poly \in Words, NEW start \in Words, NEW in \in Seq(1 .. ByteBits)
    PROVE  FoldLeft(LAMBDA x, i : CrcShift(poly, x), start, in)
           = Folded([p \in (Words) \X (1 .. ByteBits) |-> CrcShift(poly, p[1])], start, in)
<1> DEFINE St == Words
           X == 1 .. ByteBits
           base == start
           op(x, i) == CrcShift(poly, x)
           H == [p \in St \X X |-> op(p[1], p[2])]
           Law(g) == g = [S \in SUBSET DOMAIN in |->
                            IF S = {} THEN base ELSE LET x == Max(S) IN op(g[S \ {x}], in[x])]
<1>1. FoldLeft(op, base, in) = (CHOOSE g : Law(g))[DOMAIN in]
  BY DEF FoldLeft, MapThenFoldSet
<1>2. \A x \in St, i \in X : op(x, i) \in St
  BY ShiftType
<1>3. \A x \in St, i \in X : H[<<x, i>>] = op(x, i)
  <2> HIDE DEF St, X, op
  <2>. QED
    OBVIOUS
<1>4. H \in [St \X X -> St] /\ base \in St /\ in \in Seq(X)
  <2>1. base \in St /\ in \in Seq(X)
    OBVIOUS
  <2> HIDE DEF St, X, op
  <2>. QED
    BY <1>2, <2>1
<1> HIDE DEF H, op, St, X, base
<1>5. ASSUME NEW g, TypedRun(H, St, base, in, g) PROVE Law(g)
  <2>1. \A S \in SUBSET (1 .. Len(in)) :
           S # {} => H[<<g[S \ {Max(S)}], in[Max(S)]>>] = op(g[S \ {Max(S)}], in[Max(S)])
    BY <1>3, <1>4, <1>5, LastPosition DEF TypedRun
  <2>2. DOMAIN in = 1 .. Len(in)
    BY <1>4
  <2>. QED
    BY <1>5, <2>1, <2>2 DEF SetRun, TypedRun
<1>6. ASSUME NEW g, Law(g) PROVE Follows(X, St, H, base, in, g)
  <2>1. DOMAIN in = 1 .. Len(in)
    BY <1>4
  <2>2. \A S \in SUBSET (1 .. Len(in)) : g[S] = IF S = {} THEN base ELSE op(g[S \ {Max(S)}], in[Max(S)])
    BY <1>6, <2>1
  <2> HIDE DEF Law
  <2>. QED
    BY <1>3, <1>4, <2>2, LastPosition DEF Follows
<1> HIDE DEF Law
<1>7. PICK f : Law(f) /\ FoldLeft(op, base, in) = f[DOMAIN in]
  BY <1>1, <1>4, <1>5, SetRunExists
<1>8. f[DOMAIN in] = Folded(H, base, in)
  <2>1. Follows(X, St, H, base, in, f)
    BY <1>6, <1>7
  <2>. QED
    BY <2>1, SetRunFolds
<1>. QED
  BY <1>7, <1>8 DEF H, op, St, X, base

LEMMA ByteType ==
    ASSUME NEW poly \in Words, NEW crc \in Words, NEW byte \in Words
    PROVE  /\ CrcByte(poly, crc, byte) \in Words
           /\ CrcByte(poly, crc, byte) =
                Folded([p \in Words \X (1 .. ByteBits) |-> CrcShift(poly, p[1])], Xor(crc, byte),
                       [i \in 1 .. ByteBits |-> i])
<1> DEFINE H == [p \in Words \X (1 .. ByteBits) |-> CrcShift(poly, p[1])]
           in == [i \in 1 .. ByteBits |-> i]
           X == 1 .. ByteBits
<1>1. Xor(crc, byte) \in Words
  BY XorStep
<1>2. in \in Seq(X)
  BY BitsAssumption
<1>3. CrcByte(poly, crc, byte) = Folded(H, Xor(crc, byte), in)
  <2> HIDE DEF in
  <2>1. FoldLeft(LAMBDA x, i : CrcShift(poly, x), Xor(crc, byte), in) = Folded(H, Xor(crc, byte), in)
    BY <1>1, <1>2, ShiftFolds
  <2>. QED
    BY <2>1 DEF CrcByte, in
<1>4. H \in [Words \X X -> Words]
  BY ShiftType
<1>5. Folded(H, Xor(crc, byte), in) \in Words
  <2> HIDE DEF H, in, X
  <2>. QED
    BY <1>1, <1>2, <1>4, FoldedType
<1>. QED
  BY <1>3, <1>5

(* The bytes of an input.                                                  *)
LEMMA BytesFold ==
    ASSUME NEW poly \in Words, NEW in \in Seq(Bytes)
    PROVE  FoldLeft(LAMBDA crc, byte : CrcByte(poly, crc, byte), Word - 1, in)
           = Folded([p \in (Words) \X (Bytes) |-> CrcByte(poly, p[1], p[2])], Word - 1, in)
<1> DEFINE St == Words
           X == Bytes
           base == Word - 1
           op(crc, byte) == CrcByte(poly, crc, byte)
           H == [p \in St \X X |-> op(p[1], p[2])]
           Law(g) == g = [S \in SUBSET DOMAIN in |->
                            IF S = {} THEN base ELSE LET x == Max(S) IN op(g[S \ {x}], in[x])]
<1>1. FoldLeft(op, base, in) = (CHOOSE g : Law(g))[DOMAIN in]
  BY DEF FoldLeft, MapThenFoldSet
<1>2. \A crc \in St, byte \in X : op(crc, byte) \in St
  BY BytesAreWords, ByteType
<1>3. \A crc \in St, byte \in X : H[<<crc, byte>>] = op(crc, byte)
  <2> HIDE DEF St, X, op
  <2>. QED
    OBVIOUS
<1>4. H \in [St \X X -> St] /\ base \in St /\ in \in Seq(X)
  <2>1. base \in St /\ in \in Seq(X)
    BY TopWord
  <2> HIDE DEF St, X, op
  <2>. QED
    BY <1>2, <2>1
<1> HIDE DEF H, op, St, X, base
<1>5. ASSUME NEW g, TypedRun(H, St, base, in, g) PROVE Law(g)
  <2>1. \A S \in SUBSET (1 .. Len(in)) :
           S # {} => H[<<g[S \ {Max(S)}], in[Max(S)]>>] = op(g[S \ {Max(S)}], in[Max(S)])
    BY <1>3, <1>4, <1>5, LastPosition DEF TypedRun
  <2>2. DOMAIN in = 1 .. Len(in)
    BY <1>4
  <2>. QED
    BY <1>5, <2>1, <2>2 DEF SetRun, TypedRun
<1>6. ASSUME NEW g, Law(g) PROVE Follows(X, St, H, base, in, g)
  <2>1. DOMAIN in = 1 .. Len(in)
    BY <1>4
  <2>2. \A S \in SUBSET (1 .. Len(in)) : g[S] = IF S = {} THEN base ELSE op(g[S \ {Max(S)}], in[Max(S)])
    BY <1>6, <2>1
  <2> HIDE DEF Law
  <2>. QED
    BY <1>3, <1>4, <2>2, LastPosition DEF Follows
<1> HIDE DEF Law
<1>7. PICK f : Law(f) /\ FoldLeft(op, base, in) = f[DOMAIN in]
  BY <1>1, <1>4, <1>5, SetRunExists
<1>8. f[DOMAIN in] = Folded(H, base, in)
  <2>1. Follows(X, St, H, base, in, f)
    BY <1>6, <1>7
  <2>. QED
    BY <2>1, SetRunFolds
<1>. QED
  BY <1>7, <1>8 DEF H, op, St, X, base

(* The bits of an input.                                                   *)
LEMMA ClockFolds ==
    ASSUME NEW poly \in Words, NEW in \in Seq({0, 1})
    PROVE  FoldLeft(LAMBDA crc, bit : CrcClock(poly, crc, bit), Word - 1, in)
           = Folded([p \in (Words) \X ({0, 1}) |-> CrcClock(poly, p[1], p[2])], Word - 1, in)
<1> DEFINE St == Words
           X == {0, 1}
           base == Word - 1
           op(crc, bit) == CrcClock(poly, crc, bit)
           H == [p \in St \X X |-> op(p[1], p[2])]
           Law(g) == g = [S \in SUBSET DOMAIN in |->
                            IF S = {} THEN base ELSE LET x == Max(S) IN op(g[S \ {x}], in[x])]
<1>1. FoldLeft(op, base, in) = (CHOOSE g : Law(g))[DOMAIN in]
  BY DEF FoldLeft, MapThenFoldSet
<1>2. \A crc \in St, bit \in X : op(crc, bit) \in St
  BY ClockType
<1>3. \A crc \in St, bit \in X : H[<<crc, bit>>] = op(crc, bit)
  <2> HIDE DEF St, X, op
  <2>. QED
    OBVIOUS
<1>4. H \in [St \X X -> St] /\ base \in St /\ in \in Seq(X)
  <2>1. base \in St /\ in \in Seq(X)
    BY TopWord
  <2> HIDE DEF St, X, op
  <2>. QED
    BY <1>2, <2>1
<1> HIDE DEF H, op, St, X, base
<1>5. ASSUME NEW g, TypedRun(H, St, base, in, g) PROVE Law(g)
  <2>1. \A S \in SUBSET (1 .. Len(in)) :
           S # {} => H[<<g[S \ {Max(S)}], in[Max(S)]>>] = op(g[S \ {Max(S)}], in[Max(S)])
    BY <1>3, <1>4, <1>5, LastPosition DEF TypedRun
  <2>2. DOMAIN in = 1 .. Len(in)
    BY <1>4
  <2>. QED
    BY <1>5, <2>1, <2>2 DEF SetRun, TypedRun
<1>6. ASSUME NEW g, Law(g) PROVE Follows(X, St, H, base, in, g)
  <2>1. DOMAIN in = 1 .. Len(in)
    BY <1>4
  <2>2. \A S \in SUBSET (1 .. Len(in)) : g[S] = IF S = {} THEN base ELSE op(g[S \ {Max(S)}], in[Max(S)])
    BY <1>6, <2>1
  <2> HIDE DEF Law
  <2>. QED
    BY <1>3, <1>4, <2>2, LastPosition DEF Follows
<1> HIDE DEF Law
<1>7. PICK f : Law(f) /\ FoldLeft(op, base, in) = f[DOMAIN in]
  BY <1>1, <1>4, <1>5, SetRunExists
<1>8. f[DOMAIN in] = Folded(H, base, in)
  <2>1. Follows(X, St, H, base, in, f)
    BY <1>6, <1>7
  <2>. QED
    BY <2>1, SetRunFolds
<1>. QED
  BY <1>7, <1>8 DEF H, op, St, X, base

(* The register after the first k bits of a byte, had the rest of it been  *)
(* mixed in at once.                                                       *)
LEMMA BitsAtOnce ==
    ASSUME NEW a \in Words, NEW b \in Words, NEW poly \in Words, NEW rest \in Words
    PROVE  CrcShift(poly, Xor(a, rest)) = Xor(CrcClock(poly, a, rest % 2), rest \div 2)
<1> DEFINE x == Xor(a, rest)
           h == a \div 2
           t == rest \div 2
<1>1. x \in Words /\ x % 2 = (a + rest) % 2 /\ x \div 2 = Xor(h, t)
  BY XorStep
<1>2. h \in Words /\ t \in Words /\ a \in Nat /\ rest \in Nat
  BY Halves
<1>3. (a + (rest % 2)) % 2 = (a + rest) % 2
  BY <1>2
<1> HIDE DEF x, h, t
<1>4. CASE (a + rest) % 2 = 1
  <2>1. CrcShift(poly, x) = Xor(Xor(h, t), poly)
    BY <1>1, <1>4 DEF CrcShift
  <2>2. CrcClock(poly, a, rest % 2) = Xor(h, poly)
    BY <1>3, <1>4 DEF CrcClock, h
  <2>3. Xor(Xor(h, t), poly) = Xor(Xor(h, poly), t)
    BY <1>2, XorAlgebra
  <2>. QED
    BY <2>1, <2>2, <2>3 DEF x, t
<1>5. CASE (a + rest) % 2 # 1
  <2>1. CrcShift(poly, x) = Xor(h, t)
    BY <1>1, <1>5 DEF CrcShift
  <2>2. CrcClock(poly, a, rest % 2) = Xor(h, 0)
    BY <1>3, <1>5 DEF CrcClock, h
  <2>3. Xor(h, 0) = h
    BY <1>2, XorAlgebra
  <2>. QED
    BY <2>1, <2>2, <2>3 DEF x, t
<1>. QED
  BY <1>4, <1>5

LEMMA ByteByBits ==
    ASSUME NEW poly \in Words, NEW crc \in Words, NEW byte \in Bytes
    PROVE  /\ Bits(byte) \in Seq({0, 1})
           /\ CrcByte(poly, crc, byte) =
                Folded([p \in Words \X {0, 1} |-> CrcClock(poly, p[1], p[2])], crc, Bits(byte))
<1> DEFINE X == 1 .. ByteBits
           H == [p \in Words \X X |-> CrcShift(poly, p[1])]
           C == [p \in Words \X {0, 1} |-> CrcClock(poly, p[1], p[2])]
           ids(n) == [i \in 1 .. n |-> i]
           id == [i \in Nat |-> i]
           bit == [i \in Nat \ {0} |-> (byte \div Pow2[i - 1]) % 2]
           bits(n) == [i \in 1 .. n |-> bit[i]]
           rest(n) == byte \div Pow2[n]
           start == Xor(crc, byte)
<1>0. ByteBits \in Nat /\ byte \in Words /\ byte \in Nat
  BY BitsAssumption, BytesAreWords, Halves
<1>1. start \in Words /\ H \in [Words \X X -> Words] /\ C \in [Words \X {0, 1} -> Words]
  BY <1>0, XorStep, ShiftType, ClockType
<1>2. /\ \A x \in Words, i \in X : H[<<x, i>>] = CrcShift(poly, x)
      /\ \A x \in Words, b \in {0, 1} : C[<<x, b>>] = CrcClock(poly, x, b)
  OBVIOUS
<1>3. \A n \in Nat : rest(n) \in Nat /\ rest(n + 1) = rest(n) \div 2 /\ rest(n) <= byte
  <2> SUFFICES ASSUME NEW n \in Nat PROVE rest(n) \in Nat /\ rest(n + 1) = rest(n) \div 2 /\ rest(n) <= byte
    OBVIOUS
  <2> DEFINE p == Pow2[n]
  <2>1. p \in Nat \ {0} /\ Pow2[n + 1] = 2 * p
    BY Pow2Facts
  <2> HIDE DEF p
  <2>2. (byte \div 2) \div p = byte \div (2 * p)
    BY <1>0, <2>1, HalfDivided
  <2>3. (byte \div p) \div 2 = byte \div (2 * p)
    BY <1>0, <2>1, DividedHalf
  <2>4. byte \div p \in Nat /\ byte \div p <= byte
    <3>1. byte \div p \in Nat /\ byte % p \in Nat /\ byte = p * (byte \div p) + (byte % p)
      BY <1>0, <2>1
    <3> DEFINE q == byte \div p
    <3>2. q \in Nat /\ p * q <= byte
      BY <1>0, <2>1, <3>1
    <3> HIDE DEF q
    <3>3. q <= p * q
      BY <2>1, <3>2
    <3>. QED
      BY <1>0, <2>1, <3>2, <3>3 DEF q
  <2>. QED
    BY <2>1, <2>3, <2>4 DEF p
<1>4. \A n \in Nat : rest(n) \in Words
  <2> SUFFICES ASSUME NEW n \in Nat PROVE rest(n) \in Words
    OBVIOUS
  <2>1. rest(n) \in Nat /\ rest(n) <= byte
    BY <1>3
  <2>2. Word \in Nat
    BY BitsAssumption, Pow2Facts DEF Word
  <2> HIDE DEF rest
  <2>. QED
    BY <1>0, <2>1, <2>2 DEF Words
<1>5. \A i \in Nat \ {0} : bit[i] \in {0, 1} /\ bit[i] = rest(i - 1) % 2
  <2> SUFFICES ASSUME NEW i \in Nat \ {0} PROVE rest(i - 1) % 2 \in {0, 1}
    OBVIOUS
  <2>1. rest(i - 1) \in Nat
    BY <1>3
  <2> HIDE DEF rest
  <2>. QED
    BY <2>1
<1> DEFINE R(n) == Folded(H, start, ids(n))
           D(n) == Folded(C, crc, bits(n))
<1>6. \A n \in Nat : /\ bits(n) \in Seq({0, 1}) /\ bits(n + 1) = Append(bits(n), bit[n + 1])
                     /\ n + 1 <= ByteBits =>
                           ids(n) \in Seq(X) /\ n + 1 \in X /\ ids(n + 1) = Append(ids(n), n + 1)
  <2> SUFFICES ASSUME NEW n \in Nat
               PROVE  /\ bits(n) \in Seq({0, 1}) /\ bits(n + 1) = Append(bits(n), bit[n + 1])
                      /\ n + 1 <= ByteBits =>
                            ids(n) \in Seq(X) /\ n + 1 \in X /\ ids(n + 1) = Append(ids(n), n + 1)
    OBVIOUS
  <2>1. \A i \in 1 .. (n + 1) : bit[i] \in {0, 1}
    BY <1>5
  <2>2. bits(n) \in Seq({0, 1}) /\ bits(n + 1) = Append(bits(n), bit[n + 1])
    <3> HIDE DEF bit
    <3>. QED
      BY <2>1, PrefixAppends
  <2>3. ASSUME n + 1 <= ByteBits
        PROVE  ids(n) \in Seq(X) /\ n + 1 \in X /\ ids(n + 1) = Append(ids(n), n + 1)
    <3>1. \A i \in 1 .. (n + 1) : id[i] \in X /\ id[i] = i
      BY <1>0, <2>3
    <3>2. n + 1 \in X /\ id[n + 1] = n + 1
      BY <1>0, <2>3
    <3> HIDE DEF id, X
    <3>. QED
      BY <3>1, <3>2, PrefixAppends
  <2>. QED
    BY <2>2, <2>3
<1>7. \A n \in Nat : D(n) \in Words
  <2> SUFFICES ASSUME NEW n \in Nat PROVE D(n) \in Words
    OBVIOUS
  <2> HIDE DEF C, bits
  <2>. QED
    BY <1>1, <1>6, FoldedType
<1>8. R(0) = Xor(D(0), rest(0))
  <2>1. ids(0) = << >> /\ bits(0) = << >>
    OBVIOUS
  <2>2. R(0) = start /\ D(0) = crc
    <3> HIDE DEF H, C, start, ids, bits
    <3>. QED
      BY <2>1, FoldedEmpty
  <2>3. rest(0) = byte
    <3>1. byte \div 1 = byte
      BY <1>0
    <3>. QED
      BY <3>1, Pow2Facts
  <2>. QED
    BY <2>2, <2>3
<1> DEFINE T == {n \in Nat : n <= ByteBits => R(n) = Xor(D(n), rest(n))}
<1>9. ASSUME NEW n \in Nat, n \in T PROVE n + 1 \in T
  <2> SUFFICES ASSUME n + 1 <= ByteBits PROVE R(n + 1) = Xor(D(n + 1), rest(n + 1))
    OBVIOUS
  <2>1. ids(n) \in Seq(X) /\ n + 1 \in X /\ ids(n + 1) = Append(ids(n), n + 1)
    BY <1>6
  <2>2. bits(n) \in Seq({0, 1}) /\ bits(n + 1) = Append(bits(n), bit[n + 1])
    BY <1>6
  <2>3. bit[n + 1] \in {0, 1} /\ bit[n + 1] = rest(n) % 2
    <3>1. n + 1 \in Nat \ {0} /\ n + 1 - 1 = n
      OBVIOUS
    <3> HIDE DEF bit, rest
    <3>. QED
      BY <1>5, <3>1
  <2>4. R(n) = Xor(D(n), rest(n)) /\ D(n) \in Words /\ rest(n) \in Words /\ rest(n + 1) = rest(n) \div 2
    <3> HIDE DEF R, D, rest
    <3>. QED
      BY <1>0, <1>3, <1>4, <1>7, <1>9
  <2> DEFINE Bit == {0, 1}
  <2>a. bits(n) \in Seq(Bit) /\ bit[n + 1] \in Bit
    BY <2>2, <2>3
  <2> HIDE DEF H, C, ids, bits, bit, rest, X, start, Bit
  <2> DEFINE i == ids(n)
             s == bits(n)
             d == bit[n + 1]
  <2>b. R(n + 1) = H[<<R(n), n + 1>>]
    <3>1. i \in Seq(X) /\ n + 1 \in X
      BY <2>1
    <3>2. Folded(H, start, Append(i, n + 1)) = H[<<Folded(H, start, i), n + 1>>]
      <4> HIDE DEF i
      <4>. QED
        BY <3>1, FoldedAppend
    <3>. QED
      BY <2>1, <3>2
  <2>e. D(n + 1) = C[<<D(n), d>>]
    <3>1. s \in Seq(Bit) /\ d \in Bit
      BY <2>a
    <3>2. Folded(C, crc, Append(s, d)) = C[<<Folded(C, crc, s), d>>]
      <4> HIDE DEF s, d
      <4>. QED
        BY <3>1, FoldedAppend
    <3>. QED
      BY <2>2, <3>2
  <2>5. R(n + 1) = H[<<R(n), n + 1>>] /\ D(n + 1) = C[<<D(n), bit[n + 1]>>]
    BY <2>b, <2>e
  <2>6. R(n) \in Words
    BY <2>4, XorStep
  <2> HIDE DEF R, D
  <2>7. R(n + 1) = CrcShift(poly, R(n)) /\ D(n + 1) = CrcClock(poly, D(n), rest(n) % 2)
    BY <1>2, <2>1, <2>3, <2>4, <2>5, <2>6
  <2>. QED
    BY <2>4, <2>7, BitsAtOnce
<1>10. R(ByteBits) = Xor(D(ByteBits), rest(ByteBits))
  <2>1. Nat \subseteq T
    <3> HIDE DEF T
    <3>1. 0 \in T
      BY <1>8 DEF T
    <3>. QED
      BY <1>9, <3>1, NatSetInduction
  <2> HIDE DEF R, D, rest
  <2>. QED
    BY <1>0, <2>1
<1>11. rest(ByteBits) = 0
  <2> DEFINE p == Pow2[ByteBits]
  <2>1. p \in Nat \ {0} /\ byte \in 0 .. (p - 1)
    BY <1>0, Pow2Facts DEF Bytes
  <2> HIDE DEF p
  <2>2. p * 0 + byte = byte
    BY <2>1
  <2>3. byte \div p = 0
    BY <2>1, <2>2, Divided
  <2>. QED
    BY <2>3 DEF p
<1>12. R(ByteBits) = D(ByteBits)
  <2> HIDE DEF R, D, rest
  <2>. QED
    BY <1>0, <1>7, <1>10, <1>11, XorAlgebra
<1>13. bits(ByteBits) = Bits(byte) /\ ids(ByteBits) = [i \in 1 .. ByteBits |-> i]
  <2>1. \A i \in 1 .. ByteBits : bit[i] = (byte \div Pow2[i - 1]) % 2 /\ id[i] = i
    BY <1>0
  <2> HIDE DEF bit, id
  <2>. QED
    BY <2>1 DEF Bits
<1>14. CrcByte(poly, crc, byte) = R(ByteBits)
  <2>1. CrcByte(poly, crc, byte) = Folded(H, start, [i \in 1 .. ByteBits |-> i])
    BY <1>0, ByteType
  <2> HIDE DEF ids, H, start
  <2>. QED
    BY <1>13, <2>1
<1>15. Bits(byte) \in Seq({0, 1})
  <2> HIDE DEF bits
  <2>. QED
    BY <1>0, <1>6, <1>13
<1>16. D(ByteBits) = Folded(C, crc, Bits(byte))
  <2> HIDE DEF bits, C
  <2>. QED
    BY <1>13
<1>. QED
  <2> HIDE DEF R, D
  <2>. QED
    BY <1>12, <1>14, <1>15, <1>16

LEMMA StreamLaws ==
    /\ FlattenSeq(Mapped(Bits, << >>)) = << >>
    /\ \A q \in Seq(Bytes) : FlattenSeq(Mapped(Bits, q)) \in Seq({0, 1})
    /\ \A q \in Seq(Bytes), b \in Bytes :
          FlattenSeq(Mapped(Bits, Append(q, b))) = FlattenSeq(Mapped(Bits, q)) \o Bits(b)
<1> DEFINE Bit == {0, 1}
           g == [b \in Bytes |-> Bits(b)]
<1>1. g \in [Bytes -> Seq(Bit)] /\ \A b \in Bytes : g[b] = Bits(b)
  BY ZeroWord, ByteByBits
<1>2. \A q \in Seq(Bytes) : Mapped(Bits, q) = Images(g, q)
  <2> SUFFICES ASSUME NEW q \in Seq(Bytes) PROVE Mapped(Bits, q) = Images(g, q)
    OBVIOUS
  <2>1. \A k \in DOMAIN q : Bits(q[k]) = g[q[k]]
    BY <1>1
  <2> HIDE DEF g
  <2>. QED
    BY <2>1 DEF Mapped, Images
<1> HIDE DEF g, Bit
<1>3. \A q \in Seq(Bytes), b \in Bytes : Append(q, b) \in Seq(Bytes)
  OBVIOUS
<1>4. << >> \in Seq(Bytes)
  OBVIOUS
<1>5. /\ FlattenSeq(Images(g, << >>)) = << >>
      /\ \A q \in Seq(Bytes) : FlattenSeq(Images(g, q)) \in Seq(Bit)
      /\ \A q \in Seq(Bytes), b \in Bytes :
            FlattenSeq(Images(g, Append(q, b))) = FlattenSeq(Images(g, q)) \o g[b]
  <2>1. Maps(Bytes, Seq(Bit), g)
    BY <1>1 DEF Maps
  <2>. QED
    BY <2>1, FlatImageLaws
<1>. QED
  BY <1>1, <1>2, <1>3, <1>4, <1>5 DEF Bit

(* The register of crc32 shifts once for each bit of its input.            *)
THEOREM CrcShiftsBits ==
    ASSUME NEW poly \in Words, NEW in \in Seq(Bytes)
    PROVE  CrcIsRight(poly, in)
<1> DEFINE H == [p \in Words \X Bytes |-> CrcByte(poly, p[1], p[2])]
           C == [p \in Words \X {0, 1} |-> CrcClock(poly, p[1], p[2])]
           bits(q) == FlattenSeq(Mapped(Bits, q))
           T == {q \in Seq(Bytes) : Folded(H, Word - 1, q) = Folded(C, Word - 1, bits(q))}
<1>1. H \in [Words \X Bytes -> Words] /\ C \in [Words \X {0, 1} -> Words] /\ Word - 1 \in Words
  BY BytesAreWords, ByteType, ClockType, TopWord
<1>2. << >> \in T
  <2> HIDE DEF H, C
  <2>. QED
    BY StreamLaws, FoldedEmpty
<1>3. ASSUME NEW q \in Seq(Bytes), NEW b \in Bytes, q \in T PROVE Append(q, b) \in T
  <2>1. bits(q) \in Seq({0, 1}) /\ bits(Append(q, b)) = bits(q) \o Bits(b) /\ Bits(b) \in Seq({0, 1})
    BY StreamLaws, ZeroWord, ByteByBits
  <2> DEFINE x == Folded(H, Word - 1, q)
             y == Folded(C, Word - 1, bits(q))
  <2>2. x = y /\ x \in Words
    <3> HIDE DEF H, C, bits
    <3>. QED
      BY <1>1, <1>3, FoldedType
  <2>3. Folded(H, Word - 1, Append(q, b)) = H[<<x, b>>]
    <3> HIDE DEF H
    <3>. QED
      BY FoldedAppend
  <2>4. Folded(C, Word - 1, bits(q) \o Bits(b)) = Folded(C, y, Bits(b))
    <3> DEFINE Bit == {0, 1}
               top == Word - 1
    <3>1. C \in [Words \X Bit -> Words] /\ top \in Words /\ bits(q) \in Seq(Bit) /\ Bits(b) \in Seq(Bit)
      BY <1>1, <2>1
    <3> HIDE DEF C, bits, Bit, top
    <3>2. Folded(C, top, bits(q) \o Bits(b)) = Folded(C, Folded(C, top, bits(q)), Bits(b))
      BY <3>1, FoldedConcat
    <3>. QED
      BY <3>2 DEF top
  <2>5. CrcByte(poly, x, b) = Folded(C, x, Bits(b))
    <3> HIDE DEF x
    <3>. QED
      BY <2>2, ByteByBits
  <2>6. H[<<x, b>>] = CrcByte(poly, x, b)
    <3> HIDE DEF x
    <3>. QED
      BY <2>2
  <2>7. Append(q, b) \in Seq(Bytes)
    OBVIOUS
  <2> HIDE DEF H, C, bits, x, y
  <2>. QED
    BY <2>1, <2>2, <2>3, <2>4, <2>5, <2>6, <2>7
<1>4. Folded(H, Word - 1, in) = Folded(C, Word - 1, bits(in))
  <2>1. Seq(Bytes) \subseteq T
    <3> HIDE DEF T
    <3>. QED
      BY <1>2, <1>3, SeqSetInduction
  <2>. QED
    BY <2>1
<1>5. bits(in) \in Seq({0, 1})
  BY StreamLaws
<1>6. FoldLeft(LAMBDA crc, byte : CrcByte(poly, crc, byte), Word - 1, in) = Folded(H, Word - 1, in)
  BY BytesFold
<1>7. FoldLeft(LAMBDA crc, bit : CrcClock(poly, crc, bit), Word - 1, bits(in)) = Folded(C, Word - 1, bits(in))
  <2> HIDE DEF bits
  <2>. QED
    BY <1>5, ClockFolds
<1>. QED
  BY <1>4, <1>6, <1>7 DEF CrcIsRight, Crc32

-----------------------------------------------------------------------------
(* fnv1a_lines.                                                            *)

FnvStates == [out : Seq(Words), hash : Words]

LEMMA FnvMixType == ASSUME NEW hash \in Words, NEW byte \in Bytes PROVE FnvMix(hash, byte) \in Words
<1>1. Word \in Nat \ {0} /\ byte \in Words
  BY BitsAssumption, Pow2Facts, BytesAreWords DEF Word
<1>2. Xor(hash, byte) \in Nat
  <2>1. Xor(hash, byte) \in Words
    BY <1>1, XorStep
  <2>. QED
    BY <1>1, <2>1, Halves
<1>3. Prime \in Nat
  BY <1>1, WordAssumption
<1>4. Xor(hash, byte) * Prime \in Nat
  BY <1>2, <1>3
<1>. QED
  BY <1>1, <1>4 DEF FnvMix, Words

LEMMA BasisType == Basis \in Words
  BY WordAssumption DEF Words

LEMMA FnvStepType ==
    ASSUME NEW s \in FnvStates, NEW ch \in Bytes
    PROVE  FnvStep(s, ch) \in FnvStates
<1>1. s.out \in Seq(Words) /\ s.hash \in Words
  BY DEF FnvStates
<1>2. Append(s.out, s.hash) \in Seq(Words)
  BY <1>1
<1>3. FnvMix(s.hash, ch) \in Words
  BY <1>1, FnvMixType
<1>. QED
  BY <1>1, <1>2, <1>3, BasisType DEF FnvStates, FnvStep

(* fnv1a_lines, byte by byte.                                              *)
LEMMA FnvReadLaws ==
    /\ FnvRead(<< >>) = [out |-> << >>, hash |-> Basis]
    /\ \A q \in Seq(Bytes) : FnvRead(q) \in FnvStates
    /\ \A q \in Seq(Bytes), ch \in Bytes :
          FnvRead(Append(q, ch)) = FnvStep(FnvRead(q), ch)
<1> DEFINE St == FnvStates
           X == Bytes
           base == [out |-> << >>, hash |-> Basis]
           op(s, ch) == FnvStep(s, ch)
           H == [p \in St \X X |-> op(p[1], p[2])]
<1>1. base \in St
  BY BasisType DEF FnvStates
<1>2. \A s \in St, ch \in X : op(s, ch) \in St
  BY FnvStepType
<1>3. \A in \in Seq(X) : FnvRead(in) = Folded(H, base, in)
  <2> SUFFICES ASSUME NEW in \in Seq(X) PROVE FnvRead(in) = Folded(H, base, in)
    OBVIOUS
  <2> DEFINE Law(g) == g = [S \in SUBSET DOMAIN in |->
                              IF S = {} THEN base ELSE LET x == Max(S) IN op(g[S \ {x}], in[x])]
  <2>1. FnvRead(in) = (CHOOSE g : Law(g))[DOMAIN in]
    BY DEF FoldLeft, MapThenFoldSet, FnvRead
  <2> HIDE DEF op, St, X, base
  <2>2. \A s \in St, ch \in X : H[<<s, ch>>] = op(s, ch)
    OBVIOUS
  <2>3. H \in [St \X X -> St]
    BY <1>2
  <2> HIDE DEF H
  <2>4. ASSUME NEW g, TypedRun(H, St, base, in, g) PROVE Law(g)
    <3>1. \A S \in SUBSET (1 .. Len(in)) :
             S # {} => H[<<g[S \ {Max(S)}], in[Max(S)]>>] = op(g[S \ {Max(S)}], in[Max(S)])
      BY <2>2, <2>4, LastPosition DEF TypedRun
    <3>2. DOMAIN in = 1 .. Len(in)
      OBVIOUS
    <3>. QED
      BY <2>4, <3>1, <3>2 DEF SetRun, TypedRun
  <2>5. ASSUME NEW g, Law(g) PROVE Follows(X, St, H, base, in, g)
    <3>1. DOMAIN in = 1 .. Len(in)
      OBVIOUS
    <3>2. \A S \in SUBSET (1 .. Len(in)) : g[S] = IF S = {} THEN base ELSE op(g[S \ {Max(S)}], in[Max(S)])
      BY <2>5, <3>1
    <3> HIDE DEF Law
    <3>. QED
      BY <1>1, <2>2, <2>3, <3>2, LastPosition DEF Follows
  <2> HIDE DEF Law
  <2>6. PICK g : Law(g) /\ FnvRead(in) = g[DOMAIN in]
    BY <1>1, <2>1, <2>3, <2>4, SetRunExists
  <2>7. Follows(X, St, H, base, in, g)
    BY <2>5, <2>6
  <2>. QED
    BY <2>6, <2>7, SetRunFolds
<1> HIDE DEF op, St, X, base
<1>4. H \in [St \X X -> St] /\ \A s \in St, ch \in X : H[<<s, ch>>] = op(s, ch)
  BY <1>2
<1> HIDE DEF H
<1>5. Folded(H, base, << >>) = base /\ << >> \in Seq(X)
  BY FoldedEmpty
<1>6. \A q \in Seq(X) : Folded(H, base, q) \in St
  BY <1>1, <1>4, FoldedType
<1>7. \A q \in Seq(X), ch \in X : /\ Append(q, ch) \in Seq(X)
                                /\ Folded(H, base, Append(q, ch)) = H[<<Folded(H, base, q), ch>>]
  BY FoldedAppend
<1>8. \A q \in Seq(X), ch \in X : FnvRead(Append(q, ch)) = op(FnvRead(q), ch)
  BY <1>3, <1>4, <1>6, <1>7
<1>. QED
  BY <1>3, <1>5, <1>6, <1>8 DEF base, St, X, op

(* One line.                                                               *)
LEMMA FnvHashLaws ==
    /\ FnvHash(<< >>) = Basis
    /\ \A q \in Seq(Bytes) : FnvHash(q) \in Words
    /\ \A q \in Seq(Bytes), byte \in Bytes :
          FnvHash(Append(q, byte)) = FnvMix(FnvHash(q), byte)
<1> DEFINE St == Words
           X == Bytes
           base == Basis
           op(hash, byte) == FnvMix(hash, byte)
           H == [p \in St \X X |-> op(p[1], p[2])]
<1>1. base \in St
  BY BasisType
<1>2. \A hash \in St, byte \in X : op(hash, byte) \in St
  BY FnvMixType
<1>3. \A in \in Seq(X) : FnvHash(in) = Folded(H, base, in)
  <2> SUFFICES ASSUME NEW in \in Seq(X) PROVE FnvHash(in) = Folded(H, base, in)
    OBVIOUS
  <2> DEFINE Law(g) == g = [S \in SUBSET DOMAIN in |->
                              IF S = {} THEN base ELSE LET x == Max(S) IN op(g[S \ {x}], in[x])]
  <2>1. FnvHash(in) = (CHOOSE g : Law(g))[DOMAIN in]
    BY DEF FoldLeft, MapThenFoldSet, FnvHash
  <2> HIDE DEF op, St, X, base
  <2>2. \A hash \in St, byte \in X : H[<<hash, byte>>] = op(hash, byte)
    OBVIOUS
  <2>3. H \in [St \X X -> St]
    BY <1>2
  <2> HIDE DEF H
  <2>4. ASSUME NEW g, TypedRun(H, St, base, in, g) PROVE Law(g)
    <3>1. \A S \in SUBSET (1 .. Len(in)) :
             S # {} => H[<<g[S \ {Max(S)}], in[Max(S)]>>] = op(g[S \ {Max(S)}], in[Max(S)])
      BY <2>2, <2>4, LastPosition DEF TypedRun
    <3>2. DOMAIN in = 1 .. Len(in)
      OBVIOUS
    <3>. QED
      BY <2>4, <3>1, <3>2 DEF SetRun, TypedRun
  <2>5. ASSUME NEW g, Law(g) PROVE Follows(X, St, H, base, in, g)
    <3>1. DOMAIN in = 1 .. Len(in)
      OBVIOUS
    <3>2. \A S \in SUBSET (1 .. Len(in)) : g[S] = IF S = {} THEN base ELSE op(g[S \ {Max(S)}], in[Max(S)])
      BY <2>5, <3>1
    <3> HIDE DEF Law
    <3>. QED
      BY <1>1, <2>2, <2>3, <3>2, LastPosition DEF Follows
  <2> HIDE DEF Law
  <2>6. PICK g : Law(g) /\ FnvHash(in) = g[DOMAIN in]
    BY <1>1, <2>1, <2>3, <2>4, SetRunExists
  <2>7. Follows(X, St, H, base, in, g)
    BY <2>5, <2>6
  <2>. QED
    BY <2>6, <2>7, SetRunFolds
<1> HIDE DEF op, St, X, base
<1>4. H \in [St \X X -> St] /\ \A hash \in St, byte \in X : H[<<hash, byte>>] = op(hash, byte)
  BY <1>2
<1> HIDE DEF H
<1>5. Folded(H, base, << >>) = base /\ << >> \in Seq(X)
  BY FoldedEmpty
<1>6. \A q \in Seq(X) : Folded(H, base, q) \in St
  BY <1>1, <1>4, FoldedType
<1>7. \A q \in Seq(X), byte \in X : /\ Append(q, byte) \in Seq(X)
                                /\ Folded(H, base, Append(q, byte)) = H[<<Folded(H, base, q), byte>>]
  BY FoldedAppend
<1>8. \A q \in Seq(X), byte \in X : FnvHash(Append(q, byte)) = op(FnvHash(q), byte)
  BY <1>3, <1>4, <1>6, <1>7
<1>. QED
  BY <1>3, <1>5, <1>6, <1>8 DEF base, St, X, op

LEMMA HashesLaws ==
    /\ Mapped(FnvHash, << >>) = << >>
    /\ \A q \in Seq(Seq(Bytes)) : Mapped(FnvHash, q) \in Seq(Words)
    /\ \A q \in Seq(Seq(Bytes)), line \in Seq(Bytes) :
          Mapped(FnvHash, Append(q, line)) = Append(Mapped(FnvHash, q), FnvHash(line))
<1> DEFINE Lines == Seq(Bytes)
           g == [line \in Lines |-> FnvHash(line)]
<1>1. Maps(Lines, Words, g)
  BY FnvHashLaws DEF Maps
<1>2. \A q \in Seq(Lines) : Mapped(FnvHash, q) = Images(g, q)
  <2> SUFFICES ASSUME NEW q \in Seq(Lines) PROVE Mapped(FnvHash, q) = Images(g, q)
    OBVIOUS
  <2>1. \A k \in DOMAIN q : q[k] \in Lines
    <3> HIDE DEF Lines
    <3>. QED
      OBVIOUS
  <2>. QED
    BY <2>1 DEF Mapped, Images
<1>3. \A line \in Lines : g[line] = FnvHash(line)
  OBVIOUS
<1> HIDE DEF g, Lines
<1>4. << >> \in Seq(Lines) /\ \A q \in Seq(Lines), line \in Lines : Append(q, line) \in Seq(Lines)
  OBVIOUS
<1>6. /\ Images(g, << >>) = << >>
      /\ \A q \in Seq(Lines) : Images(g, q) \in Seq(Words)
      /\ \A q \in Seq(Lines), line \in Lines : Images(g, Append(q, line)) = Append(Images(g, q), g[line])
  BY <1>1, ImageLaws
<1>5. /\ Mapped(FnvHash, << >>) = << >>
      /\ \A q \in Seq(Lines) : Mapped(FnvHash, q) \in Seq(Words)
      /\ \A q \in Seq(Lines), line \in Lines :
            Mapped(FnvHash, Append(q, line)) = Append(Mapped(FnvHash, q), FnvHash(line))
  BY <1>2, <1>3, <1>4, <1>6
<1>. QED
  BY <1>5 DEF Lines

(* fnv1a_lines hashes every complete line of the input, whatever the width *)
(* of a word, the basis and the prime, and the rest of the input if its    *)
(* hash is not that of an empty line.                                      *)
THEOREM FnvHashesLines ==
    ASSUME NEW in \in Seq(Bytes)
    PROVE  FnvIsRight(in)
<1> DEFINE E == {Newline}
           T == {q \in Seq(Bytes) : FnvRead(q) = [out |-> Mapped(FnvHash, Complete(E, q)),
                                                 hash |-> FnvHash(Rest(E, q))]}
<1>1. /\ Complete(E, << >>) = << >> /\ Rest(E, << >>) = << >>
      /\ \A q \in Seq(Bytes) : Complete(E, q) \in Seq(Seq(Bytes)) /\ Rest(E, q) \in Seq(Bytes)
      /\ \A q \in Seq(Bytes), b \in Bytes :
            /\ b = Newline => /\ Complete(E, Append(q, b)) = Append(Complete(E, q), Rest(E, q))
                             /\ Rest(E, Append(q, b)) = << >>
            /\ b # Newline => /\ Complete(E, Append(q, b)) = Complete(E, q)
                             /\ Rest(E, Append(q, b)) = Append(Rest(E, q), b)
  <2>1. \A b : b = Newline <=> b \in E
    OBVIOUS
  <2> HIDE DEF E
  <2>2. /\ Complete(E, << >>) = << >> /\ Rest(E, << >>) = << >>
        /\ \A q \in Seq(Bytes) : Complete(E, q) \in Seq(Seq(Bytes)) /\ Rest(E, q) \in Seq(Bytes)
        /\ \A q \in Seq(Bytes), b \in Bytes :
              /\ b \in E => /\ Complete(E, Append(q, b)) = Append(Complete(E, q), Rest(E, q))
                           /\ Rest(E, Append(q, b)) = << >>
              /\ b \notin E => /\ Complete(E, Append(q, b)) = Complete(E, q)
                              /\ Rest(E, Append(q, b)) = Append(Rest(E, q), b)
    <3>1. Piecewise(Bytes, E)
      BY PieceLaws
    <3>. QED
      BY <3>1 DEF Piecewise
  <2>. QED
    BY <2>1, <2>2
<1> HIDE DEF E
<1>2. << >> \in T
  <2>1. FnvRead(<< >>) = [out |-> << >>, hash |-> Basis] /\ FnvHash(<< >>) = Basis
    BY FnvReadLaws, FnvHashLaws
  <2>2. Mapped(FnvHash, << >>) = << >> /\ << >> \in Seq(Bytes)
    BY HashesLaws
  <2>. QED
    BY <1>1, <2>1, <2>2
<1>3. ASSUME NEW q \in Seq(Bytes), NEW b \in Bytes, q \in T PROVE Append(q, b) \in T
  <2> DEFINE lines == Complete(E, q)
             rest == Rest(E, q)
  <2>1. lines \in Seq(Seq(Bytes)) /\ rest \in Seq(Bytes)
    BY <1>1
  <2>2. FnvRead(Append(q, b)) = FnvStep([out |-> Mapped(FnvHash, lines), hash |-> FnvHash(rest)], b)
    BY <1>3, FnvReadLaws
  <2>3. Append(q, b) \in Seq(Bytes)
    OBVIOUS
  <2>4. CASE b = Newline
    <3>1. FnvRead(Append(q, b)) = [out |-> Append(Mapped(FnvHash, lines), FnvHash(rest)), hash |-> Basis]
      BY <2>2, <2>4 DEF FnvStep
    <3>2. Mapped(FnvHash, Append(lines, rest)) = Append(Mapped(FnvHash, lines), FnvHash(rest))
      BY <2>1, HashesLaws
    <3>3. FnvHash(Rest(E, Append(q, b))) = Basis
      BY <1>1, <2>4, FnvHashLaws
    <3>. QED
      BY <1>1, <2>3, <2>4, <3>1, <3>2, <3>3
  <2>5. CASE b # Newline
    <3>1. FnvRead(Append(q, b)) = [out |-> Mapped(FnvHash, lines), hash |-> FnvMix(FnvHash(rest), b)]
      BY <2>2, <2>5 DEF FnvStep
    <3>2. FnvHash(Append(rest, b)) = FnvMix(FnvHash(rest), b)
      BY <2>1, FnvHashLaws
    <3>. QED
      BY <1>1, <2>3, <2>5, <3>1, <3>2
  <2>. QED
    BY <2>4, <2>5
<1>4. in \in T
  <2> HIDE DEF T
  <2>. QED
    BY <1>2, <1>3, SeqSetInduction
<1> DEFINE hashes == Mapped(FnvHash, Complete(E, in))
           last == FnvHash(Rest(E, in))
<1>5. hashes \in Seq(Words) /\ last \in Words /\ (in = << >> => last = Basis)
  BY <1>1, HashesLaws, FnvHashLaws
<1>6. FnvRead(in) = [out |-> hashes, hash |-> last]
  BY <1>4
<1>7. FnvLines(in) = IF in # << >> /\ last # Basis THEN Append(hashes, last) ELSE hashes
  <2> HIDE DEF hashes, last
  <2>. QED
    BY <1>6 DEF FnvLines
<1>8. FnvLines(in) = hashes \o IF last = Basis THEN << >> ELSE <<last>>
  <2> HIDE DEF hashes, last
  <2>. QED
    BY <1>5, <1>7
<1>. QED
  BY <1>8 DEF FnvIsRight, E

-----------------------------------------------------------------------------
(* base64_encode.                                                          *)

Octets == 0 .. 255
Alphabet == 0 .. 64
Letters == 0 .. 65

LEMMA SomePowers ==
    /\ Pow2[0] = 1 /\ Pow2[6] = 64 /\ Pow2[8] = 256
    /\ Pow2[12] = 64 * 64 /\ Pow2[16] = 256 * 256 /\ Pow2[18] = 64 * 64 * 64
<1>1. Pow2[0] = 1 /\ \A n \in Nat : Pow2[n + 1] = 2 * Pow2[n]
  BY Pow2Facts
<1>2. Pow2[1] = 2 /\ Pow2[2] = 4 /\ Pow2[3] = 8
  <2>1. Pow2[0 + 1] = 2 * Pow2[0] /\ Pow2[1 + 1] = 2 * Pow2[1] /\ Pow2[2 + 1] = 2 * Pow2[2]
    BY <1>1
  <2>. QED
    BY <1>1, <2>1
<1>3. Pow2[3 + 3] = Pow2[3] * Pow2[3]
  BY Pow2Sum
<1>4. Pow2[6 + 2] = Pow2[6] * Pow2[2]
  BY Pow2Sum
<1>5. Pow2[6 + 6] = Pow2[6] * Pow2[6]
  BY Pow2Sum
<1>6. Pow2[8 + 8] = Pow2[8] * Pow2[8]
  BY Pow2Sum
<1>7. Pow2[12 + 6] = Pow2[12] * Pow2[6]
  BY Pow2Sum
<1>. QED
  BY <1>1, <1>2, <1>3, <1>4, <1>5, <1>6, <1>7

EmitStates == [out : Seq(Letters), col : Nat]

LEMMA EmitType ==
    ASSUME NEW wrap \in Nat \ {0}, NEW s \in EmitStates, NEW ch \in Alphabet
    PROVE  Emit(wrap, s, ch) \in EmitStates
<1>1. s.out \in Seq(Letters) /\ s.col \in Nat
  BY DEF EmitStates
<1>2. ch \in Letters /\ Eol \in Letters
  BY DEF Alphabet, Letters, Eol
<1> HIDE DEF Letters
<1>3. Append(s.out, ch) \in Seq(Letters) /\ s.out \o <<ch, Eol>> \in Seq(Letters) /\ s.col + 1 \in Nat
  BY <1>1, <1>2
<1>. QED
  BY <1>3 DEF Emit, EmitStates

(* The characters of base64_encode, one after the other.                   *)
LEMMA EmittedLaws ==
    ASSUME NEW wrap \in Nat \ {0}
    PROVE  /\ Emitted(wrap, << >>) = [out |-> << >>, col |-> 0]
           /\ \A q \in Seq(Alphabet) : Emitted(wrap, q) \in EmitStates
           /\ \A q \in Seq(Alphabet), ch \in Alphabet :
                 Emitted(wrap, Append(q, ch)) = Emit(wrap, Emitted(wrap, q), ch)
<1> DEFINE St == EmitStates
           X == Alphabet
           base == [out |-> << >>, col |-> 0]
           op(s, ch) == Emit(wrap, s, ch)
           H == [p \in St \X X |-> op(p[1], p[2])]
<1>1. base \in St
  BY DEF EmitStates
<1>2. \A s \in St, ch \in X : op(s, ch) \in St
  BY EmitType
<1>3. \A in \in Seq(X) : Emitted(wrap, in) = Folded(H, base, in)
  <2> SUFFICES ASSUME NEW in \in Seq(X) PROVE Emitted(wrap, in) = Folded(H, base, in)
    OBVIOUS
  <2> DEFINE Law(g) == g = [S \in SUBSET DOMAIN in |->
                              IF S = {} THEN base ELSE LET x == Max(S) IN op(g[S \ {x}], in[x])]
  <2>1. Emitted(wrap, in) = (CHOOSE g : Law(g))[DOMAIN in]
    BY DEF FoldLeft, MapThenFoldSet, Emitted
  <2> HIDE DEF op, St, X, base
  <2>2. \A s \in St, ch \in X : H[<<s, ch>>] = op(s, ch)
    OBVIOUS
  <2>3. H \in [St \X X -> St]
    BY <1>2
  <2> HIDE DEF H
  <2>4. ASSUME NEW g, TypedRun(H, St, base, in, g) PROVE Law(g)
    <3>1. \A S \in SUBSET (1 .. Len(in)) :
             S # {} => H[<<g[S \ {Max(S)}], in[Max(S)]>>] = op(g[S \ {Max(S)}], in[Max(S)])
      BY <2>2, <2>4, LastPosition DEF TypedRun
    <3>2. DOMAIN in = 1 .. Len(in)
      OBVIOUS
    <3>. QED
      BY <2>4, <3>1, <3>2 DEF SetRun, TypedRun
  <2>5. ASSUME NEW g, Law(g) PROVE Follows(X, St, H, base, in, g)
    <3>1. DOMAIN in = 1 .. Len(in)
      OBVIOUS
    <3>2. \A S \in SUBSET (1 .. Len(in)) : g[S] = IF S = {} THEN base ELSE op(g[S \ {Max(S)}], in[Max(S)])
      BY <2>5, <3>1
    <3> HIDE DEF Law
    <3>. QED
      BY <1>1, <2>2, <2>3, <3>2, LastPosition DEF Follows
  <2> HIDE DEF Law
  <2>6. PICK g : Law(g) /\ Emitted(wrap, in) = g[DOMAIN in]
    BY <1>1, <2>1, <2>3, <2>4, SetRunExists
  <2>7. Follows(X, St, H, base, in, g)
    BY <2>5, <2>6
  <2>. QED
    BY <2>6, <2>7, SetRunFolds
<1> HIDE DEF op, St, X, base
<1>4. H \in [St \X X -> St] /\ \A s \in St, ch \in X : H[<<s, ch>>] = op(s, ch)
  BY <1>2
<1> HIDE DEF H
<1>5. Folded(H, base, << >>) = base /\ << >> \in Seq(X)
  BY FoldedEmpty
<1>6. \A q \in Seq(X) : Folded(H, base, q) \in St
  BY <1>1, <1>4, FoldedType
<1>7. \A q \in Seq(X), ch \in X : /\ Append(q, ch) \in Seq(X)
                                /\ Folded(H, base, Append(q, ch)) = H[<<Folded(H, base, q), ch>>]
  BY FoldedAppend
<1>8. \A q \in Seq(X), ch \in X : Emitted(wrap, Append(q, ch)) = op(Emitted(wrap, q), ch)
  BY <1>3, <1>4, <1>6, <1>7
<1>. QED
  BY <1>3, <1>5, <1>6, <1>8 DEF base, St, X, op

(* Three bytes, and four digits of six bits.                               *)
LEMMA ThreeOctets ==
    ASSUME NEW a \in Octets, NEW b \in Octets, NEW h \in Octets, NEW v, v = a * (256 * 256) + b * 256 + h
    PROVE  /\ v \in Nat /\ v < 64 * 64 * 64 * 64
           /\ (v \div (256 * 256)) % 256 = a /\ (v \div 256) % 256 = b /\ v % 256 = h
<1>1. a \in 0 .. 255 /\ b \in 0 .. 255 /\ h \in 0 .. 255
  BY DEF Octets
<1>2. v \in Nat /\ v < 64 * 64 * 64 * 64
  BY <1>1
<1> DEFINE u == 256 * a + b
<1>3. u \in Nat /\ v = 256 * u + h
  BY <1>1
<1>4. u \div 256 = a /\ u % 256 = b /\ a % 256 = a
  BY <1>1
<1> HIDE DEF u
<1>5. v \div 256 = u /\ v % 256 = h
  BY <1>1, <1>3
<1>6. v \div (256 * 256) = (v \div 256) \div 256
  BY <1>2
<1>. QED
  BY <1>2, <1>4, <1>5, <1>6

LEMMA FourSextets ==
    ASSUME NEW v \in Nat, v < 64 * 64 * 64 * 64
    PROVE  v = ((v \div (64 * 64 * 64)) % 64) * (64 * 64 * 64) + ((v \div (64 * 64)) % 64) * (64 * 64) + ((v \div 64) % 64) * 64 + (v % 64)
<1> DEFINE d == v \div 64
           e == d \div 64
           f == e \div 64
<1>1. v = 64 * d + (v % 64) /\ d \in Nat /\ d < 64 * 64 * 64
  OBVIOUS
<1>2. d = 64 * e + (d % 64) /\ e \in Nat /\ e < 64 * 64
  <2> HIDE DEF d
  <2>. QED
    BY <1>1
<1>3. e = 64 * f + (e % 64) /\ f \in 0 .. 63
  <2> HIDE DEF e
  <2>. QED
    BY <1>2
<1>4. v \div (64 * 64) = e /\ v \div (64 * 64 * 64) = f
  <2>1. v \div (64 * 64) = (v \div 64) \div 64
    OBVIOUS
  <2>2. d \div (64 * 64) = (d \div 64) \div 64
    <3> HIDE DEF d
    <3>. QED
      BY <1>1
  <2>3. v \div (64 * 64 * 64) = (v \div 64) \div (64 * 64)
    OBVIOUS
  <2>. QED
    BY <2>1, <2>2, <2>3
<1>5. f % 64 = f
  <2> HIDE DEF f
  <2>. QED
    BY <1>3
<1>6. v \div 64 = d
  OBVIOUS
<1> HIDE DEF d, e, f
<1>7. v = f * (64 * 64 * 64) + (e % 64) * (64 * 64) + (d % 64) * 64 + (v % 64)
  <2> DEFINE x == v % 64
             y == d % 64
             z == e % 64
  <2>1. x \in Int /\ y \in Int /\ z \in Int
    BY <1>1, <1>2
  <2>2. v = 64 * d + x /\ d = 64 * e + y /\ e = 64 * f + z
    BY <1>1, <1>2, <1>3
  <2> HIDE DEF x, y, z
  <2>3. v = f * (64 * 64 * 64) + z * (64 * 64) + y * 64 + x
    BY <1>2, <1>3, <2>1, <2>2
  <2>. QED
    BY <2>3 DEF x, y, z
<1>. QED
  BY <1>4, <1>5, <1>6, <1>7

(* What four letters stand for.                                            *)
Value(q) == (q[1] % 64) * (64 * 64 * 64) + (q[2] % 64) * (64 * 64) + (q[3] % 64) * 64 + (q[4] % 64)

Padded(n, q) == \A k \in 1 .. 4 : q[k] # 64 <=> k <= n + 1

Unpacked(n, q) == [k \in 1 .. n |-> (Value(q) \div Pow2[24 - 8 * k]) % 256]

LEMMA DecodedValue ==
    ASSUME NEW n \in 1 .. 3, NEW q, Padded(n, q)
    PROVE  Decoded(q) = Unpacked(n, q)
<1> DEFINE ch == [k \in 1 .. 4 |-> q[k] % 64]
           w == ch[1] * (64 * 64 * 64) + ch[2] * (64 * 64) + ch[3] * 64 + ch[4]
           kept == Cardinality({k \in 1 .. 4 : q[k] # 64})
<1>1. kept = n + 1
  <2>1. {k \in 1 .. 4 : q[k] # 64} = 1 .. (n + 1)
    BY DEF Padded
  <2>2. n + 1 \in Nat
    OBVIOUS
  <2>3. Cardinality(1 .. (n + 1)) = n + 1
    BY <2>2, FS_Interval
  <2>. QED
    BY <2>1, <2>3
<1>2. Decoded(q) = [k \in 1 .. kept - 1 |-> (w \div Pow2[24 - 8 * k]) % 256]
  BY SomePowers DEF Decoded, Pad
<1>3. w = Value(q)
  BY DEF Value
<1> HIDE DEF w, kept
<1>4. kept - 1 = n
  BY <1>1
<1>. QED
  BY <1>2, <1>3, <1>4 DEF Unpacked

(* Octet k of a group.                                                     *)
Octet(g, k) == IF k <= Len(g) THEN g[k] ELSE 0
GroupValue(g) == Octet(g, 1) * (256 * 256) + Octet(g, 2) * 256 + Octet(g, 3)

LEMMA GroupFacts ==
    ASSUME NEW g \in Seq(Octets), Len(g) \in 1 .. 3
    PROVE  /\ GroupValue(g) \in Nat /\ GroupValue(g) < 64 * 64 * 64 * 64
           /\ \A k \in 1 .. Len(g) : (GroupValue(g) \div Pow2[24 - 8 * k]) % 256 = g[k]
           /\ Len(g) < 3 => GroupValue(g) % 64 = 0
           /\ Len(g) < 2 => (GroupValue(g) \div 64) % 64 = 0
<1> DEFINE a == Octet(g, 1)
           b == Octet(g, 2)
           h == Octet(g, 3)
           v == GroupValue(g)
<1>1. a \in Octets /\ b \in Octets /\ h \in Octets
  <2>1. \A k \in 1 .. Len(g) : g[k] \in Octets
    OBVIOUS
  <2>. QED
    BY <2>1 DEF Octets, Octet
<1>2. v = a * (256 * 256) + b * 256 + h
  BY DEF GroupValue
<1>3. /\ Len(g) = 1 \/ Len(g) = 2 \/ Len(g) = 3
      /\ Len(g) < 3 => h = 0
      /\ Len(g) < 2 => b = 0
      /\ a = g[1] /\ (Len(g) >= 2 => b = g[2]) /\ (Len(g) >= 3 => h = g[3])
  BY DEF Octet
<1> HIDE DEF a, b, h, v
<1>4. v \in Nat /\ v < 64 * 64 * 64 * 64 /\ (v \div (256 * 256)) % 256 = a /\ (v \div 256) % 256 = b /\ v % 256 = h
  BY <1>1, <1>2, ThreeOctets
<1>5. ASSUME NEW k \in 1 .. Len(g) PROVE (v \div Pow2[24 - 8 * k]) % 256 = g[k]
  <2>1. Pow2[24 - 8 * 1] = (256 * 256) /\ Pow2[24 - 8 * 2] = 256 /\ Pow2[24 - 8 * 3] = 1
    BY SomePowers
  <2>2. v \div 1 = v
    BY <1>4
  <2>3. CASE k = 1
    <3>1. v \div Pow2[24 - 8 * k] = v \div (256 * 256)
      BY <2>1, <2>3
    <3>2. (v \div (256 * 256)) % 256 = g[k]
      BY <1>3, <1>4, <2>3
    <3>. QED
      BY <3>1, <3>2
  <2>4. CASE k = 2
    <3>1. v \div Pow2[24 - 8 * k] = v \div 256
      BY <2>1, <2>4
    <3>2. (v \div 256) % 256 = g[k]
      BY <1>3, <1>4, <2>4
    <3>. QED
      BY <3>1, <3>2
  <2>5. CASE k = 3
    <3>1. v \div Pow2[24 - 8 * k] = v
      BY <2>1, <2>2, <2>5
    <3>2. v % 256 = g[k]
      BY <1>3, <1>4, <2>5
    <3>. QED
      BY <3>1, <3>2
  <2>. QED
    BY <1>3, <2>3, <2>4, <2>5
<1>6. ASSUME h = 0 PROVE v % 64 = 0
  <2> DEFINE u == a * (4 * 256) + b * 4
  <2>1. v = 64 * u /\ u \in Nat
    BY <1>1, <1>2, <1>6 DEF Octets
  <2> HIDE DEF u
  <2>. QED
    BY <2>1
<1>7. ASSUME b = 0, h = 0 PROVE (v \div 64) % 64 = 0
  <2> DEFINE u == a * 16
  <2>1. v = (64 * 64) * u /\ u \in Nat
    BY <1>1, <1>2, <1>7 DEF Octets
  <2> HIDE DEF u
  <2>2. v \div 64 = 64 * u
    BY <2>1
  <2>. QED
    BY <2>1, <2>2
<1>. QED
  BY <1>3, <1>4, <1>5, <1>6, <1>7 DEF v

(* A group of one to three bytes decodes to itself.                        *)
LEMMA GroupDecodes ==
    ASSUME NEW g \in Seq(Octets), Len(g) \in 1 .. 3
    PROVE  /\ Sextets(g) \in Seq(Alphabet) /\ Len(Sextets(g)) = 4
           /\ Decoded(Sextets(g)) = g
<1> DEFINE n == Len(g)
           v == GroupValue(g)
           q == Sextets(g)
<1>1. q = [k \in 1 .. 4 |-> IF k <= n + 1 THEN (v \div Pow2[24 - 6 * k]) % 64 ELSE 64]
  BY SomePowers DEF Sextets, Pad, GroupValue, Octet
<1>2. v \in Nat /\ v < 64 * 64 * 64 * 64 /\ (n < 3 => v % 64 = 0) /\ (n < 2 => (v \div 64) % 64 = 0)
  BY GroupFacts
<1>3. n \in 1 .. 3
  OBVIOUS
<1> HIDE DEF n, v, q
<1>4. /\ q[1] = (v \div (64 * 64 * 64)) % 64 /\ q[2] = (v \div (64 * 64)) % 64
      /\ q[3] = (IF n >= 2 THEN (v \div 64) % 64 ELSE 64) /\ q[4] = (IF n = 3 THEN v % 64 ELSE 64)
  <2>1. /\ Pow2[24 - 6 * 1] = (64 * 64 * 64) /\ Pow2[24 - 6 * 2] = (64 * 64)
        /\ Pow2[24 - 6 * 3] = 64 /\ Pow2[24 - 6 * 4] = 1
    BY SomePowers
  <2>2. v \div 1 = v
    BY <1>2
  <2>3. /\ q[1] = (v \div Pow2[24 - 6 * 1]) % 64 /\ q[2] = (v \div Pow2[24 - 6 * 2]) % 64
        /\ q[3] = (IF n >= 2 THEN (v \div Pow2[24 - 6 * 3]) % 64 ELSE 64)
        /\ q[4] = (IF n = 3 THEN (v \div Pow2[24 - 6 * 4]) % 64 ELSE 64)
    BY <1>1, <1>3
  <2>. QED
    BY <2>1, <2>2, <2>3
<1> DEFINE s1 == (v \div (64 * 64 * 64)) % 64
           s2 == (v \div (64 * 64)) % 64
           s3 == (v \div 64) % 64
           s4 == v % 64
<1>5. s1 \in 0 .. 63 /\ s2 \in 0 .. 63 /\ s3 \in 0 .. 63 /\ s4 \in 0 .. 63
  BY <1>2
<1>6. v = s1 * (64 * 64 * 64) + s2 * (64 * 64) + s3 * 64 + s4
  BY <1>2, FourSextets
<1>7. (n < 3 => s4 = 0) /\ (n < 2 => s3 = 0)
  BY <1>2
<1>8. /\ q[1] = s1 /\ q[2] = s2
      /\ q[3] = (IF n >= 2 THEN s3 ELSE 64) /\ q[4] = (IF n = 3 THEN s4 ELSE 64)
  BY <1>4
<1> HIDE DEF s1, s2, s3, s4
<1>9. \A k \in 1 .. 4 : q[k] \in Alphabet /\ (q[k] # 64 <=> k <= n + 1)
  <2>1. \A k \in 1 .. 4 : k = 1 \/ k = 2 \/ k = 3 \/ k = 4
    OBVIOUS
  <2>2. n = 1 \/ n = 2 \/ n = 3
    BY <1>3
  <2>3. s1 \in Alphabet /\ s2 \in Alphabet /\ s3 \in Alphabet /\ s4 \in Alphabet /\ 64 \in Alphabet
    BY <1>5 DEF Alphabet
  <2>4. s1 # 64 /\ s2 # 64 /\ s3 # 64 /\ s4 # 64
    BY <1>5
  <2>5. q[1] \in Alphabet /\ q[2] \in Alphabet /\ q[3] \in Alphabet /\ q[4] \in Alphabet
    BY <1>8, <2>3
  <2>6. q[1] # 64 /\ q[2] # 64 /\ (q[3] # 64 <=> n >= 2) /\ (q[4] # 64 <=> n = 3)
    BY <1>8, <2>4
  <2>. QED
    BY <2>1, <2>2, <2>5, <2>6
<1>10. q \in Seq(Alphabet) /\ Len(q) = 4
  <2>1. q = [k \in 1 .. 4 |-> q[k]]
    BY <1>1
  <2> HIDE DEF Alphabet
  <2>. QED
    BY <1>9, <2>1
<1>11. q[1] % 64 = s1 /\ q[2] % 64 = s2 /\ q[3] % 64 = s3 /\ q[4] % 64 = s4
  <2>1. n = 1 \/ n = 2 \/ n = 3
    BY <1>3
  <2>2. s1 % 64 = s1 /\ s2 % 64 = s2 /\ s3 % 64 = s3 /\ s4 % 64 = s4 /\ 64 % 64 = 0
    BY <1>5
  <2>3. CASE n = 3
    BY <1>8, <2>2, <2>3
  <2>4. CASE n = 2
    <3>1. q[1] = s1 /\ q[2] = s2 /\ q[3] = s3 /\ q[4] = 64 /\ s4 = 0
      BY <1>7, <1>8, <2>4
    <3>. QED
      BY <2>2, <3>1
  <2>5. CASE n = 1
    <3>1. q[1] = s1 /\ q[2] = s2 /\ q[3] = 64 /\ q[4] = 64 /\ s3 = 0 /\ s4 = 0
      BY <1>7, <1>8, <2>5
    <3>. QED
      BY <2>2, <3>1
  <2>. QED
    BY <2>1, <2>3, <2>4, <2>5
<1>12. Value(q) = v
  BY <1>6, <1>11 DEF Value
<1>13. Decoded(q) = [k \in 1 .. n |-> (v \div Pow2[24 - 8 * k]) % 256]
  <2>1. Padded(n, q)
    BY <1>9 DEF Padded
  <2>2. Decoded(q) = Unpacked(n, q)
    BY <1>3, <2>1, DecodedValue
  <2>. QED
    BY <1>12, <2>2 DEF Unpacked
<1>14. \A k \in 1 .. n : (v \div Pow2[24 - 8 * k]) % 256 = g[k]
  BY GroupFacts DEF n, v
<1>15. g = [k \in 1 .. n |-> g[k]]
  BY DEF n
<1>16. Decoded(q) = g
  BY <1>13, <1>14, <1>15
<1>. QED
  BY <1>10, <1>16 DEF q

(* The lines of what has been written, and the line being written.         *)
FullLines(wrap, q, s) ==
    /\ s.col < wrap /\ Len(Rest({Eol}, s.out)) = s.col
    /\ \A k \in DOMAIN Complete({Eol}, s.out) : Len(Complete({Eol}, s.out)[k]) = wrap
    /\ FlattenSeq(Complete({Eol}, s.out)) \o Rest({Eol}, s.out) = q

LEMMA LetterLaws ==
    /\ Complete({Eol}, << >>) = << >> /\ Rest({Eol}, << >>) = << >>
    /\ \A q \in Seq(Letters) : Complete({Eol}, q) \in Seq(Seq(Letters)) /\ Rest({Eol}, q) \in Seq(Letters)
    /\ \A q \in Seq(Letters) :
          /\ Complete({Eol}, Append(q, Eol)) = Append(Complete({Eol}, q), Rest({Eol}, q))
          /\ Rest({Eol}, Append(q, Eol)) = << >>
    /\ \A q \in Seq(Letters), ch \in Alphabet :
          /\ Complete({Eol}, Append(q, ch)) = Complete({Eol}, q)
          /\ Rest({Eol}, Append(q, ch)) = Append(Rest({Eol}, q), ch)
<1> DEFINE E == {Eol}
           X == Letters
<1>1. /\ Eol \in X /\ Eol \in E
      /\ \A ch \in Alphabet : ch \in X /\ ch \notin E
  BY DEF Letters, Alphabet, Eol
<1> HIDE DEF E, X
<1>2. Piecewise(X, E)
  BY PieceLaws
<1>3. /\ Complete(E, << >>) = << >> /\ Rest(E, << >>) = << >>
      /\ \A q \in Seq(X) : Complete(E, q) \in Seq(Seq(X)) /\ Rest(E, q) \in Seq(X)
      /\ \A q \in Seq(X) :
            /\ Complete(E, Append(q, Eol)) = Append(Complete(E, q), Rest(E, q))
            /\ Rest(E, Append(q, Eol)) = << >>
      /\ \A q \in Seq(X), ch \in Alphabet :
            /\ Complete(E, Append(q, ch)) = Complete(E, q)
            /\ Rest(E, Append(q, ch)) = Append(Rest(E, q), ch)
  BY <1>1, <1>2 DEF Piecewise
<1>. QED
  BY <1>3 DEF E, X

(* A line that ends with a last character, or is just begun.               *)
LEMMA LineEnds ==
    ASSUME NEW out \in Seq(Letters), NEW ch \in Alphabet
    PROVE  /\ Append(out, ch) \in Seq(Letters)
           /\ Complete({Eol}, out \o <<ch, Eol>>) = Append(Complete({Eol}, out), Append(Rest({Eol}, out), ch))
           /\ Rest({Eol}, out \o <<ch, Eol>>) = << >>
<1>1. ch \in Letters
  BY DEF Letters, Alphabet
<1>2. out \o <<ch, Eol>> = Append(Append(out, ch), Eol) /\ Append(out, ch) \in Seq(Letters)
  BY <1>1
<1>. QED
  BY <1>2, LetterLaws

LEMMA EmitKeepsLines ==
    ASSUME NEW wrap \in Nat \ {0}, NEW q \in Seq(Alphabet), NEW ch \in Alphabet, NEW s \in EmitStates,
           FullLines(wrap, q, s)
    PROVE  FullLines(wrap, Append(q, ch), Emit(wrap, s, ch))
<1> DEFINE lines == Complete({Eol}, s.out)
           rest == Rest({Eol}, s.out)
           line == Append(rest, ch)
           t == Emit(wrap, s, ch)
<1>1. /\ s.out \in Seq(Letters) /\ s.col \in Nat
  BY DEF EmitStates
<1>2. lines \in Seq(Seq(Letters)) /\ rest \in Seq(Letters) /\ ch \in Letters
  <2>1. ch \in Letters
    BY DEF Letters, Alphabet
  <2>. QED
    BY <1>1, <2>1, LetterLaws
<1>3. /\ s.col < wrap /\ Len(rest) = s.col /\ FlattenSeq(lines) \o rest = q
      /\ \A k \in DOMAIN lines : Len(lines[k]) = wrap
  BY DEF FullLines
<1>4. FlattenSeq(lines) \o Append(rest, ch) = Append(q, ch)
  <2>1. FlattenSeq(lines) \in Seq(Letters)
    BY <1>2, FlattenLaws
  <2> DEFINE f == FlattenSeq(lines)
  <2> HIDE DEF f, rest
  <2>2. f \o Append(rest, ch) = Append(f \o rest, ch) /\ f \o rest \in Seq(Letters)
    <3>1. f \in Seq(Letters)
      BY <2>1 DEF f
    <3>. QED
      BY <1>2, <3>1, ConcatAppend
  <2>. QED
    BY <1>3, <2>2 DEF f
<1>5. Append(rest, ch) \in Seq(Letters) /\ Len(Append(rest, ch)) = s.col + 1
  <2> HIDE DEF rest
  <2>. QED
    BY <1>2, <1>3
<1> HIDE DEF lines, rest, line
<1>6. CASE s.col + 1 = wrap
  <2>1. t.out = s.out \o <<ch, Eol>> /\ t.col = 0
    BY <1>6 DEF Emit
  <2> HIDE DEF t
  <2>2. Complete({Eol}, t.out) = Append(lines, line) /\ Rest({Eol}, t.out) = << >>
    BY <1>1, <2>1, LineEnds DEF lines, rest, line
  <2>3. FlattenSeq(Append(lines, line)) = Append(q, ch)
    <3>1. FlattenSeq(Append(lines, line)) = FlattenSeq(lines) \o line
      BY <1>2, <1>5, FlattenLaws DEF line
    <3>. QED
      BY <1>4, <3>1 DEF line
  <2>4. Append(q, ch) \o << >> = Append(q, ch) /\ Len(<< >>) = 0 /\ 0 < wrap
    OBVIOUS
  <2>5. \A k \in DOMAIN Append(lines, line) : Len(Append(lines, line)[k]) = wrap
    <3>1. Len(line) = wrap /\ line \in Seq(Letters)
      BY <1>5, <1>6 DEF line
    <3>2. DOMAIN Append(lines, line) = 1 .. (Len(lines) + 1) /\ DOMAIN lines = 1 .. Len(lines)
      BY <1>2, <3>1
    <3>3. \A k \in 1 .. (Len(lines) + 1) : Append(lines, line)[k] = IF k <= Len(lines) THEN lines[k] ELSE line
      BY <1>2, <3>1
    <3>4. Len(lines) \in Nat
      BY <1>2
    <3>. QED
      BY <1>3, <3>1, <3>2, <3>3, <3>4
  <2>6. FullLines(wrap, Append(q, ch), t)
    BY <2>1, <2>2, <2>3, <2>4, <2>5 DEF FullLines
  <2>. QED
    BY <2>6 DEF t
<1>7. CASE s.col + 1 # wrap
  <2>1. t.out = Append(s.out, ch) /\ t.col = s.col + 1
    BY <1>7 DEF Emit
  <2> HIDE DEF t
  <2>2. Complete({Eol}, t.out) = lines /\ Rest({Eol}, t.out) = line
    <3>1. /\ Complete({Eol}, Append(s.out, ch)) = Complete({Eol}, s.out)
          /\ Rest({Eol}, Append(s.out, ch)) = Append(Rest({Eol}, s.out), ch)
      BY <1>1, LetterLaws
    <3>. QED
      BY <2>1, <3>1 DEF lines, rest, line
  <2>3. t.col < wrap
    BY <1>1, <1>3, <1>7, <2>1
  <2>4. FullLines(wrap, Append(q, ch), t)
    BY <1>3, <1>4, <1>5, <2>1, <2>2, <2>3 DEF FullLines, line
  <2>. QED
    BY <2>4 DEF t
<1>. QED
  BY <1>6, <1>7

LEMMA AllLinesAreFull ==
    ASSUME NEW wrap \in Nat \ {0}, NEW chars \in Seq(Alphabet)
    PROVE  FullLines(wrap, chars, Emitted(wrap, chars))
<1> DEFINE T == {q \in Seq(Alphabet) : FullLines(wrap, q, Emitted(wrap, q))}
<1>1. << >> \in T
  <2> DEFINE s == [out |-> << >>, col |-> 0]
  <2>1. Emitted(wrap, << >>) = s /\ FlattenSeq(<< >>) = << >> /\ << >> \in Seq(Alphabet)
    BY EmittedLaws, FlattenLaws
  <2>2. Complete({Eol}, s.out) = << >> /\ Rest({Eol}, s.out) = << >> /\ s.col = 0 /\ 0 < wrap
    BY LetterLaws
  <2> HIDE DEF s
  <2>3. << >> \o << >> = << >> /\ Len(<< >>) = 0 /\ DOMAIN << >> = {}
    OBVIOUS
  <2>4. FullLines(wrap, << >>, s)
    BY <2>1, <2>2, <2>3 DEF FullLines
  <2>. QED
    BY <2>1, <2>4
<1>2. ASSUME NEW q \in Seq(Alphabet), NEW ch \in Alphabet, q \in T PROVE Append(q, ch) \in T
  <2>1. /\ Emitted(wrap, q) \in EmitStates
        /\ Emitted(wrap, Append(q, ch)) = Emit(wrap, Emitted(wrap, q), ch)
    BY EmittedLaws
  <2>2. FullLines(wrap, q, Emitted(wrap, q)) /\ Append(q, ch) \in Seq(Alphabet)
    BY <1>2
  <2>3. FullLines(wrap, Append(q, ch), Emit(wrap, Emitted(wrap, q), ch))
    BY <2>1, <2>2, EmitKeepsLines
  <2>. QED
    BY <2>1, <2>2, <2>3
<1> HIDE DEF T
<1>3. chars \in T
  BY <1>1, <1>2, SeqSetInduction
<1>. QED
  BY <1>3 DEF T

(* The letters of an input are its groups, and decode to it.               *)
LEMMA LettersDecode ==
    ASSUME NEW in \in Seq(Octets)
    PROVE  LET chars == FlattenSeq(Mapped(Sextets, Chunks(in, 3)))
           IN  /\ chars \in Seq(Alphabet)
               /\ FlattenSeq(Mapped(Decoded, Chunks(chars, 4))) = in
               /\ in = << >> => chars = << >>
<1> DEFINE G == {g \in Seq(Octets) : Len(g) \in 1 .. 3}
           Q == {q \in Seq(Alphabet) : Len(q) = 4}
           groups == Chunks(in, 3)
           qs == Mapped(Sextets, groups)
<1>1. groups \in Seq(G) /\ FlattenSeq(groups) = in /\ Chunks(<< >>, 3) = << >>
  <2>1. 3 \in Nat \ {0}
    OBVIOUS
  <2> DEFINE X == Octets
             n == 3
  <2> HIDE DEF X, n
  <2>2. /\ Chunks(in, n) \in Seq({g \in Seq(X) : Len(g) \in 1 .. n})
        /\ FlattenSeq(Chunks(in, n)) = in /\ Chunks(<< >>, n) = << >>
    BY <2>1, ChunkLaws DEF X, n
  <2>. QED
    BY <2>2 DEF X, n
<1>2. \A g \in G : Sextets(g) \in Q /\ Decoded(Sextets(g)) = g
  BY GroupDecodes
<1>3. qs = [k \in DOMAIN groups |-> Sextets(groups[k])]
  BY DEF Mapped
<1> HIDE DEF G, groups
<1>4. /\ qs \in Seq(Q) /\ DOMAIN qs = DOMAIN groups
      /\ \A k \in DOMAIN groups : groups[k] \in G /\ qs[k] = Sextets(groups[k])
  <2> HIDE DEF Q, qs
  <2>1. DOMAIN groups = 1 .. Len(groups) /\ Len(groups) \in Nat /\ \A k \in 1 .. Len(groups) : groups[k] \in G
    BY <1>1
  <2>. QED
    BY <1>2, <1>3, <2>1
<1> HIDE DEF qs
<1>5. FlattenSeq(qs) \in Seq(Alphabet) /\ Chunks(FlattenSeq(qs), 4) = qs
  <2>1. qs \in Seq(Seq(Alphabet))
    <3>1. Q \subseteq Seq(Alphabet)
      OBVIOUS
    <3> HIDE DEF Q
    <3>. QED
      BY <1>4, <3>1
  <2>2. FlattenSeq(qs) \in Seq(Alphabet)
    BY <2>1, FlattenLaws
  <2>3. Chunks(FlattenSeq(qs), 4) = qs
    <3>1. 4 \in Nat \ {0}
      OBVIOUS
    <3>. QED
      BY <1>4, <3>1, PiecesAreChunks
  <2>. QED
    BY <2>2, <2>3
<1>6. Mapped(Decoded, qs) = groups
  <2>1. Mapped(Decoded, qs) = [k \in DOMAIN qs |-> Decoded(qs[k])]
    BY DEF Mapped
  <2>2. \A k \in DOMAIN qs : Decoded(qs[k]) = groups[k]
    BY <1>2, <1>4
  <2>3. groups = [k \in DOMAIN groups |-> groups[k]]
    BY <1>1
  <2>. QED
    BY <1>4, <2>1, <2>2, <2>3
<1>7. ASSUME in = << >> PROVE FlattenSeq(qs) = << >>
  <2>1. groups = << >>
    BY <1>1, <1>7 DEF groups
  <2>2. qs = << >>
    BY <1>3, <2>1
  <2>. QED
    BY <2>2, FlattenLaws
<1>8. FlattenSeq(Mapped(Decoded, Chunks(FlattenSeq(qs), 4))) = in
  BY <1>1, <1>5, <1>6
<1>. QED
  BY <1>5, <1>7, <1>8 DEF qs, groups

(* base64_encode writes full lines and ends the last one, and what it      *)
(* writes decodes to the input, whatever the width of a line.              *)
THEOREM Base64Decodes ==
    ASSUME NEW wrap \in Nat \ {0}, NEW in \in Seq(Octets)
    PROVE  Base64IsRight(wrap, in)
<1> DEFINE chars == FlattenSeq(Mapped(Sextets, Chunks(in, 3)))
           s == Emitted(wrap, chars)
           out == Base64Encode(wrap, in)
           lines == Complete({Eol}, out)
           before == Complete({Eol}, s.out)
           rest == Rest({Eol}, s.out)
<1>1. /\ chars \in Seq(Alphabet) /\ (in = << >> => chars = << >>)
      /\ FlattenSeq(Mapped(Decoded, Chunks(chars, 4))) = in
  BY LettersDecode
<1>2. out = IF in # << >> /\ s.col # 0 THEN Append(s.out, Eol) ELSE s.out
  BY DEF Base64Encode, Base64
<1> HIDE DEF chars
<1>3. s \in EmitStates /\ FullLines(wrap, chars, s) /\ (chars = << >> => s.col = 0)
  BY <1>1, EmittedLaws, AllLinesAreFull
<1>4. /\ s.out \in Seq(Letters) /\ s.col \in Nat /\ s.col < wrap /\ Len(rest) = s.col
      /\ FlattenSeq(before) \o rest = chars
      /\ \A k \in DOMAIN before : Len(before[k]) = wrap
  BY <1>3 DEF EmitStates, FullLines
<1>5. before \in Seq(Seq(Letters)) /\ rest \in Seq(Letters)
  BY <1>4, LetterLaws
<1> HIDE DEF s, out
<1>6. CASE s.col = 0
  <2>1. out = s.out
    BY <1>2, <1>6
  <2>2. rest = << >>
    <3> HIDE DEF rest
    <3>. QED
      BY <1>4, <1>5, <1>6
  <2>3. FlattenSeq(before) = chars
    <3>1. FlattenSeq(before) \in Seq(Letters)
      BY <1>5, FlattenLaws
    <3> DEFINE f == FlattenSeq(before)
    <3> HIDE DEF f
    <3>2. f \o << >> = f
      BY <3>1 DEF f
    <3>. QED
      BY <1>4, <2>2, <3>2 DEF f
  <2>4. \A k \in DOMAIN before :
           IF k < Len(before) THEN Len(before[k]) = wrap ELSE Len(before[k]) \in 1 .. wrap
    <3> HIDE DEF before
    <3>1. wrap \in 1 .. wrap
      OBVIOUS
    <3>. QED
      BY <1>4, <3>1
  <2>. QED
    BY <1>1, <2>1, <2>2, <2>3, <2>4 DEF Base64IsRight, out
<1>7. CASE s.col # 0
  <2>1. out = Append(s.out, Eol)
    BY <1>1, <1>2, <1>3, <1>7
  <2>2. lines = Append(before, rest) /\ Rest({Eol}, out) = << >>
    BY <1>4, <2>1, LetterLaws
  <2>3. FlattenSeq(lines) = chars
    BY <1>4, <1>5, <2>2, FlattenLaws
  <2>4. ASSUME NEW k \in DOMAIN lines
        PROVE  IF k < Len(lines) THEN Len(lines[k]) = wrap ELSE Len(lines[k]) \in 1 .. wrap
    <3> HIDE DEF lines, before, rest
    <3>1. DOMAIN lines = 1 .. Len(lines) /\ Len(lines) = Len(before) + 1 /\ Len(before) \in Nat
      BY <1>5, <2>2
    <3>2. lines[k] = IF k <= Len(before) THEN before[k] ELSE rest
      BY <1>5, <2>2, <3>1
    <3>3. DOMAIN before = 1 .. Len(before)
      BY <1>5
    <3>. QED
      BY <1>4, <1>7, <3>1, <3>2, <3>3
  <2>. QED
    BY <1>1, <2>2, <2>3, <2>4 DEF Base64IsRight, out
<1>. QED
  BY <1>6, <1>7

-----------------------------------------------------------------------------
(* rle_encode.                                                             *)

RunLengths == {max_run \in Nat \ {0} : max_run < Pow2[ByteBits]}
Pairs == {p \in Seq(Bytes) : Len(p) = 2}
RleStates == [out : Seq(Bytes), current : Bytes, count : Bytes \ {0}]

LEMMA PairType ==
    ASSUME NEW s \in RleStates
    PROVE  /\ s.out \in Seq(Bytes) /\ s.current \in Bytes /\ s.count \in Bytes /\ s.count # 0
           /\ <<s.count, s.current>> \in Pairs
           /\ Pair(s) = s.out \o <<s.count, s.current>> /\ Pair(s) \in Seq(Bytes)
<1>1. s.out \in Seq(Bytes) /\ s.current \in Bytes /\ s.count \in Bytes /\ s.count # 0
  BY DEF RleStates
<1>2. s.count % Pow2[ByteBits] = s.count
  <2> DEFINE p == Pow2[ByteBits]
  <2>1. p \in Nat \ {0}
    BY BitsAssumption, Pow2Facts
  <2>2. s.count \in 0 .. (p - 1)
    BY <1>1 DEF Bytes
  <2> HIDE DEF p
  <2>3. (p * 0 + s.count) % p = s.count
    BY <2>1, <2>2, Divided
  <2>4. p * 0 + s.count = s.count
    BY <2>1, <2>2
  <2>. QED
    BY <2>3, <2>4 DEF p
<1>3. Pair(s) = s.out \o <<s.count, s.current>>
  BY <1>2 DEF Pair
<1> HIDE DEF Bytes
<1>4. <<s.count, s.current>> \in Seq(Bytes) /\ Len(<<s.count, s.current>>) = 2
  BY <1>1
<1>5. s.out \o <<s.count, s.current>> \in Seq(Bytes)
  BY <1>1, <1>4, Cat
<1>6. <<s.count, s.current>> \in Pairs
  BY <1>4 DEF Pairs
<1>. QED
  BY <1>1, <1>3, <1>5, <1>6

LEMMA RleStepType ==
    ASSUME NEW max_run \in RunLengths, NEW s \in RleStates, NEW b \in Bytes
    PROVE  RleStep(max_run, s, b) \in RleStates
<1>1. Pow2[ByteBits] \in Nat \ {0} /\ max_run \in Nat \ {0} /\ max_run < Pow2[ByteBits]
  BY BitsAssumption, Pow2Facts DEF RunLengths
<1>2. s.count \in Bytes \ {0} /\ s.out \in Seq(Bytes) /\ s.current \in Bytes /\ Pair(s) \in Seq(Bytes)
  BY PairType
<1>3. 1 \in Bytes \ {0} /\ (s.count < max_run => s.count + 1 \in Bytes \ {0})
  <2> DEFINE p == Pow2[ByteBits]
             k == s.count
  <2>1. k \in 0 .. (p - 1) /\ k # 0 /\ Bytes = 0 .. (p - 1)
    BY <1>2 DEF Bytes
  <2>2. p \in Nat \ {0} /\ max_run \in Nat \ {0} /\ max_run < p
    BY <1>1
  <2> HIDE DEF p, k
  <2>. QED
    BY <2>1, <2>2 DEF k
<1> HIDE DEF Bytes
<1>4. CASE b = s.current /\ s.count < max_run
  BY <1>2, <1>3, <1>4 DEF RleStep, RleStates
<1>5. CASE ~ (b = s.current /\ s.count < max_run)
  BY <1>2, <1>3, <1>5 DEF RleStep, RleStates
<1>. QED
  BY <1>4, <1>5

(* rle_encode, byte by byte, with states of any set that it stays in.      *)
RleStart(first) == [out |-> << >>, current |-> first, count |-> 1]

RleStaysIn(St, max_run, first) ==
    RleStart(first) \in St /\ \A s \in St, b \in Bytes : RleStep(max_run, s, b) \in St

RleReads(St, max_run, first) ==
    /\ RleRead(max_run, first, << >>) = RleStart(first)
    /\ \A q \in Seq(Bytes) : RleRead(max_run, first, q) \in St
    /\ \A q \in Seq(Bytes), b \in Bytes :
          RleRead(max_run, first, Append(q, b)) = RleStep(max_run, RleRead(max_run, first, q), b)

LEMMA RleReadsBytes ==
    ASSUME NEW St, NEW max_run, NEW first, RleStaysIn(St, max_run, first)
    PROVE  RleReads(St, max_run, first)
<1> DEFINE X == Bytes
           base == RleStart(first)
           op(s, b) == RleStep(max_run, s, b)
           H == [p \in St \X X |-> op(p[1], p[2])]
<1>1. base \in St
  BY DEF RleStaysIn
<1>2. \A s \in St, b \in X : op(s, b) \in St
  BY DEF RleStaysIn
<1>3. \A in \in Seq(X) : RleRead(max_run, first, in) = Folded(H, base, in)
  <2> SUFFICES ASSUME NEW in \in Seq(X) PROVE RleRead(max_run, first, in) = Folded(H, base, in)
    OBVIOUS
  <2> DEFINE Law(g) == g = [S \in SUBSET DOMAIN in |->
                              IF S = {} THEN base ELSE LET x == Max(S) IN op(g[S \ {x}], in[x])]
  <2>1. RleRead(max_run, first, in) = (CHOOSE g : Law(g))[DOMAIN in]
    BY DEF FoldLeft, MapThenFoldSet, RleRead, RleStart
  <2> HIDE DEF op, X, base
  <2>2. \A s \in St, b \in X : H[<<s, b>>] = op(s, b)
    OBVIOUS
  <2>3. H \in [St \X X -> St]
    BY <1>2
  <2> HIDE DEF H
  <2>4. ASSUME NEW g, TypedRun(H, St, base, in, g) PROVE Law(g)
    <3>1. \A S \in SUBSET (1 .. Len(in)) :
             S # {} => H[<<g[S \ {Max(S)}], in[Max(S)]>>] = op(g[S \ {Max(S)}], in[Max(S)])
      BY <2>2, <2>4, LastPosition DEF TypedRun
    <3>2. DOMAIN in = 1 .. Len(in)
      OBVIOUS
    <3>. QED
      BY <2>4, <3>1, <3>2 DEF SetRun, TypedRun
  <2>5. ASSUME NEW g, Law(g) PROVE Follows(X, St, H, base, in, g)
    <3>1. DOMAIN in = 1 .. Len(in)
      OBVIOUS
    <3>2. \A S \in SUBSET (1 .. Len(in)) : g[S] = IF S = {} THEN base ELSE op(g[S \ {Max(S)}], in[Max(S)])
      BY <2>5, <3>1
    <3> HIDE DEF Law
    <3>. QED
      BY <1>1, <2>2, <2>3, <3>2, LastPosition DEF Follows
  <2> HIDE DEF Law
  <2>6. PICK g : Law(g) /\ RleRead(max_run, first, in) = g[DOMAIN in]
    BY <1>1, <2>1, <2>3, <2>4, SetRunExists
  <2>7. Follows(X, St, H, base, in, g)
    BY <2>5, <2>6
  <2>. QED
    BY <2>6, <2>7, SetRunFolds
<1> HIDE DEF op, X, base
<1>4. H \in [St \X X -> St] /\ \A s \in St, b \in X : H[<<s, b>>] = op(s, b)
  BY <1>2
<1> HIDE DEF H
<1>5. Folded(H, base, << >>) = base /\ << >> \in Seq(X)
  BY FoldedEmpty
<1>6. \A q \in Seq(X) : Folded(H, base, q) \in St
  BY <1>1, <1>4, FoldedType
<1>7. \A q \in Seq(X), b \in X : /\ Append(q, b) \in Seq(X)
                                /\ Folded(H, base, Append(q, b)) = H[<<Folded(H, base, q), b>>]
  BY FoldedAppend
<1>8. \A q \in Seq(X), b \in X : RleRead(max_run, first, Append(q, b)) = op(RleRead(max_run, first, q), b)
  BY <1>3, <1>4, <1>6, <1>7
<1>. QED
  BY <1>3, <1>5, <1>6, <1>8 DEF base, X, op, RleReads

LEMMA RleLaws ==
    ASSUME NEW max_run \in RunLengths, NEW first \in Bytes
    PROVE  /\ RleRead(max_run, first, << >>) = [out |-> << >>, current |-> first, count |-> 1]
           /\ \A q \in Seq(Bytes) : RleRead(max_run, first, q) \in RleStates
           /\ \A q \in Seq(Bytes), b \in Bytes :
                 RleRead(max_run, first, Append(q, b)) = RleStep(max_run, RleRead(max_run, first, q), b)
<1>1. 1 \in Bytes \ {0}
  <2>1. Pow2[ByteBits] \in Nat \ {0} /\ max_run \in Nat \ {0} /\ max_run < Pow2[ByteBits]
    BY BitsAssumption, Pow2Facts DEF RunLengths
  <2>. QED
    BY <2>1 DEF Bytes
<1>2. RleStart(first) \in RleStates
  BY <1>1 DEF RleStates, RleStart
<1>3. RleStaysIn(RleStates, max_run, first)
  BY <1>2, RleStepType DEF RleStaysIn
<1>4. RleReads(RleStates, max_run, first)
  BY <1>3, RleReadsBytes
<1>. QED
  BY <1>4 DEF RleReads, RleStart

(* What pairs stand for.                                                   *)
LEMMA RunLaws ==
    /\ FlattenSeq(Mapped(RunOf, << >>)) = << >>
    /\ \A ps \in Seq(Pairs) : FlattenSeq(Mapped(RunOf, ps)) \in Seq(Bytes)
    /\ \A ps \in Seq(Pairs), p \in Pairs :
          FlattenSeq(Mapped(RunOf, Append(ps, p))) = FlattenSeq(Mapped(RunOf, ps)) \o RunOf(p)
<1> DEFINE g == [p \in Pairs |-> RunOf(p)]
<1>1. \A p \in Pairs : RunOf(p) \in Seq(Bytes)
  <2> SUFFICES ASSUME NEW p \in Pairs PROVE RunOf(p) \in Seq(Bytes)
    OBVIOUS
  <2>1. p[1] \in Nat /\ p[2] \in Bytes
    <3>1. \A b \in Bytes : b \in Nat
      BY DEF Bytes
    <3> HIDE DEF Bytes
    <3>2. p[1] \in Bytes /\ p[2] \in Bytes
      BY DEF Pairs
    <3>. QED
      BY <3>1, <3>2
  <2> HIDE DEF Bytes
  <2>. QED
    BY <2>1 DEF RunOf
<1>2. Maps(Pairs, Seq(Bytes), g)
  BY <1>1 DEF Maps
<1>3. \A ps \in Seq(Pairs) : Mapped(RunOf, ps) = Images(g, ps)
  <2> SUFFICES ASSUME NEW ps \in Seq(Pairs) PROVE Mapped(RunOf, ps) = Images(g, ps)
    OBVIOUS
  <2>1. \A k \in DOMAIN ps : ps[k] \in Pairs
    <3> HIDE DEF Pairs
    <3>. QED
      OBVIOUS
  <2>2. \A k \in DOMAIN ps : RunOf(ps[k]) = g[ps[k]]
    BY <2>1
  <2> HIDE DEF g
  <2>. QED
    BY <2>2 DEF Mapped, Images
<1>4. \A p \in Pairs : g[p] = RunOf(p)
  OBVIOUS
<1> HIDE DEF g, Pairs
<1>5. << >> \in Seq(Pairs) /\ \A ps \in Seq(Pairs), p \in Pairs : Append(ps, p) \in Seq(Pairs)
  OBVIOUS
<1>6. /\ FlattenSeq(Images(g, << >>)) = << >>
      /\ \A ps \in Seq(Pairs) : FlattenSeq(Images(g, ps)) \in Seq(Bytes)
      /\ \A ps \in Seq(Pairs), p \in Pairs :
            FlattenSeq(Images(g, Append(ps, p))) = FlattenSeq(Images(g, ps)) \o g[p]
  BY <1>2, FlatImageLaws
<1>7. FlattenSeq(Mapped(RunOf, << >>)) = << >>
  BY <1>3, <1>5, <1>6
<1>8. \A ps \in Seq(Pairs) : FlattenSeq(Mapped(RunOf, ps)) \in Seq(Bytes)
  BY <1>3, <1>6
<1>9. ASSUME NEW ps \in Seq(Pairs), NEW p \in Pairs
      PROVE  FlattenSeq(Mapped(RunOf, Append(ps, p))) = FlattenSeq(Mapped(RunOf, ps)) \o RunOf(p)
  <2>1. Append(ps, p) \in Seq(Pairs)
    BY <1>5
  <2>2. Mapped(RunOf, Append(ps, p)) = Images(g, Append(ps, p)) /\ Mapped(RunOf, ps) = Images(g, ps)
    BY <1>3, <2>1
  <2>. QED
    BY <1>4, <1>6, <2>2
<1>. QED
  BY <1>7, <1>8, <1>9

(* Pairs in order: a run is followed by one of the same byte only if it is *)
(* full.                                                                   *)
Maximal(max_run, ps) ==
    \A k \in DOMAIN ps :
        /\ ps[k][1] \in 1 .. max_run
        /\ k > 1 /\ ps[k - 1][2] = ps[k][2] => ps[k - 1][1] = max_run

RunsRead(max_run, q, s, ps) ==
    /\ ps \in Seq(Pairs) /\ s.out = FlattenSeq(ps)
    /\ s.count <= max_run
    /\ FlattenSeq(Mapped(RunOf, ps)) \o RunOf(<<s.count, s.current>>) = q
    /\ Maximal(max_run, Append(ps, <<s.count, s.current>>))

LEMMA OneMorePair ==
    ASSUME NEW max_run, NEW ps \in Seq(Pairs), NEW p \in Pairs
    PROVE  Maximal(max_run, Append(ps, p)) <=>
              /\ Maximal(max_run, ps)
              /\ p[1] \in 1 .. max_run
              /\ ps # << >> /\ ps[Len(ps)][2] = p[2] => ps[Len(ps)][1] = max_run
<1> HIDE DEF Pairs
<1> DEFINE n == Len(ps)
           rs == Append(ps, p)
           Good(qs, k) == /\ qs[k][1] \in 1 .. max_run
                          /\ k > 1 /\ qs[k - 1][2] = qs[k][2] => qs[k - 1][1] = max_run
<1>1. n \in Nat /\ DOMAIN ps = 1 .. n /\ DOMAIN rs = 1 .. (n + 1) /\ (n > 0 <=> ps # << >>)
  OBVIOUS
<1>2. \A k \in 1 .. (n + 1) : rs[k] = IF k = n + 1 THEN p ELSE ps[k]
  OBVIOUS
<1> HIDE DEF n, rs
<1>3. \A k \in 1 .. n : Good(rs, k) <=> Good(ps, k)
  <2> SUFFICES ASSUME NEW k \in 1 .. n PROVE Good(rs, k) <=> Good(ps, k)
    OBVIOUS
  <2>1. rs[k] = ps[k] /\ (k > 1 => rs[k - 1] = ps[k - 1])
    BY <1>1, <1>2
  <2>. QED
    BY <2>1
<1>4. Good(rs, n + 1) <=> /\ p[1] \in 1 .. max_run
                          /\ ps # << >> /\ ps[n][2] = p[2] => ps[n][1] = max_run
  <2>1. rs[n + 1] = p /\ (n + 1) - 1 = n /\ (n + 1 > 1 <=> ps # << >>) /\ (n > 0 => rs[n] = ps[n])
    BY <1>1, <1>2
  <2>. QED
    BY <1>1, <2>1
<1>5. /\ Maximal(max_run, ps) <=> \A k \in 1 .. n : Good(ps, k)
      /\ Maximal(max_run, rs) <=> \A k \in 1 .. (n + 1) : Good(rs, k)
  BY <1>1 DEF Maximal
<1> HIDE DEF Good
<1>6. (\A k \in 1 .. (n + 1) : Good(rs, k)) <=> (\A k \in 1 .. n : Good(rs, k)) /\ Good(rs, n + 1)
  BY <1>1
<1>. QED
  BY <1>3, <1>4, <1>5, <1>6 DEF n, rs

LEMMA RunLonger ==
    ASSUME NEW n \in Nat, NEW b
    PROVE  RunOf(<<n + 1, b>>) = Append(RunOf(<<n, b>>), b) /\ RunOf(<<1, b>>) = <<b>>
  BY DEF RunOf

LEMMA StepKeepsRuns ==
    ASSUME NEW max_run \in RunLengths, NEW q \in Seq(Bytes), NEW s \in RleStates, NEW b \in Bytes,
           NEW ps, RunsRead(max_run, q, s, ps)
    PROVE  \E qs : RunsRead(max_run, Append(q, b), RleStep(max_run, s, b), qs)
<1> DEFINE p == <<s.count, s.current>>
           runs == FlattenSeq(Mapped(RunOf, ps))
           t == RleStep(max_run, s, b)
<1>1. /\ ps \in Seq(Pairs) /\ s.out = FlattenSeq(ps) /\ s.count <= max_run
      /\ runs \o RunOf(p) = q /\ Maximal(max_run, Append(ps, p))
  BY DEF RunsRead
<1>2. /\ s.count \in Nat /\ s.count # 0 /\ p \in Pairs /\ Pair(s) = s.out \o p
      /\ max_run \in Nat /\ max_run >= 1 /\ runs \in Seq(Bytes)
  <2>1. s.count \in Bytes /\ s.count # 0 /\ p \in Pairs /\ Pair(s) = s.out \o p
    BY PairType
  <2>2. s.count \in Nat
    BY <2>1 DEF Bytes
  <2>3. max_run \in Nat /\ max_run >= 1
    BY DEF RunLengths
  <2>4. runs \in Seq(Bytes)
    BY <1>1, RunLaws
  <2>. QED
    BY <2>1, <2>2, <2>3, <2>4
<1>3. /\ Maximal(max_run, ps) /\ p[1] \in 1 .. max_run
      /\ ps # << >> /\ ps[Len(ps)][2] = p[2] => ps[Len(ps)][1] = max_run
  BY <1>1, <1>2, OneMorePair
<1> HIDE DEF runs
<1>4. CASE b = s.current /\ s.count < max_run
  <2> DEFINE r == <<s.count + 1, b>>
  <2>1. t.out = s.out /\ t.current = b /\ t.count = s.count + 1
    <3>1. t = [s EXCEPT !.count = s.count + 1]
      BY <1>4 DEF RleStep
    <3>2. s = [out |-> s.out, current |-> s.current, count |-> s.count]
      BY DEF RleStates
    <3>. QED
      BY <1>4, <3>1, <3>2
  <2>2. t \in RleStates
    BY RleStepType
  <2>3. r \in Pairs
    BY <2>1, <2>2, PairType
  <2>4. RunOf(p) \in Seq(Bytes) /\ RunOf(r) = Append(RunOf(p), b)
    <3>1. RunOf(r) = Append(RunOf(p), b)
      BY <1>2, <1>4, RunLonger
    <3>2. RunOf(p) \in Seq(Bytes)
      <4>1. RunOf(p) = [i \in 1 .. s.count |-> s.current] /\ s.current \in Bytes
        BY PairType DEF RunOf
      <4> DEFINE n == s.count
                 e == s.current
      <4>2. n \in Nat /\ e \in Bytes /\ RunOf(p) = [i \in 1 .. n |-> e]
        BY <1>2, <4>1
      <4> HIDE DEF Bytes, n, e, p
      <4>. QED
        BY <4>2
    <3>. QED
      BY <3>1, <3>2
  <2>5. runs \o RunOf(r) = Append(q, b)
    <3> DEFINE u == RunOf(p)
    <3>2. u \in Seq(Bytes) /\ runs \in Seq(Bytes)
      BY <1>2, <2>4
    <3> HIDE DEF u
    <3>1. runs \o Append(u, b) = Append(runs \o u, b)
      BY <3>2
    <3>. QED
      BY <1>1, <2>4, <3>1 DEF u
  <2>6. Maximal(max_run, Append(ps, r))
    <3>1. r[1] \in 1 .. max_run /\ r[2] = p[2]
      BY <1>2, <1>4
    <3> HIDE DEF r, p
    <3>. QED
      BY <1>1, <1>3, <2>3, <3>1, OneMorePair
  <2>7. t.count <= max_run
    BY <1>2, <1>4, <2>1
  <2> HIDE DEF t
  <2>8. RunsRead(max_run, Append(q, b), t, ps)
    BY <1>1, <2>1, <2>5, <2>6, <2>7 DEF RunsRead, runs
  <2>. QED
    BY <2>8 DEF t
<1>5. CASE ~ (b = s.current /\ s.count < max_run)
  <2> DEFINE r == <<1, b>>
             qs == Append(ps, p)
  <2>1. t.out = Pair(s) /\ t.current = b /\ t.count = 1
    BY <1>5 DEF RleStep
  <2>2. t \in RleStates
    BY RleStepType
  <2>3. r \in Pairs
    BY <2>1, <2>2, PairType
  <2>4. RunOf(r) = <<b>> /\ r[1] = 1 /\ r[2] = b
    <3>1. 0 \in Nat
      OBVIOUS
    <3>. QED
      BY <3>1, RunLonger
  <2>5. p[2] = b => p[1] = max_run
    BY <1>2, <1>1, <1>5
  <2> HIDE DEF p, r
  <2>6. qs \in Seq(Pairs) /\ qs # << >> /\ qs[Len(qs)] = p
    <3>1. ps \in Seq(Pairs) /\ p \in Pairs
      BY <1>1, <1>2
    <3> HIDE DEF Pairs
    <3>. QED
      BY <3>1
  <2>7. Pair(s) = FlattenSeq(qs)
    <3>1. ps \in Seq(Seq(Bytes)) /\ p \in Seq(Bytes)
      <4>1. Pairs \subseteq Seq(Bytes)
        BY DEF Pairs
      <4>. QED
        BY <1>1, <1>2, <4>1
    <3>. QED
      BY <1>1, <1>2, <3>1, FlattenLaws
  <2>8. FlattenSeq(Mapped(RunOf, qs)) = q
    BY <1>1, <1>2, RunLaws DEF runs
  <2>9. q \o RunOf(r) = Append(q, b)
    BY <2>4
  <2>10. Maximal(max_run, Append(qs, r))
    <3> HIDE DEF qs
    <3>1. Maximal(max_run, qs)
      BY <1>1 DEF qs
    <3>. QED
      <4>1. r[1] \in 1 .. max_run
        BY <1>2, <2>4
      <4>2. qs[Len(qs)][2] = r[2] => qs[Len(qs)][1] = max_run
        BY <2>4, <2>5, <2>6
      <4>3. qs \in Seq(Pairs)
        BY <2>6
      <4>. QED
        BY <2>3, <3>1, <4>1, <4>2, <4>3, OneMorePair
  <2> HIDE DEF t, qs
  <2>11. RunsRead(max_run, Append(q, b), t, qs)
    BY <1>2, <2>1, <2>6, <2>7, <2>8, <2>9, <2>10 DEF RunsRead, r
  <2>. QED
    BY <2>11 DEF t
<1>. QED
  BY <1>4, <1>5

LEMMA RunsAreRead ==
    ASSUME NEW max_run \in RunLengths, NEW first \in Bytes, NEW rest \in Seq(Bytes)
    PROVE  \E ps : RunsRead(max_run, <<first>> \o rest, RleRead(max_run, first, rest), ps)
<1> DEFINE s(q) == RleRead(max_run, first, q)
           T == {q \in Seq(Bytes) : \E ps : RunsRead(max_run, <<first>> \o q, s(q), ps)}
<1>1. << >> \in T
  <2>1. s(<< >>) = [out |-> << >>, current |-> first, count |-> 1] /\ s(<< >>) \in RleStates
    <3>1. << >> \in Seq(Bytes)
      OBVIOUS
    <3>. QED
      BY <3>1, RleLaws
  <2> DEFINE p == <<1, first>>
  <2>2. p \in Pairs
    BY <2>1, PairType
  <2>3. RunOf(p) = <<first>>
    <3>1. 0 \in Nat
      OBVIOUS
    <3>. QED
      BY <3>1, RunLonger
  <2>4. << >> \in Seq(Pairs) /\ FlattenSeq(<< >>) = << >> /\ FlattenSeq(Mapped(RunOf, << >>)) = << >>
    BY FlattenLaws, RunLaws
  <2>5. max_run \in Nat /\ 1 <= max_run
    BY DEF RunLengths
  <2>6. Maximal(max_run, Append(<< >>, p))
    <3>1. p[1] \in 1 .. max_run
      BY <2>5
    <3>2. Maximal(max_run, << >>)
      BY DEF Maximal
    <3> HIDE DEF p
    <3>. QED
      BY <2>2, <2>4, <3>1, <3>2, OneMorePair
  <2>7. << >> \o <<first>> = <<first>> /\ <<first>> \o << >> = <<first>>
    OBVIOUS
  <2> DEFINE z == s(<< >>)
  <2>8. z.out = << >> /\ z.count = 1 /\ z.current = first
    BY <2>1
  <2> HIDE DEF z
  <2>9. RunsRead(max_run, <<first>> \o << >>, z, << >>)
    BY <2>3, <2>4, <2>5, <2>6, <2>7, <2>8 DEF RunsRead
  <2>. QED
    BY <2>9 DEF z
<1>2. ASSUME NEW q \in Seq(Bytes), NEW b \in Bytes, q \in T PROVE Append(q, b) \in T
  <2>1. PICK ps : RunsRead(max_run, <<first>> \o q, s(q), ps)
    BY <1>2
  <2>2. s(q) \in RleStates /\ s(Append(q, b)) = RleStep(max_run, s(q), b)
    BY RleLaws
  <2>3. <<first>> \o q \in Seq(Bytes) /\ <<first>> \o Append(q, b) = Append(<<first>> \o q, b)
        /\ Append(q, b) \in Seq(Bytes)
    OBVIOUS
  <2> HIDE DEF s
  <2>4. \E qs : RunsRead(max_run, Append(<<first>> \o q, b), RleStep(max_run, s(q), b), qs)
    BY <2>1, <2>2, <2>3, StepKeepsRuns
  <2>. QED
    BY <2>2, <2>3, <2>4
<1> HIDE DEF T
<1>3. rest \in T
  BY <1>1, <1>2, SeqSetInduction
<1>. QED
  BY <1>3 DEF T

(* rle_encode writes the maximal runs of its input, each with a length     *)
(* that fits a byte, whatever the limit of a run.                          *)
THEOREM RleWritesRuns ==
    ASSUME NEW max_run \in RunLengths, NEW in \in Seq(Bytes)
    PROVE  RleIsRight(max_run, in)
<1> DEFINE out == RleEncode(max_run, in)
<1>1. CASE in = << >>
  <2>1. out = << >>
    BY <1>1 DEF RleEncode
  <2>2. Chunks(<< >>, 2) = << >>
    <3> DEFINE n == 2
    <3>1. n \in Nat \ {0}
      OBVIOUS
    <3> HIDE DEF n
    <3>2. Chunks(<< >>, n) = << >>
      BY <3>1, ChunkLaws
    <3>. QED
      BY <3>2 DEF n
  <2> HIDE DEF out
  <2>. QED
    BY <1>1, <2>1, <2>2, RunLaws DEF RleIsRight, out
<1>2. CASE in # << >>
  <2> DEFINE first == in[1]
             rest == Tail(in)
             s == RleRead(max_run, first, rest)
             p == <<s.count, s.current>>
  <2>1. first \in Bytes /\ rest \in Seq(Bytes) /\ in = <<first>> \o rest
    BY <1>2
  <2> HIDE DEF first, rest
  <2>2. PICK ps : RunsRead(max_run, in, s, ps)
    BY <2>1, RunsAreRead
  <2>3. s \in RleStates
    BY <2>1, RleLaws
  <2>4. out = Pair(s)
    BY <1>2 DEF RleEncode, first, rest
  <2> HIDE DEF s, out
  <2>5. /\ p \in Pairs /\ out = s.out \o p
        /\ ps \in Seq(Pairs) /\ s.out = FlattenSeq(ps)
        /\ FlattenSeq(Mapped(RunOf, ps)) \o RunOf(p) = in
        /\ Maximal(max_run, Append(ps, p))
    BY <2>2, <2>3, <2>4, PairType DEF RunsRead
  <2> HIDE DEF p
  <2> DEFINE qs == Append(ps, p)
  <2>6. out = FlattenSeq(qs)
    <3>1. ps \in Seq(Seq(Bytes)) /\ p \in Seq(Bytes)
      <4>1. Pairs \subseteq Seq(Bytes)
        BY DEF Pairs
      <4>. QED
        BY <2>5, <4>1
    <3>. QED
      BY <2>5, <3>1, FlattenLaws
  <2>7. qs \in Seq(Pairs)
    <3> HIDE DEF Pairs
    <3>. QED
      BY <2>5
  <2>8. FlattenSeq(Mapped(RunOf, qs)) = in
    BY <2>5, RunLaws
  <2> HIDE DEF qs
  <2>9. Chunks(out, 2) = qs
    <3> DEFINE n == 2
               X == Bytes
    <3>1. n \in Nat \ {0} /\ qs \in Seq({g \in Seq(X) : Len(g) = n})
      BY <2>7 DEF Pairs
    <3> HIDE DEF n, X
    <3>2. Chunks(FlattenSeq(qs), n) = qs
      BY <3>1, PiecesAreChunks
    <3>. QED
      BY <2>6, <3>2 DEF n
  <2>10. Maximal(max_run, qs)
    BY <2>5 DEF qs
  <2>. QED
    BY <2>8, <2>9, <2>10 DEF RleIsRight, Maximal, out
<1>. QED
  BY <1>1, <1>2

-----------------------------------------------------------------------------
(* reverse_bytes.                                                          *)

LEMMA SwapType ==
    ASSUME NEW Y, NEW b \in Seq(Y), NEW left \in 1 .. Len(b), NEW right \in left .. Len(b)
    PROVE  SwapEnds(b, left, right) \in Seq(Y) /\ Len(SwapEnds(b, left, right)) = Len(b)
<1> DEFINE n == Len(b)
           f == [i \in 1 .. n |-> IF i \in left .. right THEN b[left + right - i] ELSE b[i]]
<1>1. n \in Nat /\ DOMAIN b = 1 .. n /\ \A i \in 1 .. n : b[i] \in Y
  OBVIOUS
<1>2. SwapEnds(b, left, right) = f
  BY DEF SwapEnds
<1>3. \A i \in left .. right : left + right - i \in 1 .. n
  OBVIOUS
<1>4. \A i \in 1 .. n : f[i] \in Y
  BY <1>1, <1>3
<1>5. f \in Seq(Y) /\ Len(f) = n
  <2> HIDE DEF n
  <2>. QED
    BY <1>1, <1>4
<1>. QED
  BY <1>2, <1>5

(* Where a chunk of a buffer of n elements ends.                           *)
ChunkEnd(csz, n, offset) == Min({offset + csz - 1, n})

LEMMA ChunkEndIs ==
    ASSUME NEW csz \in Nat \ {0}, NEW n \in Nat, NEW offset \in 1 .. n
    PROVE  ChunkEnd(csz, n, offset) = IF offset + csz - 1 <= n THEN offset + csz - 1 ELSE n
<1>1. offset + csz - 1 \in Int
  OBVIOUS
<1>. QED
  BY <1>1, MinOfTwo DEF ChunkEnd

Buffers(Y, buf) == {b \in Seq(Y) : Len(b) = Len(buf)}

LEMMA ChunkSwapType ==
    ASSUME NEW Y, NEW csz \in Nat \ {0}, NEW buf \in Seq(Y), NEW b \in Buffers(Y, buf), NEW offset \in 1 .. Len(buf)
    PROVE  SwapEnds(b, offset, ChunkEnd(csz, Len(buf), offset)) \in Buffers(Y, buf)
<1>1. b \in Seq(Y) /\ Len(b) = Len(buf) /\ Len(buf) \in Nat
  BY DEF Buffers
<1>2. ChunkEnd(csz, Len(buf), offset) \in offset .. Len(b)
  BY <1>1, ChunkEndIs
<1>. QED
  BY <1>1, <1>2, SwapType DEF Buffers

(* The chunks of reverse_bytes, one after the other.                        *)
LEMMA ReversedLaws ==
    ASSUME NEW Y, NEW csz \in Nat \ {0}, NEW buf \in Seq(Y)
    PROVE  /\ Reversed(csz, buf, << >>) = buf
           /\ \A q \in Seq(1 .. Len(buf)) : Reversed(csz, buf, q) \in Buffers(Y, buf)
           /\ \A q \in Seq(1 .. Len(buf)), offset \in 1 .. Len(buf) :
                 Reversed(csz, buf, Append(q, offset)) = SwapEnds(Reversed(csz, buf, q), offset, ChunkEnd(csz, Len(buf), offset))
<1> DEFINE St == Buffers(Y, buf)
           X == 1 .. Len(buf)
           base == buf
           op(b, offset) == SwapEnds(b, offset, ChunkEnd(csz, Len(buf), offset))
           H == [p \in St \X X |-> op(p[1], p[2])]
<1>1. base \in St
  BY DEF Buffers
<1>2. \A b \in St, offset \in X : op(b, offset) \in St
  BY ChunkSwapType
<1>3. \A in \in Seq(X) : Reversed(csz, buf, in) = Folded(H, base, in)
  <2> SUFFICES ASSUME NEW in \in Seq(X) PROVE Reversed(csz, buf, in) = Folded(H, base, in)
    OBVIOUS
  <2> DEFINE Law(g) == g = [S \in SUBSET DOMAIN in |->
                              IF S = {} THEN base ELSE LET x == Max(S) IN op(g[S \ {x}], in[x])]
  <2>1. Reversed(csz, buf, in) = (CHOOSE g : Law(g))[DOMAIN in]
    BY DEF FoldLeft, MapThenFoldSet, Reversed, ChunkEnd
  <2> HIDE DEF op, St, X, base
  <2>2. \A b \in St, offset \in X : H[<<b, offset>>] = op(b, offset)
    OBVIOUS
  <2>3. H \in [St \X X -> St]
    BY <1>2
  <2> HIDE DEF H
  <2>4. ASSUME NEW g, TypedRun(H, St, base, in, g) PROVE Law(g)
    <3>1. \A S \in SUBSET (1 .. Len(in)) :
             S # {} => H[<<g[S \ {Max(S)}], in[Max(S)]>>] = op(g[S \ {Max(S)}], in[Max(S)])
      BY <2>2, <2>4, LastPosition DEF TypedRun
    <3>2. DOMAIN in = 1 .. Len(in)
      OBVIOUS
    <3>. QED
      BY <2>4, <3>1, <3>2 DEF SetRun, TypedRun
  <2>5. ASSUME NEW g, Law(g) PROVE Follows(X, St, H, base, in, g)
    <3>1. DOMAIN in = 1 .. Len(in)
      OBVIOUS
    <3>2. \A S \in SUBSET (1 .. Len(in)) : g[S] = IF S = {} THEN base ELSE op(g[S \ {Max(S)}], in[Max(S)])
      BY <2>5, <3>1
    <3> HIDE DEF Law
    <3>. QED
      BY <1>1, <2>2, <2>3, <3>2, LastPosition DEF Follows
  <2> HIDE DEF Law
  <2>6. PICK g : Law(g) /\ Reversed(csz, buf, in) = g[DOMAIN in]
    BY <1>1, <2>1, <2>3, <2>4, SetRunExists
  <2>7. Follows(X, St, H, base, in, g)
    BY <2>5, <2>6
  <2>. QED
    BY <2>6, <2>7, SetRunFolds
<1> HIDE DEF op, St, X, base
<1>4. H \in [St \X X -> St] /\ \A b \in St, offset \in X : H[<<b, offset>>] = op(b, offset)
  BY <1>2
<1> HIDE DEF H
<1>5. Folded(H, base, << >>) = base /\ << >> \in Seq(X)
  BY FoldedEmpty
<1>6. \A q \in Seq(X) : Folded(H, base, q) \in St
  BY <1>1, <1>4, FoldedType
<1>7. \A q \in Seq(X), offset \in X : /\ Append(q, offset) \in Seq(X)
                                /\ Folded(H, base, Append(q, offset)) = H[<<Folded(H, base, q), offset>>]
  BY FoldedAppend
<1>8. \A q \in Seq(X), offset \in X : Reversed(csz, buf, Append(q, offset)) = op(Reversed(csz, buf, q), offset)
  BY <1>3, <1>4, <1>6, <1>7
<1>. QED
  BY <1>3, <1>5, <1>6, <1>8 DEF base, St, X, op

(* A swap within the first part of a buffer, and one of all that follows.  *)
LEMMA SwapInFront ==
    ASSUME NEW Y, NEW p \in Seq(Y), NEW g \in Seq(Y), NEW left \in 1 .. Len(p), NEW right \in left .. Len(p)
    PROVE  SwapEnds(p \o g, left, right) = SwapEnds(p, left, right) \o g
<1> DEFINE q == p \o g
           u == SwapEnds(q, left, right)
           v == SwapEnds(p, left, right)
           n == Len(p)
           m == Len(g)
<1>1. /\ q \in Seq(Y) /\ Len(q) = n + m /\ n \in Nat /\ m \in Nat
      /\ \A i \in 1 .. (n + m) : q[i] = IF i <= n THEN p[i] ELSE g[i - n]
  BY ConcatProperties
<1>2. v \in Seq(Y) /\ Len(v) = n /\ \A i \in 1 .. n : v[i] = IF i \in left .. right THEN p[left + right - i] ELSE p[i]
  <2>1. v \in Seq(Y) /\ Len(v) = n
    BY SwapType
  <2>2. DOMAIN p = 1 .. n
    OBVIOUS
  <2>. QED
    BY <2>1, <2>2 DEF SwapEnds
<1>3. left \in 1 .. n /\ right \in left .. n
  OBVIOUS
<1> HIDE DEF n, m, q
<1>4. left \in 1 .. Len(q) /\ right \in left .. Len(q)
  BY <1>1, <1>3
<1>5. u \in Seq(Y) /\ Len(u) = n + m
  BY <1>1, <1>4, SwapType
<1>6. \A i \in 1 .. (n + m) : u[i] = IF i \in left .. right THEN q[left + right - i] ELSE q[i]
  <2>1. DOMAIN q = 1 .. (n + m)
    BY <1>1
  <2>. QED
    BY <2>1 DEF SwapEnds
<1> HIDE DEF u, v
<1> DEFINE w == v \o g
<1>7. w \in Seq(Y) /\ Len(w) = n + m /\ \A i \in 1 .. (n + m) : w[i] = IF i <= n THEN v[i] ELSE g[i - n]
  BY <1>2, ConcatProperties DEF m
<1> HIDE DEF w
<1>8. ASSUME NEW i \in 1 .. (n + m) PROVE u[i] = w[i]
  <2>1. CASE i \in left .. right
    <3>1. left + right - i \in 1 .. (n + m) /\ left + right - i <= n /\ i <= n /\ i \in 1 .. n
      BY <1>1, <1>3, <2>1
    <3>2. u[i] = p[left + right - i]
      BY <1>1, <1>6, <2>1, <3>1
    <3>3. w[i] = p[left + right - i]
      BY <1>2, <1>7, <2>1, <3>1
    <3>. QED
      BY <3>2, <3>3
  <2>2. CASE i \notin left .. right
    <3>1. u[i] = IF i <= n THEN p[i] ELSE g[i - n]
      BY <1>1, <1>6, <2>2
    <3>2. i <= n => v[i] = p[i]
      BY <1>1, <1>2, <2>2
    <3>. QED
      BY <1>7, <3>1, <3>2
  <2>. QED
    BY <2>1, <2>2
<1>9. u = w
  BY <1>1, <1>5, <1>7, <1>8, SeqEqual
<1>. QED
  BY <1>9 DEF u, v, w, q

LEMMA SwapBehind ==
    ASSUME NEW Y, NEW p \in Seq(Y), NEW g \in Seq(Y), g # << >>
    PROVE  SwapEnds(p \o g, Len(p) + 1, Len(p \o g)) = p \o Reverse(g)
<1> DEFINE q == p \o g
           n == Len(p)
           m == Len(g)
           left == n + 1
           right == n + m
           r == Reverse(g)
           u == SwapEnds(q, left, right)
           w == p \o r
<1>1. /\ q \in Seq(Y) /\ Len(q) = n + m /\ n \in Nat /\ m \in Nat /\ m >= 1
      /\ \A i \in 1 .. (n + m) : q[i] = IF i <= n THEN p[i] ELSE g[i - n]
  BY ConcatProperties
<1>2. r \in Seq(Y) /\ Len(r) = m /\ \A i \in 1 .. m : r[i] = g[(m - i) + 1]
  <2>1. r = [i \in 1 .. m |-> g[(m - i) + 1]]
    BY DEF Reverse
  <2>2. \A i \in 1 .. m : (m - i) + 1 \in 1 .. m
    BY <1>1
  <2>3. \A i \in 1 .. m : g[(m - i) + 1] \in Y
    BY <2>2
  <2> HIDE DEF m
  <2>. QED
    BY <1>1, <2>1, <2>3
<1> HIDE DEF n, m, q, r
<1>3. u \in Seq(Y) /\ Len(u) = n + m
  <2>1. left \in 1 .. Len(q) /\ right \in left .. Len(q)
    BY <1>1
  <2> HIDE DEF left, right
  <2>. QED
    BY <1>1, <2>1, SwapType
<1>4. \A i \in 1 .. (n + m) : u[i] = IF i \in left .. right THEN q[left + right - i] ELSE q[i]
  <2>1. DOMAIN q = 1 .. (n + m)
    BY <1>1
  <2> HIDE DEF left, right
  <2>. QED
    BY <2>1 DEF SwapEnds
<1>5. w \in Seq(Y) /\ Len(w) = n + m /\ \A i \in 1 .. (n + m) : w[i] = IF i <= n THEN p[i] ELSE r[i - n]
  BY <1>2, ConcatProperties DEF n
<1> HIDE DEF u, w
<1>6. ASSUME NEW i \in 1 .. (n + m) PROVE u[i] = w[i]
  <2>1. CASE i <= n
    BY <1>1, <1>4, <1>5, <2>1
  <2>2. CASE i > n
    <3>1. /\ i \in left .. right /\ left + right - i \in 1 .. (n + m) /\ left + right - i > n
          /\ (left + right - i) - n = (m - (i - n)) + 1 /\ i - n \in 1 .. m
      BY <1>1, <2>2
    <3>2. u[i] = g[(left + right - i) - n]
      <4> DEFINE j == left + right - i
      <4>1. u[i] = q[j]
        BY <1>4, <3>1
      <4>2. j \in 1 .. (n + m) /\ ~ (j <= n)
        BY <1>1, <3>1
      <4> HIDE DEF j
      <4>3. q[j] = g[j - n]
        BY <1>1, <4>2
      <4>. QED
        BY <4>1, <4>3 DEF j
    <3>3. w[i] = g[(m - (i - n)) + 1]
      BY <1>1, <1>2, <1>5, <2>2, <3>1
    <3>. QED
      BY <3>1, <3>2, <3>3
  <2>. QED
    BY <1>1, <2>1, <2>2
<1>7. u = w
  BY <1>1, <1>3, <1>5, <1>6, SeqEqual
<1>. QED
  BY <1>1, <1>7 DEF u, w, q, n, r

(* The chunks of the first part are reversed as if there were no more.     *)
LEMMA FrontReversed ==
    ASSUME NEW Y, NEW csz \in Nat \ {0}, NEW p \in Seq(Y), NEW g \in Seq(Y),
           NEW offsets \in Seq({i \in 1 .. Len(p) : i + csz - 1 <= Len(p)})
    PROVE  Reversed(csz, p \o g, offsets) = Reversed(csz, p, offsets) \o g
<1> DEFINE O == {i \in 1 .. Len(p) : i + csz - 1 <= Len(p)}
           q == p \o g
           T == {s \in Seq(O) : Reversed(csz, q, s) = Reversed(csz, p, s) \o g}
<1>1. q \in Seq(Y) /\ Len(q) = Len(p) + Len(g) /\ Len(p) \in Nat /\ Len(q) \in Nat /\ Len(p) <= Len(q)
  BY Cat
<1>2. O \subseteq 1 .. Len(p) /\ O \subseteq 1 .. Len(q)
  BY <1>1
<1>3. \A i \in O : ChunkEnd(csz, Len(q), i) = i + csz - 1 /\ ChunkEnd(csz, Len(p), i) = i + csz - 1
  BY <1>1, <1>2, ChunkEndIs
<1>4. /\ \A i \in O : i \in 1 .. Len(p) /\ i + csz - 1 \in i .. Len(p)
  OBVIOUS
<1>5. /\ Reversed(csz, p, << >>) = p /\ Reversed(csz, q, << >>) = q
      /\ \A s \in Seq(1 .. Len(p)) : Reversed(csz, p, s) \in Buffers(Y, p)
      /\ \A s \in Seq(1 .. Len(p)), i \in 1 .. Len(p) :
            Reversed(csz, p, Append(s, i)) = SwapEnds(Reversed(csz, p, s), i, ChunkEnd(csz, Len(p), i))
      /\ \A s \in Seq(1 .. Len(q)), i \in 1 .. Len(q) :
            Reversed(csz, q, Append(s, i)) = SwapEnds(Reversed(csz, q, s), i, ChunkEnd(csz, Len(q), i))
  <2> HIDE DEF q
  <2>1. p \in Seq(Y) /\ q \in Seq(Y)
    BY <1>1
  <2>2. \A b \in Seq(Y) : Reversed(csz, b, << >>) = b
    BY ReversedLaws
  <2>3. \A b \in Seq(Y) : \A s \in Seq(1 .. Len(b)) : Reversed(csz, b, s) \in Buffers(Y, b)
    BY ReversedLaws
  <2>4. \A b \in Seq(Y) : \A s \in Seq(1 .. Len(b)), i \in 1 .. Len(b) :
            Reversed(csz, b, Append(s, i)) = SwapEnds(Reversed(csz, b, s), i, ChunkEnd(csz, Len(b), i))
    BY ReversedLaws
  <2>. QED
    BY <2>1, <2>2, <2>3, <2>4
<1>6. \A s \in Seq(O) : s \in Seq(1 .. Len(p)) /\ s \in Seq(1 .. Len(q))
  <2> DEFINE A == 1 .. Len(p)
             B == 1 .. Len(q)
  <2>1. O \subseteq A /\ O \subseteq B
    BY <1>2
  <2> HIDE DEF O, A, B
  <2>2. \A s \in Seq(O) : s \in Seq(A) /\ s \in Seq(B)
    BY <2>1
  <2>. QED
    BY <2>2 DEF A, B
<1> HIDE DEF O, q
<1>7. << >> \in T
  BY <1>5 DEF q
<1>8. ASSUME NEW s \in Seq(O), NEW i \in O, s \in T PROVE Append(s, i) \in T
  <2> DEFINE b == Reversed(csz, p, s)
  <2>1. b \in Seq(Y) /\ Len(b) = Len(p)
    BY <1>5, <1>6 DEF Buffers
  <2>2. Reversed(csz, q, s) = b \o g
    BY <1>8
  <2>3. /\ Reversed(csz, p, Append(s, i)) = SwapEnds(b, i, i + csz - 1)
        /\ Reversed(csz, q, Append(s, i)) = SwapEnds(Reversed(csz, q, s), i, i + csz - 1)
    BY <1>2, <1>3, <1>5, <1>6
  <2>4. SwapEnds(b \o g, i, i + csz - 1) = SwapEnds(b, i, i + csz - 1) \o g
    <3>1. i \in 1 .. Len(b) /\ i + csz - 1 \in i .. Len(b)
      BY <1>4, <2>1
    <3> DEFINE right == i + csz - 1
    <3>2. right \in i .. Len(b)
      BY <3>1
    <3> HIDE DEF b, right
    <3>3. SwapEnds(b \o g, i, right) = SwapEnds(b, i, right) \o g
      BY <2>1, <3>1, <3>2, SwapInFront
    <3>. QED
      BY <3>3 DEF right
  <2>5. Append(s, i) \in Seq(O)
    OBVIOUS
  <2>. QED
    BY <2>2, <2>3, <2>4, <2>5
<1> HIDE DEF T
<1>9. offsets \in T
  <2>1. offsets \in Seq(O)
    BY DEF O
  <2>. QED
    BY <1>7, <1>8, <2>1, SeqSetInduction
<1>. QED
  BY <1>9 DEF T, q

(* The offsets of full chunks, and of one more.                            *)
Full(csz, n) == {i \in 1 .. n : i + csz - 1 <= n}

Offsets(csz, q) == [k \in 1 .. (Len(q) + csz - 1) \div csz |-> (k - 1) * csz + 1]

LEMMA OneMoreOffset ==
    ASSUME NEW X, NEW n, NEW p, NEW a, NEW g, AnotherChunk(X, n, p, a, g)
    PROVE  /\ Offsets(n, p) \in Seq(Full(n, Len(p)))
           /\ Offsets(n, p \o g) = Append(Offsets(n, p), Len(p) + 1)
<1>. /\ n \in Nat \ {0} /\ a \in Nat /\ p \in Seq(X) /\ g \in Seq(X)
     /\ Len(p) = n * a /\ Len(g) \in 1 .. n
  BY DEF AnotherChunk
<1> DEFINE q == p \o g
           m == Len(g)
           na == n * a
           d(k) == (k - 1) * n + 1
           O == {i \in 1 .. na : i + n - 1 <= na}
<1>1. q \in Seq(X) /\ Len(q) = na + m /\ Len(p) = na /\ na \in Nat /\ m \in 1 .. n
  OBVIOUS
<1>2. (Len(p) + n - 1) \div n = a /\ (Len(q) + n - 1) \div n = a + 1
  <2>1. (na + n - 1) \div n = a /\ (na + m + n - 1) \div n = a + 1
    BY <1>1, ChunkCount
  <2> HIDE DEF na, m, q
  <2>. QED
    BY <1>1, <2>1
<1>3. Offsets(n, p) = [k \in 1 .. a |-> d(k)] /\ Offsets(n, q) = [k \in 1 .. (a + 1) |-> d(k)]
  BY <1>2 DEF Offsets
<1>4. ASSUME NEW k \in 1 .. a PROVE d(k) \in O
  <2>1. (k - 1) * n \in Nat /\ (a - k) * n \in Nat
    <3>1. k - 1 \in Nat /\ a - k \in Nat
      OBVIOUS
    <3>. QED
      BY <3>1
  <2>2. na = (k - 1) * n + n + (a - k) * n
    OBVIOUS
  <2> DEFINE x == (k - 1) * n
             y == (a - k) * n
  <2> HIDE DEF x, y, na
  <2>3. x + 1 \in 1 .. na /\ (x + 1) + n - 1 <= na
    BY <1>1, <2>1, <2>2 DEF x, y
  <2>. QED
    BY <2>3 DEF x
<1>5. d(a + 1) = na + 1
  OBVIOUS
<1>6. na + 1 \in Nat
  BY <1>1
<1> HIDE DEF d, na, O
<1>7. [k \in 1 .. a |-> d(k)] \in Seq(O)
  BY <1>4
<1>8. [k \in 1 .. (a + 1) |-> d(k)] = Append([k \in 1 .. a |-> d(k)], d(a + 1))
  OBVIOUS
<1>. QED
  BY <1>1, <1>3, <1>5, <1>7, <1>8 DEF O, Full

(* reverse_bytes mirrors every chunk of its input, whatever their size.    *)
THEOREM ReverseMirrorsChunks ==
    ASSUME NEW Y, NEW csz \in Nat \ {0}, NEW in \in Seq(Y)
    PROVE  ReverseBytes(csz, in) = ReverseReference(csz, in)
<1> DEFINE R(q) == ReverseBytes(csz, q)
           T == {q \in Seq(Y) : R(q) = ReverseReference(csz, q) /\ Len(R(q)) = Len(q)}
<1>1. \A q : R(q) = Reversed(csz, q, Offsets(csz, q))
  BY DEF ReverseBytes, Offsets
<1>2. << >> \in T
  <2>1. Chunks(<< >>, csz) = << >> /\ << >> \in Seq(Y)
    BY ChunkLaws
  <2>2. ReverseReference(csz, << >>) = << >>
    BY <2>1, MirrorLaws DEF ReverseReference
  <2>3. Offsets(csz, << >>) = << >>
    <3>1. (csz * 0 + csz - 1) \div csz = 0
      <4>1. 0 \in Nat /\ 1 \in 1 .. csz
        OBVIOUS
      <4>. QED
        BY <4>1, ChunkCount
    <3>2. Len(<< >>) + csz - 1 = csz * 0 + csz - 1
      OBVIOUS
    <3>3. 1 .. (Len(<< >>) + csz - 1) \div csz = {}
      BY <3>1, <3>2
    <3>. QED
      BY <3>3 DEF Offsets
  <2>4. Reversed(csz, << >>, << >>) = << >>
    <3>1. \A b \in Seq(Y) : Reversed(csz, b, << >>) = b
      BY ReversedLaws
    <3>. QED
      BY <2>1, <3>1
  <2> HIDE DEF R
  <2>. QED
    BY <1>1, <2>1, <2>2, <2>3, <2>4
<1> HIDE DEF R
<1>3. ASSUME NEW p \in Seq(Y), NEW g \in Seq(Y), NEW a \in Nat, p \in T, Len(p) = csz * a, Len(g) \in 1 .. csz
      PROVE  p \o g \in T
  <2> DEFINE q == p \o g
             o == Offsets(csz, p)
             n == Len(p)
  <2>1. AnotherChunk(Y, csz, p, a, g)
    BY <1>3 DEF AnotherChunk
  <2>2. /\ q \in Seq(Y) /\ Len(q) = n + Len(g) /\ n \in Nat /\ Len(g) \in Nat /\ Len(g) >= 1 /\ g # << >>
        /\ Len(g) <= csz
    <3>1. q \in Seq(Y) /\ Len(q) = n + Len(g)
      BY Cat
    <3>. QED
      BY <1>3, <3>1
  <2>3. o \in Seq({i \in 1 .. n : i + csz - 1 <= n}) /\ Offsets(csz, q) = Append(o, n + 1)
    <3>1. /\ Offsets(csz, p) \in Seq(Full(csz, Len(p)))
          /\ Offsets(csz, p \o g) = Append(Offsets(csz, p), Len(p) + 1)
      BY <2>1, OneMoreOffset
    <3>. QED
      BY <3>1 DEF Full
  <2>4. Reversed(csz, q, o) = R(p) \o g
    <3>1. Reversed(csz, q, o) = Reversed(csz, p, o) \o g
      <4> HIDE DEF o
      <4>. QED
        BY <2>3, FrontReversed
    <3>. QED
      BY <1>1, <3>1
  <2>5. R(p) \in Seq(Y) /\ Len(R(p)) = n
    <3>1. {i \in 1 .. n : i + csz - 1 <= n} \subseteq 1 .. n
      OBVIOUS
    <3> DEFINE A == 1 .. n
               O == {i \in 1 .. n : i + csz - 1 <= n}
    <3>2. o \in Seq(A)
      <4>1. O \subseteq A /\ o \in Seq(O)
        BY <2>3
      <4> HIDE DEF O, A, o
      <4>. QED
        BY <4>1
    <3> HIDE DEF o
    <3>3. Reversed(csz, p, o) \in Buffers(Y, p)
      BY <3>2, ReversedLaws
    <3>. QED
      BY <1>1, <3>3 DEF Buffers, o
  <2>6. Reversed(csz, q, Append(o, n + 1)) = SwapEnds(Reversed(csz, q, o), n + 1, ChunkEnd(csz, Len(q), n + 1))
    <3> DEFINE A == 1 .. Len(q)
               O == {i \in 1 .. n : i + csz - 1 <= n}
    <3>1. o \in Seq(A)
      <4>1. O \subseteq A /\ o \in Seq(O)
        BY <2>2, <2>3
      <4> HIDE DEF O, A, o
      <4>. QED
        BY <4>1
    <3>2. n + 1 \in 1 .. Len(q)
      BY <2>2
    <3> HIDE DEF o, q, n
    <3>3. \A b \in Seq(Y) : \A s \in Seq(1 .. Len(b)), i \in 1 .. Len(b) :
             Reversed(csz, b, Append(s, i)) = SwapEnds(Reversed(csz, b, s), i, ChunkEnd(csz, Len(b), i))
      BY ReversedLaws
    <3>. QED
      BY <2>2, <3>1, <3>2, <3>3
  <2>7. ChunkEnd(csz, Len(q), n + 1) = Len(q)
    <3>1. n + 1 \in 1 .. Len(q) /\ Len(q) \in Nat
      BY <2>2
    <3> HIDE DEF q, n
    <3>2. ChunkEnd(csz, Len(q), n + 1) = IF (n + 1) + csz - 1 <= Len(q) THEN (n + 1) + csz - 1 ELSE Len(q)
      BY <3>1, ChunkEndIs
    <3>3. Len(q) = n + Len(g) /\ n \in Nat /\ Len(g) \in Nat /\ Len(g) <= csz
      BY <2>2
    <3>4. (n + 1) + csz - 1 = n + csz
      BY <3>3
    <3> DEFINE e == ChunkEnd(csz, Len(q), n + 1)
               l == Len(q)
    <3>5. e = IF n + csz <= l THEN n + csz ELSE l
      BY <3>2, <3>4
    <3>6. l = n + Len(g) /\ n + csz \in Nat
      BY <3>3
    <3> HIDE DEF e, l
    <3>7. e = l
      BY <3>3, <3>5, <3>6
    <3>. QED
      BY <3>7 DEF e, l
  <2>8. SwapEnds(R(p) \o g, n + 1, Len(q)) = R(p) \o Reverse(g)
    <3> DEFINE r == R(p)
    <3>1. r \in Seq(Y) /\ Len(r) = n /\ Len(r \o g) = Len(q)
      <4>1. r \in Seq(Y) /\ Len(r) = n /\ g \in Seq(Y)
        BY <2>5
      <4> HIDE DEF r, n, q
      <4>2. Len(r \o g) = Len(r) + Len(g)
        BY <4>1, Cat
      <4>. QED
        BY <2>2, <4>1, <4>2
    <3> HIDE DEF r, n
    <3>2. SwapEnds(r \o g, Len(r) + 1, Len(r \o g)) = r \o Reverse(g)
      BY <2>2, <3>1, SwapBehind
    <3>. QED
      BY <3>1, <3>2 DEF r
  <2>9. R(q) = R(p) \o Reverse(g)
    BY <1>1, <2>3, <2>4, <2>6, <2>7, <2>8
  <2>10. ReverseReference(csz, q) = ReverseReference(csz, p) \o Reverse(g)
    <3>1. Chunks(q, csz) = Append(Chunks(p, csz), g)
      BY <2>1, OneMoreChunk
    <3>2. Chunks(p, csz) \in Seq(Seq(Y))
      <4> DEFINE G == {h \in Seq(Y) : Len(h) \in 1 .. csz}
      <4>1. Chunks(p, csz) \in Seq(G) /\ G \subseteq Seq(Y)
        BY ChunkLaws
      <4> HIDE DEF G
      <4>. QED
        BY <4>1
    <3> DEFINE h == Chunks(p, csz)
    <3> HIDE DEF h, q
    <3>3. FlattenSeq(Mapped(Reverse, Append(h, g))) = FlattenSeq(Mapped(Reverse, h)) \o Reverse(g)
      BY <3>2, MirrorLaws DEF h
    <3>. QED
      BY <3>1, <3>3 DEF ReverseReference, h
  <2>11. Len(R(q)) = Len(q)
    <3>1. Reverse(g) \in Seq(Y) /\ Len(Reverse(g)) = Len(g)
      BY ReverseType DEF Reverse
    <3> DEFINE r == R(p)
    <3> HIDE DEF r
    <3>3. r \in Seq(Y) /\ Len(r) = n
      BY <2>5 DEF r
    <3>2. Len(r \o Reverse(g)) = n + Len(g)
      <4>1. Len(r \o Reverse(g)) = Len(r) + Len(Reverse(g))
        BY <3>1, <3>3, Cat
      <4>. QED
        BY <3>1, <3>3, <4>1
    <3>. QED
      BY <2>2, <2>9, <3>2 DEF r
  <2>. QED
    BY <1>3, <2>2, <2>9, <2>10, <2>11
<1>4. Seq(Y) \subseteq T
  <2> HIDE DEF T
  <2>. QED
    BY <1>2, <1>3, ChunkInduction
<1>. QED
  BY <1>4 DEF R

-----------------------------------------------------------------------------
(* leb128_decode.                                                          *)

Part(b) == b % Pow2[Payload]

LEMMA PartType ==
    ASSUME NEW b \in Nat
    PROVE  Part(b) \in Nat /\ Part(b) < Pow2[Payload] /\ Pow2[Payload] \in Nat \ {0}
<1>1. Pow2[Payload] \in Nat \ {0}
  BY BitsAssumption, Pow2Facts
<1>. QED
  BY <1>1 DEF Part

LebTerms(number) == [i \in DOMAIN number |-> Part(number[i]) * Pow2[Payload * (i - 1)]]

LEMMA TermTypes ==
    ASSUME NEW number \in Seq(Nat)
    PROVE  /\ LebSum(number) = SumFunctionOnSet(LebTerms(number), 1 .. Len(number))
           /\ \A i \in 1 .. Len(number) : LebTerms(number)[i] \in Nat
<1>1. DOMAIN number = 1 .. Len(number)
  OBVIOUS
<1>2. LebSum(number) = SumFunctionOnSet(LebTerms(number), 1 .. Len(number))
  BY <1>1 DEF LebSum, LebTerms, Part
<1>3. ASSUME NEW i \in 1 .. Len(number) PROVE LebTerms(number)[i] \in Nat
  <2>0. number[i] \in Nat
    OBVIOUS
  <2>1. Part(number[i]) \in Nat
    BY <2>0, PartType
  <2>2. i - 1 \in Nat /\ Payload \in Nat
    BY BitsAssumption
  <2>3. Payload * (i - 1) \in Nat
    BY <2>2
  <2>4. Pow2[Payload * (i - 1)] \in Nat
    BY <2>3, Pow2Facts
  <2>. QED
    BY <1>1, <2>1, <2>4 DEF LebTerms
<1>. QED
  BY <1>2, <1>3

LEMMA SumsOfParts ==
    /\ LebSum(<< >>) = 0
    /\ \A q \in Seq(Nat) : LebSum(q) \in Nat
    /\ \A q \in Seq(Nat), b \in Nat :
          LebSum(Append(q, b)) = LebSum(q) + Part(b) * Pow2[Payload * Len(q)]
<1>1. LebSum(<< >>) = 0
  <2>1. << >> \in Seq(Nat) /\ 1 .. Len(<< >>) = {}
    OBVIOUS
  <2>. QED
    BY <2>1, TermTypes, SumEmpty
<1>2. ASSUME NEW q \in Seq(Nat) PROVE LebSum(q) \in Nat
  <2> DEFINE S == 1 .. Len(q)
             f == LebTerms(q)
  <2>1. IsFiniteSet(S) /\ \A i \in S : f[i] \in Nat
    BY TermTypes, FS_Interval
  <2> HIDE DEF S, f
  <2>2. SumFunctionOnSet(f, S) \in Nat
    BY <2>1, SumNat
  <2>. QED
    BY <2>2, TermTypes DEF S, f
<1>3. ASSUME NEW q \in Seq(Nat), NEW b \in Nat
      PROVE  LebSum(Append(q, b)) = LebSum(q) + Part(b) * Pow2[Payload * Len(q)]
  <2> DEFINE p == Append(q, b)
             n == Len(q)
             S == 1 .. (n + 1)
             R == 1 .. n
             f == LebTerms(p)
             g == LebTerms(q)
  <2>1. p \in Seq(Nat) /\ Len(p) = n + 1 /\ n \in Nat /\ DOMAIN p = S /\ DOMAIN q = R
        /\ p[n + 1] = b /\ \A i \in R : p[i] = q[i]
    OBVIOUS
  <2>2. IsFiniteSet(S) /\ IsFiniteSet(R) /\ S \ {n + 1} = R /\ n + 1 \in S
    <3>1. S \ {n + 1} = R /\ n + 1 \in S
      BY <2>1
    <3>2. n + 1 \in Int /\ n \in Int /\ 1 \in Int
      BY <2>1
    <3> DEFINE top == n + 1
    <3>3. IsFiniteSet(1 .. top) /\ IsFiniteSet(R)
      <4> HIDE DEF top, n, p
      <4>1. top \in Int /\ n \in Int /\ 1 \in Int
        BY <3>2 DEF top
      <4>. QED
        BY <4>1, FS_Interval
    <3>. QED
      BY <3>1, <3>3
  <2>3. LebSum(p) = SumFunctionOnSet(f, S) /\ \A i \in S : f[i] \in Int
    <3> HIDE DEF p
    <3>1. LebSum(p) = SumFunctionOnSet(f, 1 .. Len(p)) /\ \A i \in 1 .. Len(p) : f[i] \in Nat
      BY <2>1, TermTypes
    <3>. QED
      BY <2>1, <3>1
  <2>4. LebSum(q) = SumFunctionOnSet(g, R) /\ \A i \in R : g[i] \in Int
    BY TermTypes
  <2>5. f[n + 1] = Part(b) * Pow2[Payload * n]
    <3>1. (n + 1) - 1 = n
      BY <2>1
    <3>. QED
      BY <2>1, <2>2, <3>1 DEF LebTerms
  <2>6. \A i \in R : f[i] = g[i]
    <3>1. R \subseteq S
      BY <2>1
    <3>. QED
      BY <2>1, <3>1 DEF LebTerms
  <2> HIDE DEF f, g, S, R, p, n
  <2>7. SumFunctionOnSet(f, S) = f[n + 1] + SumFunctionOnSet(f, S \ {n + 1})
    BY <2>2, <2>3, SumRemove
  <2>8. SumFunctionOnSet(f, R) = SumFunctionOnSet(g, R)
    BY <2>2, <2>4, <2>6, SumSame
  <2>9. SumFunctionOnSet(g, R) \in Int
    BY <2>2, <2>4, SumType
  <2>10. f[n + 1] \in Int
    BY <2>2, <2>3
  <2> DEFINE x == SumFunctionOnSet(g, R)
             y == Part(b) * Pow2[Payload * n]
  <2>11. LebSum(p) = y + x /\ x \in Int /\ y \in Int /\ LebSum(q) = x
    BY <2>2, <2>3, <2>4, <2>5, <2>7, <2>8, <2>9, <2>10
  <2> HIDE DEF x, y
  <2>12. LebSum(p) = LebSum(q) + y
    BY <2>11
  <2>. QED
    BY <2>12 DEF p, y, n
<1>. QED
  BY <1>1, <1>2, <1>3

(* A sum is less than its parts could make it.                             *)
LEMMA SumBounded ==
    ASSUME NEW number \in Seq(Nat)
    PROVE  LebSum(number) < Pow2[Payload * Len(number)] /\ Payload * Len(number) \in Nat
<1> DEFINE T == {q \in Seq(Nat) : LebSum(q) < Pow2[Payload * Len(q)]}
<1>1. << >> \in T
  <2>1. Payload * Len(<< >>) = 0 /\ << >> \in Seq(Nat)
    BY BitsAssumption
  <2>2. LebSum(<< >>) = 0
    BY SumsOfParts
  <2>3. Pow2[0] = 1
    BY Pow2Facts
  <2>4. LebSum(<< >>) < Pow2[Payload * Len(<< >>)]
    BY <2>1, <2>2, <2>3
  <2>. QED
    BY <2>1, <2>4
<1>2. ASSUME NEW q \in Seq(Nat), NEW b \in Nat, q \in T PROVE Append(q, b) \in T
  <2> DEFINE n == Len(q)
             m == Payload * n
             a == Pow2[m]
             x == LebSum(q)
             y == Part(b)
             t == Pow2[Payload]
  <2>1. n \in Nat /\ Len(Append(q, b)) = n + 1 /\ Append(q, b) \in Seq(Nat)
    OBVIOUS
  <2>2. m \in Nat /\ Payload \in Nat /\ Payload * (n + 1) = m + Payload
    BY <2>1, BitsAssumption
  <2>3. Pow2[Payload * (n + 1)] = a * t
    <3> HIDE DEF m
    <3>. QED
      BY <2>2, Pow2Sum
  <2>4. a \in Nat \ {0} /\ y \in Nat /\ y < t /\ t \in Nat \ {0}
    BY <2>2, Pow2Facts, PartType
  <2>5. x \in Nat /\ x < a /\ LebSum(Append(q, b)) = x + y * a
    BY <1>2, SumsOfParts
  <2> HIDE DEF a, x, y, t
  <2>6. (t - 1 - y) * a \in Nat
    <3>1. t - 1 - y \in Nat
      BY <2>4
    <3>. QED
      BY <2>4, <3>1
  <2>7. a * t = y * a + a + (t - 1 - y) * a
    BY <2>4
  <2> DEFINE u == y * a
             v == (t - 1 - y) * a
  <2>8. u \in Int /\ v \in Nat /\ a * t = u + a + v
    BY <2>4, <2>6, <2>7
  <2> HIDE DEF u, v
  <2>9. x + u < a * t
    BY <2>4, <2>5, <2>8
  <2>. QED
    BY <2>1, <2>3, <2>5, <2>9 DEF u
<1>3. number \in T
  <2> HIDE DEF T
  <2>. QED
    BY <1>1, <1>2, SeqSetInduction
<1>. QED
  BY <1>3, BitsAssumption

(* One more element of what is split, with some of the ends kept.          *)
Splitting(X, E, kept) ==
    /\ Split(E, kept, << >>) = [done |-> << >>, rest |-> << >>]
    /\ \A q \in Seq(X) : Split(E, kept, q) \in SplitStates(X)
    /\ \A q \in Seq(X), b \in X :
          Split(E, kept, Append(q, b)) = SplitStep(E, kept, Split(E, kept, q), b)

LEMMA EverySplit == ASSUME NEW X, NEW E, NEW kept PROVE Splitting(X, E, kept)
  BY SplitLaws DEF Splitting

(* The numbers of an input, one byte after the other.                      *)
LEMMA NumberLaws ==
    /\ LebNumbers(<< >>) = << >> /\ Rest(Final, << >>) = << >>
    /\ \A q \in Seq(Nat) : LebNumbers(q) \in Seq(Seq(Nat)) /\ Rest(Final, q) \in Seq(Nat)
    /\ \A q \in Seq(Nat), b \in Nat :
          /\ b < Pow2[Payload] =>
                /\ LebNumbers(Append(q, b)) = Append(LebNumbers(q), Append(Rest(Final, q), b))
                /\ Rest(Final, Append(q, b)) = << >>
          /\ b >= Pow2[Payload] =>
                /\ LebNumbers(Append(q, b)) = LebNumbers(q)
                /\ Rest(Final, Append(q, b)) = Append(Rest(Final, q), b)
<1> DEFINE X == Nat
           E == Final
           K == Final
           F(q) == Split(E, K, q)
<1>1. \A b \in Nat : b \in E <=> b < Pow2[Payload]
  <2>1. Pow2[Payload] \in Nat
    BY PartType
  <2>. QED
    BY <2>1 DEF Final
<1>0. E = K
  OBVIOUS
<1> HIDE DEF E, K, X
<1>2. /\ F(<< >>) = [done |-> << >>, rest |-> << >>]
      /\ \A q \in Seq(X) : F(q) \in SplitStates(X)
      /\ \A q \in Seq(X), b \in X : F(Append(q, b)) = SplitStep(E, K, F(q), b)
  <2>1. Splitting(X, E, K)
    BY EverySplit
  <2>. QED
    BY <2>1 DEF Splitting
<1>3. Piecewise(X, E)
  BY PieceLaws
<1> HIDE DEF F
<1>4. \A s \in SplitStates(X), b \in X :
         /\ b \in E => SplitStep(E, K, s, b) = [done |-> Append(s.done, Append(s.rest, b)), rest |-> << >>]
         /\ b \notin E => SplitStep(E, K, s, b) = [done |-> s.done, rest |-> Append(s.rest, b)]
  BY <1>0 DEF SplitStep, SplitStates
<1>5. \A s \in SplitStates(X) : s.done \in Seq(Seq(X)) /\ s.rest \in Seq(X)
  BY DEF SplitStates
<1>6. \A q \in Seq(X) : F(q).rest = Rest(E, q)
  <2> DEFINE T == {q \in Seq(X) : F(q).rest = Rest(E, q)}
  <2>1. << >> \in T
    BY <1>2, <1>3 DEF Piecewise
  <2>2. ASSUME NEW q \in Seq(X), NEW b \in X, q \in T PROVE Append(q, b) \in T
    <3>1. Append(q, b) \in Seq(X) /\ F(q) \in SplitStates(X)
      BY <1>2
    <3>2. F(q).rest = Rest(E, q) /\ F(Append(q, b)) = SplitStep(E, K, F(q), b)
      BY <1>2, <2>2
    <3>3. CASE b \in E
      <4>1. F(Append(q, b)).rest = << >>
        BY <1>4, <3>1, <3>2, <3>3
      <4>2. Rest(E, Append(q, b)) = << >>
        BY <1>3, <3>3 DEF Piecewise
      <4>. QED
        BY <3>1, <4>1, <4>2
    <3>4. CASE b \notin E
      <4>1. F(Append(q, b)).rest = Append(F(q).rest, b)
        BY <1>4, <3>1, <3>2, <3>4
      <4>2. Rest(E, Append(q, b)) = Append(Rest(E, q), b)
        BY <1>3, <3>4 DEF Piecewise
      <4>. QED
        BY <3>1, <3>2, <4>1, <4>2
    <3>. QED
      BY <3>3, <3>4
  <2> HIDE DEF T
  <2>3. \A q \in Seq(X) : q \in T
    BY <2>1, <2>2, SeqSetInduction
  <2>. QED
    BY <2>3 DEF T
<1>7. \A q : LebNumbers(q) = F(q).done
  BY DEF LebNumbers, F, E, K
<1>8. LebNumbers(<< >>) = << >> /\ Rest(E, << >>) = << >>
  BY <1>2, <1>3, <1>7 DEF Piecewise
<1>9. \A q \in Seq(X) : LebNumbers(q) \in Seq(Seq(X)) /\ Rest(E, q) \in Seq(X)
  BY <1>2, <1>3, <1>5, <1>7 DEF Piecewise
<1>10. ASSUME NEW q \in Seq(X), NEW b \in X, b \in E
       PROVE  /\ LebNumbers(Append(q, b)) = Append(LebNumbers(q), Append(Rest(E, q), b))
              /\ Rest(E, Append(q, b)) = << >>
  <2>1. F(q) \in SplitStates(X) /\ F(Append(q, b)) = SplitStep(E, K, F(q), b)
    BY <1>2
  <2>2. F(Append(q, b)).done = Append(F(q).done, Append(F(q).rest, b))
    BY <1>4, <1>10, <2>1
  <2>3. F(q).rest = Rest(E, q)
    BY <1>6
  <2>4. Rest(E, Append(q, b)) = << >>
    BY <1>3, <1>10 DEF Piecewise
  <2>. QED
    BY <1>7, <2>2, <2>3, <2>4
<1>11. ASSUME NEW q \in Seq(X), NEW b \in X, b \notin E
       PROVE  /\ LebNumbers(Append(q, b)) = LebNumbers(q)
              /\ Rest(E, Append(q, b)) = Append(Rest(E, q), b)
  BY <1>2, <1>3, <1>4, <1>6, <1>7, <1>11 DEF Piecewise
<1>12. \A b \in Nat : b >= Pow2[Payload] => b \notin E
  <2>1. Pow2[Payload] \in Nat
    BY PartType
  <2>. QED
    BY <1>1, <2>1
<1>. QED
  BY <1>1, <1>8, <1>9, <1>10, <1>11, <1>12 DEF E, X

(* What a number has for its next byte if the decoder accepts that byte.   *)
Overflows(bits, shift, b) ==
    \/ shift >= bits
    \/ shift + Payload > bits /\ Part(b) \div Pow2[bits - shift] # 0

LEMMA OverflowIsSeen ==
    ASSUME NEW bits \in Nat, NEW r \in Seq(Nat), NEW b \in Nat
    PROVE  Overflows(bits, Payload * Len(r), b) <=> ~ LebFits(bits, Append(r, b))
<1> DEFINE n == Len(r)
           m == Payload * n
           a == Pow2[m]
           x == LebSum(r)
           y == Part(b)
           p == Append(r, b)
<1> SUFFICES Overflows(bits, m, b) <=> ~ LebFits(bits, p)
  OBVIOUS
<1>1. n \in Nat /\ Len(p) = n + 1 /\ p \in Seq(Nat)
  OBVIOUS
<1>2. m \in Nat /\ Payload \in Nat /\ Payload * (n + 1) = m + Payload /\ Payload * (Len(p) - 1) = m
  BY <1>1, BitsAssumption
<1>3. x \in Nat /\ x < a /\ LebSum(p) = x + y * a
  BY SumsOfParts, SumBounded
<1>4. a \in Nat \ {0} /\ y \in Nat
  BY <1>2, Pow2Facts, PartType
<1>5. LebSum(p) < Pow2[m + Payload]
  <2> HIDE DEF p, m
  <2>1. LebSum(p) < Pow2[Payload * Len(p)]
    BY <1>1, SumBounded
  <2>. QED
    BY <1>1, <1>2, <2>1
<1>6. LebFits(bits, p) <=> m < bits /\ LebSum(p) < Pow2[bits]
  BY <1>2 DEF LebFits
<1>7. Overflows(bits, m, b) <=> m >= bits \/ (m + Payload > bits /\ y \div Pow2[bits - m] # 0)
  BY DEF Overflows
<1> HIDE DEF n, m, a, x, y, p
<1>8. LebSum(p) \in Nat
  BY <1>1, SumsOfParts
<1>9. CASE m >= bits
  BY <1>2, <1>6, <1>7, <1>9
<1>10. CASE m + Payload <= bits /\ m < bits
  <2>1. Pow2[m + Payload] <= Pow2[bits]
    <3> DEFINE k == m + Payload
    <3>1. k \in Nat /\ k <= bits
      BY <1>2, <1>10
    <3> HIDE DEF k
    <3>2. Pow2[k] <= Pow2[bits]
      BY <3>1, Pow2Grows
    <3>. QED
      BY <3>2 DEF k
  <2>2. Pow2[m + Payload] \in Nat /\ Pow2[bits] \in Nat
    <3>1. m + Payload \in Nat
      BY <1>2
    <3>. QED
      BY <3>1, Pow2Facts
  <2>3. LebSum(p) < Pow2[bits]
    BY <1>5, <1>8, <2>1, <2>2
  <2>. QED
    BY <1>2, <1>6, <1>7, <1>10, <2>3
<1>11. CASE m + Payload > bits /\ m < bits
  <2> DEFINE k == bits - m
             u == Pow2[k]
             e == Pow2[bits]
  <2>1. k \in Nat /\ m + k = bits
    BY <1>2, <1>11
  <2>2. e = a * u /\ u \in Nat \ {0} /\ e \in Nat
    <3> HIDE DEF k
    <3>1. Pow2[m + k] = Pow2[m] * Pow2[k]
      BY <1>2, <2>1, Pow2Sum
    <3>2. u \in Nat \ {0} /\ e \in Nat
      BY <2>1, Pow2Facts
    <3>. QED
      BY <2>1, <3>1, <3>2 DEF a
  <2> HIDE DEF k, u, e
  <2>3. y \div u # 0 <=> y >= u
    BY <1>4, <2>2
  <2>4. CASE y >= u
    <3>1. (y - u) * a \in Nat
      BY <1>4, <2>2, <2>4
    <3>2. y * a = e + (y - u) * a
      BY <1>4, <2>2
    <3> DEFINE v == (y - u) * a
               w == y * a
    <3>3. v \in Nat /\ w = e + v
      BY <3>1, <3>2
    <3> HIDE DEF v, w
    <3>4. x + w >= e
      BY <1>3, <2>2, <3>3
    <3>5. ~ LebSum(p) < e
      BY <1>3, <1>8, <2>2, <3>4 DEF w
    <3>. QED
      BY <1>6, <1>7, <1>11, <2>3, <2>4, <3>5 DEF e, u, k
  <2>5. CASE y < u
    <3>1. (u - 1 - y) * a \in Nat
      <4>1. u - 1 - y \in Nat
        BY <1>4, <2>2, <2>5
      <4>. QED
        BY <1>4, <4>1
    <3>2. e = y * a + a + (u - 1 - y) * a
      BY <1>4, <2>2
    <3> DEFINE v == (u - 1 - y) * a
               w == y * a
    <3>3. v \in Nat /\ w \in Int /\ e = w + a + v
      BY <1>4, <3>1, <3>2
    <3> HIDE DEF v, w
    <3>4. x + w < e
      BY <1>3, <1>4, <3>3
    <3>5. LebSum(p) < e
      BY <1>3, <3>4 DEF w
    <3>6. ~ (y \div u # 0)
      BY <1>4, <2>2, <2>3, <2>5
    <3>7. ~ Overflows(bits, m, b)
      BY <1>2, <1>7, <1>11, <3>6 DEF u, k
    <3>. QED
      BY <1>6, <1>11, <3>5, <3>7 DEF e
  <2>. QED
    BY <1>4, <2>2, <2>4, <2>5
<1>. QED
  BY <1>2, <1>9, <1>10, <1>11

(* What does not fit does not fit with another byte either.                *)
LEMMA MisfitGrows ==
    ASSUME NEW bits \in Nat, NEW r \in Seq(Nat), NEW b \in Nat, ~ LebFits(bits, r)
    PROVE  ~ LebFits(bits, Append(r, b))
<1> DEFINE n == Len(r)
           m == Payload * n
           y == Part(b) * Pow2[m]
           p == Append(r, b)
<1>1. n \in Nat /\ Len(p) = n + 1 /\ p \in Seq(Nat) /\ m \in Nat
  BY BitsAssumption
<1>2. Payload * (Len(p) - 1) = m /\ Payload * (n - 1) <= m
  BY <1>1, BitsAssumption
<1>3. LebSum(r) \in Nat /\ LebSum(p) = LebSum(r) + y
  BY SumsOfParts
<1>4. y \in Nat
  <2>1. Part(b) \in Nat
    BY PartType
  <2>2. Pow2[m] \in Nat
    BY <1>1, Pow2Facts
  <2>. QED
    BY <2>1, <2>2
<1>5. Pow2[bits] \in Nat /\ Payload * (n - 1) \in Int
  <2>1. Pow2[bits] \in Nat
    BY Pow2Facts
  <2>. QED
    BY <1>1, <2>1, BitsAssumption
<1>6. ~ (Payload * (n - 1) < bits /\ LebSum(r) < Pow2[bits])
  BY DEF LebFits
<1> DEFINE l == Payload * (n - 1)
<1> HIDE DEF n, m, y, p, l
<1>7. ~ (m < bits /\ LebSum(r) + y < Pow2[bits])
  BY <1>1, <1>2, <1>3, <1>4, <1>5, <1>6 DEF l
<1>8. ~ LebFits(bits, p)
  BY <1>2, <1>3, <1>7 DEF LebFits
<1>. QED
  BY <1>8 DEF p

LEMMA NothingFits == ASSUME NEW bits \in Nat PROVE LebFits(bits, << >>)
<1>1. Payload * (Len(<< >>) - 1) < bits
  BY BitsAssumption
<1>2. LebSum(<< >>) = 0
  BY SumsOfParts
<1>3. Pow2[bits] \in Nat \ {0}
  BY Pow2Facts
<1>. QED
  BY <1>1, <1>2, <1>3 DEF LebFits

(* The decoder and its weak translation, byte by byte.                     *)
LebStates == [out : Seq(Int), value : Nat, shift : Nat, exit : {0, 1}]

TooBig(bits, strict, shift, b) ==
    shift >= bits \/ (strict /\ shift + Payload > bits /\ Part(b) \div Pow2[bits - shift] # 0)

LebSteps(bits, strict, s, b) ==
    LET value == s.value + Part(b) * Pow2[s.shift]
        t == LebStep(bits, strict, s, b)
    IN  /\ s.exit # 0 => t = s
        /\ s.exit = 0 /\ TooBig(bits, strict, s.shift, b) =>
              t = [s EXCEPT !.out = Append(s.out, Err), !.exit = 1]
        /\ s.exit = 0 /\ ~ TooBig(bits, strict, s.shift, b) /\ b < Pow2[Payload] =>
              t = [s EXCEPT !.out = Append(s.out, value), !.value = 0, !.shift = 0]
        /\ s.exit = 0 /\ ~ TooBig(bits, strict, s.shift, b) /\ ~ b < Pow2[Payload] =>
              t = [s EXCEPT !.value = value, !.shift = s.shift + Payload]

LEMMA LebStepCases ==
    ASSUME NEW bits \in Nat, NEW strict, NEW s \in LebStates, NEW b \in Nat
    PROVE  LebSteps(bits, strict, s, b)
  BY DEF LebSteps, LebStep, TooBig, Part

LEMMA LebStepType ==
    ASSUME NEW bits \in Nat, NEW strict, NEW s \in LebStates, NEW b \in Nat
    PROVE  LebStep(bits, strict, s, b) \in LebStates
<1> DEFINE value == s.value + Part(b) * Pow2[s.shift]
<1>1. s.out \in Seq(Int) /\ s.value \in Nat /\ s.shift \in Nat /\ s.exit \in {0, 1}
  BY DEF LebStates
<1>2. value \in Nat
  <2> DEFINE y == Part(b)
             a == Pow2[s.shift]
  <2>1. y \in Nat
    BY PartType
  <2>2. a \in Nat
    BY <1>1, Pow2Facts
  <2> HIDE DEF y, a
  <2>3. s.value + y * a \in Nat
    BY <1>1, <2>1, <2>2
  <2>. QED
    BY <2>3 DEF y, a
<1>0. /\ s.exit # 0 => LebStep(bits, strict, s, b) = s
      /\ s.exit = 0 /\ TooBig(bits, strict, s.shift, b) =>
            LebStep(bits, strict, s, b) = [s EXCEPT !.out = Append(s.out, Err), !.exit = 1]
      /\ s.exit = 0 /\ ~ TooBig(bits, strict, s.shift, b) /\ b < Pow2[Payload] =>
            LebStep(bits, strict, s, b) = [s EXCEPT !.out = Append(s.out, value), !.value = 0, !.shift = 0]
      /\ s.exit = 0 /\ ~ TooBig(bits, strict, s.shift, b) /\ ~ b < Pow2[Payload] =>
            LebStep(bits, strict, s, b) = [s EXCEPT !.value = value, !.shift = s.shift + Payload]
  <2>1. LebSteps(bits, strict, s, b)
    BY LebStepCases
  <2>. QED
    BY <2>1 DEF LebSteps
<1> HIDE DEF value
<1>3. Err \in Int /\ s.shift + Payload \in Nat
  BY <1>1, BitsAssumption DEF Err
<1>4. Append(s.out, Err) \in Seq(Int) /\ Append(s.out, value) \in Seq(Int)
  <2>1. value \in Int
    BY <1>2
  <2>. QED
    BY <1>1, <1>3, <2>1
<1>5. CASE s.exit # 0
  BY <1>0, <1>5
<1>6. CASE s.exit = 0 /\ TooBig(bits, strict, s.shift, b)
  <2>1. LebStep(bits, strict, s, b) = [s EXCEPT !.out = Append(s.out, Err), !.exit = 1]
    BY <1>0, <1>6
  <2>. QED
    BY <1>4, <2>1 DEF LebStates
<1>7. CASE s.exit = 0 /\ ~ TooBig(bits, strict, s.shift, b) /\ b < Pow2[Payload]
  <2>1. LebStep(bits, strict, s, b) = [s EXCEPT !.out = Append(s.out, value), !.value = 0, !.shift = 0]
    BY <1>0, <1>7
  <2>2. 0 \in Nat
    OBVIOUS
  <2>3. LebStep(bits, strict, s, b) = [out |-> Append(s.out, value), value |-> 0, shift |-> 0, exit |-> s.exit]
    BY <2>1 DEF LebStates
  <2>. QED
    BY <1>1, <1>4, <2>2, <2>3 DEF LebStates
<1>8. CASE s.exit = 0 /\ ~ TooBig(bits, strict, s.shift, b) /\ ~ b < Pow2[Payload]
  <2>1. LebStep(bits, strict, s, b) = [s EXCEPT !.value = value, !.shift = s.shift + Payload]
    BY <1>0, <1>8
  <2>. QED
    BY <1>2, <1>3, <2>1 DEF LebStates
<1>. QED
  BY <1>5, <1>6, <1>7, <1>8

(* leb128_decode and its weak translation, byte by byte.                   *)
LEMMA LebReadLaws ==
    ASSUME NEW bits \in Nat, NEW strict
    PROVE  /\ LebRead(bits, strict, << >>) = [out |-> << >>, value |-> 0, shift |-> 0, exit |-> 0]
           /\ \A q \in Seq(Nat) : LebRead(bits, strict, q) \in LebStates
           /\ \A q \in Seq(Nat), b \in Nat :
                 LebRead(bits, strict, Append(q, b)) = LebStep(bits, strict, LebRead(bits, strict, q), b)
<1> DEFINE St == LebStates
           X == Nat
           base == [out |-> << >>, value |-> 0, shift |-> 0, exit |-> 0]
           op(s, b) == LebStep(bits, strict, s, b)
           H == [p \in St \X X |-> op(p[1], p[2])]
<1>1. base \in St
  BY DEF LebStates
<1>2. \A s \in St, b \in X : op(s, b) \in St
  BY LebStepType
<1>3. \A in \in Seq(X) : LebRead(bits, strict, in) = Folded(H, base, in)
  <2> SUFFICES ASSUME NEW in \in Seq(X) PROVE LebRead(bits, strict, in) = Folded(H, base, in)
    OBVIOUS
  <2> DEFINE Law(g) == g = [S \in SUBSET DOMAIN in |->
                              IF S = {} THEN base ELSE LET x == Max(S) IN op(g[S \ {x}], in[x])]
  <2>1. LebRead(bits, strict, in) = (CHOOSE g : Law(g))[DOMAIN in]
    BY DEF FoldLeft, MapThenFoldSet, LebRead
  <2> HIDE DEF op, St, X, base
  <2>2. \A s \in St, b \in X : H[<<s, b>>] = op(s, b)
    OBVIOUS
  <2>3. H \in [St \X X -> St]
    BY <1>2
  <2> HIDE DEF H
  <2>4. ASSUME NEW g, TypedRun(H, St, base, in, g) PROVE Law(g)
    <3>1. \A S \in SUBSET (1 .. Len(in)) :
             S # {} => H[<<g[S \ {Max(S)}], in[Max(S)]>>] = op(g[S \ {Max(S)}], in[Max(S)])
      BY <2>2, <2>4, LastPosition DEF TypedRun
    <3>2. DOMAIN in = 1 .. Len(in)
      OBVIOUS
    <3>. QED
      BY <2>4, <3>1, <3>2 DEF SetRun, TypedRun
  <2>5. ASSUME NEW g, Law(g) PROVE Follows(X, St, H, base, in, g)
    <3>1. DOMAIN in = 1 .. Len(in)
      OBVIOUS
    <3>2. \A S \in SUBSET (1 .. Len(in)) : g[S] = IF S = {} THEN base ELSE op(g[S \ {Max(S)}], in[Max(S)])
      BY <2>5, <3>1
    <3> HIDE DEF Law
    <3>. QED
      BY <1>1, <2>2, <2>3, <3>2, LastPosition DEF Follows
  <2> HIDE DEF Law
  <2>6. PICK g : Law(g) /\ LebRead(bits, strict, in) = g[DOMAIN in]
    BY <1>1, <2>1, <2>3, <2>4, SetRunExists
  <2>7. Follows(X, St, H, base, in, g)
    BY <2>5, <2>6
  <2>. QED
    BY <2>6, <2>7, SetRunFolds
<1> HIDE DEF op, St, X, base
<1>4. H \in [St \X X -> St] /\ \A s \in St, b \in X : H[<<s, b>>] = op(s, b)
  BY <1>2
<1> HIDE DEF H
<1>5. Folded(H, base, << >>) = base /\ << >> \in Seq(X)
  BY FoldedEmpty
<1>6. \A q \in Seq(X) : Folded(H, base, q) \in St
  BY <1>1, <1>4, FoldedType
<1>7. \A q \in Seq(X), b \in X : /\ Append(q, b) \in Seq(X)
                                /\ Folded(H, base, Append(q, b)) = H[<<Folded(H, base, q), b>>]
  BY FoldedAppend
<1>8. \A q \in Seq(X), b \in X : LebRead(bits, strict, Append(q, b)) = op(LebRead(bits, strict, q), b)
  BY <1>3, <1>4, <1>6, <1>7
<1>. QED
  BY <1>3, <1>5, <1>6, <1>8 DEF base, St, X, op

(* leb128_decode, byte by byte.                                            *)
Advance(bits, s, b) == LebStep(bits, TRUE, s, b)

Advanced(bits, in) == LebRead(bits, TRUE, in)

Advances(bits, s, b) ==
    LET value == s.value + Part(b) * Pow2[s.shift]
    IN  /\ s.exit # 0 => Advance(bits, s, b) = s
        /\ s.exit = 0 /\ Overflows(bits, s.shift, b) =>
              Advance(bits, s, b) = [s EXCEPT !.out = Append(s.out, Err), !.exit = 1]
        /\ s.exit = 0 /\ ~ Overflows(bits, s.shift, b) /\ b < Pow2[Payload] =>
              Advance(bits, s, b) = [s EXCEPT !.out = Append(s.out, value), !.value = 0, !.shift = 0]
        /\ s.exit = 0 /\ ~ Overflows(bits, s.shift, b) /\ ~ b < Pow2[Payload] =>
              Advance(bits, s, b) = [s EXCEPT !.value = value, !.shift = s.shift + Payload]

LEMMA AdvanceCases ==
    ASSUME NEW bits \in Nat, NEW s \in LebStates, NEW b \in Nat
    PROVE  Advances(bits, s, b)
<1>1. LebSteps(bits, TRUE, s, b)
  BY LebStepCases
<1>2. TooBig(bits, TRUE, s.shift, b) <=> Overflows(bits, s.shift, b)
  BY DEF TooBig, Overflows
<1>. QED
  BY <1>1, <1>2 DEF LebSteps, Advances, Advance

LEMMA AdvanceType ==
    ASSUME NEW bits \in Nat, NEW s \in LebStates, NEW b \in Nat
    PROVE  Advance(bits, s, b) \in LebStates
  BY LebStepType DEF Advance

LEMMA AdvancedLaws ==
    ASSUME NEW bits \in Nat
    PROVE  /\ Advanced(bits, << >>) = [out |-> << >>, value |-> 0, shift |-> 0, exit |-> 0]
           /\ \A q \in Seq(Nat) : Advanced(bits, q) \in LebStates
           /\ \A q \in Seq(Nat), b \in Nat :
                 Advanced(bits, Append(q, b)) = Advance(bits, Advanced(bits, q), b)
  BY LebReadLaws DEF Advanced, Advance

(* The values of numbers.                                                  *)
Sums(numbers) == [k \in DOMAIN numbers |-> LebSum(numbers[k])]

LEMMA SumsLaws ==
    /\ Sums(<< >>) = << >>
    /\ \A ns \in Seq(Seq(Nat)) : Sums(ns) \in Seq(Int) /\ Len(Sums(ns)) = Len(ns)
    /\ \A ns \in Seq(Seq(Nat)), r \in Seq(Nat) : Sums(Append(ns, r)) = Append(Sums(ns), LebSum(r))
<1>1. Sums(<< >>) = << >>
  BY DEF Sums
<1>2. ASSUME NEW ns \in Seq(Seq(Nat)) PROVE Sums(ns) \in Seq(Int) /\ Len(Sums(ns)) = Len(ns)
  <2>1. \A k \in 1 .. Len(ns) : LebSum(ns[k]) \in Int
    <3> SUFFICES ASSUME NEW k \in 1 .. Len(ns) PROVE LebSum(ns[k]) \in Int
      OBVIOUS
    <3>1. ns[k] \in Seq(Nat)
      OBVIOUS
    <3>2. LebSum(ns[k]) \in Nat
      BY <3>1, SumsOfParts
    <3>. QED
      BY <3>2
  <2>2. Sums(ns) = [k \in 1 .. Len(ns) |-> LebSum(ns[k])]
    <3>1. DOMAIN ns = 1 .. Len(ns)
      OBVIOUS
    <3>. QED
      BY <3>1 DEF Sums
  <2>3. Len(ns) \in Nat
    OBVIOUS
  <2>. QED
    BY <2>1, <2>2, <2>3
<1>3. ASSUME NEW ns \in Seq(Seq(Nat)), NEW r \in Seq(Nat)
      PROVE  Sums(Append(ns, r)) = Append(Sums(ns), LebSum(r))
  <2> DEFINE n == Len(ns)
             p == Append(ns, r)
             x == Sums(ns)
             y == Sums(p)
  <2>1. n \in Nat /\ Len(p) = n + 1 /\ p \in Seq(Seq(Nat)) /\ p[n + 1] = r /\ \A k \in 1 .. n : p[k] = ns[k]
    OBVIOUS
  <2>2. x \in Seq(Int) /\ Len(x) = n
    BY <1>2
  <2>3. y \in Seq(Int) /\ Len(y) = n + 1
    <3> HIDE DEF p
    <3>. QED
      BY <1>2, <2>1
  <2>4. DOMAIN p = 1 .. (n + 1) /\ DOMAIN ns = 1 .. n
    BY <2>1
  <2>5. \A k \in 1 .. n : y[k] = x[k]
    <3> HIDE DEF p
    <3> SUFFICES ASSUME NEW k \in 1 .. n PROVE y[k] = x[k]
      OBVIOUS
    <3>1. k \in DOMAIN p /\ k \in DOMAIN ns
      BY <2>1, <2>4
    <3>2. y[k] = LebSum(p[k]) /\ x[k] = LebSum(ns[k])
      BY <3>1 DEF Sums
    <3>. QED
      BY <2>1, <3>2
  <2>6. y[n + 1] = LebSum(r)
    <3> HIDE DEF p
    <3>1. n + 1 \in DOMAIN p
      BY <2>1, <2>4
    <3>2. y[n + 1] = LebSum(p[n + 1])
      BY <3>1 DEF Sums
    <3>. QED
      BY <2>1, <3>2
  <2> DEFINE v == LebSum(r)
  <2>7. v \in Int
    <3>1. v \in Nat
      BY SumsOfParts
    <3>. QED
      BY <3>1
  <2> HIDE DEF x, y, v, n, p
  <2> DEFINE z == Append(x, v)
  <2>8. z \in Seq(Int) /\ Len(z) = n + 1 /\ z[n + 1] = v /\ \A k \in 1 .. n : z[k] = x[k]
    <3>1. n \in Nat
      BY <2>1
    <3>2. z \in Seq(Int) /\ Len(z) = n + 1 /\ z[Len(x) + 1] = v /\ \A k \in 1 .. Len(x) : z[k] = x[k]
      BY <2>2, <2>7
    <3>. QED
      BY <2>2, <3>2
  <2> HIDE DEF z
  <2>9. \A k \in 1 .. Len(y) : y[k] = z[k]
    <3>1. \A k \in 1 .. n : y[k] = z[k]
      BY <2>5, <2>8
    <3>2. y[n + 1] = z[n + 1]
      BY <2>6, <2>8 DEF v
    <3>3. \A k \in 1 .. (n + 1) : k \in 1 .. n \/ k = n + 1
      BY <2>1
    <3>. QED
      BY <2>3, <3>1, <3>2, <3>3
  <2>10. y = z
    BY <2>3, <2>8, <2>9, SeqEqual
  <2>. QED
    BY <2>10 DEF x, y, z, v, p
<1>. QED
  BY <1>1, <1>2, <1>3

(* What the decoder knows after a prefix of its input: every number fits   *)
(* so far, or which one does not.                                          *)
FitsUpTo(bits, numbers, m) == \A k \in 1 .. m : LebFits(bits, numbers[k])

Going(bits, s, numbers, rest) ==
    /\ s.exit = 0
    /\ FitsUpTo(bits, numbers, Len(numbers)) /\ LebFits(bits, rest)
    /\ s.out = Sums(numbers) /\ s.value = LebSum(rest) /\ s.shift = Payload * Len(rest)

StoppedAt(bits, s, numbers, rest, m) ==
    /\ s.exit = 1
    /\ FitsUpTo(bits, numbers, m)
    /\ s.out = Append(Sums(SubSeq(numbers, 1, m)), Err)
    /\ m < Len(numbers) => ~ LebFits(bits, numbers[m + 1])
    /\ m = Len(numbers) => ~ LebFits(bits, rest)

Stopped(bits, s, numbers, rest) ==
    \E m \in 0 .. Len(numbers) : StoppedAt(bits, s, numbers, rest, m)

DecodedSoFar(bits, q) ==
    \/ Going(bits, Advanced(bits, q), LebNumbers(q), Rest(Final, q))
    \/ Stopped(bits, Advanced(bits, q), LebNumbers(q), Rest(Final, q))

(* The next byte of a number that is not complete.                         *)
LEMMA GoesOn ==
    ASSUME NEW bits \in Nat, NEW s \in LebStates, NEW numbers \in Seq(Seq(Nat)), NEW rest \in Seq(Nat),
           NEW b \in Nat, ~ b < Pow2[Payload], Going(bits, s, numbers, rest)
    PROVE  \/ Going(bits, Advance(bits, s, b), numbers, Append(rest, b))
           \/ Stopped(bits, Advance(bits, s, b), numbers, Append(rest, b))
<1> DEFINE t == Advance(bits, s, b)
           longer == Append(rest, b)
           value == s.value + Part(b) * Pow2[s.shift]
           n == Len(numbers)
<1>0. s.exit = 0 /\ FitsUpTo(bits, numbers, n) /\ s.out = Sums(numbers)
      /\ s.value = LebSum(rest) /\ s.shift = Payload * Len(rest)
  BY DEF Going
<1>1. Overflows(bits, s.shift, b) <=> ~ LebFits(bits, longer)
  BY <1>0, OverflowIsSeen
<1>2. Advances(bits, s, b)
  BY AdvanceCases
<1>3. LebSum(longer) = value
  BY <1>0, SumsOfParts
<1>4. Payload * Len(longer) = s.shift + Payload
  <2>1. Len(longer) = Len(rest) + 1 /\ Len(rest) \in Nat
    OBVIOUS
  <2> HIDE DEF longer
  <2>. QED
    BY <1>0, <2>1, BitsAssumption
<1>5. CASE LebFits(bits, longer)
  <2>1. t = [s EXCEPT !.value = value, !.shift = s.shift + Payload]
    BY <1>0, <1>1, <1>2, <1>5 DEF Advances
  <2>2. t = [out |-> s.out, value |-> value, shift |-> s.shift + Payload, exit |-> s.exit]
    BY <2>1 DEF LebStates
  <2> HIDE DEF t, value, longer
  <2>3. Going(bits, t, numbers, longer)
    BY <1>0, <1>3, <1>4, <1>5, <2>2 DEF Going
  <2>. QED
    BY <2>3 DEF t, longer
<1>6. CASE ~ LebFits(bits, longer)
  <2>1. t = [s EXCEPT !.out = Append(s.out, Err), !.exit = 1]
    BY <1>0, <1>1, <1>2, <1>6 DEF Advances
  <2>2. t.out = Append(s.out, Err) /\ t.exit = 1
    BY <2>1 DEF LebStates
  <2>3. SubSeq(numbers, 1, n) = numbers /\ n \in 0 .. n /\ ~ n < n
    OBVIOUS
  <2> HIDE DEF t, value, longer
  <2>4. StoppedAt(bits, t, numbers, longer, n)
    BY <1>0, <1>6, <2>2, <2>3 DEF StoppedAt
  <2>5. Stopped(bits, t, numbers, longer)
    BY <2>3, <2>4 DEF Stopped
  <2>. QED
    BY <2>5 DEF t, longer
<1>. QED
  BY <1>5, <1>6

(* The last byte of a number.                                              *)
LEMMA GoesOnToTheNext ==
    ASSUME NEW bits \in Nat, NEW s \in LebStates, NEW numbers \in Seq(Seq(Nat)), NEW rest \in Seq(Nat),
           NEW b \in Nat, b < Pow2[Payload], Going(bits, s, numbers, rest)
    PROVE  \/ Going(bits, Advance(bits, s, b), Append(numbers, Append(rest, b)), << >>)
           \/ Stopped(bits, Advance(bits, s, b), Append(numbers, Append(rest, b)), << >>)
<1> DEFINE t == Advance(bits, s, b)
           longer == Append(rest, b)
           value == s.value + Part(b) * Pow2[s.shift]
           n == Len(numbers)
           more == Append(numbers, longer)
<1>0. s.exit = 0 /\ FitsUpTo(bits, numbers, n) /\ s.out = Sums(numbers)
      /\ s.value = LebSum(rest) /\ s.shift = Payload * Len(rest)
  BY DEF Going
<1>1. Overflows(bits, s.shift, b) <=> ~ LebFits(bits, longer)
  BY <1>0, OverflowIsSeen
<1>2. Advances(bits, s, b)
  BY AdvanceCases
<1>3. LebSum(longer) = value /\ longer \in Seq(Nat)
  BY <1>0, SumsOfParts
<1>4. n \in Nat /\ Len(more) = n + 1 /\ more[n + 1] = longer /\ \A k \in 1 .. n : more[k] = numbers[k]
  <2> HIDE DEF longer
  <2>. QED
    BY <1>3
<1>5. CASE LebFits(bits, longer)
  <2>1. t = [s EXCEPT !.out = Append(s.out, value), !.value = 0, !.shift = 0]
    BY <1>0, <1>1, <1>2, <1>5 DEF Advances
  <2>2. t = [out |-> Append(s.out, value), value |-> 0, shift |-> 0, exit |-> s.exit]
    BY <2>1 DEF LebStates
  <2> HIDE DEF t, value, longer
  <2>3. Sums(more) = Append(Sums(numbers), value)
    BY <1>3, SumsLaws
  <2>4. LebSum(<< >>) = 0
    BY SumsOfParts
  <2>5. Payload * Len(<< >>) = 0
    BY BitsAssumption
  <2>6. LebFits(bits, << >>)
    BY NothingFits
  <2> HIDE DEF more
  <2>7. FitsUpTo(bits, more, n + 1)
    <3>1. \A k \in 1 .. (n + 1) : k = n + 1 \/ k \in 1 .. n
      BY <1>4
    <3>. QED
      BY <1>0, <1>4, <1>5, <3>1 DEF FitsUpTo
  <2>8. Going(bits, t, more, << >>)
    BY <1>0, <1>4, <2>2, <2>3, <2>4, <2>5, <2>6, <2>7 DEF Going
  <2>. QED
    BY <2>8 DEF t, longer, more
<1>6. CASE ~ LebFits(bits, longer)
  <2>1. t = [s EXCEPT !.out = Append(s.out, Err), !.exit = 1]
    BY <1>0, <1>1, <1>2, <1>6 DEF Advances
  <2>2. t.out = Append(s.out, Err) /\ t.exit = 1
    BY <2>1 DEF LebStates
  <2>3. n \in 0 .. Len(more) /\ n < Len(more) /\ ~ (n = Len(more))
    BY <1>4
  <2> HIDE DEF longer
  <2>4. SubSeq(more, 1, n) = numbers
    BY <1>3
  <2> HIDE DEF t, value, more
  <2>5. FitsUpTo(bits, more, n)
    BY <1>0, <1>4 DEF FitsUpTo
  <2>6. StoppedAt(bits, t, more, << >>, n)
    BY <1>0, <1>4, <1>6, <2>2, <2>3, <2>4, <2>5 DEF StoppedAt
  <2>7. Stopped(bits, t, more, << >>)
    BY <2>3, <2>6 DEF Stopped
  <2>. QED
    BY <2>7 DEF t, longer, more
<1>. QED
  BY <1>5, <1>6

(* Nothing that follows a number that does not fit changes anything.       *)
LEMMA StaysStopped ==
    ASSUME NEW bits \in Nat, NEW s \in LebStates, NEW numbers \in Seq(Seq(Nat)), NEW rest \in Seq(Nat),
           NEW b \in Nat, Stopped(bits, s, numbers, rest)
    PROVE  /\ Stopped(bits, Advance(bits, s, b), numbers, Append(rest, b))
           /\ Stopped(bits, Advance(bits, s, b), Append(numbers, Append(rest, b)), << >>)
<1> DEFINE longer == Append(rest, b)
           n == Len(numbers)
           more == Append(numbers, longer)
<1>1. PICK m \in 0 .. n : StoppedAt(bits, s, numbers, rest, m)
  BY DEF Stopped
<1>2. s.exit = 1 /\ FitsUpTo(bits, numbers, m) /\ s.out = Append(Sums(SubSeq(numbers, 1, m)), Err)
      /\ (m < n => ~ LebFits(bits, numbers[m + 1])) /\ (m = n => ~ LebFits(bits, rest))
  BY <1>1 DEF StoppedAt
<1>3. Advance(bits, s, b) = s
  <2>1. Advances(bits, s, b)
    BY AdvanceCases
  <2>. QED
    BY <1>2, <2>1 DEF Advances
<1>4. longer \in Seq(Nat) /\ n \in Nat /\ m \in Nat /\ m <= n
  OBVIOUS
<1>5. m = n => ~ LebFits(bits, longer)
  BY <1>2, MisfitGrows
<1>6. Len(more) = n + 1 /\ more[n + 1] = longer /\ \A k \in 1 .. n : more[k] = numbers[k]
  <2> HIDE DEF longer
  <2>. QED
    BY <1>4
<1>7. SubSeq(more, 1, m) = SubSeq(numbers, 1, m)
  <2> HIDE DEF longer
  <2>. QED
    BY <1>4
<1> HIDE DEF longer, more
<1>8. StoppedAt(bits, s, numbers, longer, m)
  BY <1>2, <1>5 DEF StoppedAt
<1>9. StoppedAt(bits, s, more, << >>, m)
  <2>1. FitsUpTo(bits, more, m)
    <3>1. \A k \in 1 .. m : more[k] = numbers[k]
      BY <1>4, <1>6
    <3>. QED
      BY <1>2, <3>1 DEF FitsUpTo
  <2>2. m < Len(more) /\ ~ (m = Len(more))
    BY <1>4, <1>6
  <2>3. ~ LebFits(bits, more[m + 1])
    <3>1. CASE m = n
      BY <1>5, <1>6, <3>1
    <3>2. CASE m < n
      <4>1. m + 1 \in 1 .. n
        BY <1>4, <3>2
      <4>. QED
        BY <1>2, <1>6, <3>2, <4>1
    <3>. QED
      BY <1>4, <3>1, <3>2
  <2>. QED
    BY <1>2, <1>7, <2>1, <2>2, <2>3 DEF StoppedAt
<1>10. m \in 0 .. Len(numbers) /\ m \in 0 .. Len(more)
  BY <1>4, <1>6
<1>. QED
  BY <1>3, <1>8, <1>9, <1>10 DEF Stopped, longer, more

LEMMA DecodedByteByByte ==
    ASSUME NEW bits \in Nat, NEW in \in Seq(Nat)
    PROVE  DecodedSoFar(bits, in)
<1> DEFINE T == {q \in Seq(Nat) : DecodedSoFar(bits, q)}
<1>1. << >> \in T
  <2>1. Advanced(bits, << >>) = [out |-> << >>, value |-> 0, shift |-> 0, exit |-> 0]
    BY AdvancedLaws
  <2>2. LebNumbers(<< >>) = << >> /\ Rest(Final, << >>) = << >>
    BY NumberLaws
  <2>3. LebFits(bits, << >>)
    BY NothingFits
  <2>4. Sums(<< >>) = << >> /\ LebSum(<< >>) = 0
    BY SumsLaws, SumsOfParts
  <2>5. Payload * Len(<< >>) = 0 /\ << >> \in Seq(Nat)
    BY BitsAssumption
  <2>6. FitsUpTo(bits, << >>, Len(<< >>))
    BY DEF FitsUpTo
  <2>7. Going(bits, Advanced(bits, << >>), << >>, << >>)
    BY <2>1, <2>3, <2>4, <2>5, <2>6 DEF Going
  <2>. QED
    BY <2>2, <2>5, <2>7 DEF DecodedSoFar
<1>2. ASSUME NEW q \in Seq(Nat), NEW b \in Nat, q \in T PROVE Append(q, b) \in T
  <2> DEFINE s == Advanced(bits, q)
             numbers == LebNumbers(q)
             rest == Rest(Final, q)
             p == Append(q, b)
  <2>1. s \in LebStates /\ Advanced(bits, p) = Advance(bits, s, b)
    BY AdvancedLaws
  <2>2. numbers \in Seq(Seq(Nat)) /\ rest \in Seq(Nat) /\ p \in Seq(Nat)
    BY NumberLaws
  <2>3. Going(bits, s, numbers, rest) \/ Stopped(bits, s, numbers, rest)
    BY <1>2 DEF DecodedSoFar
  <2>4. Pow2[Payload] \in Nat
    BY PartType
  <2>5. CASE b < Pow2[Payload]
    <3>1. LebNumbers(p) = Append(numbers, Append(rest, b)) /\ Rest(Final, p) = << >>
      BY <2>5, NumberLaws
    <3> HIDE DEF s, numbers, rest, p
    <3>2. CASE Going(bits, s, numbers, rest)
      <4>1. \/ Going(bits, Advance(bits, s, b), Append(numbers, Append(rest, b)), << >>)
            \/ Stopped(bits, Advance(bits, s, b), Append(numbers, Append(rest, b)), << >>)
        BY <2>1, <2>2, <2>5, <3>2, GoesOnToTheNext
      <4>2. DecodedSoFar(bits, p)
        BY <2>1, <3>1, <4>1 DEF DecodedSoFar
      <4>. QED
        BY <2>2, <4>2 DEF p
    <3>3. CASE Stopped(bits, s, numbers, rest)
      <4>1. Stopped(bits, Advance(bits, s, b), Append(numbers, Append(rest, b)), << >>)
        BY <2>1, <2>2, <3>3, StaysStopped
      <4>2. DecodedSoFar(bits, p)
        BY <2>1, <3>1, <4>1 DEF DecodedSoFar
      <4>. QED
        BY <2>2, <4>2 DEF p
    <3>. QED
      BY <2>3, <3>2, <3>3
  <2>6. CASE ~ b < Pow2[Payload]
    <3>1. LebNumbers(p) = numbers /\ Rest(Final, p) = Append(rest, b)
      BY <2>4, <2>6, NumberLaws
    <3> HIDE DEF s, numbers, rest, p
    <3>2. CASE Going(bits, s, numbers, rest)
      <4>1. \/ Going(bits, Advance(bits, s, b), numbers, Append(rest, b))
            \/ Stopped(bits, Advance(bits, s, b), numbers, Append(rest, b))
        BY <2>1, <2>2, <2>6, <3>2, GoesOn
      <4>2. DecodedSoFar(bits, p)
        BY <2>1, <3>1, <4>1 DEF DecodedSoFar
      <4>. QED
        BY <2>2, <4>2 DEF p
    <3>3. CASE Stopped(bits, s, numbers, rest)
      <4>1. Stopped(bits, Advance(bits, s, b), numbers, Append(rest, b))
        BY <2>1, <2>2, <3>3, StaysStopped
      <4>2. DecodedSoFar(bits, p)
        BY <2>1, <3>1, <4>1 DEF DecodedSoFar
      <4>. QED
        BY <2>2, <4>2 DEF p
    <3>. QED
      BY <2>3, <3>2, <3>3
  <2>. QED
    BY <2>5, <2>6
<1>. QED
  <2> HIDE DEF T
  <2>1. in \in T
    BY <1>1, <1>2, SeqSetInduction
  <2>. QED
    BY <2>1 DEF T

(* leb128_decode writes the little-endian sums of its numbers, up to the   *)
(* first that the word does not hold or that has no last byte.             *)
THEOREM Leb128Sums ==
    ASSUME NEW bits \in Nat, NEW in \in Seq(Nat)
    PROVE  Leb128IsRight(bits, in)
<1> DEFINE numbers == LebNumbers(in)
           rest == Rest(Final, in)
           s == Advanced(bits, in)
           n == Len(numbers)
           bad == {k \in 1 .. n : ~ LebFits(bits, numbers[k])}
           good(m) == Sums(SubSeq(numbers, 1, m))
<1>1. s \in LebStates /\ numbers \in Seq(Seq(Nat)) /\ rest \in Seq(Nat)
  BY AdvancedLaws, NumberLaws
<1>2. n \in Nat /\ DOMAIN numbers = 1 .. n
  BY <1>1
<1>3. Leb128Decode(bits, in) = IF s.exit = 0 /\ s.shift # 0
                               THEN [out |-> Append(s.out, Trunc), exit |-> 2]
                               ELSE [out |-> s.out, exit |-> s.exit]
  BY DEF Leb128Decode, Leb, Advanced
<1>4. Leb128IsRight(bits, in) <=>
        Leb128Decode(bits, in) =
          CASE bad # {} \/ (rest # << >> /\ ~ LebFits(bits, rest)) ->
                 [out |-> Append(good(Min(bad \union {n + 1}) - 1), Err), exit |-> 1]
            [] bad = {} /\ rest # << >> /\ LebFits(bits, rest) ->
                 [out |-> Append(good(Min(bad \union {n + 1}) - 1), Trunc), exit |-> 2]
            [] OTHER -> [out |-> good(Min(bad \union {n + 1}) - 1), exit |-> 0]
  BY <1>2 DEF Leb128IsRight, Mapped, Sums
<1>5. Going(bits, s, numbers, rest) \/ Stopped(bits, s, numbers, rest)
  BY DecodedByteByByte DEF DecodedSoFar
<1> DEFINE least == Min(bad \union {n + 1})
<1> HIDE DEF numbers, rest, s
<1>6. LebFits(bits, << >>)
  BY NothingFits
<1>7. CASE Going(bits, s, numbers, rest)
  <2>1. /\ s.exit = 0 /\ FitsUpTo(bits, numbers, n) /\ LebFits(bits, rest)
        /\ s.out = Sums(numbers) /\ s.shift = Payload * Len(rest)
    BY <1>7 DEF Going
  <2>2. bad = {}
    BY <2>1 DEF FitsUpTo
  <2>3. least - 1 = n
    <3> DEFINE top == n + 1
               S == bad \union {top}
    <3>1. S = {top} /\ top \in Int
      BY <1>2, <2>2
    <3> HIDE DEF top, S, bad
    <3>2. Min(S) = top
      BY <3>1, LeastOf
    <3>3. top - 1 = n
      BY <1>2 DEF top
    <3>. QED
      BY <3>2, <3>3 DEF S, top
  <2>4. SubSeq(numbers, 1, n) = numbers
    BY <1>1
  <2>5. s.shift # 0 <=> rest # << >>
    BY <1>1, <2>1, BitsAssumption
  <2> HIDE DEF bad, least
  <2>6. CASE rest # << >>
    BY <1>3, <1>4, <2>1, <2>2, <2>3, <2>4, <2>5, <2>6 DEF least
  <2>7. CASE rest = << >>
    BY <1>3, <1>4, <2>1, <2>2, <2>3, <2>4, <2>5, <2>7 DEF least
  <2>. QED
    BY <2>6, <2>7
<1>8. CASE Stopped(bits, s, numbers, rest)
  <2>1. PICK m \in 0 .. n : StoppedAt(bits, s, numbers, rest, m)
    BY <1>8 DEF Stopped
  <2>2. /\ s.exit = 1 /\ FitsUpTo(bits, numbers, m)
        /\ s.out = Append(good(m), Err)
        /\ m < n => ~ LebFits(bits, numbers[m + 1])
        /\ m = n => ~ LebFits(bits, rest)
    BY <2>1 DEF StoppedAt
  <2>3. m \in Nat /\ m <= n
    BY <1>2
  <2>4. \A k \in bad : k \in Nat /\ m + 1 <= k
    <3> SUFFICES ASSUME NEW k \in bad PROVE k \in Nat /\ m + 1 <= k
      OBVIOUS
    <3>1. k \in 1 .. n /\ ~ LebFits(bits, numbers[k])
      OBVIOUS
    <3>2. k \notin 1 .. m
      BY <2>2, <3>1 DEF FitsUpTo
    <3>. QED
      BY <1>2, <2>3, <3>1, <3>2
  <2>5. m < n => m + 1 \in bad
    <3> SUFFICES ASSUME m < n PROVE m + 1 \in bad
      OBVIOUS
    <3>1. m + 1 \in 1 .. n
      BY <1>2, <2>3
    <3>2. ~ LebFits(bits, numbers[m + 1])
      BY <2>2
    <3>. QED
      BY <3>1, <3>2
  <2>6. m = n => bad = {} /\ rest # << >>
    BY <1>2, <1>6, <2>2, <2>3, <2>4
  <2>7. least - 1 = m
    <3> DEFINE next == m + 1
               top == n + 1
               S == bad \union {top}
    <3>1. next \in Int /\ next - 1 = m
      BY <2>3
    <3>2. S \subseteq Int /\ (\A k \in S : next <= k) /\ next \in S
      <4> HIDE DEF bad
      <4>. QED
        BY <1>2, <2>3, <2>4, <2>5
    <3> HIDE DEF next, S
    <3>3. Min(S) = next
      BY <3>1, <3>2, LeastOf
    <3>. QED
      BY <3>1, <3>3 DEF S
  <2>8. bad # {} \/ (rest # << >> /\ ~ LebFits(bits, rest))
    <3>1. CASE m < n
      BY <2>5, <3>1
    <3>2. CASE m = n
      BY <2>2, <2>6, <3>2
    <3>3. m < n \/ m = n
      <4> HIDE DEF n, bad
      <4>1. m \in Int /\ n \in Int /\ m <= n
        BY <1>2, <2>3
      <4>. QED
        BY <4>1
    <3> HIDE DEF bad
    <3>. QED
      BY <3>1, <3>2, <3>3
  <2> HIDE DEF bad, least
  <2>9. Leb128Decode(bits, in) = [out |-> Append(good(m), Err), exit |-> 1]
    BY <1>3, <2>2
  <2>. QED
    BY <1>4, <2>7, <2>8, <2>9 DEF least
<1>. QED
  BY <1>5, <1>7, <1>8

-----------------------------------------------------------------------------
(* utf8_validate.                                                          *)

Surrogates == 55296 .. 57343

(* The code point of a character, byte by byte.                           *)
LEMMA CodePointLaws ==
    ASSUME NEW lead \in Nat
    PROVE  /\ CodePoint(lead, << >>) = lead
           /\ \A q \in Seq(Nat) : CodePoint(lead, q) \in Nat
           /\ \A q \in Seq(Nat), b \in Nat :
                 CodePoint(lead, Append(q, b)) = CodePoint(lead, q) * 64 + (b % 64)
<1> DEFINE St == Nat
           X == Nat
           base == lead
           op(cp, b) == cp * 64 + (b % 64)
           H == [p \in St \X X |-> op(p[1], p[2])]
<1>1. base \in St
  OBVIOUS
<1>2. \A cp \in St, b \in X : op(cp, b) \in St
  OBVIOUS
<1>3. \A in \in Seq(X) : CodePoint(lead, in) = Folded(H, base, in)
  <2> SUFFICES ASSUME NEW in \in Seq(X) PROVE CodePoint(lead, in) = Folded(H, base, in)
    OBVIOUS
  <2> DEFINE Law(g) == g = [S \in SUBSET DOMAIN in |->
                              IF S = {} THEN base ELSE LET x == Max(S) IN op(g[S \ {x}], in[x])]
  <2>1. CodePoint(lead, in) = (CHOOSE g : Law(g))[DOMAIN in]
    BY DEF FoldLeft, MapThenFoldSet, CodePoint
  <2> HIDE DEF op, St, X, base
  <2>2. \A cp \in St, b \in X : H[<<cp, b>>] = op(cp, b)
    OBVIOUS
  <2>3. H \in [St \X X -> St]
    BY <1>2
  <2> HIDE DEF H
  <2>4. ASSUME NEW g, TypedRun(H, St, base, in, g) PROVE Law(g)
    <3>1. \A S \in SUBSET (1 .. Len(in)) :
             S # {} => H[<<g[S \ {Max(S)}], in[Max(S)]>>] = op(g[S \ {Max(S)}], in[Max(S)])
      BY <2>2, <2>4, LastPosition DEF TypedRun
    <3>2. DOMAIN in = 1 .. Len(in)
      OBVIOUS
    <3>. QED
      BY <2>4, <3>1, <3>2 DEF SetRun, TypedRun
  <2>5. ASSUME NEW g, Law(g) PROVE Follows(X, St, H, base, in, g)
    <3>1. DOMAIN in = 1 .. Len(in)
      OBVIOUS
    <3>2. \A S \in SUBSET (1 .. Len(in)) : g[S] = IF S = {} THEN base ELSE op(g[S \ {Max(S)}], in[Max(S)])
      BY <2>5, <3>1
    <3> HIDE DEF Law
    <3>. QED
      BY <1>1, <2>2, <2>3, <3>2, LastPosition DEF Follows
  <2> HIDE DEF Law
  <2>6. PICK g : Law(g) /\ CodePoint(lead, in) = g[DOMAIN in]
    BY <1>1, <2>1, <2>3, <2>4, SetRunExists
  <2>7. Follows(X, St, H, base, in, g)
    BY <2>5, <2>6
  <2>. QED
    BY <2>6, <2>7, SetRunFolds
<1> HIDE DEF op, St, X, base
<1>4. H \in [St \X X -> St] /\ \A cp \in St, b \in X : H[<<cp, b>>] = op(cp, b)
  BY <1>2
<1> HIDE DEF H
<1>5. Folded(H, base, << >>) = base /\ << >> \in Seq(X)
  BY FoldedEmpty
<1>6. \A q \in Seq(X) : Folded(H, base, q) \in St
  BY <1>1, <1>4, FoldedType
<1>7. \A q \in Seq(X), b \in X : /\ Append(q, b) \in Seq(X)
                                /\ Folded(H, base, Append(q, b)) = H[<<Folded(H, base, q), b>>]
  BY FoldedAppend
<1>8. \A q \in Seq(X), b \in X : CodePoint(lead, Append(q, b)) = op(CodePoint(lead, q), b)
  BY <1>3, <1>4, <1>6, <1>7
<1>. QED
  BY <1>3, <1>5, <1>6, <1>8 DEF base, St, X, op

(* The bytes behind the first of a character.                              *)
LEMMA TailGrows ==
    ASSUME NEW in \in Seq(Nat), NEW i \in 1 .. Len(in), NEW n \in Nat, i + n + 1 <= Len(in)
    PROVE  /\ SubSeq(in, i + 1, i + n) \in Seq(Nat)
           /\ in[i + n + 1] \in Nat
           /\ SubSeq(in, i + 1, i + n + 1) = Append(SubSeq(in, i + 1, i + n), in[i + n + 1])
<1> DEFINE s == SubSeq(in, i + 1, i + n)
           t == SubSeq(in, i + 1, i + n + 1)
           b == in[i + n + 1]
<1>1. b \in Nat /\ i \in Nat /\ Len(in) \in Nat
  OBVIOUS
<1>2. s \in Seq(Nat) /\ Len(s) = n /\ \A k \in 1 .. n : s[k] = in[i + k]
  <2>1. i + 1 \in Nat /\ i + n \in Nat /\ i + n <= Len(in)
    BY <1>1
  <2>. QED
    BY <1>1, <2>1
<1>3. t \in Seq(Nat) /\ Len(t) = n + 1 /\ \A k \in 1 .. (n + 1) : t[k] = in[i + k]
  <2>1. i + 1 \in Nat /\ i + n + 1 \in Nat /\ i + n + 1 <= Len(in)
    BY <1>1
  <2>. QED
    BY <1>1, <2>1
<1> HIDE DEF s, t, b
<1> DEFINE u == Append(s, b)
<1>4. u \in Seq(Nat) /\ Len(u) = n + 1 /\ u[n + 1] = b /\ \A k \in 1 .. n : u[k] = s[k]
  <2>0. s \in Seq(Nat) /\ b \in Nat
    BY <1>1, <1>2
  <2>1. Len(u) = Len(s) + 1 /\ u[Len(s) + 1] = b /\ u \in Seq(Nat) /\ \A k \in 1 .. Len(s) : u[k] = s[k]
    BY <2>0
  <2>. QED
    BY <1>2, <2>1
<1> HIDE DEF u
<1>5. \A k \in 1 .. Len(t) : t[k] = u[k]
  <2>1. \A k \in 1 .. (n + 1) : k = n + 1 \/ k \in 1 .. n
    OBVIOUS
  <2>2. t[n + 1] = b
    BY <1>1, <1>3 DEF b
  <2>. QED
    BY <1>2, <1>3, <1>4, <2>1, <2>2
<1>6. t = u
  BY <1>3, <1>4, <1>5, SeqEqual
<1>. QED
  BY <1>1, <1>2, <1>6 DEF s, t, u, b

CodePointsOf(in, i, lead) ==
    /\ CodePoint(lead, SubSeq(in, i + 1, i)) = lead
    /\ \A n \in Nat : i + n + 1 <= Len(in) =>
          CodePoint(lead, SubSeq(in, i + 1, i + n + 1))
             = CodePoint(lead, SubSeq(in, i + 1, i + n)) * 64 + (in[i + n + 1] % 64)

LEMMA CodePoints ==
    ASSUME NEW in \in Seq(Nat), NEW i \in 1 .. Len(in), NEW lead \in Nat
    PROVE  CodePointsOf(in, i, lead)
<1>1. SubSeq(in, i + 1, i) = << >>
  OBVIOUS
<1>2. CodePoint(lead, << >>) = lead
  BY CodePointLaws
<1>3. ASSUME NEW n \in Nat, i + n + 1 <= Len(in)
      PROVE  CodePoint(lead, SubSeq(in, i + 1, i + n + 1))
                = CodePoint(lead, SubSeq(in, i + 1, i + n)) * 64 + (in[i + n + 1] % 64)
  <2> DEFINE s == SubSeq(in, i + 1, i + n)
             b == in[i + n + 1]
  <2>1. s \in Seq(Nat) /\ b \in Nat /\ SubSeq(in, i + 1, i + n + 1) = Append(s, b)
    BY <1>3, TailGrows
  <2> HIDE DEF s, b
  <2>2. \A q \in Seq(Nat), x \in Nat : CodePoint(lead, Append(q, x)) = CodePoint(lead, q) * 64 + (x % 64)
    BY CodePointLaws
  <2>3. CodePoint(lead, Append(s, b)) = CodePoint(lead, s) * 64 + (b % 64)
    BY <2>1, <2>2
  <2>. QED
    BY <2>1, <2>3 DEF s, b
<1>. QED
  BY <1>1, <1>2, <1>3 DEF CodePointsOf

(* Which code points are too low, surrogates or too high.                  *)
Legal(need, cp) == ~ (cp < Lowest[need] \/ cp \in Surrogates \/ cp > 1114111)

LEMMA Validity ==
    ASSUME NEW cp \in Nat
    PROVE  /\ Legal(0, cp) <=> cp \notin Surrogates /\ cp <= 1114111
           /\ Legal(1, cp) <=> cp >= 128 /\ cp \notin Surrogates /\ cp <= 1114111
           /\ Legal(2, cp) <=> cp >= 2048 /\ cp \notin Surrogates /\ cp <= 1114111
           /\ Legal(3, cp) <=> cp >= 65536 /\ cp \notin Surrogates /\ cp <= 1114111
<1>1. Lowest[0] = 0 /\ Lowest[1] = 128 /\ Lowest[2] = 2048 /\ Lowest[3] = 65536
  BY DEF Lowest
<1> HIDE DEF Surrogates
<1>. QED
  BY <1>1 DEF Legal

LEMMA Needs ==
    ASSUME NEW b \in Octets
    PROVE  /\ Need(b) \in {-1, 0, 1, 2, 3}
           /\ Need(b) = 0 <=> b \in 0 .. 127
           /\ Need(b) = 1 <=> b \in 192 .. 223
           /\ Need(b) = 2 <=> b \in 224 .. 239
           /\ Need(b) = 3 <=> b \in 240 .. 247
<1>1. b \in 0 .. 127 => Need(b) = 0
  BY DEF Need, Octets
<1>2. b \in 192 .. 223 => Need(b) = 1
  BY DEF Need, Octets
<1>3. b \in 224 .. 239 => Need(b) = 2
  BY DEF Need, Octets
<1>4. b \in 240 .. 247 => Need(b) = 3
  BY DEF Need, Octets
<1>5. b \in 128 .. 191 \union 248 .. 255 => Need(b) = -1
  BY DEF Need, Octets
<1>6. b \in 0 .. 127 \/ b \in 192 .. 223 \/ b \in 224 .. 239 \/ b \in 240 .. 247
      \/ b \in 128 .. 191 \union 248 .. 255
  BY DEF Octets
<1>. QED
  BY <1>1, <1>2, <1>3, <1>4, <1>5, <1>6

Behind == 128 .. 191

LEMMA OneByte ==
    ASSUME NEW b \in 0 .. 127
    PROVE  Legal(0, b % 128)
<1>1. b % 128 = b /\ b \in Nat
  OBVIOUS
<1>2. b \notin Surrogates /\ b <= 1114111
  BY DEF Surrogates
<1>. QED
  BY <1>1, <1>2, Validity

(* What the bytes of a character code for.                                 *)
CodedInTwo(cp, b, h) ==
    b \in 192 .. 223 /\ h \in Behind /\ cp = (b % 32) * 64 + (h % 64)

CodedInThree(cp, b, h, d) ==
    /\ b \in 224 .. 239 /\ h \in Behind /\ d \in Behind
    /\ cp = ((b % 16) * 64 + (h % 64)) * 64 + (d % 64)

CodedInFour(cp, b, h, d, e) ==
    /\ b \in 240 .. 247 /\ h \in Behind /\ d \in Behind /\ e \in Behind
    /\ cp = (((b % 8) * 64 + (h % 64)) * 64 + (d % 64)) * 64 + (e % 64)

LEMMA TwoBytes ==
    ASSUME NEW cp, NEW b, NEW h, CodedInTwo(cp, b, h)
    PROVE  Legal(1, cp) <=> b \in 194 .. 223
<1>0. b \in 192 .. 223 /\ h \in Behind /\ cp = (b % 32) * 64 + (h % 64)
  BY DEF CodedInTwo
<1>1. b % 32 = b - 192
  BY <1>0
<1>2. h % 64 = h - 128 /\ h \in 128 .. 191
  BY <1>0 DEF Behind
<1>3. cp = (b - 192) * 64 + (h - 128) /\ b - 192 \in 0 .. 31 /\ h - 128 \in 0 .. 63
  BY <1>0, <1>1, <1>2
<1>4. cp \in Nat /\ cp <= 2047
  BY <1>3, SMTT(30)
<1>40. cp >= 128 <=> b - 192 >= 2
  BY <1>3, SMTT(30)
<1>41. b - 192 >= 2 <=> b \in 194 .. 223
  BY <1>0
<1>5. cp \notin Surrogates /\ cp <= 1114111
  BY <1>4 DEF Surrogates
<1>. QED
  BY <1>4, <1>40, <1>41, <1>5, Validity

LEMMA ThreeBytes ==
    ASSUME NEW cp, NEW b, NEW h, NEW d, CodedInThree(cp, b, h, d)
    PROVE  Legal(2, cp) <=> (b = 224 => h >= 160) /\ (b = 237 => h < 160)
<1>0. /\ b \in 224 .. 239 /\ h \in Behind /\ d \in Behind
      /\ cp = ((b % 16) * 64 + (h % 64)) * 64 + (d % 64)
  BY DEF CodedInThree
<1>1. b % 16 = b - 224
  BY <1>0
<1>2. h % 64 = h - 128 /\ h \in 128 .. 191 /\ d % 64 = d - 128 /\ d \in 128 .. 191 /\ b \in 224 .. 239
  BY <1>0 DEF Behind
<1>3. cp = ((b - 224) * 64 + (h - 128)) * 64 + (d - 128)
  BY <1>0, <1>1, <1>2
<1>4. cp \in Nat /\ cp <= 65535
  BY <1>2, <1>3
<1>5. cp >= 2048 <=> (b = 224 => h >= 160)
  BY <1>2, <1>3
<1>6. cp \in Surrogates <=> ~ (b = 237 => h < 160)
  <2>1. cp \in Surrogates <=> 55296 <= cp /\ cp <= 57343
    BY <1>4 DEF Surrogates
  <2>2. 55296 <= cp <=> b > 237 \/ (b = 237 /\ h >= 160)
    BY <1>2, <1>3
  <2>3. cp <= 57343 <=> b <= 237
    BY <1>2, <1>3
  <2>. QED
    BY <1>2, <2>1, <2>2, <2>3
<1>. QED
  BY <1>4, <1>5, <1>6, Validity

LEMMA FourBytes ==
    ASSUME NEW cp, NEW b, NEW h, NEW d, NEW e, CodedInFour(cp, b, h, d, e)
    PROVE  Legal(3, cp) <=> b \in 240 .. 244 /\ (b = 240 => h >= 144) /\ (b = 244 => h < 144)
<1>0. /\ b \in 240 .. 247 /\ h \in Behind /\ d \in Behind /\ e \in Behind
      /\ cp = (((b % 8) * 64 + (h % 64)) * 64 + (d % 64)) * 64 + (e % 64)
  BY DEF CodedInFour
<1>1. b % 8 = b - 240
  BY <1>0
<1>2. h % 64 = h - 128 /\ h \in 128 .. 191 /\ d % 64 = d - 128 /\ d \in 128 .. 191
      /\ e % 64 = e - 128 /\ e \in 128 .. 191 /\ b \in 240 .. 247
  BY <1>0 DEF Behind
<1>3. cp = (((b - 240) * 64 + (h - 128)) * 64 + (d - 128)) * 64 + (e - 128)
  BY <1>0, <1>1, <1>2
<1>4. cp \in Nat
  BY <1>2, <1>3
<1>5. cp >= 65536 <=> (b = 240 => h >= 144)
  BY <1>2, <1>3, SMTT(30)
<1>60. cp <= 1114111 <=> b < 244 \/ (b = 244 /\ h < 144)
  BY <1>2, <1>3, SMTT(30)
<1>6. cp <= 1114111 <=> b \in 240 .. 244 /\ (b = 244 => h < 144)
  BY <1>2, <1>60
<1>7. cp >= 65536 => cp \notin Surrogates
  BY <1>4 DEF Surrogates
<1>. QED
  BY <1>4, <1>5, <1>6, <1>7, Validity

(* The well-formed characters, by the number of bytes behind the first.    *)
Shape0(b) == b \in 0 .. 127
Shape1(b, h) == b \in 194 .. 223 /\ h \in Behind
Shape2(b, h, d) == b \in 224 .. 239 /\ h \in Behind /\ d \in Behind
                   /\ (b = 224 => h >= 160) /\ (b = 237 => h < 160)
Shape3(b, h, d, e) == b \in 240 .. 244 /\ h \in Behind /\ d \in Behind /\ e \in Behind
                      /\ (b = 240 => h >= 144) /\ (b = 244 => h < 144)

Shape(in, i, n) ==
    \/ n = 0 /\ Shape0(in[i])
    \/ n = 1 /\ Shape1(in[i], in[i + 1])
    \/ n = 2 /\ Shape2(in[i], in[i + 1], in[i + 2])
    \/ n = 3 /\ Shape3(in[i], in[i + 1], in[i + 2], in[i + 3])

LEMMA ShapeOfLength ==
    ASSUME NEW in, NEW i
    PROVE  /\ Shape(in, i, 0) <=> Shape0(in[i])
           /\ Shape(in, i, 1) <=> Shape1(in[i], in[i + 1])
           /\ Shape(in, i, 2) <=> Shape2(in[i], in[i + 1], in[i + 2])
           /\ Shape(in, i, 3) <=> Shape3(in[i], in[i + 1], in[i + 2], in[i + 3])
           /\ \A n : Shape(in, i, n) => n \in {0, 1, 2, 3}
  BY DEF Shape

LEMMA WellFormedLengths ==
    ASSUME NEW s, Len(s) \in Nat
    PROVE  /\ Len(s) = 1 => (WellFormed(s) <=> Shape0(s[1]))
           /\ Len(s) = 2 => (WellFormed(s) <=> Shape1(s[1], s[2]))
           /\ Len(s) = 3 => (WellFormed(s) <=> Shape2(s[1], s[2], s[3]))
           /\ Len(s) = 4 => (WellFormed(s) <=> Shape3(s[1], s[2], s[3], s[4]))
           /\ WellFormed(s) => Len(s) \in {1, 2, 3, 4}
<1> DEFINE n == Len(s)
           T(from) == \A k \in from .. n : s[k] \in 128 .. 191
<1>1. WellFormed(s) <=>
         \/ n = 1 /\ s[1] \in 0 .. 127
         \/ n = 2 /\ s[1] \in 194 .. 223 /\ T(2)
         \/ n = 3 /\ s[1] \in 224 .. 239 /\ T(2) /\ (s[1] = 224 => s[2] >= 160)
                  /\ (s[1] = 237 => s[2] < 160)
         \/ n = 4 /\ s[1] \in 240 .. 244 /\ T(2) /\ (s[1] = 240 => s[2] >= 144)
                  /\ (s[1] = 244 => s[2] < 144)
  BY DEF WellFormed
<1>2. /\ n = 2 => (T(2) <=> s[2] \in 128 .. 191)
      /\ n = 3 => (T(2) <=> s[2] \in 128 .. 191 /\ s[3] \in 128 .. 191)
      /\ n = 4 => (T(2) <=> s[2] \in 128 .. 191 /\ s[3] \in 128 .. 191 /\ s[4] \in 128 .. 191)
  <2> HIDE DEF n
  <2>1. n = 2 => (T(2) <=> s[2] \in 128 .. 191)
    OBVIOUS
  <2>2. n = 3 => (T(2) <=> s[2] \in 128 .. 191 /\ s[3] \in 128 .. 191)
    <3>1. \A k \in 2 .. 3 : k = 2 \/ k = 3
      OBVIOUS
    <3>. QED
      BY <3>1
  <2>3. n = 4 => (T(2) <=> s[2] \in 128 .. 191 /\ s[3] \in 128 .. 191 /\ s[4] \in 128 .. 191)
    <3>1. \A k \in 2 .. 4 : k = 2 \/ k = 3 \/ k = 4
      OBVIOUS
    <3>. QED
      BY <3>1
  <2>. QED
    BY <2>1, <2>2, <2>3
<1> HIDE DEF T, n
<1>3. n = 1 => (WellFormed(s) <=> Shape0(s[1]))
  BY <1>1 DEF Shape0
<1>4. n = 2 => (WellFormed(s) <=> Shape1(s[1], s[2]))
  BY <1>1, <1>2 DEF Shape1, Behind
<1>5. n = 3 => (WellFormed(s) <=> Shape2(s[1], s[2], s[3]))
  BY <1>1, <1>2 DEF Shape2, Behind
<1>6. n = 4 => (WellFormed(s) <=> Shape3(s[1], s[2], s[3], s[4]))
  BY <1>1, <1>2 DEF Shape3, Behind
<1>7. WellFormed(s) => n \in {1, 2, 3, 4}
  BY <1>1
<1>. QED
  BY <1>3, <1>4, <1>5, <1>6, <1>7 DEF n

LEMMA WellFormedIsShape ==
    ASSUME NEW in \in Seq(Nat), NEW i \in 1 .. Len(in), NEW n \in Nat, i + n <= Len(in)
    PROVE  WellFormed(SubSeq(in, i, i + n)) <=> Shape(in, i, n)
<1> DEFINE s == SubSeq(in, i, i + n)
<1>1. i \in Nat /\ Len(in) \in Nat /\ i + n \in Nat
  OBVIOUS
<1>2. Len(s) = n + 1 /\ \A k \in 1 .. (n + 1) : s[k] = in[i + k - 1]
  BY <1>1
<1> SUFFICES WellFormed(s) <=> Shape(in, i, n)
  OBVIOUS
<1> HIDE DEF s
<1>3. Len(s) \in Nat
  BY <1>2
<1>4. WellFormed(s) => n \in {0, 1, 2, 3}
  <2>1. WellFormed(s) => Len(s) \in {1, 2, 3, 4}
    BY <1>3, WellFormedLengths
  <2>. QED
    BY <1>2, <2>1
<1>5. Shape(in, i, n) => n \in {0, 1, 2, 3}
  BY ShapeOfLength
<1>6. i + 0 = i /\ i + 1 - 1 = i /\ i + 2 - 1 = i + 1 /\ i + 3 - 1 = i + 2 /\ i + 4 - 1 = i + 3
  BY <1>1
<1>7. CASE n = 0
  <2>1. Len(s) = 1 /\ s[1] = in[i]
    BY <1>2, <1>6, <1>7
  <2>2. WellFormed(s) <=> Shape0(s[1])
    BY <1>3, <2>1, WellFormedLengths
  <2>3. Shape(in, i, 0) <=> Shape0(in[i])
    BY ShapeOfLength
  <2>. QED
    BY <1>7, <2>1, <2>2, <2>3
<1>8. CASE n = 1
  <2>1. Len(s) = 2 /\ s[1] = in[i] /\ s[2] = in[i + 1]
    BY <1>2, <1>6, <1>8
  <2>2. WellFormed(s) <=> Shape1(s[1], s[2])
    BY <1>3, <2>1, WellFormedLengths
  <2>3. Shape(in, i, 1) <=> Shape1(in[i], in[i + 1])
    BY ShapeOfLength
  <2>. QED
    BY <1>8, <2>1, <2>2, <2>3
<1>9. CASE n = 2
  <2>1. Len(s) = 3 /\ s[1] = in[i] /\ s[2] = in[i + 1] /\ s[3] = in[i + 2]
    BY <1>2, <1>6, <1>9
  <2>2. WellFormed(s) <=> Shape2(s[1], s[2], s[3])
    BY <1>3, <2>1, WellFormedLengths
  <2>3. Shape(in, i, 2) <=> Shape2(in[i], in[i + 1], in[i + 2])
    BY ShapeOfLength
  <2>. QED
    BY <1>9, <2>1, <2>2, <2>3
<1>10. CASE n = 3
  <2>1. Len(s) = 4 /\ s[1] = in[i] /\ s[2] = in[i + 1] /\ s[3] = in[i + 2] /\ s[4] = in[i + 3]
    BY <1>2, <1>6, <1>10
  <2>2. WellFormed(s) <=> Shape3(s[1], s[2], s[3], s[4])
    BY <1>3, <2>1, WellFormedLengths
  <2>3. Shape(in, i, 3) <=> Shape3(in[i], in[i + 1], in[i + 2], in[i + 3])
    BY ShapeOfLength
  <2>. QED
    BY <1>10, <2>1, <2>2, <2>3
<1>11. CASE n \notin {0, 1, 2, 3}
  BY <1>4, <1>5, <1>11
<1>. QED
  BY <1>7, <1>8, <1>9, <1>10, <1>11

LEMMA OctetsAreNumbers ==
    ASSUME NEW in \in Seq(Octets)
    PROVE  in \in Seq(Nat) /\ \A k \in 1 .. Len(in) : in[k] \in Octets /\ in[k] \in Nat
<1> DEFINE X == Octets
<1>1. X \subseteq Nat
  BY DEF Octets
<1> HIDE DEF X
<1>2. in \in Seq(X)
  BY DEF X
<1>3. \A k \in 1 .. Len(in) : in[k] \in X
  BY <1>2
<1>4. \A k \in 1 .. Len(in) : in[k] \in Nat
  BY <1>1, <1>3
<1>5. in \in Seq(Nat)
  BY <1>2, <1>4
<1>. QED
  BY <1>3, <1>4, <1>5 DEF X

NeedsOf(b, n) ==
    /\ n \in {-1, 0, 1, 2, 3}
    /\ n = 0 <=> b \in 0 .. 127
    /\ n = 1 <=> b \in 192 .. 223
    /\ n = 2 <=> b \in 224 .. 239
    /\ n = 3 <=> b \in 240 .. 247

LEMMA NeedsAre == ASSUME NEW b \in Octets PROVE NeedsOf(b, Need(b))
  BY Needs DEF NeedsOf

(* The code point of a character of up to four bytes, byte by byte.        *)
CodedUpTo(in, i, lead, k) == CodePoint(lead, SubSeq(in, i + 1, i + k))

PartsOf(in, i, lead) ==
    /\ CodedUpTo(in, i, lead, 0) = lead
    /\ i + 1 <= Len(in) => CodedUpTo(in, i, lead, 1) = lead * 64 + (in[i + 1] % 64)
    /\ i + 2 <= Len(in) =>
          CodedUpTo(in, i, lead, 2) = CodedUpTo(in, i, lead, 1) * 64 + (in[i + 2] % 64)
    /\ i + 3 <= Len(in) =>
          CodedUpTo(in, i, lead, 3) = CodedUpTo(in, i, lead, 2) * 64 + (in[i + 3] % 64)

LEMMA CodedInParts ==
    ASSUME NEW in \in Seq(Nat), NEW i \in 1 .. Len(in), NEW lead \in Nat
    PROVE  PartsOf(in, i, lead)
<1>1. /\ CodePoint(lead, SubSeq(in, i + 1, i)) = lead
      /\ \A k \in Nat : i + k + 1 <= Len(in) =>
            CodePoint(lead, SubSeq(in, i + 1, i + k + 1))
               = CodePoint(lead, SubSeq(in, i + 1, i + k)) * 64 + (in[i + k + 1] % 64)
  <2>1. CodePointsOf(in, i, lead)
    BY CodePoints
  <2>. QED
    BY <2>1 DEF CodePointsOf
<1>2. i + 0 = i /\ i + 0 + 1 = i + 1 /\ i + 1 + 1 = i + 2 /\ i + 2 + 1 = i + 3
  OBVIOUS
<1>3. 0 \in Nat /\ 1 \in Nat /\ 2 \in Nat
  OBVIOUS
<1> DEFINE C(k) == CodedUpTo(in, i, lead, k)
<1>4. C(0) = lead
  BY <1>1, <1>2 DEF CodedUpTo
<1>5. i + 1 <= Len(in) => C(1) = lead * 64 + (in[i + 1] % 64)
  BY <1>1, <1>2, <1>3, <1>4 DEF CodedUpTo
<1>6. i + 2 <= Len(in) => C(2) = C(1) * 64 + (in[i + 2] % 64)
  BY <1>1, <1>2, <1>3 DEF CodedUpTo
<1>7. i + 3 <= Len(in) => C(3) = C(2) * 64 + (in[i + 3] % 64)
  BY <1>1, <1>2, <1>3 DEF CodedUpTo
<1>. QED
  BY <1>4, <1>5, <1>6, <1>7 DEF PartsOf

(* utf8_validate rejects what does not begin a well-formed character.      *)
LEMMA RejectedBytes ==
    ASSUME NEW in \in Seq(Octets), NEW i \in 1 .. Len(in)
    PROVE  Rejected(Surrogates, in, i) <=>
             ~ (/\ Need(in[i]) # -1 /\ i + Need(in[i]) <= Len(in)
                /\ Shape(in, i, Need(in[i])))
<1> DEFINE b == in[i]
           n == Need(b)
           h == in[i + 1]
           d == in[i + 2]
           e == in[i + 3]
           cp(k) == CodePoint(b % LeadMask[n], SubSeq(in, i + 1, i + k))
<1>1. in \in Seq(Nat) /\ b \in Octets /\ b \in Nat
  BY OctetsAreNumbers
<1>2. n \in {-1, 0, 1, 2, 3}
      /\ (n = 0 <=> b \in 0 .. 127) /\ (n = 1 <=> b \in 192 .. 223)
      /\ (n = 2 <=> b \in 224 .. 239) /\ (n = 3 <=> b \in 240 .. 247)
  <2>1. NeedsOf(b, n)
    BY <1>1, NeedsAre
  <2> HIDE DEF b, n
  <2>. QED
    BY <2>1 DEF NeedsOf
<1>3. Rejected(Surrogates, in, i) <=>
         ~ (n # -1 /\ n <= Len(in) - i /\ (\A k \in 1 .. n : in[i + k] \in Behind) /\ Legal(n, cp(n)))
  <2> DEFINE bad == \E k \in 1 .. n : in[i + k] \notin Behind
             low == cp(n) < Lowest[n] \/ cp(n) \in Surrogates \/ cp(n) > 1114111
  <2>1. Rejected(Surrogates, in, i) <=> n = -1 \/ n > Len(in) - i \/ bad \/ low
    BY DEF Rejected, Behind
  <2>2. Legal(n, cp(n)) <=> ~ low
    BY DEF Legal
  <2>3. bad <=> ~ (\A k \in 1 .. n : in[i + k] \in Behind)
    OBVIOUS
  <2>4. n > Len(in) - i <=> ~ (n <= Len(in) - i)
    <3>1. Len(in) \in Int /\ i \in Int
      OBVIOUS
    <3>2. n \in Int
      BY <1>2
    <3> HIDE DEF n
    <3>. QED
      BY <3>1, <3>2
  <2> HIDE DEF low, bad, n
  <2>. QED
    BY <2>1, <2>2, <2>3, <2>4
<1>4. LeadMask[0] = 128 /\ LeadMask[1] = 32 /\ LeadMask[2] = 16 /\ LeadMask[3] = 8
  BY DEF LeadMask
<1>5. i \in Nat /\ Len(in) \in Nat
  OBVIOUS
<1>6. n # -1 => (n <= Len(in) - i <=> i + n <= Len(in))
  <2> HIDE DEF n
  <2> DEFINE l == Len(in)
  <2>1. l \in Int /\ i \in Int /\ (n # -1 => n \in Int)
    BY <1>2, <1>5
  <2> HIDE DEF l
  <2>2. n # -1 => (n <= l - i <=> i + n <= l)
    BY <2>1
  <2>. QED
    BY <2>2 DEF l
<1> HIDE DEF Octets
<1>7. ASSUME n \in {0, 1, 2, 3}
      PROVE  /\ cp(0) = b % LeadMask[n]
             /\ i + 1 <= Len(in) => cp(1) = cp(0) * 64 + (h % 64)
             /\ i + 2 <= Len(in) => cp(2) = cp(1) * 64 + (d % 64)
             /\ i + 3 <= Len(in) => cp(3) = cp(2) * 64 + (e % 64)
  <2> DEFINE lead == b % LeadMask[n]
  <2>1. lead \in Nat
    <3> HIDE DEF b, n
    <3>1. LeadMask[n] \in {128, 32, 16, 8}
      BY <1>4, <1>7
    <3>. QED
      BY <1>1, <3>1
  <2> HIDE DEF lead
  <2>2. PartsOf(in, i, lead)
    BY <1>1, <2>1, CodedInParts
  <2>. QED
    BY <2>2 DEF PartsOf, CodedUpTo, lead, h, d, e
<1> DEFINE R == Rejected(Surrogates, in, i)
<1> SUFFICES R <=> ~ (n # -1 /\ i + n <= Len(in) /\ Shape(in, i, n))
  OBVIOUS
<1>8. /\ Shape(in, i, 0) <=> Shape0(b)
      /\ Shape(in, i, 1) <=> Shape1(b, h)
      /\ Shape(in, i, 2) <=> Shape2(b, h, d)
      /\ Shape(in, i, 3) <=> Shape3(b, h, d, e)
  BY ShapeOfLength
<1>9. /\ \A k \in 1 .. 1 : k = 1
      /\ \A k \in 1 .. 2 : k = 1 \/ k = 2
      /\ \A k \in 1 .. 3 : k = 1 \/ k = 2 \/ k = 3
  OBVIOUS
<1> HIDE DEF R, n, b, h, d, e
<1>10. CASE n = -1
  BY <1>3, <1>10 DEF R
<1>11. CASE n = 0
  <2>1. b \in 0 .. 127
    BY <1>2, <1>11
  <2>2. Legal(0, b % 128)
    BY <2>1, OneByte
  <2>3. cp(0) = b % 128
    BY <1>4, <1>7, <1>11
  <2> HIDE DEF cp
  <2>4. R <=> ~ (i + n <= Len(in))
    BY <1>3, <1>6, <1>11, <2>2, <2>3 DEF R
  <2>5. Shape(in, i, n)
    BY <1>8, <1>11, <2>1 DEF Shape0
  <2>. QED
    BY <1>11, <2>4, <2>5
<1>12. CASE n = 1
  <2>1. b \in 192 .. 223 /\ i + n = i + 1
    BY <1>2, <1>12
  <2>20. n \in {0, 1, 2, 3} /\ LeadMask[n] = 32
    BY <1>4, <1>12
  <2>21. cp(0) = b % 32 /\ (i + 1 <= Len(in) => cp(1) = cp(0) * 64 + (h % 64))
    BY <1>7, <2>20
  <2> HIDE DEF cp
  <2>3. (\A k \in 1 .. n : in[i + k] \in Behind) <=> h \in Behind
    BY <1>9, <1>12 DEF h
  <2>4. i + 1 <= Len(in) /\ h \in Behind => (Legal(1, cp(1)) <=> b \in 194 .. 223)
    <3> SUFFICES ASSUME i + 1 <= Len(in), h \in Behind PROVE Legal(1, cp(1)) <=> b \in 194 .. 223
      OBVIOUS
    <3>1. CodedInTwo(cp(1), b, h)
      <4> HIDE DEF b, h
      <4>. QED
        BY <2>1, <2>21 DEF CodedInTwo
    <3>. QED
      BY <3>1, TwoBytes
  <2>5. R <=> ~ (i + 1 <= Len(in) /\ h \in Behind /\ Legal(1, cp(1)))
    BY <1>3, <1>6, <1>12, <2>1, <2>3 DEF R
  <2>6. Shape(in, i, n) <=> b \in 194 .. 223 /\ h \in Behind
    BY <1>8, <1>12 DEF Shape1
  <2>. QED
    BY <1>12, <2>1, <2>4, <2>5, <2>6
<1>13. CASE n = 2
  <2>1. b \in 224 .. 239 /\ i + n = i + 2 /\ (i + 2 <= Len(in) => i + 1 <= Len(in))
    BY <1>2, <1>5, <1>13
  <2>20. n \in {0, 1, 2, 3} /\ LeadMask[n] = 16
    BY <1>4, <1>13
  <2>21. /\ cp(0) = b % 16
         /\ i + 1 <= Len(in) => cp(1) = cp(0) * 64 + (h % 64)
         /\ i + 2 <= Len(in) => cp(2) = cp(1) * 64 + (d % 64)
    BY <1>7, <2>20
  <2> HIDE DEF cp
  <2>3. (\A k \in 1 .. n : in[i + k] \in Behind) <=> h \in Behind /\ d \in Behind
    BY <1>9, <1>13 DEF h, d
  <2>4. i + 2 <= Len(in) /\ h \in Behind /\ d \in Behind =>
          (Legal(2, cp(2)) <=> (b = 224 => h >= 160) /\ (b = 237 => h < 160))
    <3> SUFFICES ASSUME i + 2 <= Len(in), h \in Behind, d \in Behind
                 PROVE  Legal(2, cp(2)) <=> (b = 224 => h >= 160) /\ (b = 237 => h < 160)
      OBVIOUS
    <3>1. CodedInThree(cp(2), b, h, d)
      <4> HIDE DEF b, h, d
      <4>. QED
        BY <2>1, <2>21 DEF CodedInThree
    <3>. QED
      BY <3>1, ThreeBytes
  <2>5. R <=> ~ (i + 2 <= Len(in) /\ h \in Behind /\ d \in Behind /\ Legal(2, cp(2)))
    BY <1>3, <1>6, <1>13, <2>1, <2>3 DEF R
  <2>6. Shape(in, i, n) <=> h \in Behind /\ d \in Behind /\ (b = 224 => h >= 160) /\ (b = 237 => h < 160)
    BY <1>8, <1>13, <2>1 DEF Shape2
  <2>. QED
    BY <1>13, <2>1, <2>4, <2>5, <2>6
<1>14. CASE n = 3
  <2>1. b \in 240 .. 247 /\ i + n = i + 3
        /\ (i + 3 <= Len(in) => i + 1 <= Len(in) /\ i + 2 <= Len(in))
    <3>1. b \in 240 .. 247
      BY <1>2, <1>14
    <3> DEFINE l == Len(in)
    <3>2. l \in Nat /\ i \in Nat
      BY <1>5
    <3> HIDE DEF l
    <3>3. i + 3 <= l => i + 1 <= l /\ i + 2 <= l
      BY <3>2
    <3>. QED
      BY <1>14, <3>1, <3>3 DEF l
  <2>2. i + 3 <= Len(in) => cp(3) = (((b % 8) * 64 + (h % 64)) * 64 + (d % 64)) * 64 + (e % 64)
    <3>1. cp(0) = b % 8
      BY <1>4, <1>7, <1>14
    <3> HIDE DEF cp
    <3>2. i + 3 <= Len(in) => /\ cp(1) = cp(0) * 64 + (h % 64)
                              /\ cp(2) = cp(1) * 64 + (d % 64)
                              /\ cp(3) = cp(2) * 64 + (e % 64)
      BY <1>7, <1>14, <2>1
    <3>. QED
      BY <3>1, <3>2
  <2> HIDE DEF cp
  <2>3. (\A k \in 1 .. n : in[i + k] \in Behind) <=> h \in Behind /\ d \in Behind /\ e \in Behind
    BY <1>9, <1>14 DEF h, d, e
  <2>4. i + 3 <= Len(in) /\ h \in Behind /\ d \in Behind /\ e \in Behind =>
          (Legal(3, cp(3)) <=> b \in 240 .. 244 /\ (b = 240 => h >= 144) /\ (b = 244 => h < 144))
    <3> SUFFICES ASSUME i + 3 <= Len(in), h \in Behind, d \in Behind, e \in Behind
                 PROVE  Legal(3, cp(3)) <=> b \in 240 .. 244 /\ (b = 240 => h >= 144) /\ (b = 244 => h < 144)
      OBVIOUS
    <3>1. CodedInFour(cp(3), b, h, d, e)
      <4> HIDE DEF b, h, d, e
      <4>. QED
        BY <2>1, <2>2 DEF CodedInFour
    <3>. QED
      BY <3>1, FourBytes
  <2>5. R <=> ~ (i + 3 <= Len(in) /\ h \in Behind /\ d \in Behind /\ e \in Behind /\ Legal(3, cp(3)))
    BY <1>3, <1>6, <1>14, <2>1, <2>3 DEF R
  <2>6. Shape(in, i, n) <=> h \in Behind /\ d \in Behind /\ e \in Behind
                              /\ b \in 240 .. 244 /\ (b = 240 => h >= 144) /\ (b = 244 => h < 144)
    BY <1>8, <1>14 DEF Shape3
  <2>. QED
    BY <1>14, <2>1, <2>4, <2>5, <2>6
<1>. QED
  BY <1>2, <1>10, <1>11, <1>12, <1>13, <1>14

LEMMA OnlyItsLength ==
    ASSUME NEW in \in Seq(Octets), NEW i \in 1 .. Len(in), NEW n, Shape(in, i, n)
    PROVE  n = Need(in[i])
<1> DEFINE b == in[i]
<1>1. b \in Octets
  <2> HIDE DEF Octets
  <2>. QED
    OBVIOUS
<1> HIDE DEF b
<1>2. n \in {0, 1, 2, 3}
  BY ShapeOfLength
<1>3. /\ n = 0 => Shape0(b)
      /\ n = 1 => b \in 194 .. 223
      /\ n = 2 => b \in 224 .. 239
      /\ n = 3 => b \in 240 .. 244
  BY DEF Shape, Shape1, Shape2, Shape3, b
<1>4. /\ b \in 0 .. 127 => Need(b) = 0
      /\ b \in 192 .. 223 => Need(b) = 1
      /\ b \in 224 .. 239 => Need(b) = 2
      /\ b \in 240 .. 247 => Need(b) = 3
  <2>1. NeedsOf(b, Need(b))
    BY <1>1, NeedsAre
  <2>. QED
    BY <2>1 DEF NeedsOf
<1>5. b \in 194 .. 223 => b \in 192 .. 223
  OBVIOUS
<1>6. b \in 240 .. 244 => b \in 240 .. 247
  OBVIOUS
<1>7. n = Need(b)
  <2>1. n = 0 => b \in 0 .. 127
    BY <1>3 DEF Shape0
  <2>2. n = 1 => b \in 192 .. 223
    BY <1>3, <1>5
  <2>3. n = 3 => b \in 240 .. 247
    BY <1>3, <1>6
  <2>4. n = 2 => b \in 224 .. 239
    BY <1>3
  <2>5. CASE n = 0
    BY <1>4, <2>1, <2>5
  <2>6. CASE n = 1
    BY <1>4, <2>2, <2>6
  <2>7. CASE n = 2
    BY <1>4, <2>4, <2>7
  <2>8. CASE n = 3
    BY <1>4, <2>3, <2>8
  <2>. QED
    BY <1>2, <2>5, <2>6, <2>7, <2>8
<1>. QED
  BY <1>7 DEF b

(* What utf8_validate does with the byte at position i.                    *)
LEMMA CharacterAt ==
    ASSUME NEW in \in Seq(Octets), NEW i \in 1 .. Len(in)
    PROVE  /\ Rejected(Surrogates, in, i) =>
                 \A j \in i .. Len(in) : ~ WellFormed(SubSeq(in, i, j))
           /\ ~ Rejected(Surrogates, in, i) =>
                 /\ i + Need(in[i]) \in i .. Len(in)
                 /\ WellFormed(SubSeq(in, i, i + Need(in[i])))
                 /\ \A j \in i .. Len(in) : WellFormed(SubSeq(in, i, j)) => j = i + Need(in[i])
<1> DEFINE n == Need(in[i])
<1>1. in \in Seq(Nat) /\ in[i] \in Octets
  BY OctetsAreNumbers
<1>2. n \in {-1, 0, 1, 2, 3}
  BY <1>1, Needs
<1>3. Rejected(Surrogates, in, i) <=> ~ (n # -1 /\ i + n <= Len(in) /\ Shape(in, i, n))
  BY RejectedBytes
<1>4. i \in Nat /\ Len(in) \in Nat
  OBVIOUS
<1>5. ASSUME NEW j \in i .. Len(in), WellFormed(SubSeq(in, i, j))
      PROVE  j = i + n /\ Shape(in, i, n) /\ n \in Nat
  <2> DEFINE m == j - i
  <2>1. m \in Nat /\ j = i + m /\ i + m <= Len(in)
    BY <1>4
  <2> HIDE DEF m
  <2>2. Shape(in, i, m)
    BY <1>1, <1>5, <2>1, WellFormedIsShape
  <2>3. m = n
    BY <2>2, OnlyItsLength
  <2>. QED
    BY <2>1, <2>2, <2>3
<1>6. ASSUME Rejected(Surrogates, in, i), NEW j \in i .. Len(in) PROVE ~ WellFormed(SubSeq(in, i, j))
  <2> SUFFICES ASSUME WellFormed(SubSeq(in, i, j)) PROVE FALSE
    OBVIOUS
  <2>1. j = i + n /\ Shape(in, i, n) /\ n \in Nat
    BY <1>5
  <2> HIDE DEF n
  <2>2. n # -1 /\ i + n <= Len(in)
    BY <1>4, <2>1
  <2>. QED
    BY <1>3, <1>6, <2>1, <2>2
<1>7. ASSUME ~ Rejected(Surrogates, in, i)
      PROVE  i + n \in i .. Len(in) /\ WellFormed(SubSeq(in, i, i + n))
  <2> HIDE DEF n
  <2>1. n \in Nat /\ i + n <= Len(in) /\ Shape(in, i, n)
    BY <1>2, <1>3, <1>7
  <2>2. WellFormed(SubSeq(in, i, i + n))
    BY <1>1, <2>1, WellFormedIsShape
  <2>. QED
    BY <1>4, <2>1, <2>2
<1>. QED
  BY <1>5, <1>6, <1>7

Earlier(cuts, j) == {0} \union {i \in cuts : i < j}

(* cuts is where the first n bytes are cut into characters.                *)
AreCuts(in, n, cuts) ==
    /\ cuts \in SUBSET (1 .. n) /\ (n > 0 => n \in cuts)
    /\ \A j \in cuts : WellFormed(SubSeq(in, Max(Earlier(cuts, j)) + 1, j))

LEMMA SplitsByCuts ==
    ASSUME NEW in, NEW n, NEW k
    PROVE  Splits(in, n, k) <=> \E cuts : AreCuts(in, n, cuts) /\ Cardinality(cuts) = k
  BY DEF Splits, AreCuts, Earlier

LEMMA CutsAreFinite ==
    ASSUME NEW in, NEW n \in Nat, NEW cuts, AreCuts(in, n, cuts)
    PROVE  IsFiniteSet(cuts) /\ Cardinality(cuts) \in Nat
<1>1. cuts \subseteq 1 .. n
  BY DEF AreCuts
<1>2. IsFiniteSet(1 .. n)
  <2>1. 1 \in Int /\ n \in Int
    OBVIOUS
  <2>. QED
    BY <2>1, FS_Interval
<1>3. IsFiniteSet(cuts)
  BY <1>1, <1>2, FS_Subset
<1>. QED
  BY <1>3, FS_CardinalityType

LEMMA NothingSplits ==
    ASSUME NEW in, NEW k
    PROVE  Splits(in, 0, k) <=> k = 0
<1>1. AreCuts(in, 0, {})
  BY DEF AreCuts
<1>2. \A cuts : AreCuts(in, 0, cuts) => cuts = {}
  BY DEF AreCuts
<1>3. Cardinality({}) = 0
  BY FS_EmptySet
<1>. QED
  BY <1>1, <1>2, <1>3, SplitsByCuts

LEMMA LastCharacter ==
    ASSUME NEW in, NEW n \in Nat, n > 0, NEW k, Splits(in, n, k)
    PROVE  /\ k \in Nat \ {0}
           /\ \E m \in 0 .. (n - 1) : Splits(in, m, k - 1) /\ WellFormed(SubSeq(in, m + 1, n))
<1>1. PICK cuts : AreCuts(in, n, cuts) /\ Cardinality(cuts) = k
  BY SplitsByCuts
<1>2. IsFiniteSet(cuts) /\ k \in Nat
  BY <1>1, CutsAreFinite
<1>3. cuts \subseteq 1 .. n /\ n \in cuts
  BY <1>1 DEF AreCuts
<1> DEFINE E == Earlier(cuts, n)
           front == cuts \ {n}
<1>4. E = {0} \union front
  <2>1. \A i \in cuts : i < n <=> i # n
    BY <1>3
  <2>. QED
    BY <2>1 DEF Earlier
<1> DEFINE m == Max(E)
<1>5. m \in E /\ \A i \in E : i <= m
  <2>1. E \subseteq Int /\ 0 \in E
    BY <1>3, <1>4
  <2>2. IsFiniteSet(E)
    <3>1. IsFiniteSet(front) /\ IsFiniteSet({0})
      BY <1>2, FS_Subset, FS_Singleton
    <3>. QED
      BY <1>4, <3>1, FS_Union
  <2> HIDE DEF E
  <2>. QED
    BY <2>1, <2>2, MaxInSet
<1>6. Max(E) = m
  OBVIOUS
<1> HIDE DEF m
<1>7. m \in 0 .. (n - 1)
  <2>1. \A i \in 1 .. n : i # n => i \in 0 .. (n - 1)
    OBVIOUS
  <2>2. 0 \in 0 .. (n - 1)
    OBVIOUS
  <2>3. m = 0 \/ (m \in 1 .. n /\ m # n)
    <3>1. m \in {0} \union front
      BY <1>4, <1>5
    <3>. QED
      BY <1>3, <3>1
  <2> HIDE DEF E
  <2>. QED
    BY <2>1, <2>2, <2>3
<1>8. front \subseteq 1 .. m /\ (m > 0 => m \in front)
  BY <1>3, <1>4, <1>5
<1>9. WellFormed(SubSeq(in, m + 1, n))
  <2>1. WellFormed(SubSeq(in, Max(E) + 1, n))
    BY <1>1, <1>3 DEF AreCuts
  <2>. QED
    BY <1>6, <2>1
<1>10. \A j \in front : Earlier(front, j) = Earlier(cuts, j)
  BY <1>3 DEF Earlier
<1>11. AreCuts(in, m, front)
  BY <1>1, <1>8, <1>10 DEF AreCuts
<1>12. Cardinality(front) = k - 1 /\ Cardinality(front) \in Nat
  <2>1. Cardinality(front) = Cardinality(cuts) - 1
    BY <1>2, <1>3, FS_RemoveElement
  <2>2. Cardinality(front) \in Nat
    BY <1>7, <1>11, CutsAreFinite
  <2>. QED
    BY <1>1, <2>1, <2>2
<1>13. Splits(in, m, k - 1)
  BY <1>11, <1>12, SplitsByCuts
<1>14. k # 0
  BY <1>2, <1>12
<1>. QED
  BY <1>2, <1>7, <1>9, <1>13, <1>14

LEMMA AnotherCharacter ==
    ASSUME NEW in, NEW m \in Nat, NEW n \in Nat, m < n, NEW k, Splits(in, m, k),
           WellFormed(SubSeq(in, m + 1, n))
    PROVE  k \in Nat /\ Splits(in, n, k + 1)
<1>1. PICK cuts : AreCuts(in, m, cuts) /\ Cardinality(cuts) = k
  BY SplitsByCuts
<1>2. IsFiniteSet(cuts) /\ k \in Nat
  BY <1>1, CutsAreFinite
<1>3. cuts \subseteq 1 .. m /\ (m > 0 => m \in cuts)
  BY <1>1 DEF AreCuts
<1> DEFINE more == cuts \union {n}
<1>4. n \notin cuts
  BY <1>3
<1>5. more \subseteq 1 .. n /\ n \in more
  BY <1>3
<1>6. Earlier(more, n) = {0} \union cuts
  <2>1. (\A i \in cuts : i < n) /\ ~ (n < n)
    BY <1>3
  <2>. QED
    BY <2>1 DEF Earlier
<1>7. \A j \in cuts : Earlier(more, j) = Earlier(cuts, j)
  BY <1>3 DEF Earlier
<1>8. Max(Earlier(more, n)) = m
  <2> DEFINE S == {0} \union cuts
  <2>1. S \subseteq Int /\ m \in S /\ \A i \in S : i <= m
    BY <1>3
  <2> HIDE DEF S
  <2>2. Max(S) = m
    BY <2>1, GreatestOf
  <2>. QED
    BY <1>6, <2>2 DEF S
<1>9. \A j \in more : WellFormed(SubSeq(in, Max(Earlier(more, j)) + 1, j))
  <2> SUFFICES ASSUME NEW j \in more PROVE WellFormed(SubSeq(in, Max(Earlier(more, j)) + 1, j))
    OBVIOUS
  <2>1. CASE j \in cuts
    BY <1>1, <1>7, <2>1 DEF AreCuts
  <2>2. CASE j = n
    BY <1>8, <2>2
  <2>. QED
    BY <2>1, <2>2
<1>10. AreCuts(in, n, more)
  BY <1>5, <1>9 DEF AreCuts
<1>11. Cardinality(more) = k + 1
  BY <1>1, <1>2, <1>4, FS_AddElement
<1>. QED
  BY <1>2, <1>10, <1>11, SplitsByCuts

(* There is one way to cut a text into so many characters, and every cut   *)
(* of a text is also one of each longer text.                              *)
LEMMA OneWay ==
    ASSUME NEW in \in Seq(Octets)
    PROVE  \A k \in Nat : \A i, j \in 0 .. Len(in) : Splits(in, i, k) /\ Splits(in, j, k) => i = j
<1> DEFINE l == Len(in)
           T == {k \in Nat : \A i, j \in 0 .. l : Splits(in, i, k) /\ Splits(in, j, k) => i = j}
<1>0. l \in Nat
  OBVIOUS
<1>1. 0 \in T
  <2>1. \A i \in 0 .. l : Splits(in, i, 0) => i = 0
    <3> SUFFICES ASSUME NEW i \in 0 .. l, Splits(in, i, 0), i # 0 PROVE FALSE
      OBVIOUS
    <3>1. i \in Nat /\ i > 0
      BY <1>0
    <3>2. 0 \in Nat \ {0}
      BY <3>1, LastCharacter
    <3>. QED
      BY <3>2
  <2>. QED
    BY <2>1
<1>2. ASSUME NEW k \in Nat, k \in T PROVE k + 1 \in T
  <2> DEFINE k1 == k + 1
  <2>1. k1 \in Nat /\ k1 # 0 /\ k1 - 1 = k
    OBVIOUS
  <2> HIDE DEF k1
  <2>2. ASSUME NEW i \in 0 .. l, Splits(in, i, k1)
        PROVE  \E m \in 0 .. l : m + 1 \in 1 .. l /\ i \in (m + 1) .. l /\ Splits(in, m, k)
                                 /\ WellFormed(SubSeq(in, m + 1, i))
    <3>1. i # 0
      BY <2>1, <2>2, NothingSplits
    <3>2. i \in Nat /\ i > 0
      BY <1>0, <3>1
    <3>3. PICK m \in 0 .. (i - 1) : Splits(in, m, k) /\ WellFormed(SubSeq(in, m + 1, i))
      BY <2>1, <2>2, <3>2, LastCharacter
    <3>4. m \in 0 .. l /\ m + 1 \in 1 .. l /\ i \in (m + 1) .. l
      BY <1>0, <3>2
    <3>. QED
      BY <3>3, <3>4
  <2>3. ASSUME NEW i \in 0 .. l, NEW j \in 0 .. l, Splits(in, i, k1), Splits(in, j, k1) PROVE i = j
    <3>1. PICK m \in 0 .. l : m + 1 \in 1 .. l /\ i \in (m + 1) .. l /\ Splits(in, m, k)
                              /\ WellFormed(SubSeq(in, m + 1, i))
      BY <2>2, <2>3
    <3>2. PICK p \in 0 .. l : p + 1 \in 1 .. l /\ j \in (p + 1) .. l /\ Splits(in, p, k)
                              /\ WellFormed(SubSeq(in, p + 1, j))
      BY <2>2, <2>3
    <3>3. m = p
      BY <1>2, <3>1, <3>2
    <3> DEFINE at == m + 1
    <3>4. at \in 1 .. l /\ i \in at .. l /\ j \in at .. l
          /\ WellFormed(SubSeq(in, at, i)) /\ WellFormed(SubSeq(in, at, j))
      BY <3>1, <3>2, <3>3
    <3> HIDE DEF at
    <3>5. Rejected(Surrogates, in, at) => ~ WellFormed(SubSeq(in, at, i))
      BY <3>4, CharacterAt
    <3>6. ~ Rejected(Surrogates, in, at) => i = at + Need(in[at]) /\ j = at + Need(in[at])
      BY <3>4, CharacterAt
    <3>. QED
      BY <3>4, <3>5, <3>6
  <2>. QED
    BY <2>1, <2>3 DEF k1
<1>3. Nat \subseteq T
  <2> HIDE DEF T
  <2>. QED
    BY <1>1, <1>2, NatSetInduction
<1>. QED
  BY <1>3

LEMMA EveryCut ==
    ASSUME NEW in, NEW p \in Nat
    PROVE  \A k \in Nat : \A j \in 0 .. p : Splits(in, j, k) =>
              \A l \in 0 .. k : \E i \in 0 .. j : Splits(in, i, l) /\ (l < k => i < j)
<1> DEFINE Reached(k, j) == \A l \in 0 .. k : \E i \in 0 .. j : Splits(in, i, l) /\ (l < k => i < j)
           T == {k \in Nat : \A j \in 0 .. p : Splits(in, j, k) => Reached(k, j)}
<1>1. 0 \in T
  <2> SUFFICES ASSUME NEW j \in 0 .. p, Splits(in, j, 0), NEW l \in 0 .. 0
               PROVE  \E i \in 0 .. j : Splits(in, i, l) /\ (l < 0 => i < j)
    OBVIOUS
  <2>1. l = 0 /\ j \in 0 .. j
    OBVIOUS
  <2>. QED
    BY <2>1
<1>2. ASSUME NEW k \in Nat, k \in T PROVE k + 1 \in T
  <2> DEFINE k1 == k + 1
  <2>1. k1 \in Nat /\ k1 # 0 /\ k1 - 1 = k /\ \A l \in 0 .. k1 : l = k1 \/ (l \in 0 .. k /\ l < k1)
    OBVIOUS
  <2> HIDE DEF k1
  <2> SUFFICES ASSUME NEW j \in 0 .. p, Splits(in, j, k1), NEW l \in 0 .. k1
               PROVE  \E i \in 0 .. j : Splits(in, i, l) /\ (l < k1 => i < j)
    BY <2>1 DEF k1
  <2>2. CASE l = k1
    <3>1. j \in 0 .. j /\ ~ (l < k1)
      BY <2>1, <2>2
    <3>. QED
      BY <2>2, <3>1
  <2>3. CASE l \in 0 .. k /\ l < k1
    <3>1. j # 0
      BY <2>1, NothingSplits
    <3>2. j \in Nat /\ j > 0
      BY <3>1
    <3>3. PICK m \in 0 .. (j - 1) : Splits(in, m, k)
      BY <2>1, <3>2, LastCharacter
    <3>4. m \in 0 .. p /\ m < j
      BY <3>2
    <3>5. PICK i \in 0 .. m : Splits(in, i, l)
      BY <1>2, <2>3, <3>3, <3>4
    <3>6. i \in 0 .. j /\ i < j
      BY <3>2, <3>4
    <3>. QED
      BY <3>5, <3>6
  <2>. QED
    BY <2>1, <2>2, <2>3
<1>3. Nat \subseteq T
  <2> HIDE DEF T
  <2>. QED
    BY <1>1, <1>2, NatSetInduction
<1>. QED
  BY <1>3

ScanStates == [next : Nat, count : Nat, exit : {0, 1, 4}]
Positions(text) == 1 .. Len(text)

Scanned(max_points, in, s, i) == Utf8Step(max_points, Surrogates, in, s, i)

Scan(max_points, text, in) == Utf8Scan(max_points, Surrogates, text, in)

(* The cases of one byte.                                                  *)
Scans(max_points, in, s, i) ==
    LET t == Scanned(max_points, in, s, i)
    IN  /\ s.exit # 0 \/ i # s.next => t = s
        /\ s.exit = 0 /\ i = s.next /\ Rejected(Surrogates, in, i) =>
              t = [next |-> s.next, count |-> s.count, exit |-> 1]
        /\ s.exit = 0 /\ i = s.next /\ ~ Rejected(Surrogates, in, i) /\ s.count + 1 > max_points =>
              t = [next |-> s.next, count |-> s.count, exit |-> 4]
        /\ s.exit = 0 /\ i = s.next /\ ~ Rejected(Surrogates, in, i) /\ ~ (s.count + 1 > max_points) =>
              t = [next |-> i + Need(in[i]) + 1, count |-> s.count + 1, exit |-> 0]

LEMMA ScanCases ==
    ASSUME NEW max_points, NEW in, NEW s \in ScanStates, NEW i
    PROVE  Scans(max_points, in, s, i)
<1>1. s = [next |-> s.next, count |-> s.count, exit |-> s.exit]
  BY DEF ScanStates
<1>2. /\ [s EXCEPT !.exit = 1] = [next |-> s.next, count |-> s.count, exit |-> 1]
      /\ [s EXCEPT !.exit = 4] = [next |-> s.next, count |-> s.count, exit |-> 4]
  BY <1>1
<1> DEFINE t == Scanned(max_points, in, s, i)
           bad == Rejected(Surrogates, in, i)
           full == s.count + 1 > max_points
           n == i + Need(in[i]) + 1
<1>4. t = CASE s.exit # 0 \/ i # s.next -> s
            [] s.exit = 0 /\ i = s.next /\ bad -> [s EXCEPT !.exit = 1]
            [] OTHER -> IF full THEN [s EXCEPT !.exit = 4]
                        ELSE [next |-> n, count |-> s.count + 1, exit |-> 0]
  BY DEF Scanned, Utf8Step
<1> HIDE DEF t, bad, full, n
<1>5. s.exit # 0 \/ i # s.next => t = s
  BY <1>4
<1>6. s.exit = 0 /\ i = s.next /\ bad => t = [s EXCEPT !.exit = 1]
  BY <1>4
<1>7. s.exit = 0 /\ i = s.next /\ ~ bad /\ full => t = [s EXCEPT !.exit = 4]
  BY <1>4
<1>9. s.exit = 0 /\ i = s.next /\ ~ bad /\ ~ full => t = [next |-> n, count |-> s.count + 1, exit |-> 0]
  BY <1>4
<1>. QED
  BY <1>2, <1>5, <1>6, <1>7, <1>9 DEF Scans, t, bad, full, n

LEMMA ScannedType ==
    ASSUME NEW max_points \in Nat, NEW in \in Seq(Octets), NEW s \in ScanStates, NEW i \in Positions(in)
    PROVE  Scanned(max_points, in, s, i) \in ScanStates
<1> DEFINE n == i + Need(in[i])
           t == Scanned(max_points, in, s, i)
<1>1. Scans(max_points, in, s, i)
  BY ScanCases
<1>2. s.next \in Nat /\ s.count \in Nat /\ s.exit \in {0, 1, 4}
  BY DEF ScanStates
<1>3. i \in 1 .. Len(in) /\ i \in Nat /\ Len(in) \in Nat
  BY DEF Positions
<1>4. ~ Rejected(Surrogates, in, i) => n \in Nat
  <2>1. ~ Rejected(Surrogates, in, i) => n \in i .. Len(in)
    BY <1>3, CharacterAt
  <2> HIDE DEF n
  <2>. QED
    BY <1>3, <2>1
<1> HIDE DEF n, t
<1>5. CASE s.exit # 0 \/ i # s.next
  BY <1>1, <1>5 DEF Scans, t
<1>6. CASE s.exit = 0 /\ i = s.next /\ Rejected(Surrogates, in, i)
  <2>1. t = [next |-> s.next, count |-> s.count, exit |-> 1]
    BY <1>1, <1>6 DEF Scans, t
  <2>. QED
    BY <1>2, <2>1 DEF ScanStates, t
<1>7. CASE s.exit = 0 /\ i = s.next /\ ~ Rejected(Surrogates, in, i) /\ s.count + 1 > max_points
  <2>1. t = [next |-> s.next, count |-> s.count, exit |-> 4]
    BY <1>1, <1>7 DEF Scans, t
  <2>. QED
    BY <1>2, <2>1 DEF ScanStates, t
<1>8. CASE s.exit = 0 /\ i = s.next /\ ~ Rejected(Surrogates, in, i) /\ ~ (s.count + 1 > max_points)
  <2>1. t = [next |-> n + 1, count |-> s.count + 1, exit |-> 0]
    BY <1>1, <1>8 DEF Scans, t, n
  <2>2. n + 1 \in Nat /\ s.count + 1 \in Nat
    BY <1>2, <1>4, <1>8
  <2>. QED
    BY <2>1, <2>2 DEF ScanStates, t
<1>. QED
  BY <1>5, <1>6, <1>7, <1>8

(* Scans whose steps are those of utf8_validate on a text.                 *)
ScanStart == [next |-> 1, count |-> 0, exit |-> 0]

ScanRun(max_points, text) ==
    [p \in ScanStates \X Positions(text) |-> Scanned(max_points, text, p[1], p[2])]

ScansAs(max_points, excluded, text) ==
    \A s \in ScanStates, i \in Positions(text) :
        Utf8Step(max_points, excluded, text, s, i) = Scanned(max_points, text, s, i)

LEMMA ScanFolds ==
    ASSUME NEW max_points \in Nat, NEW text \in Seq(Octets), NEW excluded,
           ScansAs(max_points, excluded, text), NEW in \in Seq(Positions(text))
    PROVE  Utf8Scan(max_points, excluded, text, in) = Folded(ScanRun(max_points, text), ScanStart, in)
<1> DEFINE St == ScanStates
           X == Positions(text)
           base == ScanStart
           op(s, i) == Utf8Step(max_points, excluded, text, s, i)
           H == ScanRun(max_points, text)
           Law(g) == g = [S \in SUBSET DOMAIN in |->
                            IF S = {} THEN base ELSE LET x == Max(S) IN op(g[S \ {x}], in[x])]
<1>1. base \in St
  BY DEF ScanStates, ScanStart
<1>2. Utf8Scan(max_points, excluded, text, in) = (CHOOSE g : Law(g))[DOMAIN in]
  BY DEF FoldLeft, MapThenFoldSet, Utf8Scan, ScanStart
<1>3. \A s \in St, i \in X : H[<<s, i>>] = op(s, i)
  BY DEF ScansAs, ScanRun
<1>4. H \in [St \X X -> St]
  BY ScannedType DEF ScanRun
<1> HIDE DEF op, St, X, base, H
<1>5. in \in Seq(X)
  BY DEF X
<1>6. ASSUME NEW g, TypedRun(H, St, base, in, g) PROVE Law(g)
  <2>1. \A S \in SUBSET (1 .. Len(in)) :
           S # {} => H[<<g[S \ {Max(S)}], in[Max(S)]>>] = op(g[S \ {Max(S)}], in[Max(S)])
    BY <1>3, <1>5, <1>6, LastPosition DEF TypedRun
  <2>2. DOMAIN in = 1 .. Len(in)
    BY <1>5
  <2>. QED
    BY <1>6, <2>1, <2>2 DEF SetRun, TypedRun
<1>7. ASSUME NEW g, Law(g) PROVE Follows(X, St, H, base, in, g)
  <2>1. DOMAIN in = 1 .. Len(in)
    BY <1>5
  <2>2. \A S \in SUBSET (1 .. Len(in)) : g[S] = IF S = {} THEN base ELSE op(g[S \ {Max(S)}], in[Max(S)])
    BY <1>7, <2>1
  <2> HIDE DEF Law
  <2>. QED
    BY <1>1, <1>3, <1>4, <1>5, <2>2, LastPosition DEF Follows
<1> HIDE DEF Law
<1>8. PICK g : Law(g) /\ Utf8Scan(max_points, excluded, text, in) = g[DOMAIN in]
  BY <1>1, <1>2, <1>4, <1>5, <1>6, SetRunExists
<1>9. Follows(X, St, H, base, in, g)
  BY <1>7, <1>8
<1>10. g[DOMAIN in] = Folded(H, base, in)
  BY <1>5, <1>9, SetRunFolds
<1>. QED
  BY <1>8, <1>10 DEF H, base

(* utf8_validate, byte by byte.                                            *)
LEMMA ScanLaws ==
    ASSUME NEW max_points \in Nat, NEW text \in Seq(Octets)
    PROVE  /\ Scan(max_points, text, << >>) = [next |-> 1, count |-> 0, exit |-> 0]
           /\ \A q \in Seq(Positions(text)) : Scan(max_points, text, q) \in ScanStates
           /\ \A q \in Seq(Positions(text)), i \in Positions(text) :
                 Scan(max_points, text, Append(q, i)) = Scanned(max_points, text, Scan(max_points, text, q), i)
<1> DEFINE St == ScanStates
           X == Positions(text)
           base == [next |-> 1, count |-> 0, exit |-> 0]
           op(s, i) == Scanned(max_points, text, s, i)
           H == [p \in St \X X |-> op(p[1], p[2])]
<1>1. base \in St
  BY DEF ScanStates
<1>2. \A s \in St, i \in X : op(s, i) \in St
  BY ScannedType
<1>3. \A in \in Seq(X) : Scan(max_points, text, in) = Folded(H, base, in)
  <2>1. ScansAs(max_points, Surrogates, text)
    BY DEF ScansAs, Scanned
  <2>. QED
    BY <2>1, ScanFolds DEF Scan, ScanRun, ScanStart
<1> HIDE DEF op, St, X, base
<1>4. H \in [St \X X -> St] /\ \A s \in St, i \in X : H[<<s, i>>] = op(s, i)
  BY <1>2
<1> HIDE DEF H
<1>5. Folded(H, base, << >>) = base /\ << >> \in Seq(X)
  BY FoldedEmpty
<1>6. \A q \in Seq(X) : Folded(H, base, q) \in St
  BY <1>1, <1>4, FoldedType
<1>7. \A q \in Seq(X), i \in X : /\ Append(q, i) \in Seq(X)
                                /\ Folded(H, base, Append(q, i)) = H[<<Folded(H, base, q), i>>]
  BY FoldedAppend
<1>8. \A q \in Seq(X), i \in X : Scan(max_points, text, Append(q, i)) = op(Scan(max_points, text, q), i)
  BY <1>3, <1>4, <1>6, <1>7
<1>. QED
  BY <1>3, <1>5, <1>6, <1>8 DEF base, St, X, op

(* The first p positions of a text.                                        *)
UpTo(p) == [i \in 1 .. p |-> i]

LEMMA NextPosition ==
    ASSUME NEW l \in Nat, NEW p \in Nat, p < l
    PROVE  UpTo(p) \in Seq(1 .. l) /\ p + 1 \in 1 .. l /\ UpTo(p + 1) = Append(UpTo(p), p + 1)
<1> DEFINE X == 1 .. l
           s == UpTo(p)
           t == UpTo(p + 1)
           n == p + 1
           u == Append(s, n)
<1>1. s \in Seq(X) /\ Len(s) = p /\ \A k \in 1 .. p : s[k] = k
  <2>1. \A k \in 1 .. p : k \in X
    OBVIOUS
  <2> HIDE DEF X
  <2>. QED
    BY <2>1 DEF UpTo
<1>2. t \in Seq(X) /\ Len(t) = n /\ \A k \in 1 .. n : t[k] = k
  <2>1. \A k \in 1 .. n : k \in X
    OBVIOUS
  <2>2. n \in Nat /\ t = [k \in 1 .. n |-> k]
    BY DEF UpTo
  <2> HIDE DEF X, n, t
  <2>. QED
    BY <2>1, <2>2
<1>3. n \in X /\ n \in Nat /\ n = p + 1
  OBVIOUS
<1> HIDE DEF X, s, t, n
<1>4. u \in Seq(X) /\ Len(u) = p + 1 /\ u[p + 1] = n /\ \A k \in 1 .. p : u[k] = s[k]
  BY <1>1, <1>3
<1> HIDE DEF u
<1>5. \A k \in 1 .. Len(t) : t[k] = u[k]
  <2>1. \A k \in 1 .. n : k = n \/ k \in 1 .. p
    BY <1>3
  <2>. QED
    BY <1>1, <1>2, <1>3, <1>4, <2>1
<1>6. t = u
  BY <1>2, <1>3, <1>4, <1>5, SeqEqual
<1>. QED
  BY <1>1, <1>3, <1>6 DEF X, s, t, n, u

(* After p bytes: the characters so far, at most as many as it takes, and  *)
(* what follows them if it has stopped.                                    *)
ScannedTo(max_points, in, s, p) ==
    /\ s \in ScanStates
    /\ s.next \in 1 .. Len(in) + 1 /\ s.count <= max_points
    /\ Splits(in, s.next - 1, s.count)
    /\ s.exit = 0 => s.next > p
    /\ s.exit # 0 => s.next \in 1 .. Len(in)
    /\ s.exit = 1 => Rejected(Surrogates, in, s.next)
    /\ s.exit = 4 => ~ Rejected(Surrogates, in, s.next) /\ s.count = max_points

LEMMA ScansOn ==
    ASSUME NEW max_points \in Nat, NEW in \in Seq(Octets), NEW p \in Nat, p < Len(in), NEW s,
           ScannedTo(max_points, in, s, p)
    PROVE  ScannedTo(max_points, in, Scanned(max_points, in, s, p + 1), p + 1)
<1> DEFINE i == p + 1
           t == Scanned(max_points, in, s, i)
           n == i + Need(in[i])
           l == Len(in)
<1>1. l \in Nat /\ i \in 1 .. l /\ i \in Nat /\ i = p + 1
  OBVIOUS
<1> HIDE DEF i, l
<1>2. /\ s \in ScanStates /\ s.next \in 1 .. l + 1 /\ s.count <= max_points
      /\ Splits(in, s.next - 1, s.count)
      /\ (s.exit = 0 => s.next > p) /\ (s.exit # 0 => s.next \in 1 .. l)
      /\ (s.exit = 1 => Rejected(Surrogates, in, s.next))
      /\ (s.exit = 4 => ~ Rejected(Surrogates, in, s.next) /\ s.count = max_points)
  BY DEF ScannedTo, l
<1>3. s.next \in Nat /\ s.count \in Nat /\ s.exit \in {0, 1, 4}
  BY <1>2 DEF ScanStates
<1>4. Scans(max_points, in, s, i)
  BY <1>2, ScanCases
<1>5. t \in ScanStates
  BY <1>1, <1>2, ScannedType DEF Positions, l
<1>6. /\ Rejected(Surrogates, in, i) \/ (n \in i .. l /\ WellFormed(SubSeq(in, i, n)))
  BY <1>1, CharacterAt DEF l
<1> SUFFICES ScannedTo(max_points, in, t, i)
  BY DEF i
<1> HIDE DEF t, n
<1>7. CASE s.exit # 0 \/ i # s.next
  <2>1. t = s
    BY <1>4, <1>7 DEF Scans, t
  <2>2. s.exit = 0 => s.next > i
    BY <1>1, <1>2, <1>3, <1>7
  <2>. QED
    BY <1>2, <2>1, <2>2 DEF ScannedTo, l
<1>8. CASE s.exit = 0 /\ i = s.next /\ Rejected(Surrogates, in, i)
  <2>1. t = [next |-> s.next, count |-> s.count, exit |-> 1]
    BY <1>4, <1>8 DEF Scans, t
  <2>2. t.next = s.next /\ t.count = s.count /\ t.exit = 1
    BY <2>1
  <2>. QED
    BY <1>1, <1>2, <1>5, <1>8, <2>2 DEF ScannedTo, l
<1>9. CASE s.exit = 0 /\ i = s.next /\ ~ Rejected(Surrogates, in, i) /\ s.count + 1 > max_points
  <2>1. t = [next |-> s.next, count |-> s.count, exit |-> 4]
    BY <1>4, <1>9 DEF Scans, t
  <2>2. t.next = s.next /\ t.count = s.count /\ t.exit = 4
    BY <2>1
  <2>3. s.count = max_points
    BY <1>2, <1>3, <1>9
  <2>. QED
    BY <1>1, <1>2, <1>5, <1>9, <2>2, <2>3 DEF ScannedTo, l
<1>10. CASE s.exit = 0 /\ i = s.next /\ ~ Rejected(Surrogates, in, i) /\ ~ (s.count + 1 > max_points)
  <2>1. t = [next |-> n + 1, count |-> s.count + 1, exit |-> 0]
    BY <1>4, <1>10 DEF Scans, t, n
  <2>2. t.next = n + 1 /\ t.count = s.count + 1 /\ t.exit = 0
    BY <2>1
  <2>3. n \in i .. l /\ WellFormed(SubSeq(in, i, n))
    BY <1>6, <1>10
  <2>4. n \in Nat /\ i <= n /\ n <= l
    BY <1>1, <2>3
  <2>5. Splits(in, n, s.count + 1)
    <3> DEFINE m == p
               k == s.count
    <3>1. m \in Nat /\ m < n /\ i = m + 1
      BY <1>1, <2>4
    <3>2. Splits(in, m, k)
      <4>1. s.next - 1 = p
        BY <1>1, <1>10
      <4>. QED
        BY <1>2, <4>1
    <3> HIDE DEF m, k
    <3>3. Splits(in, n, k + 1)
      BY <2>3, <2>4, <3>1, <3>2, AnotherCharacter
    <3>. QED
      BY <3>3 DEF k
  <2>6. t.next - 1 = n /\ t.next \in 1 .. l + 1 /\ t.next > i
    BY <1>1, <2>2, <2>4
  <2>7. t.count <= max_points
    BY <1>3, <1>10, <2>2
  <2>. QED
    BY <1>5, <2>2, <2>5, <2>6, <2>7 DEF ScannedTo, l
<1>. QED
  BY <1>3, <1>7, <1>8, <1>9, <1>10

LEMMA ScannedThrough ==
    ASSUME NEW max_points \in Nat, NEW in \in Seq(Octets)
    PROVE  ScannedTo(max_points, in, Scan(max_points, in, UpTo(Len(in))), Len(in))
<1> DEFINE l == Len(in)
           T == {p \in Nat : p <= l => ScannedTo(max_points, in, Scan(max_points, in, UpTo(p)), p)}
<1>0. l \in Nat
  OBVIOUS
<1>1. 0 \in T
  <2>1. UpTo(0) = << >>
    BY DEF UpTo
  <2>2. Scan(max_points, in, << >>) = [next |-> 1, count |-> 0, exit |-> 0]
    BY ScanLaws
  <2> DEFINE s == [next |-> 1, count |-> 0, exit |-> 0]
  <2>3. s \in ScanStates /\ s.next = 1 /\ s.count = 0 /\ s.exit = 0
    BY DEF ScanStates
  <2>4. Splits(in, 0, 0)
    BY NothingSplits
  <2> HIDE DEF s
  <2>5. ScannedTo(max_points, in, s, 0)
    BY <1>0, <2>3, <2>4 DEF ScannedTo
  <2>. QED
    BY <2>1, <2>2, <2>5 DEF s
<1>2. ASSUME NEW p \in Nat, p \in T PROVE p + 1 \in T
  <2> SUFFICES ASSUME p + 1 <= l
               PROVE  ScannedTo(max_points, in, Scan(max_points, in, UpTo(p + 1)), p + 1)
    OBVIOUS
  <2>1. p < l
    BY <1>0
  <2>2. UpTo(p) \in Seq(1 .. l) /\ p + 1 \in 1 .. l /\ UpTo(p + 1) = Append(UpTo(p), p + 1)
    BY <1>0, <2>1, NextPosition
  <2> DEFINE q == UpTo(p)
             i == p + 1
             s == Scan(max_points, in, q)
  <2>3. q \in Seq(Positions(in)) /\ i \in Positions(in)
    BY <2>2 DEF Positions
  <2>4. ScannedTo(max_points, in, s, p)
    BY <1>2, <2>1
  <2> HIDE DEF q, i
  <2>5. Scan(max_points, in, Append(q, i)) = Scanned(max_points, in, s, i)
    BY <2>3, ScanLaws
  <2> HIDE DEF s
  <2>6. ScannedTo(max_points, in, Scanned(max_points, in, s, p + 1), p + 1)
    BY <2>1, <2>4, ScansOn
  <2>. QED
    BY <2>2, <2>5, <2>6 DEF q, i
<1>3. Nat \subseteq T
  <2> HIDE DEF T
  <2>. QED
    BY <1>1, <1>2, NatSetInduction
<1>. QED
  BY <1>0, <1>3

(* Where utf8_validate stops, no prefix goes on with as few characters.    *)
Readable(max_points, in) == {i \in 0 .. Len(in) : \E k \in 0 .. max_points : Splits(in, i, k)}

LEMMA FewerIsShorter ==
    ASSUME NEW in \in Seq(Octets), NEW n \in 0 .. Len(in), NEW t \in Nat, Splits(in, n, t),
           NEW i \in 0 .. Len(in), NEW k \in 0 .. t, Splits(in, i, k)
    PROVE  i <= n /\ (k < t => i < n)
<1> DEFINE l == Len(in)
<1>1. l \in Nat /\ t \in Nat /\ n \in 0 .. l /\ k \in Nat
  OBVIOUS
<1> HIDE DEF l
<1>2. \A m \in Nat : \A j \in 0 .. l : Splits(in, j, m) =>
          \A q \in 0 .. m : \E h \in 0 .. j : Splits(in, h, q) /\ (q < m => h < j)
  BY <1>1, EveryCut
<1>3. PICK h \in 0 .. n : Splits(in, h, k) /\ (k < t => h < n)
  BY <1>1, <1>2
<1>4. h \in 0 .. l
  BY <1>1
<1>5. \A m \in Nat : \A a, b \in 0 .. l : Splits(in, a, m) /\ Splits(in, b, m) => a = b
  BY OneWay DEF l
<1>6. i \in 0 .. l
  BY DEF l
<1>7. h = i
  BY <1>1, <1>3, <1>4, <1>5, <1>6
<1>. QED
  BY <1>1, <1>3, <1>7

LEMMA NothingFollows ==
    ASSUME NEW in \in Seq(Octets), NEW n \in 0 .. Len(in), NEW t \in Nat, Splits(in, n, t),
           \A j \in n + 1 .. Len(in) : ~ WellFormed(SubSeq(in, n + 1, j)),
           NEW i \in 0 .. Len(in), NEW k \in Nat, Splits(in, i, k)
    PROVE  k <= t
<1> DEFINE l == Len(in)
           c1 == t + 1
<1>1. l \in Nat /\ c1 \in Nat /\ c1 # 0 /\ c1 - 1 = t /\ i \in 0 .. l /\ n \in 0 .. l
  OBVIOUS
<1> SUFFICES ASSUME ~ (k <= t) PROVE FALSE
  OBVIOUS
<1>2. c1 \in 0 .. k
  OBVIOUS
<1>3. \A j \in (n + 1) .. l : ~ WellFormed(SubSeq(in, n + 1, j))
  OBVIOUS
<1>4. \A m \in Nat : \A a, b \in 0 .. l : Splits(in, a, m) /\ Splits(in, b, m) => a = b
  BY OneWay
<1> HIDE DEF l, c1
<1>5. \A m \in Nat : \A j \in 0 .. l : Splits(in, j, m) =>
          \A q \in 0 .. m : \E h \in 0 .. j : Splits(in, h, q) /\ (q < m => h < j)
  BY <1>1, EveryCut
<1>6. PICK h \in 0 .. i : Splits(in, h, c1)
  BY <1>1, <1>2, <1>5
<1>7. h # 0
  BY <1>1, <1>6, NothingSplits
<1>8. h \in Nat /\ h > 0 /\ h <= l
  BY <1>1, <1>7
<1>9. PICK m \in 0 .. (h - 1) : Splits(in, m, c1 - 1) /\ WellFormed(SubSeq(in, m + 1, h))
  BY <1>6, <1>8, LastCharacter
<1>10. m \in 0 .. l /\ h \in (m + 1) .. l
  BY <1>1, <1>8
<1>11. m = n
  BY <1>1, <1>4, <1>9, <1>10
<1>. QED
  BY <1>3, <1>9, <1>10, <1>11

LEMMA Farthest ==
    ASSUME NEW max_points \in Nat, NEW in \in Seq(Octets), NEW n \in 0 .. Len(in), NEW t \in 0 .. max_points,
           Splits(in, n, t),
           \/ n = Len(in) \/ t = max_points
           \/ \A j \in n + 1 .. Len(in) : ~ WellFormed(SubSeq(in, n + 1, j))
    PROVE  /\ Max(Readable(max_points, in)) = n
           /\ (CHOOSE k \in 0 .. max_points : Splits(in, n, k)) = t
<1>1. t \in Nat /\ Len(in) \in Nat /\ n \in Nat
  OBVIOUS
<1>2. ASSUME NEW i \in 0 .. Len(in), NEW k \in 0 .. max_points, Splits(in, i, k) PROVE i <= n
  <2>1. k \in Nat
    OBVIOUS
  <2>2. k <= t => i <= n
    <3> SUFFICES ASSUME k <= t PROVE i <= n
      OBVIOUS
    <3>1. k \in 0 .. t
      BY <2>1
    <3>. QED
      BY <1>1, <1>2, <3>1, FewerIsShorter
  <2>3. CASE n = Len(in)
    BY <1>1, <2>3
  <2>4. CASE t = max_points
    BY <1>1, <2>2, <2>4
  <2>5. CASE \A j \in n + 1 .. Len(in) : ~ WellFormed(SubSeq(in, n + 1, j))
    <3>1. k <= t
      BY <1>1, <1>2, <2>1, <2>5, NothingFollows
    <3>. QED
      BY <2>2, <3>1
  <2>. QED
    BY <2>3, <2>4, <2>5
<1>3. Max(Readable(max_points, in)) = n
  <2> DEFINE S == Readable(max_points, in)
  <2>1. S \subseteq Int /\ n \in S /\ \A i \in S : i <= n
    BY <1>1, <1>2 DEF Readable
  <2> HIDE DEF S
  <2>2. Max(S) = n
    BY <2>1, GreatestOf
  <2>. QED
    BY <2>2 DEF S
<1>4. ASSUME NEW k \in 0 .. max_points, Splits(in, n, k) PROVE k = t
  <2>1. k \in Nat
    OBVIOUS
  <2>2. CASE k < t
    <3>1. k \in 0 .. t
      BY <2>1, <2>2
    <3>2. n < n
      BY <1>1, <1>4, <2>2, <3>1, FewerIsShorter
    <3>. QED
      BY <1>1, <3>2
  <2>3. CASE t < k
    <3>1. t \in 0 .. k
      BY <1>1, <2>1, <2>3
    <3>2. n < n
      BY <1>1, <1>4, <2>1, <2>3, <3>1, FewerIsShorter
    <3>. QED
      BY <1>1, <3>2
  <2>. QED
    BY <1>1, <2>1, <2>2, <2>3
<1>. QED
  BY <1>3, <1>4

(* utf8_validate counts the well-formed characters up to the first byte    *)
(* that begins none, or up to as many as it takes.                         *)
THEOREM Utf8Validates ==
    ASSUME NEW max_points \in Nat, NEW in \in Seq(Octets)
    PROVE  Utf8IsRight(max_points, in)
<1> DEFINE l == Len(in)
           s == Scan(max_points, in, UpTo(l))
           n == s.next - 1
           more == \E j \in n + 1 .. l : WellFormed(SubSeq(in, n + 1, j))
<1>1. ScannedTo(max_points, in, s, l)
  BY ScannedThrough
<1>2. l \in Nat /\ UpTo(l) = [i \in DOMAIN in |-> i]
  BY DEF UpTo
<1>3. Utf8Validate(max_points, in) =
        [out |-> CASE s.exit = 0 -> <<"OK", s.count>>
                   [] s.exit = 1 -> <<"BAD", s.next - 1>>
                   [] OTHER -> <<"LIMIT">>,
         exit |-> s.exit]
  BY <1>2 DEF Utf8Validate, Utf8, Scan, Surrogates
<1> HIDE DEF s
<1>4. /\ s \in ScanStates /\ s.next \in 1 .. l + 1 /\ s.count <= max_points
      /\ Splits(in, n, s.count)
      /\ (s.exit = 0 => s.next > l) /\ (s.exit # 0 => s.next \in 1 .. l)
      /\ (s.exit = 1 => Rejected(Surrogates, in, s.next))
      /\ (s.exit = 4 => ~ Rejected(Surrogates, in, s.next) /\ s.count = max_points)
  BY <1>1 DEF ScannedTo
<1>5. s.next \in Nat /\ s.count \in Nat /\ s.exit \in {0, 1, 4}
  BY <1>4 DEF ScanStates
<1>6. n \in 0 .. l /\ n \in Nat /\ n + 1 = s.next /\ s.count \in 0 .. max_points
      /\ (s.exit = 0 => n = l) /\ (s.exit # 0 => n < l)
  BY <1>2, <1>4, <1>5
<1> HIDE DEF n
<1>7. s.exit = 1 => ~ more
  <2> SUFFICES ASSUME s.exit = 1 PROVE ~ more
    OBVIOUS
  <2> DEFINE i == n + 1
  <2>1. i \in 1 .. l /\ Rejected(Surrogates, in, i)
    BY <1>4, <1>6
  <2> HIDE DEF i
  <2>2. \A j \in i .. l : ~ WellFormed(SubSeq(in, i, j))
    BY <2>1, CharacterAt
  <2>. QED
    BY <2>2 DEF i
<1>8. s.exit = 4 => more
  <2> SUFFICES ASSUME s.exit = 4 PROVE more
    OBVIOUS
  <2> DEFINE i == n + 1
  <2>1. i \in 1 .. l /\ ~ Rejected(Surrogates, in, i)
    BY <1>4, <1>6
  <2> HIDE DEF i
  <2>2. i + Need(in[i]) \in i .. l /\ WellFormed(SubSeq(in, i, i + Need(in[i])))
    BY <2>1, CharacterAt
  <2>. QED
    BY <2>2 DEF i
<1>9. \/ n = l \/ s.count = max_points
      \/ \A j \in n + 1 .. l : ~ WellFormed(SubSeq(in, n + 1, j))
  BY <1>4, <1>5, <1>6, <1>7
<1> DEFINE t == s.count
<1>10. t \in 0 .. max_points /\ Splits(in, n, t) /\ (n = l \/ t = max_points \/ \A j \in n + 1 .. l : ~ WellFormed(SubSeq(in, n + 1, j)))
  BY <1>4, <1>6, <1>9
<1> HIDE DEF t
<1>11. Max(Readable(max_points, in)) = n
       /\ (CHOOSE k \in 0 .. max_points : Splits(in, n, k)) = t
  BY <1>6, <1>10, Farthest
<1>12. Utf8IsRight(max_points, in) <=>
         Utf8Validate(max_points, in) =
            CASE n = l -> [out |-> <<"OK", t>>, exit |-> 0]
              [] n < l /\ more -> [out |-> <<"LIMIT">>, exit |-> 4]
              [] OTHER -> [out |-> <<"BAD", n>>, exit |-> 1]
  BY <1>11 DEF Utf8IsRight, Readable
<1> HIDE DEF more, l
<1>13. CASE s.exit = 0
  <2>1. Utf8Validate(max_points, in) = [out |-> <<"OK", t>>, exit |-> 0]
    BY <1>3, <1>13 DEF t
  <2>. QED
    BY <1>6, <1>12, <1>13, <2>1
<1>14. CASE s.exit = 1
  <2>1. Utf8Validate(max_points, in) = [out |-> <<"BAD", n>>, exit |-> 1]
    BY <1>3, <1>14 DEF n
  <2>2. n # l
    BY <1>2, <1>6, <1>14
  <2>. QED
    BY <1>7, <1>12, <1>14, <2>1, <2>2
<1>15. CASE s.exit = 4
  <2>1. Utf8Validate(max_points, in) = [out |-> <<"LIMIT">>, exit |-> 4]
    BY <1>3, <1>15
  <2>2. n < l /\ n # l
    BY <1>2, <1>6, <1>15
  <2>. QED
    BY <1>8, <1>12, <1>15, <2>1, <2>2
<1>. QED
  BY <1>5, <1>13, <1>14, <1>15

-----------------------------------------------------------------------------
(* The lines of kv_normalize.                                              *)

Blank(space, q) == \A k \in 1 .. Len(q) : q[k] \in space
Solid(space, q) == q # << >> => q[1] \notin space /\ q[Len(q)] \notin space

(* Blanks around a part do not count.                                      *)
LEMMA TrimJoined ==
    ASSUME NEW X, NEW space, NEW a, NEW t, NEW b, NEW s, Joined(X, a, t, b, s),
           Blank(space, a), Solid(space, t), Blank(space, b)
    PROVE  Trim(space, s) = t
<1>0. /\ a \in Seq(X) /\ t \in Seq(X) /\ b \in Seq(X) /\ s \in Seq(X)
      /\ Len(s) = Len(a) + Len(t) + Len(b)
      /\ \A i \in 1 .. Len(a) : s[i] = a[i]
      /\ \A i \in 1 .. Len(t) : s[Len(a) + i] = t[i]
      /\ \A i \in 1 .. Len(b) : s[Len(a) + Len(t) + i] = b[i]
  BY DEF Joined
<1> DEFINE m == Len(a)
           n == Len(t)
           k == Len(b)
           l == Len(s)
           kept == {i \in 1 .. l : s[i] \notin space}
<1>1. m \in Nat /\ n \in Nat /\ k \in Nat /\ l = m + n + k /\ l \in Nat
  BY <1>0
<1>2. Trim(space, s) = IF kept = {} THEN << >> ELSE SubSeq(s, Min(kept), Max(kept))
  <2>1. DOMAIN s = 1 .. l
    BY <1>0
  <2>. QED
    BY <2>1 DEF Trim
<1> DEFINE first == m + 1
           last == m + n
<1>3. \A i \in kept : first <= i /\ i <= last
  <2> SUFFICES ASSUME NEW i \in 1 .. l, s[i] \notin space PROVE first <= i /\ i <= last
    OBVIOUS
  <2>1. ~ (i <= m)
    <3> SUFFICES ASSUME i <= m PROVE FALSE
      OBVIOUS
    <3>1. i \in 1 .. m
      BY <1>1
    <3>2. s[i] = a[i] /\ a[i] \in space
      BY <1>0, <3>1 DEF Blank
    <3>. QED
      BY <3>2
  <2>2. ~ (i > m + n)
    <3> SUFFICES ASSUME i > m + n PROVE FALSE
      OBVIOUS
    <3> DEFINE j == i - (m + n)
    <3>1. j \in 1 .. k /\ i = m + n + j
      BY <1>1
    <3> HIDE DEF j
    <3>2. s[i] = b[j] /\ b[j] \in space
      BY <1>0, <3>1 DEF Blank
    <3>. QED
      BY <3>2
  <2>. QED
    BY <1>1, <2>1, <2>2
<1>4. CASE t = << >>
  <2>1. n = 0
    BY <1>4
  <2>2. kept = {}
    <3> HIDE DEF kept
    <3>1. \A i \in kept : m + 1 <= i /\ i <= m + 0
      BY <1>3, <2>1
    <3>2. \A i \in kept : i \in Int
      BY DEF kept
    <3>. QED
      BY <1>1, <3>1, <3>2
  <2>. QED
    BY <1>2, <1>4, <2>2
<1>5. CASE t # << >>
  <2>1. n \in Nat /\ n >= 1
    BY <1>0, <1>5
  <2>2. t[1] \notin space /\ t[n] \notin space
    BY <1>5 DEF Solid
  <2>3. 1 \in 1 .. n /\ n \in 1 .. n
    BY <2>1
  <2>4. first \in kept /\ last \in kept
    <3>1. s[first] = t[1] /\ s[last] = t[n]
      BY <1>0, <2>3
    <3>2. first \in 1 .. l /\ last \in 1 .. l
      BY <1>1, <2>1
    <3>. QED
      BY <2>2, <3>1, <3>2
  <2>5. kept \subseteq Int
    OBVIOUS
  <2> HIDE DEF kept, first, last
  <2>6. Min(kept) = first /\ Max(kept) = last
    <3>1. Min(kept) = first
      BY <1>3, <2>4, <2>5, LeastOf
    <3>2. Max(kept) = last
      BY <1>3, <2>4, <2>5, GreatestOf
    <3>. QED
      BY <3>1, <3>2
  <2>7. SubSeq(s, first, last) = t
    BY PartsOfJoined DEF first, last
  <2>8. kept # {}
    BY <2>4
  <2>. QED
    BY <1>2, <2>6, <2>7, <2>8
<1>. QED
  BY <1>4, <1>5

(* What a line does, from what is left of it between its blanks.           *)
Prefix(section) == IF section = << >> THEN << >> ELSE Append(section, ".")

Does(space, s, t) ==
    LET close == FirstOf(t, "]")
        eq == FirstOf(t, "=")
        key == Trim(space, SubSeq(t, 1, eq - 1))
        value == Trim(space, SubSeq(t, eq + 1, Len(t)))
    IN  IF t = << >> THEN s
        ELSE CASE t[1] = "#" -> s
               [] t[1] = "[" /\ close = 0 -> [s EXCEPT !.exit = 3]
               [] t[1] = "[" /\ close # 0 ->
                    [s EXCEPT !.section = Trim(space, SubSeq(t, 2, close - 1))]
               [] t[1] \notin {"#", "["} /\ (eq = 0 \/ key = << >>) -> s
               [] OTHER ->
                    [s EXCEPT !.out = @ \o Prefix(s.section) \o key \o <<"=">> \o value \o <<"nl">>]

LEMMA ProcessDoes ==
    ASSUME NEW space, NEW s, NEW line
    PROVE  Process(space, s, line) = Does(space, s, Trim(space, line))
<1> DEFINE t == Trim(space, line)
<1>1. FirstOf(t, "]") = SelectInSeq(t, LAMBDA b : b = "]")
  BY DEF FirstOf, SelectInSeq
<1>2. FirstOf(t, "=") = SelectInSeq(t, LAMBDA b : b = "=")
  BY DEF FirstOf, SelectInSeq
<1> HIDE DEF t
<1>3. Does(space, s, t) =
    LET close == FirstOf(t, "]")
        eq == FirstOf(t, "=")
        key == Trim(space, SubSeq(t, 1, eq - 1))
        value == Trim(space, SubSeq(t, eq + 1, Len(t)))
        prefix == IF s.section = << >> THEN << >> ELSE Append(s.section, ".")
    IN  IF t = << >> THEN s
        ELSE CASE t[1] = "#" -> s
               [] t[1] = "[" /\ close = 0 -> [s EXCEPT !.exit = 3]
               [] t[1] = "[" /\ close # 0 ->
                    [s EXCEPT !.section = Trim(space, SubSeq(t, 2, close - 1))]
               [] t[1] \notin {"#", "["} /\ (eq = 0 \/ key = << >>) -> s
               [] OTHER ->
                    [s EXCEPT !.out = @ \o prefix \o key \o <<"=">> \o value \o <<"nl">>]
  BY DEF Does, Prefix
<1>. QED
  BY <1>1, <1>2, <1>3, Zenon DEF Process, t

Failed(s) == [s EXCEPT !.exit = 3]
Named(s, name) == [s EXCEPT !.section = name]
Keyed(s, key, value) ==
    [s EXCEPT !.out = @ \o Prefix(s.section) \o key \o <<"=">> \o value \o <<"nl">>]

LEMMA DoesNothing ==
    ASSUME NEW space, NEW s
    PROVE  Does(space, s, << >>) = s
  BY DEF Does

LEMMA DoesComment ==
    ASSUME NEW space, NEW s, NEW t, t # << >>, t[1] = "#"
    PROVE  Does(space, s, t) = s
  BY DEF Does

LEMMA DoesFail ==
    ASSUME NEW space, NEW s, NEW t, t # << >>, t[1] = "[", FirstOf(t, "]") = 0
    PROVE  Does(space, s, t) = Failed(s)
  BY DEF Does, Failed

LEMMA DoesSection ==
    ASSUME NEW space, NEW s, NEW t, t # << >>, t[1] = "[", FirstOf(t, "]") # 0
    PROVE  Does(space, s, t) = Named(s, Trim(space, SubSeq(t, 2, FirstOf(t, "]") - 1)))
  BY DEF Does, Named

LEMMA DoesSkip ==
    ASSUME NEW space, NEW s, NEW t, t # << >>, t[1] \notin {"#", "["},
           FirstOf(t, "=") = 0 \/ Trim(space, SubSeq(t, 1, FirstOf(t, "=") - 1)) = << >>
    PROVE  Does(space, s, t) = s
  BY DEF Does

LEMMA DoesKey ==
    ASSUME NEW space, NEW s, NEW t, t # << >>, t[1] \notin {"#", "["}, FirstOf(t, "=") # 0,
           NEW a, a = SubSeq(t, 1, FirstOf(t, "=") - 1), Trim(space, a) # << >>,
           NEW w, w = SubSeq(t, FirstOf(t, "=") + 1, Len(t))
    PROVE  Does(space, s, t) = Keyed(s, Trim(space, a), Trim(space, w))
  BY DEF Does, Keyed

(* What two parts lack.                                                    *)
LEMMA BothLack ==
    ASSUME NEW X, NEW a \in Seq(X), NEW b \in Seq(X), NEW y, Lacks(a, y), Lacks(b, y)
    PROVE  Lacks(a \o b, y)
<1>1. << >> \in Seq(X)
  OBVIOUS
<1>2. Joined(X, << >>, a, b, (<< >> \o a) \o b)
  BY <1>1, Joins
<1>3. (<< >> \o a) \o b = a \o b
  BY WithNothing
<1>4. Lacks(<< >>, y)
  BY DEF Lacks
<1>5. Joined(X, << >>, a, b, a \o b)
  BY <1>2, <1>3
<1>. QED
  BY <1>4, <1>5, LacksJoined

LEMMA BothBlank ==
    ASSUME NEW X, NEW space, NEW a \in Seq(X), NEW b \in Seq(X), Blank(space, a), Blank(space, b)
    PROVE  Blank(space, a \o b)
<1> DEFINE s == a \o b
           m == Len(a)
           n == Len(b)
<1>1. Len(s) = m + n /\ m \in Nat /\ n \in Nat
      /\ (\A i \in 1 .. m : s[i] = a[i]) /\ \A i \in 1 .. n : s[m + i] = b[i]
  BY Cat
<1>2. \A i \in 1 .. m : s[i] \in space
  BY <1>1 DEF Blank
<1>3. \A i \in 1 .. n : s[m + i] \in space
  BY <1>1 DEF Blank
<1> HIDE DEF s, m, n
<1> SUFFICES ASSUME NEW i \in 1 .. (m + n) PROVE s[i] \in space
  BY <1>1 DEF Blank, s
<1>4. CASE i \in 1 .. m
  BY <1>2, <1>4
<1>5. CASE i \notin 1 .. m
  <2> DEFINE j == i - m
  <2>1. j \in 1 .. n /\ i = m + j
    BY <1>1, <1>5
  <2>. QED
    BY <1>3, <2>1
<1>. QED
  BY <1>4, <1>5

LEMMA TrimBoth ==
    ASSUME NEW X, NEW space, NEW a \in Seq(X), NEW t \in Seq(X), NEW b \in Seq(X),
           Blank(space, a), Solid(space, t), Blank(space, b)
    PROVE  Trim(space, (a \o t) \o b) = t
<1>1. Joined(X, a, t, b, (a \o t) \o b)
  BY Joins
<1>. QED
  BY <1>1, TrimJoined

LEMMA TrimLeft ==
    ASSUME NEW X, NEW space, NEW a \in Seq(X), NEW t \in Seq(X), Blank(space, a), Solid(space, t)
    PROVE  Trim(space, a \o t) = t
<1> DEFINE z == << >>
           u == a \o t
<1>1. z \in Seq(X) /\ Blank(space, z)
  BY DEF Blank
<1>2. u \in Seq(X)
  BY Cat
<1>3. Trim(space, (a \o t) \o z) = t
  BY <1>1, TrimBoth
<1>4. u \o z = u
  BY <1>2, WithNothing
<1>. QED
  BY <1>3, <1>4

LEMMA TrimRight ==
    ASSUME NEW X, NEW space, NEW t \in Seq(X), NEW b \in Seq(X), Solid(space, t), Blank(space, b)
    PROVE  Trim(space, t \o b) = t
<1> DEFINE z == << >>
<1>1. z \in Seq(X) /\ Blank(space, z)
  BY DEF Blank
<1>3. Trim(space, (z \o t) \o b) = t
  BY <1>1, TrimBoth
<1>4. z \o t = t
  BY WithNothing
<1>. QED
  BY <1>3, <1>4

LEMMA TrimBlank ==
    ASSUME NEW X, NEW space, NEW b \in Seq(X), Blank(space, b)
    PROVE  Trim(space, b) = << >>
<1> DEFINE z == << >>
<1>1. z \in Seq(X) /\ Solid(space, z)
  BY DEF Solid
<1>2. Trim(space, z \o b) = z
  BY <1>1, TrimRight
<1>3. z \o b = b
  BY WithNothing
<1>. QED
  BY <1>2, <1>3

(* The parts of a text that has its key before the first "=".              *)
IsKeyed(X, a, y, w, t) ==
    /\ y \in X /\ a \in Seq(X) /\ w \in Seq(X)
    /\ t = (a \o <<y>>) \o w /\ Lacks(a, y)

LEMMA KeyParts ==
    ASSUME NEW X, NEW y, NEW a, NEW w, NEW t, IsKeyed(X, a, y, w, t)
    PROVE  /\ FirstOf(t, y) # 0
           /\ a = SubSeq(t, 1, FirstOf(t, y) - 1)
           /\ w = SubSeq(t, FirstOf(t, y) + 1, Len(t))
<1> DEFINE e == <<y>>
<1>0. y \in X /\ a \in Seq(X) /\ w \in Seq(X) /\ Lacks(a, y)
  BY DEF IsKeyed
<1>1. e \in Seq(X)
  BY <1>0
<1>2. t = (a \o e) \o w
  BY DEF IsKeyed
<1> HIDE DEF e
<1>3. Joined(X, a, e, w, t)
  BY <1>0, <1>1, <1>2, Joins
<1>4. Leads(X, a, y, w, t)
  BY <1>0, <1>3 DEF e, Leads
<1>. QED
  BY <1>4, FirstJoined

LEMMA KeyText ==
    ASSUME NEW X, NEW space, NEW s, NEW a, NEW w, NEW t, IsKeyed(X, a, "=", w, t),
           Trim(space, a) # << >>, t # << >>, t[1] \notin {"#", "["}
    PROVE  Does(space, s, t) = Keyed(s, Trim(space, a), Trim(space, w))
<1>1. /\ FirstOf(t, "=") # 0
      /\ a = SubSeq(t, 1, FirstOf(t, "=") - 1)
      /\ w = SubSeq(t, FirstOf(t, "=") + 1, Len(t))
  BY KeyParts
<1>. QED
  BY <1>1, DoesKey

(* The parts of a section's text, whatever follows its "]".                *)
LEMMA MiddleOf ==
    ASSUME NEW X, NEW a, NEW t, NEW b, NEW s, Joined(X, a, t, b, s)
    PROVE  SubSeq(s, Len(a) + 1, Len(a) + Len(t)) = t
  BY PartsOfJoined

IsSection(X, d, m, y, w, t) ==
    /\ y \in X /\ d \in X /\ y # d /\ m \in Seq(X) /\ w \in Seq(X)
    /\ t = ((<<d>> \o m) \o <<y>>) \o w /\ Lacks(m, y)

LEMMA SectionParts ==
    ASSUME NEW X, NEW y, NEW d, NEW m, NEW w, NEW t, IsSection(X, d, m, y, w, t)
    PROVE  t # << >> /\ t[1] = d /\ FirstOf(t, y) # 0 /\ SubSeq(t, 2, FirstOf(t, y) - 1) = m
<1> DEFINE e == <<y>>
           o == <<d>>
           a == o \o m
           r == e \o w
<1>0. y \in X /\ d \in X /\ y # d /\ m \in Seq(X) /\ w \in Seq(X) /\ Lacks(m, y)
  BY DEF IsSection
<1>1. t = (a \o e) \o w
  BY DEF IsSection
<1>2. e \in Seq(X) /\ o \in Seq(X) /\ Len(o) = 1 /\ o[1] = d /\ o # << >>
  BY <1>0
<1>3. Lacks(o, y)
  BY <1>0, <1>2 DEF Lacks
<1> HIDE DEF e, o
<1>4. a \in Seq(X) /\ Len(a) = Len(o) + Len(m) /\ Len(m) \in Nat
  BY <1>0, <1>2, Cat
<1>41. r \in Seq(X)
  BY <1>0, <1>2, Cat
<1>5. Lacks(a, y)
  BY <1>0, <1>2, <1>3, BothLack
<1>6. a[1] = d /\ a # << >>
  BY <1>0, <1>2, Ends
<1>61. a = o \o m /\ r = e \o w
  OBVIOUS
<1> HIDE DEF a, r
<1> DEFINE u == a \o e
<1>7. u \in Seq(X) /\ u[1] = d /\ u # << >>
  <2>1. a \in Seq(X) /\ e \in Seq(X)
    BY <1>2, <1>4
  <2>2. u \in Seq(X)
    BY <2>1, Cat
  <2>3. u[1] = a[1] /\ u # << >>
    BY <2>1, <1>6, Ends
  <2>. QED
    BY <1>6, <2>2, <2>3
<1>71. t = u \o w
  BY <1>1
<1> HIDE DEF u
<1>8. t[1] = d /\ t # << >>
  <2>1. u \in Seq(X) /\ u # << >>
    BY <1>7
  <2>2. (u \o w)[1] = u[1] /\ u \o w # << >>
    BY <1>0, <2>1, Ends
  <2>. QED
    BY <1>7, <1>71, <2>2
<1>9. Joined(X, a, e, w, t)
  <2>1. a \in Seq(X) /\ e \in Seq(X)
    BY <1>2, <1>4
  <2>2. Joined(X, a, e, w, (a \o e) \o w)
    BY <1>0, <2>1, Joins
  <2>. QED
    BY <2>2, <1>1
<1>10. FirstOf(t, y) = Len(a) + 1 /\ FirstOf(t, y) # 0
  <2>1. Leads(X, a, y, w, t)
    BY <1>0, <1>5, <1>9 DEF e, Leads
  <2>. QED
    BY <2>1, FirstJoined
<1>11. Joined(X, o, m, r, t)
  <2>1. a \in Seq(X) /\ e \in Seq(X)
    BY <1>2, <1>4
  <2>2. (a \o e) \o w = a \o (e \o w)
    BY <1>0, <2>1, Assoc
  <2>3. Joined(X, o, m, r, (o \o m) \o r)
    BY <1>0, <1>2, <1>41, Joins
  <2>. QED
    BY <1>1, <1>61, <2>2, <2>3
<1>13. SubSeq(t, Len(o) + 1, Len(o) + Len(m)) = m
  BY <1>11, MiddleOf
<1>14. FirstOf(t, y) - 1 = Len(o) + Len(m) /\ Len(o) + 1 = 2
  <2> DEFINE f == FirstOf(t, y)
             n == Len(m)
  <2>1. f = Len(a) + 1
    BY <1>10
  <2>2. Len(a) = 1 + n /\ n \in Nat
    BY <1>2, <1>4
  <2> HIDE DEF f, n
  <2>3. f - 1 = 1 + n
    BY <2>1, <2>2
  <2>. QED
    BY <1>2, <2>3 DEF f, n
<1>. QED
  BY <1>8, <1>10, <1>13, <1>14

LEMMA SectionText ==
    ASSUME NEW X, NEW space, NEW s, NEW m, NEW w, NEW t, IsSection(X, "[", m, "]", w, t)
    PROVE  Does(space, s, t) = Named(s, Trim(space, m))
<1>1. t # << >> /\ t[1] = "[" /\ FirstOf(t, "]") # 0 /\ SubSeq(t, 2, FirstOf(t, "]") - 1) = m
  BY SectionParts
<1>. QED
  BY <1>1, DoesSection

(* A head, blanks, a tail that may be empty, and blanks around.            *)
IsHead(X, space, h) == h \in Seq(X) /\ h # << >> /\ h[1] \notin space /\ h[Len(h)] \notin space
IsBlank(X, space, q) == q \in Seq(X) /\ Blank(space, q)
IsTail(X, space, q) == q \in Seq(X) /\ Solid(space, q)

HeadAndTail(X, space, pre, h, sep, value, post) ==
    /\ IsBlank(X, space, pre) /\ IsHead(X, space, h) /\ IsBlank(X, space, sep)
    /\ IsTail(X, space, value) /\ IsBlank(X, space, post)

TailOf(sep, value) == IF value = << >> THEN << >> ELSE sep \o value

IsTrimmed(X, space, h, value, line, w) ==
    /\ w \in Seq(X) /\ Trim(space, line) = h \o w
    /\ Trim(space, w) = value
    /\ h \o w # << >> /\ (h \o w)[1] = h[1]

LEMMA TailTrimmed ==
    ASSUME NEW X, NEW space, NEW pre, NEW h, NEW sep, NEW value, NEW post,
           HeadAndTail(X, space, pre, h, sep, value, post)
    PROVE  IsTrimmed(X, space, h, value, (((pre \o h) \o sep) \o value) \o post, TailOf(sep, value))
<1>0. /\ pre \in Seq(X) /\ h \in Seq(X) /\ sep \in Seq(X) /\ value \in Seq(X) /\ post \in Seq(X)
      /\ Blank(space, pre) /\ Blank(space, sep) /\ Blank(space, post) /\ Solid(space, value)
      /\ h # << >> /\ h[1] \notin space /\ h[Len(h)] \notin space
  BY DEF HeadAndTail, IsHead, IsBlank, IsTail
<1> DEFINE line == (((pre \o h) \o sep) \o value) \o post
<1>1. CASE value = << >>
  <2> DEFINE w == << >>
             b == sep \o post
             u == pre \o h
  <2>1. w \in Seq(X)
    OBVIOUS
  <2>2. h \o w = h
    BY <1>0, WithNothing
  <2>3. b \in Seq(X) /\ Blank(space, b)
    <3>1. b \in Seq(X)
      BY <1>0, Cat
    <3>2. Blank(space, b)
      BY <1>0, BothBlank
    <3>. QED
      BY <3>1, <3>2
  <2>4. u \in Seq(X)
    BY <1>0, Cat
  <2>5. u \o sep \in Seq(X)
    BY <1>0, <2>4, Cat
  <2>6. (u \o sep) \o value = u \o sep
    BY <1>1, <2>5, WithNothing
  <2>7. line = u \o b
    <3> HIDE DEF u
    <3>1. (u \o sep) \o post = u \o (sep \o post)
      <4>1. Triple(X, u, sep, post)
        BY <1>0, <2>4 DEF Triple
      <4>. QED
        BY <4>1, Grouped
    <3>. QED
      BY <2>6, <3>1 DEF u
  <2>8. Solid(space, h)
    BY <1>0 DEF Solid
  <2>9. Trim(space, (pre \o h) \o b) = h
    <3> HIDE DEF b
    <3>. QED
      BY <1>0, <2>3, <2>8, TrimBoth
  <2>10. Trim(space, line) = h
    BY <2>7, <2>9
  <2>11. Trim(space, w) = w
    <3>1. Blank(space, w)
      BY DEF Blank
    <3>. QED
      BY <2>1, <3>1, TrimBlank
  <2>12. h \o w # << >> /\ (h \o w)[1] = h[1]
    <3> HIDE DEF w
    <3>. QED
      BY <1>0, <2>2
  <2>13. Trim(space, line) = h \o w
    <3> HIDE DEF w, line
    <3>. QED
      BY <2>2, <2>10
  <2>14. Trim(space, w) = value
    BY <1>1, <2>11
  <2>15. IsTrimmed(X, space, h, value, line, w)
    <3> HIDE DEF w, line
    <3>. QED
      BY <2>1, <2>12, <2>13, <2>14 DEF IsTrimmed
  <2>16. TailOf(sep, value) = w
    BY <1>1 DEF TailOf
  <2>. QED
    BY <2>15, <2>16
<1>2. CASE value # << >>
  <2> DEFINE w == sep \o value
             t == h \o w
  <2>1. w \in Seq(X) /\ w[Len(w)] = value[Len(value)] /\ w # << >>
    <3>1. w \in Seq(X)
      BY <1>0, Cat
    <3>2. w[Len(w)] = value[Len(value)] /\ w # << >>
      BY <1>0, <1>2, Ends
    <3>. QED
      BY <3>1, <3>2
  <2>2. Trim(space, w) = value
    BY <1>0, TrimLeft
  <2>3. ((pre \o h) \o sep) \o value = pre \o ((h \o sep) \o value) /\ (h \o sep) \o value = t
    <3>0. Texts(X, pre, h, sep, value)
      BY <1>0 DEF Texts
    <3>1. /\ ((pre \o h) \o sep) \o value = pre \o ((h \o sep) \o value)
          /\ (h \o sep) \o value \in Seq(X)
      BY <3>0, Regroup3
    <3>2. (h \o sep) \o value = h \o (sep \o value)
      <4>1. Triple(X, h, sep, value)
        BY <1>0 DEF Triple
      <4>. QED
        BY <4>1, Grouped
    <3>. QED
      BY <3>1, <3>2
  <2>4. line = (pre \o t) \o post
    BY <2>3
  <2>5. value[Len(value)] \notin space
    BY <1>0, <1>2 DEF Solid
  <2> HIDE DEF w
  <2>6. t \in Seq(X)
    BY <1>0, <2>1, Cat
  <2>7. t[1] = h[1] /\ t # << >> /\ t[Len(t)] = w[Len(w)]
    BY <1>0, <2>1, Ends
  <2>8. Solid(space, t)
    <3> HIDE DEF t
    <3>. QED
      BY <1>0, <2>1, <2>5, <2>7 DEF Solid
  <2>9. Trim(space, (pre \o t) \o post) = t
    <3> HIDE DEF t
    <3>. QED
      BY <1>0, <2>6, <2>8, TrimBoth
  <2>10. Trim(space, line) = t
    BY <2>4, <2>9
  <2>11. IsTrimmed(X, space, h, value, line, w)
    <3> HIDE DEF line
    <3>. QED
      BY <2>1, <2>2, <2>7, <2>10 DEF IsTrimmed
  <2>12. TailOf(sep, value) = w
    BY <1>2 DEF TailOf, w
  <2>. QED
    BY <2>11, <2>12
<1>. QED
  BY <1>1, <1>2

(* A text of one character.                                                *)
LEMMA One ==
    ASSUME NEW X, NEW y \in X
    PROVE  /\ <<y>> \in Seq(X) /\ Len(<<y>>) = 1 /\ <<y>>[1] = y /\ <<y>> # << >>
           /\ \A d : d # y => Lacks(<<y>>, d)
<1> DEFINE e == <<y>>
<1>1. e \in Seq(X) /\ Len(e) = 1 /\ e[1] = y /\ e # << >>
  OBVIOUS
<1>2. \A d : d # y => Lacks(e, d)
  <2> HIDE DEF e
  <2>. QED
    BY <1>1 DEF Lacks
<1>. QED
  BY <1>1, <1>2

LEMMA BlankLacks ==
    ASSUME NEW X, NEW space, NEW q, IsBlank(X, space, q), NEW y, y \notin space
    PROVE  Lacks(q, y)
  BY DEF IsBlank, Blank, Lacks

(* A name is not empty, has no blank at its ends and neither "=" nor "]".  *)
IsName(X, space, q) ==
    /\ q \in Seq(X) /\ q # << >> /\ Solid(space, q)
    /\ Lacks(q, "=") /\ Lacks(q, "]") /\ q[1] \notin {"#", "["}

IsAlphabet(X, space) == \A y \in {"[", "]", "=", "#"} : y \in X /\ y \notin space

KeyLine(pre, name, mid, sep, value, post) ==
    pre \o name \o mid \o <<"=">> \o sep \o value \o post

LEMMA KeyLineDoes ==
    ASSUME NEW X, NEW space, NEW s, NEW pre, NEW name, NEW mid, NEW sep, NEW value, NEW post,
           IsAlphabet(X, space), IsBlank(X, space, pre), IsName(X, space, name),
           IsBlank(X, space, mid), IsBlank(X, space, sep), IsTail(X, space, value),
           IsBlank(X, space, post)
    PROVE  Process(space, s, KeyLine(pre, name, mid, sep, value, post)) = Keyed(s, name, value)
<1> DEFINE y == "="
           e == <<y>>
           a == name \o mid
           h == a \o e
           line == KeyLine(pre, name, mid, sep, value, post)
<1>0. /\ pre \in Seq(X) /\ mid \in Seq(X) /\ Blank(space, mid)
      /\ name \in Seq(X) /\ name # << >> /\ Solid(space, name)
  BY DEF IsBlank, IsName
<1>1. Lacks(name, y) /\ name[1] \notin {"#", "["}
  BY DEF IsName
<1>2. y \in X /\ y \notin space
  BY DEF IsAlphabet
<1>3. line = (((((pre \o name) \o mid) \o e) \o sep) \o value) \o post
  BY DEF KeyLine
<1> HIDE DEF y, line
<1>4. e \in Seq(X) /\ Len(e) = 1 /\ e[1] = y /\ e # << >>
  BY <1>2, One
<1>50. e = <<y>>
  OBVIOUS
<1> HIDE DEF e
<1>5. Lacks(mid, y)
  BY <1>2, BlankLacks
<1>6. ((pre \o name) \o mid) \o e = pre \o h
  <2>1. Texts(X, pre, name, mid, e)
    BY <1>0, <1>4 DEF Texts
  <2>2. /\ ((pre \o name) \o mid) \o e = pre \o ((name \o mid) \o e)
        /\ (name \o mid) \o e \in Seq(X)
    BY <2>1, Regroup3
  <2>. QED
    BY <2>2
<1>7. a \in Seq(X)
  BY <1>0, Cat
<1>8. Lacks(a, y)
  BY <1>0, <1>1, <1>5, BothLack
<1>9. a # << >> /\ a[1] = name[1]
  BY <1>0, Ends
<1>10. Trim(space, a) = name
  BY <1>0, TrimRight
<1> HIDE DEF a
<1>11. h \in Seq(X)
  BY <1>4, <1>7, Cat
<1>12. h # << >> /\ h[1] = a[1] /\ h[Len(h)] = y
  <2>1. h # << >> /\ h[1] = a[1] /\ h[Len(h)] = e[Len(e)]
    BY <1>4, <1>7, <1>9, Ends
  <2>. QED
    BY <1>4, <2>1
<1>13. name[1] \notin space
  BY <1>0 DEF Solid
<1>130. h = a \o <<y>>
  BY <1>50
<1> HIDE DEF h
<1>14. IsHead(X, space, h)
  BY <1>2, <1>9, <1>11, <1>12, <1>13 DEF IsHead
<1>140. HeadAndTail(X, space, pre, h, sep, value, post)
  BY <1>14 DEF HeadAndTail
<1> DEFINE w == TailOf(sep, value)
           t == h \o w
<1>15. IsTrimmed(X, space, h, value, (((pre \o h) \o sep) \o value) \o post, w)
  BY <1>140, TailTrimmed
<1> HIDE DEF w
<1>150. w \in Seq(X) /\ Trim(space, w) = value
  BY <1>15 DEF IsTrimmed
<1>151. IsTrimmed(X, space, h, value, line, w)
  BY <1>3, <1>6, <1>15
<1>16. Trim(space, line) = t /\ t # << >> /\ t[1] = name[1]
  BY <1>9, <1>12, <1>151 DEF IsTrimmed
<1>17. IsKeyed(X, a, y, w, t)
  <2>1. t = (a \o <<y>>) \o w
    BY <1>130
  <2> HIDE DEF t
  <2>. QED
    BY <1>2, <1>7, <1>8, <1>150, <2>1 DEF IsKeyed
<1> HIDE DEF t
<1>18. Does(space, s, t) = Keyed(s, Trim(space, a), Trim(space, w))
  <2>1. IsKeyed(X, a, "=", w, t)
    BY <1>17 DEF y
  <2>2. Trim(space, a) # << >>
    BY <1>0, <1>10
  <2>3. t # << >> /\ t[1] \notin {"#", "["}
    BY <1>1, <1>16
  <2>. QED
    BY <2>1, <2>2, <2>3, KeyText
<1>19. Process(space, s, line) = Does(space, s, t)
  BY <1>16, ProcessDoes
<1>. QED
  BY <1>10, <1>150, <1>18, <1>19 DEF line

(* The parts of a line.                                                    *)
LineParts(X, space, pre, mid, sep, post, name, value) ==
    /\ IsAlphabet(X, space)
    /\ IsBlank(X, space, pre) /\ IsBlank(X, space, mid)
    /\ IsBlank(X, space, sep) /\ IsBlank(X, space, post)
    /\ IsName(X, space, name) /\ IsTail(X, space, value)

(* "[", a text, "]".                                                       *)
LEMMA SectionHead ==
    ASSUME NEW X, NEW space, IsAlphabet(X, space), NEW m \in Seq(X)
    PROVE  /\ IsHead(X, space, (<<"[">> \o m) \o <<"]">>)
           /\ <<"[">> \in Seq(X) /\ <<"]">> \in Seq(X) /\ <<"[">> \o m \in Seq(X)
<1> DEFINE y == "["
           d == "]"
           o == <<y>>
           e == <<d>>
           u == o \o m
           h == u \o e
<1>1. y \in X /\ d \in X /\ y \notin space /\ d \notin space
  BY DEF IsAlphabet
<1> HIDE DEF y, d
<1>2. o \in Seq(X) /\ o[1] = y /\ o # << >> /\ e \in Seq(X) /\ e # << >> /\ Len(e) = 1 /\ e[1] = d
  BY <1>1, One
<1> HIDE DEF o, e
<1>3. u \in Seq(X) /\ u[1] = y /\ u # << >>
  BY <1>2, Cat, Ends
<1> HIDE DEF u
<1>4. h \in Seq(X) /\ h # << >> /\ h[1] = u[1] /\ h[Len(h)] = e[Len(e)]
  BY <1>2, <1>3, Cat, Ends
<1> HIDE DEF h
<1>5. IsHead(X, space, h)
  BY <1>1, <1>2, <1>3, <1>4 DEF IsHead
<1>. QED
  BY <1>2, <1>3, <1>5 DEF h, u, o, e, y, d

SectionLine(pre, mid, name, sep, post, value) ==
    pre \o <<"[">> \o mid \o name \o sep \o <<"]">> \o post \o value

LEMMA SectionLineDoes ==
    ASSUME NEW X, NEW space, NEW s, NEW pre, NEW name, NEW mid, NEW sep, NEW value, NEW post,
           LineParts(X, space, pre, mid, sep, post, name, value)
    PROVE  Process(space, s, SectionLine(pre, mid, name, sep, post, value)) = Named(s, name)
<1> DEFINE y == "]"
           o == <<"[">>
           e == <<y>>
           m == (mid \o name) \o sep
           h == (o \o m) \o e
           z == << >>
           w == TailOf(post, value)
           t == h \o w
           line == SectionLine(pre, mid, name, sep, post, value)
<1>0. /\ pre \in Seq(X) /\ mid \in Seq(X) /\ sep \in Seq(X) /\ post \in Seq(X) /\ value \in Seq(X)
      /\ Blank(space, mid) /\ Blank(space, sep) /\ name \in Seq(X) /\ Solid(space, name)
  BY DEF LineParts, IsBlank, IsName, IsTail
<1>1. Lacks(name, y) /\ y \in X /\ y \notin space /\ IsAlphabet(X, space)
  BY DEF LineParts, IsName, IsAlphabet
<1>2. IsBlank(X, space, pre) /\ IsBlank(X, space, post) /\ IsTail(X, space, value)
  BY DEF LineParts
<1>3. Lacks(mid, y) /\ Lacks(sep, y)
  <2> HIDE DEF y
  <2>1. IsBlank(X, space, mid) /\ IsBlank(X, space, sep)
    BY DEF LineParts
  <2>. QED
    BY <1>1, <2>1, BlankLacks
<1>4. m \in Seq(X) /\ Lacks(m, y)
  <2> HIDE DEF y
  <2>1. mid \o name \in Seq(X)
    BY <1>0, Cat
  <2>2. Lacks(mid \o name, y)
    BY <1>0, <1>1, <1>3, BothLack
  <2> DEFINE u == mid \o name
  <2> HIDE DEF u
  <2>3. u \in Seq(X) /\ Lacks(u, y)
    BY <2>1, <2>2 DEF u
  <2>4. u \o sep \in Seq(X)
    BY <1>0, <2>3, Cat
  <2>5. Lacks(u \o sep, y)
    BY <1>0, <1>3, <2>3, BothLack
  <2>. QED
    BY <2>4, <2>5 DEF u
<1>5. Trim(space, m) = name
  BY <1>0, TrimBoth
<1>6. IsHead(X, space, h) /\ o \in Seq(X) /\ e \in Seq(X)
  <2> HIDE DEF m
  <2>. QED
    BY <1>1, <1>4, SectionHead
<1>7. (((((pre \o o) \o mid) \o name) \o sep) \o e) = pre \o h
  <2> HIDE DEF o, e
  <2> DEFINE u == o \o m
  <2>1. Texts(X, pre, o, mid, name)
    BY <1>0, <1>6 DEF Texts
  <2>2. (((pre \o o) \o mid) \o name) \o sep = pre \o u /\ u \in Seq(X)
    BY <1>0, <2>1, Regroup4
  <2> HIDE DEF u
  <2>3. (pre \o u) \o e = pre \o (u \o e)
    <3>1. Triple(X, pre, u, e)
      BY <1>0, <1>6, <2>2 DEF Triple
    <3>. QED
      BY <3>1, Grouped
  <2>. QED
    BY <2>2, <2>3 DEF u
<1>8. line = ((pre \o h) \o post) \o value
  <2>1. line = ((((((pre \o o) \o mid) \o name) \o sep) \o e) \o post) \o value
    BY DEF SectionLine
  <2>. QED
    BY <1>7, <2>1
<1>90. t = ((<<"[">> \o m) \o <<"]">>) \o w
  OBVIOUS
<1>91. h \in Seq(X)
  <2> HIDE DEF h
  <2>. QED
    BY <1>6 DEF IsHead
<1> HIDE DEF o, e, m, h, line, z
<1>92. ((pre \o h) \o post) \o value \in Seq(X)
  <2> DEFINE u == pre \o h
             v == u \o post
  <2>1. u \in Seq(X)
    BY <1>0, <1>91, Cat
  <2> HIDE DEF u
  <2>2. v \in Seq(X)
    BY <1>0, <2>1, Cat
  <2> HIDE DEF v
  <2>3. v \o value \in Seq(X)
    BY <1>0, <2>2, Cat
  <2>. QED
    BY <2>3 DEF u, v
<1>93. line = (((pre \o h) \o post) \o value) \o z
  BY <1>8, <1>92, WithNothing DEF z
<1>94. HeadAndTail(X, space, pre, h, post, value, z)
  <2>1. IsBlank(X, space, z)
    BY DEF IsBlank, Blank, z
  <2>. QED
    BY <1>2, <1>6, <2>1 DEF HeadAndTail
<1>95. IsTrimmed(X, space, h, value, line, w)
  <2>1. IsTrimmed(X, space, h, value, (((pre \o h) \o post) \o value) \o z, TailOf(post, value))
    BY <1>94, TailTrimmed
  <2>. QED
    BY <1>93, <2>1
<1> HIDE DEF w
<1>10. Trim(space, line) = t /\ w \in Seq(X)
  BY <1>95 DEF IsTrimmed
<1>11. IsSection(X, "[", m, y, w, t)
  <2>1. "[" \in X /\ y # "["
    BY <1>1 DEF IsAlphabet
  <2> HIDE DEF t
  <2>2. t = ((<<"[">> \o m) \o <<y>>) \o w
    BY <1>90
  <2> HIDE DEF y
  <2>. QED
    BY <1>1, <1>4, <1>10, <2>1, <2>2 DEF IsSection
<1> HIDE DEF t
<1>12. Does(space, s, t) = Named(s, name)
  BY <1>5, <1>11, SectionText
<1>13. Process(space, s, line) = Does(space, s, t)
  BY <1>10, ProcessDoes
<1>. QED
  BY <1>12, <1>13 DEF line

EmptySection(pre, mid, sep) == pre \o <<"[">> \o mid \o <<"]">> \o sep

LEMMA EmptySectionDoes ==
    ASSUME NEW X, NEW space, NEW s, NEW pre, NEW name, NEW mid, NEW sep, NEW value, NEW post,
           LineParts(X, space, pre, mid, sep, post, name, value)
    PROVE  Process(space, s, EmptySection(pre, mid, sep)) = Named(s, << >>)
<1> DEFINE y == "]"
           o == <<"[">>
           e == <<y>>
           h == (o \o mid) \o e
           z == << >>
           line == EmptySection(pre, mid, sep)
<1>0. /\ pre \in Seq(X) /\ mid \in Seq(X) /\ sep \in Seq(X)
      /\ Blank(space, pre) /\ Blank(space, mid) /\ Blank(space, sep)
  BY DEF LineParts, IsBlank
<1>1. y \in X /\ y \notin space /\ IsAlphabet(X, space)
  BY DEF LineParts, IsAlphabet
<1>3. Lacks(mid, y)
  <2> HIDE DEF y
  <2>1. IsBlank(X, space, mid)
    BY DEF LineParts
  <2>. QED
    BY <1>1, <2>1, BlankLacks
<1>5. Trim(space, mid) = << >>
  BY <1>0, TrimBlank
<1>6. IsHead(X, space, h) /\ o \in Seq(X) /\ e \in Seq(X)
  BY <1>0, <1>1, SectionHead
<1>7. (((pre \o o) \o mid) \o e) = pre \o h
  <2> HIDE DEF o, e
  <2>1. Texts(X, pre, o, mid, e)
    BY <1>0, <1>6 DEF Texts
  <2>2. /\ ((pre \o o) \o mid) \o e = pre \o ((o \o mid) \o e)
        /\ (o \o mid) \o e \in Seq(X)
    BY <2>1, Regroup3
  <2>. QED
    BY <2>2
<1>8. line = (pre \o h) \o sep
  BY <1>7 DEF EmptySection
<1> HIDE DEF line, z
<1>9. z \in Seq(X)
  BY DEF z
<1>10. h = h \o z
  <2> HIDE DEF h
  <2>1. h \in Seq(X)
    BY <1>6 DEF IsHead
  <2>. QED
    BY <2>1, WithNothing DEF z
<1>11. h = ((<<"[">> \o mid) \o <<"]">>) \o z
  BY <1>10
<1> HIDE DEF h
<1>12. Trim(space, (pre \o h) \o sep) = h
  <2>1. h \in Seq(X) /\ Solid(space, h)
    BY <1>6 DEF IsHead, Solid
  <2>. QED
    BY <1>0, <2>1, TrimBoth
<1>13. IsSection(X, "[", mid, y, z, h)
  <2>1. "[" \in X /\ y # "["
    BY <1>1 DEF IsAlphabet
  <2>2. h = ((<<"[">> \o mid) \o <<y>>) \o z
    BY <1>11
  <2> HIDE DEF y
  <2>. QED
    BY <1>0, <1>1, <1>3, <1>9, <2>1, <2>2 DEF IsSection
<1>14. Does(space, s, h) = Named(s, << >>)
  BY <1>5, <1>13, SectionText
<1>15. Process(space, s, line) = Does(space, s, h)
  BY <1>8, <1>12, ProcessDoes
<1>. QED
  BY <1>14, <1>15 DEF line

FailLine(pre, mid, name, sep) == pre \o <<"[">> \o mid \o name \o sep

LEMMA FailLineDoes ==
    ASSUME NEW X, NEW space, NEW s, NEW pre, NEW name, NEW mid, NEW sep, NEW value, NEW post,
           LineParts(X, space, pre, mid, sep, post, name, value)
    PROVE  Process(space, s, FailLine(pre, mid, name, sep)) = Failed(s)
<1> DEFINE d == "["
           y == "]"
           o == <<d>>
           u == o \o mid
           t == u \o name
           line == FailLine(pre, mid, name, sep)
<1>0. /\ pre \in Seq(X) /\ mid \in Seq(X) /\ sep \in Seq(X)
      /\ Blank(space, pre) /\ Blank(space, mid) /\ Blank(space, sep)
      /\ name \in Seq(X) /\ Solid(space, name) /\ name # << >>
  BY DEF LineParts, IsBlank, IsName
<1>1. y \in X /\ y \notin space /\ d \in X /\ d \notin space /\ y # d /\ Lacks(name, y)
  BY DEF LineParts, IsAlphabet, IsName
<1>2. line = (((pre \o o) \o mid) \o name) \o sep
  BY DEF FailLine
<1> HIDE DEF y, d, line
<1>3. Lacks(mid, y)
  <2>1. IsBlank(X, space, mid)
    BY DEF LineParts
  <2>. QED
    BY <1>1, <2>1, BlankLacks
<1>4. o \in Seq(X) /\ o[1] = d /\ o # << >> /\ Lacks(o, y)
  BY <1>1, One
<1> HIDE DEF o
<1>5. ((pre \o o) \o mid) \o name = pre \o t
  <2>1. Texts(X, pre, o, mid, name)
    BY <1>0, <1>4 DEF Texts
  <2>2. /\ ((pre \o o) \o mid) \o name = pre \o ((o \o mid) \o name)
        /\ (o \o mid) \o name \in Seq(X)
    BY <2>1, Regroup3
  <2>. QED
    BY <2>2
<1>6. u \in Seq(X) /\ u[1] = d /\ u # << >>
  BY <1>0, <1>4, Cat, Ends
<1>7. Lacks(u, y)
  BY <1>0, <1>3, <1>4, BothLack
<1> HIDE DEF u
<1>8. t \in Seq(X) /\ t[1] = d /\ t # << >> /\ t[Len(t)] = name[Len(name)]
  <2>1. t \in Seq(X)
    BY <1>0, <1>6, Cat
  <2>2. t[1] = u[1] /\ t # << >>
    BY <1>0, <1>6, Ends
  <2>3. t[Len(t)] = name[Len(name)]
    BY <1>0, <1>6, Ends
  <2>. QED
    BY <1>6, <2>1, <2>2, <2>3
<1>9. Lacks(t, y)
  BY <1>0, <1>1, <1>6, <1>7, BothLack
<1> HIDE DEF t
<1>10. Solid(space, t)
  BY <1>0, <1>1, <1>8 DEF Solid
<1>11. Trim(space, (pre \o t) \o sep) = t
  BY <1>0, <1>8, <1>10, TrimBoth
<1>12. FirstOf(t, y) = 0
  BY <1>9, FirstLacks
<1>13. Does(space, s, t) = Failed(s)
  <2>1. t # << >> /\ t[1] = "[" /\ FirstOf(t, "]") = 0
    BY <1>8, <1>12 DEF y, d
  <2>. QED
    BY <2>1, DoesFail
<1>14. Process(space, s, line) = Does(space, s, t)
  <2>1. Trim(space, line) = t
    BY <1>2, <1>5, <1>11
  <2>. QED
    BY <2>1, ProcessDoes
<1>. QED
  BY <1>13, <1>14 DEF line

LEMMA BlankLineDoes ==
    ASSUME NEW X, NEW space, NEW s, NEW pre, IsBlank(X, space, pre)
    PROVE  Process(space, s, pre) = s
<1>1. Trim(space, pre) = << >>
  BY TrimBlank DEF IsBlank
<1>. QED
  BY <1>1, ProcessDoes, DoesNothing

NameLine(pre, name, mid) == pre \o name \o mid

LEMMA NameLineDoes ==
    ASSUME NEW X, NEW space, NEW s, NEW pre, NEW name, NEW mid, NEW sep, NEW value, NEW post,
           LineParts(X, space, pre, mid, sep, post, name, value)
    PROVE  Process(space, s, NameLine(pre, name, mid)) = s
<1> DEFINE y == "="
           line == NameLine(pre, name, mid)
<1>0. /\ pre \in Seq(X) /\ mid \in Seq(X) /\ Blank(space, pre) /\ Blank(space, mid)
      /\ name \in Seq(X) /\ Solid(space, name) /\ name # << >>
  BY DEF LineParts, IsBlank, IsName
<1>1. Lacks(name, y) /\ name[1] \notin {"#", "["}
  BY DEF LineParts, IsName
<1>2. Trim(space, (pre \o name) \o mid) = name
  BY <1>0, TrimBoth
<1>3. Trim(space, line) = name
  BY <1>2 DEF NameLine
<1>4. FirstOf(name, y) = 0
  BY <1>1, FirstLacks
<1> HIDE DEF line
<1>5. Does(space, s, name) = s
  <2>1. FirstOf(name, "=") = 0
    BY <1>4
  <2>2. name # << >> /\ name[1] \notin {"#", "["}
    BY <1>0, <1>1
  <2>. QED
    BY <2>1, <2>2, DoesSkip
<1>6. Process(space, s, line) = Does(space, s, name)
  BY <1>3, ProcessDoes
<1>. QED
  BY <1>5, <1>6 DEF line

NamelessLine(pre, mid, value, sep) == pre \o <<"=">> \o mid \o value \o sep

LEMMA NamelessLineDoes ==
    ASSUME NEW X, NEW space, NEW s, NEW pre, NEW name, NEW mid, NEW sep, NEW value, NEW post,
           LineParts(X, space, pre, mid, sep, post, name, value)
    PROVE  Process(space, s, NamelessLine(pre, mid, value, sep)) = s
<1> DEFINE y == "="
           e == <<y>>
           z == << >>
           w == TailOf(mid, value)
           t == e \o w
           line == NamelessLine(pre, mid, value, sep)
<1>1. y \in X /\ y \notin space
  BY DEF LineParts, IsAlphabet
<1>2. line = (((pre \o e) \o mid) \o value) \o sep
  BY DEF NamelessLine
<1>3. y # "#" /\ y # "["
  OBVIOUS
<1> HIDE DEF y, line, w
<1>4. e \in Seq(X) /\ Len(e) = 1 /\ e[1] = y /\ e # << >>
  BY <1>1, One
<1>5. e = <<y>>
  OBVIOUS
<1> HIDE DEF e
<1>6. IsHead(X, space, e)
  BY <1>1, <1>4 DEF IsHead
<1>7. HeadAndTail(X, space, pre, e, mid, value, sep)
  BY <1>6 DEF HeadAndTail, LineParts
<1>8. IsTrimmed(X, space, e, value, (((pre \o e) \o mid) \o value) \o sep, TailOf(mid, value))
  BY <1>7, TailTrimmed
<1>9. IsTrimmed(X, space, e, value, line, w)
  BY <1>2, <1>8 DEF w
<1>10. Trim(space, line) = t /\ w \in Seq(X) /\ t # << >> /\ t[1] = y
  BY <1>4, <1>9 DEF IsTrimmed
<1>11. z \in Seq(X) /\ Lacks(z, y)
  BY DEF Lacks
<1>12. z \o e = e
  BY <1>4, WithNothing
<1> HIDE DEF z
<1>13. IsKeyed(X, z, y, w, t)
  <2>1. t = (z \o <<y>>) \o w
    BY <1>5, <1>12
  <2> HIDE DEF t
  <2>. QED
    BY <1>1, <1>10, <1>11, <2>1 DEF IsKeyed
<1> HIDE DEF t
<1>14. z = SubSeq(t, 1, FirstOf(t, y) - 1)
  BY <1>13, KeyParts
<1>15. Trim(space, z) = z
  <2>1. Blank(space, z)
    BY DEF Blank, z
  <2>2. Trim(space, z) = << >>
    BY <1>11, <2>1, TrimBlank
  <2>. QED
    BY <2>2 DEF z
<1>16. Does(space, s, t) = s
  <2>1. Trim(space, SubSeq(t, 1, FirstOf(t, "=") - 1)) = << >>
    BY <1>14, <1>15 DEF y, z
  <2>2. t # << >> /\ t[1] \notin {"#", "["}
    BY <1>3, <1>10
  <2>. QED
    BY <2>1, <2>2, DoesSkip
<1>17. Process(space, s, line) = Does(space, s, t)
  BY <1>10, ProcessDoes
<1>. QED
  BY <1>16, <1>17 DEF line

CommentLine(pre, name, mid, value) == pre \o <<"#">> \o name \o mid \o <<"=">> \o value

LEMMA CommentLineDoes ==
    ASSUME NEW X, NEW space, NEW s, NEW pre, NEW name, NEW mid, NEW sep, NEW value, NEW post,
           LineParts(X, space, pre, mid, sep, post, name, value)
    PROVE  Process(space, s, CommentLine(pre, name, mid, value)) = s
<1> DEFINE y == "="
           d == "#"
           o == <<d>>
           e == <<y>>
           v == (name \o mid) \o e
           h == o \o v
           z == << >>
           w == TailOf(z, value)
           t == h \o w
           line == CommentLine(pre, name, mid, value)
<1>0. /\ pre \in Seq(X) /\ mid \in Seq(X) /\ name \in Seq(X) /\ value \in Seq(X)
      /\ IsBlank(X, space, pre) /\ IsTail(X, space, value)
  BY DEF LineParts, IsBlank, IsName, IsTail
<1>1. y \in X /\ y \notin space /\ d \in X /\ d \notin space
  BY DEF LineParts, IsAlphabet
<1>2. line = ((((pre \o o) \o name) \o mid) \o e) \o value
  BY DEF CommentLine
<1> HIDE DEF y, d, line, w
<1>3. e \in Seq(X) /\ Len(e) = 1 /\ e[1] = y /\ e # << >>
  BY <1>1, One
<1>4. o \in Seq(X) /\ o[1] = d /\ o # << >>
  BY <1>1, One
<1> HIDE DEF o, e
<1>5. (((pre \o o) \o name) \o mid) \o e = pre \o h
  <2>1. Texts(X, pre, o, name, mid)
    BY <1>0, <1>3, <1>4 DEF Texts
  <2>2. e \in Seq(X)
    BY <1>3
  <2> HIDE DEF v, h, z, t
  <2>3. (((pre \o o) \o name) \o mid) \o e = pre \o (o \o ((name \o mid) \o e))
        /\ o \o ((name \o mid) \o e) \in Seq(X)
    BY <2>1, <2>2, Regroup4
  <2>. QED
    BY <2>3 DEF h, v
<1>6. v \in Seq(X) /\ v # << >> /\ v[Len(v)] = e[Len(e)]
  <2> DEFINE u == name \o mid
  <2>1. u \in Seq(X)
    BY <1>0, Cat
  <2> HIDE DEF u
  <2>2. u \o e \in Seq(X)
    BY <1>3, <2>1, Cat
  <2>3. u \o e # << >> /\ (u \o e)[Len(u \o e)] = e[Len(e)]
    BY <1>3, <2>1, Ends
  <2>. QED
    BY <2>2, <2>3 DEF u
<1> HIDE DEF v
<1>7. h \in Seq(X) /\ h # << >> /\ h[1] = d /\ h[Len(h)] = y
  <2>1. h \in Seq(X)
    BY <1>4, <1>6, Cat
  <2>2. h # << >> /\ h[1] = o[1]
    BY <1>4, <1>6, Ends
  <2>3. h[Len(h)] = v[Len(v)]
    BY <1>4, <1>6, Ends
  <2> HIDE DEF h
  <2>. QED
    BY <1>3, <1>4, <1>6, <2>1, <2>2, <2>3
<1> HIDE DEF h
<1>8. IsHead(X, space, h)
  BY <1>1, <1>7 DEF IsHead
<1>9. IsBlank(X, space, z)
  BY DEF IsBlank, Blank
<1> HIDE DEF z
<1>10. HeadAndTail(X, space, pre, h, z, value, z)
  BY <1>0, <1>8, <1>9 DEF HeadAndTail
<1>11. IsTrimmed(X, space, h, value, (((pre \o h) \o z) \o value) \o z, TailOf(z, value))
  BY <1>10, TailTrimmed
<1>12. (((pre \o h) \o z) \o value) \o z = (pre \o h) \o value
  <2> DEFINE u == pre \o h
  <2>1. u \in Seq(X)
    BY <1>0, <1>7, Cat
  <2> HIDE DEF u
  <2>2. u \o z = u
    BY <2>1, WithNothing DEF z
  <2> DEFINE x == u \o value
  <2>3. x \in Seq(X)
    BY <1>0, <2>1, Cat
  <2> HIDE DEF x
  <2>4. x \o z = x
    BY <2>3, WithNothing DEF z
  <2>. QED
    BY <2>2, <2>4 DEF u, x
<1>13. IsTrimmed(X, space, h, value, line, w)
  BY <1>2, <1>5, <1>11, <1>12 DEF w
<1>14. Trim(space, line) = t /\ t # << >> /\ t[1] = d
  BY <1>7, <1>13 DEF IsTrimmed
<1> HIDE DEF t
<1>15. Does(space, s, t) = s
  BY <1>14, DoesComment DEF d
<1>16. Process(space, s, line) = Does(space, s, t)
  BY <1>14, ProcessDoes
<1>. QED
  BY <1>15, <1>16 DEF line

Spaces == {"sp", "cr"}
Characters == {"sp", "cr", "k", "[", "]", "#", "=", "."}

LEMMA IsAnAlphabet == IsAlphabet(Characters, Spaces)
  BY DEF IsAlphabet, Characters, Spaces

LEMMA TheBlanks ==
    ASSUME NEW q \in {<< >>, <<"sp">>, <<"cr">>, <<"cr", "sp">>}
    PROVE  IsBlank(Characters, Spaces, q)
<1>1. "sp" \in Characters /\ "cr" \in Characters /\ "sp" \in Spaces /\ "cr" \in Spaces
  BY DEF Characters, Spaces
<1>3. CASE q = << >>
  BY <1>3 DEF IsBlank, Blank
<1>4. CASE q = <<"sp">>
  <2>1. q \in Seq(Characters) /\ Len(q) = 1 /\ q[1] = "sp"
    BY <1>1, <1>4
  <2>. QED
    BY <1>1, <2>1 DEF IsBlank, Blank
<1>5. CASE q = <<"cr">>
  <2>1. q \in Seq(Characters) /\ Len(q) = 1 /\ q[1] = "cr"
    BY <1>1, <1>5
  <2>. QED
    BY <1>1, <2>1 DEF IsBlank, Blank
<1>6. CASE q = <<"cr", "sp">>
  <2>1. q \in Seq(Characters) /\ Len(q) = 2 /\ q[1] = "cr" /\ q[2] = "sp"
    BY <1>1, <1>6
  <2>. QED
    BY <1>1, <2>1 DEF IsBlank, Blank
<1>. QED
  BY <1>3, <1>4, <1>5, <1>6

LEMMA TheNames ==
    ASSUME NEW q \in {<<"k">>, <<"k", "sp", "k">>, <<"k", "[">>}
    PROVE  IsName(Characters, Spaces, q)
<1>1. {"k", "sp", "["} \subseteq Characters
  BY DEF Characters
<1>3. "k" \notin Spaces /\ "[" \notin Spaces
  BY DEF Spaces
<1>4. CASE q = <<"k">>
  <2>1. q \in Seq(Characters) /\ Len(q) = 1 /\ q[1] = "k" /\ q # << >>
    BY <1>1, <1>4
  <2>. QED
    BY <1>3, <2>1 DEF IsName, Solid, Lacks
<1>5. CASE q = <<"k", "sp", "k">>
  <2>1. q \in Seq(Characters) /\ Len(q) = 3 /\ q[1] = "k" /\ q[2] = "sp" /\ q[3] = "k" /\ q # << >>
    BY <1>1, <1>5
  <2>. QED
    BY <1>3, <2>1 DEF IsName, Solid, Lacks
<1>6. CASE q = <<"k", "[">>
  <2>1. q \in Seq(Characters) /\ Len(q) = 2 /\ q[1] = "k" /\ q[2] = "[" /\ q # << >>
    BY <1>1, <1>6
  <2>. QED
    BY <1>3, <2>1 DEF IsName, Solid, Lacks
<1>. QED
  BY <1>4, <1>5, <1>6

LEMMA TheValues ==
    ASSUME NEW q \in {<<"k">>, <<"k", "sp", "k">>, <<"k", "[">>}
                     \union {<< >>, <<"=">>, <<"]">>, <<"#", "k">>}
    PROVE  IsTail(Characters, Spaces, q)
<1>0. CASE q \in {<<"k">>, <<"k", "sp", "k">>, <<"k", "[">>}
  BY <1>0, TheNames DEF IsName, IsTail
<1>1. {"k", "#", "=", "]"} \subseteq Characters
  BY DEF Characters
<1>3. "k" \notin Spaces /\ "#" \notin Spaces /\ "=" \notin Spaces /\ "]" \notin Spaces
  BY DEF Spaces
<1>4. CASE q = << >>
  BY <1>4 DEF IsTail, Solid
<1>5. CASE q = <<"=">>
  <2>1. q \in Seq(Characters) /\ Len(q) = 1 /\ q[1] = "="
    BY <1>1, <1>5
  <2>. QED
    BY <1>3, <2>1 DEF IsTail, Solid
<1>6. CASE q = <<"]">>
  <2>1. q \in Seq(Characters) /\ Len(q) = 1 /\ q[1] = "]"
    BY <1>1, <1>6
  <2>. QED
    BY <1>3, <2>1 DEF IsTail, Solid
<1>7. CASE q = <<"#", "k">>
  <2>1. q \in Seq(Characters) /\ Len(q) = 2 /\ q[1] = "#" /\ q[2] = "k"
    BY <1>1, <1>7
  <2>. QED
    BY <1>3, <2>1 DEF IsTail, Solid
<1>. QED
  BY <1>0, <1>4, <1>5, <1>6, <1>7

(* The prefix of a key.                                                    *)
LEMMA ThePrefix ==
    ASSUME NEW X, NEW y \in X, NEW section \in Seq(X)
    PROVE  section \o (IF section = << >> THEN << >> ELSE <<y>>) =
             IF section = << >> THEN << >> ELSE Append(section, y)
<1>1. CASE section = << >>
  <2>1. section \o << >> = section
    BY WithNothing
  <2>. QED
    BY <1>1, <2>1
<1>2. CASE section # << >>
  BY <1>2, AppendJoins
<1>. QED
  BY <1>1, <1>2

(* What a line of kv_normalize means does not depend on the blanks around  *)
(* its parts.                                                              *)
LEMMA LinesAreRight == KvLinesAreRight
<1> DEFINE blanks == {<< >>, <<"sp">>, <<"cr">>, <<"cr", "sp">>}
           names == {<<"k">>, <<"k", "sp", "k">>, <<"k", "[">>}
           values == names \union {<< >>, <<"=">>, <<"]">>, <<"#", "k">>}
           starts == {[out |-> <<"k">>, section |-> s, exit |-> 0] : s \in {<< >>, <<"k">>}}
           X == Characters
<1>1. \A q \in blanks : IsBlank(X, Spaces, q)
  BY TheBlanks
<1>2. \A q \in names : IsName(X, Spaces, q)
  BY TheNames
<1>3. \A q \in values : IsTail(X, Spaces, q)
  BY TheValues
<1>4. \A start \in starts :
        start.section \o (IF start.section = << >> THEN << >> ELSE <<".">>) = Prefix(start.section)
  <2> TAKE start \in starts
  <2>1. "." \in X /\ "k" \in X
    BY DEF Characters
  <2> DEFINE section == start.section
  <2>2. section = << >> \/ section = <<"k">>
    OBVIOUS
  <2> HIDE DEF section, starts, X
  <2>3. section \in Seq(X)
    <3>1. CASE section = << >>
      BY <3>1
    <3>2. CASE section = <<"k">>
      BY <2>1, <3>2
    <3>. QED
      BY <2>2, <3>1, <3>2
  <2>4. section \o (IF section = << >> THEN << >> ELSE <<".">>) =
             IF section = << >> THEN << >> ELSE Append(section, ".")
    BY <2>1, <2>3, ThePrefix
  <2>. QED
    BY <2>4 DEF Prefix, section
<1>5. ASSUME NEW pre \in blanks, NEW mid \in blanks, NEW sep \in blanks, NEW post \in blanks,
             NEW name \in names, NEW value \in values, NEW start \in starts
      PROVE  LET Does1(line) == Process({"sp", "cr"}, start, line)
                 prefix == start.section \o IF start.section = << >> THEN << >> ELSE <<".">>
             IN  /\ Does1(pre \o name \o mid \o <<"=">> \o sep \o value \o post) =
                       [start EXCEPT !.out = @ \o prefix \o name \o <<"=">> \o value \o <<"nl">>]
                 /\ Does1(pre \o <<"[">> \o mid \o name \o sep \o <<"]">> \o post \o value) =
                       [start EXCEPT !.section = name]
                 /\ Does1(pre \o <<"[">> \o mid \o <<"]">> \o sep) = [start EXCEPT !.section = << >>]
                 /\ Does1(pre \o <<"[">> \o mid \o name \o sep) = [start EXCEPT !.exit = 3]
                 /\ \A idle \in {pre, pre \o name \o mid, pre \o <<"=">> \o mid \o value \o sep,
                                 pre \o <<"#">> \o name \o mid \o <<"=">> \o value} :
                       Does1(idle) = start
  <2>1. IsBlank(X, Spaces, pre) /\ IsBlank(X, Spaces, mid) /\ IsBlank(X, Spaces, sep)
        /\ IsBlank(X, Spaces, post) /\ IsName(X, Spaces, name) /\ IsTail(X, Spaces, value)
    BY <1>1, <1>2, <1>3
  <2> HIDE DEF blanks, names, values, X
  <2>2. LineParts(X, Spaces, pre, mid, sep, post, name, value)
    BY <2>1, IsAnAlphabet DEF LineParts, X
  <2>3. start.section \o (IF start.section = << >> THEN << >> ELSE <<".">>) = Prefix(start.section)
    BY <1>4
  <2> HIDE DEF starts
  <2>4. Process(Spaces, start, KeyLine(pre, name, mid, sep, value, post)) = Keyed(start, name, value)
    BY <2>1, <2>2, KeyLineDoes DEF LineParts
  <2>5. Process(Spaces, start, SectionLine(pre, mid, name, sep, post, value)) = Named(start, name)
    BY <2>2, SectionLineDoes
  <2>6. Process(Spaces, start, EmptySection(pre, mid, sep)) = Named(start, << >>)
    BY <2>2, EmptySectionDoes
  <2>7. Process(Spaces, start, FailLine(pre, mid, name, sep)) = Failed(start)
    BY <2>2, FailLineDoes
  <2>8. Process(Spaces, start, pre) = start
    BY <2>1, BlankLineDoes
  <2>9. Process(Spaces, start, NameLine(pre, name, mid)) = start
    BY <2>2, NameLineDoes
  <2>10. Process(Spaces, start, NamelessLine(pre, mid, value, sep)) = start
    BY <2>2, NamelessLineDoes
  <2>11. Process(Spaces, start, CommentLine(pre, name, mid, value)) = start
    BY <2>2, CommentLineDoes
  <2>12. Keyed(start, name, value) =
           [start EXCEPT !.out = @ \o (start.section \o IF start.section = << >> THEN << >> ELSE <<".">>)
                                   \o name \o <<"=">> \o value \o <<"nl">>]
    BY <2>3 DEF Keyed
  <2>13. Process({"sp", "cr"}, start, pre \o name \o mid \o <<"=">> \o sep \o value \o post) =
           [start EXCEPT !.out = @ \o (start.section \o IF start.section = << >> THEN << >> ELSE <<".">>)
                                   \o name \o <<"=">> \o value \o <<"nl">>]
    BY <2>4, <2>12, Zenon DEF KeyLine, Spaces
  <2>14. Process({"sp", "cr"}, start, pre \o <<"[">> \o mid \o name \o sep \o <<"]">> \o post \o value) =
           [start EXCEPT !.section = name]
    BY <2>5, Zenon DEF SectionLine, Spaces, Named
  <2>15. Process({"sp", "cr"}, start, pre \o <<"[">> \o mid \o <<"]">> \o sep) =
           [start EXCEPT !.section = << >>]
    BY <2>6, Zenon DEF EmptySection, Spaces, Named
  <2>16. Process({"sp", "cr"}, start, pre \o <<"[">> \o mid \o name \o sep) = [start EXCEPT !.exit = 3]
    BY <2>7, Zenon DEF FailLine, Spaces, Failed
  <2>17. Process({"sp", "cr"}, start, pre) = start
    BY <2>8, Zenon DEF Spaces
  <2>18. Process({"sp", "cr"}, start, pre \o name \o mid) = start
    BY <2>9, Zenon DEF Spaces, NameLine
  <2>19. Process({"sp", "cr"}, start, pre \o <<"=">> \o mid \o value \o sep) = start
    BY <2>10, Zenon DEF Spaces, NamelessLine
  <2>20. Process({"sp", "cr"}, start, pre \o <<"#">> \o name \o mid \o <<"=">> \o value) = start
    BY <2>11, Zenon DEF Spaces, CommentLine
  <2>. QED
    BY <2>13, <2>14, <2>15, <2>16, <2>17, <2>18, <2>19, <2>20, Zenon
<1>. QED
  BY <1>5, Zenon DEF KvLinesAreRight

-----------------------------------------------------------------------------
(* The states of kv_normalize.                                             *)

LEMMA SubType ==
    ASSUME NEW X, NEW q \in Seq(X), NEW m \in Nat, NEW n \in Nat, 1 <= m, m <= n + 1, n <= Len(q)
    PROVE  SubSeq(q, m, n) \in Seq(X) /\ Len(SubSeq(q, m, n)) = n - m + 1
  OBVIOUS

LEMMA TrimType ==
    ASSUME NEW X, NEW space, NEW q \in Seq(X)
    PROVE  Trim(space, q) \in Seq(X) /\ Len(Trim(space, q)) <= Len(q)
<1> DEFINE kept == {i \in 1 .. Len(q) : q[i] \notin space}
<1>1. Trim(space, q) = IF kept = {} THEN << >> ELSE SubSeq(q, Min(kept), Max(kept))
  <2>1. DOMAIN q = 1 .. Len(q)
    OBVIOUS
  <2>. QED
    BY <2>1 DEF Trim
<1>2. kept \subseteq Nat /\ kept \in SUBSET (1 .. Len(q)) /\ Len(q) \in Nat
  OBVIOUS
<1>3. CASE kept = {}
  <2>1. << >> \in Seq(X) /\ Len(<< >>) = 0
    OBVIOUS
  <2>. QED
    BY <1>1, <1>2, <1>3, <2>1
<1>4. CASE kept # {}
  <2> HIDE DEF kept
  <2>1. Min(kept) \in kept /\ \A y \in kept : Min(kept) <= y
    BY <1>2, <1>4, MinPosition
  <2>2. Max(kept) \in kept
    BY <1>2, <1>4, LastPosition
  <2> DEFINE m == Min(kept)
             n == Max(kept)
  <2>20. m \in 1 .. Len(q) /\ n \in 1 .. Len(q) /\ m <= n
    BY <1>2, <2>1, <2>2
  <2>3. m \in Nat /\ n \in Nat /\ 1 <= m /\ m <= n + 1 /\ n <= Len(q)
    BY <1>2, <2>20
  <2> HIDE DEF m, n
  <2>4. SubSeq(q, m, n) \in Seq(X) /\ Len(SubSeq(q, m, n)) = n - m + 1
    BY <2>3, SubType
  <2>5. Len(SubSeq(q, m, n)) <= Len(q)
    BY <1>2, <2>3, <2>4
  <2>. QED
    BY <1>1, <1>4, <2>4, <2>5 DEF m, n
<1>. QED
  BY <1>3, <1>4

(* What kv_normalize writes, and the state of its lines.                   *)
Written(X) == X \union {"nl", ".", "="}

Sections(X, n) == {q \in Seq(X) : Len(q) <= n}

Cores(X, n) == [out : Seq(Written(X)), section : Sections(X, n), exit : {0, 3}]

LEMMA WrittenTexts ==
    ASSUME NEW X, NEW q \in Seq(X)
    PROVE  q \in Seq(Written(X))
<1>1. X \subseteq Written(X)
  BY DEF Written
<1> DEFINE Y == Written(X)
<1> HIDE DEF Y
<1>2. X \subseteq Y
  BY <1>1 DEF Y
<1>3. q \in Seq(Y)
  BY <1>2
<1>. QED
  BY <1>3 DEF Y

WithKey(s, key, value) == s.out \o Prefix(s.section) \o key \o <<"=">> \o value \o <<"nl">>

LEMMA KeyedType ==
    ASSUME NEW X, NEW n, NEW s \in Cores(X, n), NEW key \in Seq(X), NEW value \in Seq(X)
    PROVE  /\ Keyed(s, key, value) =
                [out |-> WithKey(s, key, value), section |-> s.section, exit |-> s.exit]
           /\ Keyed(s, key, value) \in Cores(X, n)
<1> DEFINE Y == Written(X)
           z == "="
           d == "nl"
           f == "."
           p == Prefix(s.section)
           e == <<z>>
           l == <<d>>
           out == s.out \o p \o key \o e \o value \o l
<1>1. z \in Y /\ d \in Y /\ f \in Y
  BY DEF Written
<1>2. s.out \in Seq(Y) /\ s.section \in Seq(X)
  BY DEF Cores, Sections
<1>3. s.section \in Seq(Y) /\ key \in Seq(Y) /\ value \in Seq(Y)
  BY <1>2, WrittenTexts
<1> HIDE DEF Y, z, d, f
<1>4. p \in Seq(Y)
  <2>1. p = IF s.section = << >> THEN << >> ELSE Append(s.section, f)
    BY DEF Prefix, f
  <2>2. Append(s.section, f) \in Seq(Y)
    BY <1>1, <1>3
  <2>3. << >> \in Seq(Y)
    OBVIOUS
  <2> HIDE DEF p
  <2>. QED
    BY <2>1, <2>2, <2>3
<1>5. e \in Seq(Y) /\ l \in Seq(Y)
  BY <1>1
<1> HIDE DEF p, e, l
<1>6. out \in Seq(Y)
  <2> DEFINE o1 == s.out \o p
             o2 == o1 \o key
             o3 == o2 \o e
             o4 == o3 \o value
  <2>1. o1 \in Seq(Y)
    BY <1>2, <1>4
  <2> HIDE DEF o1
  <2>2. o2 \in Seq(Y)
    BY <1>3, <2>1
  <2> HIDE DEF o2
  <2>3. o3 \in Seq(Y)
    BY <1>5, <2>2
  <2> HIDE DEF o3
  <2>4. o4 \in Seq(Y)
    BY <1>3, <2>3
  <2> HIDE DEF o4
  <2>5. o4 \o l \in Seq(Y)
    BY <1>5, <2>4
  <2>. QED
    BY <2>5 DEF o1, o2, o3, o4
<1>7. WithKey(s, key, value) = out
  BY DEF WithKey, p, e, l, z, d
<1> DEFINE section == s.section
           exit == s.exit
<1>8. s = [out |-> s.out, section |-> section, exit |-> exit]
      /\ section \in Sections(X, n) /\ exit \in {0, 3}
  BY DEF Cores
<1>9. Keyed(s, key, value) = [s EXCEPT !.out = out]
  BY <1>7, Zenon DEF Keyed, WithKey
<1> HIDE DEF out, section, exit
<1>10. [s EXCEPT !.out = out] = [out |-> out, section |-> section, exit |-> exit]
  BY <1>8
<1>11. [out |-> out, section |-> section, exit |-> exit] \in Cores(X, n)
  BY <1>6, <1>8 DEF Cores, Y
<1>. QED
  BY <1>6, <1>7, <1>9, <1>10, <1>11 DEF Y, section, exit

(* A line is one of five.                                                  *)
KeyOf(space, t) == Trim(space, SubSeq(t, 1, FirstOf(t, "=") - 1))
ValueOf(space, t) == Trim(space, SubSeq(t, FirstOf(t, "=") + 1, Len(t)))
NameOf(space, t) == Trim(space, SubSeq(t, 2, FirstOf(t, "]") - 1))

Idle(space, t) ==
    \/ t = << >>
    \/ t[1] = "#"
    \/ t[1] \notin {"#", "["} /\ (FirstOf(t, "=") = 0 \/ KeyOf(space, t) = << >>)
Unclosed(t) == t # << >> /\ t[1] = "[" /\ FirstOf(t, "]") = 0
Closed(t) == t # << >> /\ t[1] = "[" /\ FirstOf(t, "]") # 0
HasKey(space, t) ==
    t # << >> /\ t[1] \notin {"#", "["} /\ FirstOf(t, "=") # 0 /\ KeyOf(space, t) # << >>

LEMMA LineCases ==
    ASSUME NEW space, NEW t
    PROVE  Idle(space, t) \/ Unclosed(t) \/ Closed(t) \/ HasKey(space, t)
<1>1. CASE t = << >> \/ t[1] = "#"
  BY <1>1 DEF Idle
<1>2. CASE t # << >> /\ t[1] = "["
  BY <1>2 DEF Unclosed, Closed
<1>3. CASE t # << >> /\ t[1] \notin {"#", "["}
  BY <1>3 DEF Idle, HasKey
<1>. QED
  BY <1>1, <1>2, <1>3

LEMMA IdleDoes ==
    ASSUME NEW space, NEW s, NEW t, Idle(space, t)
    PROVE  Does(space, s, t) = s
<1>1. CASE t = << >>
  BY <1>1, DoesNothing
<1>2. CASE t # << >> /\ t[1] = "#"
  BY <1>2, DoesComment
<1>3. CASE t # << >> /\ t[1] # "#"
  <2>1. t # << >> /\ t[1] \notin {"#", "["} /\ (FirstOf(t, "=") = 0 \/ KeyOf(space, t) = << >>)
    BY <1>3 DEF Idle
  <2>2. t # << >> /\ t[1] \notin {"#", "["}
        /\ (FirstOf(t, "=") = 0 \/ Trim(space, SubSeq(t, 1, FirstOf(t, "=") - 1)) = << >>)
    BY <2>1 DEF KeyOf
  <2>. QED
    BY <2>2, DoesSkip
<1>. QED
  BY <1>1, <1>2, <1>3

LEMMA OthersDo ==
    ASSUME NEW space, NEW s, NEW t
    PROVE  /\ Unclosed(t) => Does(space, s, t) = Failed(s)
           /\ Closed(t) => Does(space, s, t) = Named(s, NameOf(space, t))
           /\ HasKey(space, t) => Does(space, s, t) = Keyed(s, KeyOf(space, t), ValueOf(space, t))
<1>1. Unclosed(t) => Does(space, s, t) = Failed(s)
  BY DoesFail DEF Unclosed
<1>2. Closed(t) => Does(space, s, t) = Named(s, NameOf(space, t))
  BY DoesSection DEF Closed, NameOf
<1>3. ASSUME HasKey(space, t) PROVE Does(space, s, t) = Keyed(s, KeyOf(space, t), ValueOf(space, t))
  <2> DEFINE a == SubSeq(t, 1, FirstOf(t, "=") - 1)
             w == SubSeq(t, FirstOf(t, "=") + 1, Len(t))
  <2>1. t # << >> /\ t[1] \notin {"#", "["} /\ FirstOf(t, "=") # 0
    BY <1>3 DEF HasKey
  <2>2. a = SubSeq(t, 1, FirstOf(t, "=") - 1) /\ w = SubSeq(t, FirstOf(t, "=") + 1, Len(t))
    OBVIOUS
  <2>3. Trim(space, a) # << >>
    BY <1>3 DEF HasKey, KeyOf
  <2>4. KeyOf(space, t) = Trim(space, a) /\ ValueOf(space, t) = Trim(space, w)
    BY DEF KeyOf, ValueOf
  <2> HIDE DEF a, w
  <2>5. Does(space, s, t) = Keyed(s, Trim(space, a), Trim(space, w))
    BY <2>1, <2>2, <2>3, DoesKey
  <2>. QED
    BY <2>4, <2>5
<1>. QED
  BY <1>1, <1>2, <1>3

(* The parts of a line are no longer than the line.                        *)
LEMMA PartTypes ==
    ASSUME NEW X, NEW space, NEW t \in Seq(X)
    PROVE  /\ HasKey(space, t) => KeyOf(space, t) \in Seq(X) /\ ValueOf(space, t) \in Seq(X)
           /\ Closed(t) => NameOf(space, t) \in Seq(X) /\ Len(NameOf(space, t)) <= Len(t)
<1>0. Len(t) \in Nat
  OBVIOUS
<1>1. ASSUME HasKey(space, t)
      PROVE  KeyOf(space, t) \in Seq(X) /\ ValueOf(space, t) \in Seq(X)
  <2> DEFINE y == "="
             f == FirstOf(t, y)
             m == f - 1
             n == f + 1
             one == 1
             l == Len(t)
  <2>0. f # 0
    BY <1>1 DEF HasKey
  <2> HIDE DEF y
  <2>1. f \in 1 .. Len(t)
    BY <1>0, <2>0, FirstType
  <2> HIDE DEF f
  <2>2. m \in Nat /\ one \in Nat /\ 1 <= one /\ one <= m + 1 /\ m <= Len(t)
    BY <1>0, <2>1
  <2>3. n \in Nat /\ l \in Nat /\ 1 <= n /\ n <= l + 1 /\ l <= Len(t)
    BY <1>0, <2>1
  <2>4. KeyOf(space, t) = Trim(space, SubSeq(t, one, m)) /\ ValueOf(space, t) = Trim(space, SubSeq(t, n, l))
    BY DEF KeyOf, ValueOf, f, y
  <2> HIDE DEF one, m, n, l
  <2>5. SubSeq(t, one, m) \in Seq(X)
    BY <2>2, SubType
  <2>6. SubSeq(t, n, l) \in Seq(X)
    BY <2>3, SubType
  <2>. QED
    BY <2>4, <2>5, <2>6, TrimType
<1>2. ASSUME Closed(t)
      PROVE  NameOf(space, t) \in Seq(X) /\ Len(NameOf(space, t)) <= Len(t)
  <2> DEFINE y == "]"
             f == FirstOf(t, y)
             m == f - 1
             two == 2
  <2>0. f # 0 /\ t[1] # y
    BY <1>2 DEF Closed
  <2> HIDE DEF y
  <2>1. f \in 1 .. Len(t) /\ t[f] = y
    BY <1>0, <2>0, FirstType
  <2>2. f # 1
    BY <2>0, <2>1
  <2> HIDE DEF f
  <2>3. m \in Nat /\ two \in Nat /\ 1 <= two /\ two <= m + 1 /\ m <= Len(t) /\ m - two + 1 <= Len(t)
    BY <1>0, <2>1, <2>2
  <2>4. NameOf(space, t) = Trim(space, SubSeq(t, two, m))
    BY DEF NameOf, f, y
  <2> HIDE DEF two, m
  <2>5. SubSeq(t, two, m) \in Seq(X) /\ Len(SubSeq(t, two, m)) = m - two + 1
    BY <2>3, SubType
  <2> DEFINE r == SubSeq(t, two, m)
  <2>6. r \in Seq(X) /\ Len(r) <= Len(t)
    BY <2>3, <2>5
  <2> HIDE DEF r
  <2>7. Trim(space, r) \in Seq(X) /\ Len(Trim(space, r)) <= Len(r)
    BY <2>6, TrimType
  <2>8. Len(Trim(space, r)) <= Len(t)
    <3>1. Len(Trim(space, r)) \in Nat /\ Len(r) \in Nat
      BY <2>6, <2>7
    <3>. QED
      BY <1>0, <2>6, <2>7, <3>1
  <2>. QED
    BY <2>4, <2>7, <2>8 DEF r
<1>. QED
  BY <1>1, <1>2

(* A line changes what was written, the section and the exit, and does     *)
(* this whatever has been read of the next one.                            *)
Reads(X, n) ==
    [out : Seq(Written(X)), section : Sections(X, n), line : Seq(X), exit : {0, 3}]

Core(s) == [out |-> s.out, section |-> s.section, exit |-> s.exit]

WithLine(s, line) ==
    [out |-> s.out, section |-> s.section, line |-> line, exit |-> s.exit]

LEMMA CoreType ==
    ASSUME NEW X, NEW n
    PROVE  /\ \A s \in Reads(X, n) : Core(s) \in Cores(X, n) /\ s.line \in Seq(X) /\ s = WithLine(Core(s), s.line)
           /\ \A s \in Cores(X, n), line \in Seq(X) :
                 /\ WithLine(s, line) \in Reads(X, n) /\ Core(WithLine(s, line)) = s
                 /\ WithLine(s, line).line = line /\ WithLine(s, line).exit = s.exit
<1>1. \A s \in Reads(X, n) : Core(s) \in Cores(X, n) /\ s.line \in Seq(X) /\ s = WithLine(Core(s), s.line)
  BY DEF Reads, Cores, Core, WithLine
<1>2. \A s \in Cores(X, n), line \in Seq(X) :
         /\ WithLine(s, line) \in Reads(X, n) /\ Core(WithLine(s, line)) = s
         /\ WithLine(s, line).line = line /\ WithLine(s, line).exit = s.exit
  BY DEF Reads, Cores, Core, WithLine
<1>. QED
  BY <1>1, <1>2

LEMMA DoesCore ==
    ASSUME NEW X, NEW space, NEW n \in Nat, NEW s \in Cores(X, n), NEW line, NEW t \in Seq(X), Len(t) <= n
    PROVE  /\ Does(space, s, t) \in Cores(X, n)
           /\ Does(space, WithLine(s, line), t) = WithLine(Does(space, s, t), line)
<1> DEFINE r == WithLine(s, line)
<1>1. r = [out |-> s.out, section |-> s.section, line |-> line, exit |-> s.exit]
  BY DEF WithLine
<1>2. s = [out |-> s.out, section |-> s.section, exit |-> s.exit]
      /\ s.out \in Seq(Written(X)) /\ s.section \in Sections(X, n) /\ s.exit \in {0, 3}
  BY DEF Cores
<1> HIDE DEF r
<1>3. CASE Idle(space, t)
  <2>1. Does(space, s, t) = s /\ Does(space, r, t) = r
    BY <1>3, IdleDoes
  <2>. QED
    BY <2>1 DEF r
<1>4. CASE Unclosed(t)
  <2>1. Does(space, s, t) = [s EXCEPT !.exit = 3] /\ Does(space, r, t) = [r EXCEPT !.exit = 3]
    BY <1>4, OthersDo DEF Failed
  <2>2. Does(space, s, t) = [out |-> s.out, section |-> s.section, exit |-> 3]
    BY <1>2, <2>1
  <2>3. Does(space, r, t) = [out |-> s.out, section |-> s.section, line |-> line, exit |-> 3]
    BY <1>1, <2>1
  <2>4. Does(space, s, t) \in Cores(X, n)
    BY <1>2, <2>2 DEF Cores
  <2>5. Does(space, r, t) = WithLine(Does(space, s, t), line)
    BY <2>2, <2>3 DEF WithLine
  <2>. QED
    BY <2>4, <2>5 DEF r
<1>5. CASE Closed(t)
  <2> DEFINE name == NameOf(space, t)
  <2>1. Does(space, s, t) = [s EXCEPT !.section = name] /\ Does(space, r, t) = [r EXCEPT !.section = name]
    BY <1>5, OthersDo DEF Named
  <2>0. name \in Sections(X, n)
    <3>1. name \in Seq(X) /\ Len(name) <= Len(t)
      BY <1>5, PartTypes
    <3> HIDE DEF name
    <3>2. Len(name) \in Nat /\ Len(t) \in Nat
      BY <3>1
    <3>. QED
      BY <3>1, <3>2 DEF Sections
  <2> HIDE DEF name
  <2>2. Does(space, s, t) = [out |-> s.out, section |-> name, exit |-> s.exit]
    BY <1>2, <2>1
  <2>3. Does(space, r, t) = [out |-> s.out, section |-> name, line |-> line, exit |-> s.exit]
    BY <1>1, <2>1
  <2>4. Does(space, s, t) \in Cores(X, n)
    BY <1>2, <2>0, <2>2 DEF Cores
  <2>5. Does(space, r, t) = WithLine(Does(space, s, t), line)
    BY <2>2, <2>3 DEF WithLine
  <2>. QED
    BY <2>4, <2>5 DEF r
<1>6. CASE HasKey(space, t)
  <2> DEFINE key == KeyOf(space, t)
             value == ValueOf(space, t)
             out == WithKey(s, key, value)
  <2>1. Does(space, s, t) = Keyed(s, key, value) /\ Does(space, r, t) = Keyed(r, key, value)
    BY <1>6, OthersDo
  <2>2. key \in Seq(X) /\ value \in Seq(X)
    BY <1>6, PartTypes
  <2>20. r.out = s.out /\ r.section = s.section
    BY <1>1
  <2> HIDE DEF key, value
  <2>3. Keyed(s, key, value) = [out |-> out, section |-> s.section, exit |-> s.exit]
        /\ Keyed(s, key, value) \in Cores(X, n)
    BY <2>2, KeyedType
  <2>4. Keyed(r, key, value) = [r EXCEPT !.out = out]
    BY <2>20, Zenon DEF Keyed, WithKey
  <2> HIDE DEF out
  <2>5. [r EXCEPT !.out = out] = [out |-> out, section |-> s.section, line |-> line, exit |-> s.exit]
    BY <1>1
  <2>6. Does(space, r, t) = WithLine(Does(space, s, t), line)
    BY <2>1, <2>3, <2>4, <2>5 DEF WithLine
  <2>. QED
    BY <2>1, <2>3, <2>6 DEF r
<1>. QED
  BY <1>3, <1>4, <1>5, <1>6, LineCases

Fits(X, n, s, l) == n \in Nat /\ s \in Cores(X, n) /\ l \in Seq(X) /\ Len(l) <= n

LEMMA ProcessCore ==
    ASSUME NEW X, NEW space, NEW n, NEW s, NEW line, NEW l, Fits(X, n, s, l)
    PROVE  /\ Process(space, s, l) \in Cores(X, n)
           /\ Process(space, WithLine(s, line), l) = WithLine(Process(space, s, l), line)
<1> DEFINE t == Trim(space, l)
<1>0. n \in Nat /\ s \in Cores(X, n) /\ l \in Seq(X) /\ Len(l) <= n
  BY DEF Fits
<1>1. t \in Seq(X) /\ Len(t) <= Len(l)
  BY <1>0, TrimType
<1>2. Process(space, s, l) = Does(space, s, t)
      /\ Process(space, WithLine(s, line), l) = Does(space, WithLine(s, line), t)
  BY ProcessDoes
<1> HIDE DEF t
<1>3. Len(t) <= n
  <2>1. Len(t) \in Nat /\ Len(l) \in Nat
    BY <1>0, <1>1
  <2>. QED
    BY <1>0, <1>1, <2>1
<1>. QED
  BY <1>0, <1>1, <1>2, <1>3, DoesCore

LEMMA ProcessNothing ==
    ASSUME NEW space, NEW s
    PROVE  Process(space, s, << >>) = s
<1>1. Trim(space, << >>) = << >>
  <2>1. << >> \in Seq({}) /\ Blank(space, << >>)
    BY DEF Blank
  <2>. QED
    BY <2>1, TrimBlank
<1>. QED
  BY <1>1, ProcessDoes, DoesNothing

(* What main has read of a line is shorter than what its buffer holds.     *)
Readers(X, n) == {s \in Reads(X, n) : Len(s.line) < n}

LEMMA FlushDoes ==
    ASSUME NEW X, NEW space, NEW n \in Nat, NEW s \in Cores(X, n), NEW line \in Seq(X), Len(line) <= n
    PROVE  /\ s.exit # 0 => Flush(space, WithLine(s, line)) = WithLine(s, line)
           /\ s.exit = 0 => Flush(space, WithLine(s, line)) = WithLine(Process(space, s, line), << >>)
<1> DEFINE r == WithLine(s, line)
           p == Process(space, s, line)
<1>1. r.exit = s.exit /\ r.line = line
  BY DEF WithLine
<1>2. Process(space, r, line) = WithLine(p, line)
  <2>1. Process(space, s, line) \in Cores(X, n)
        /\ Process(space, WithLine(s, line), line) = WithLine(Process(space, s, line), line)
    <3>1. Fits(X, n, s, line)
      BY DEF Fits
    <3>. QED
      BY <3>1, ProcessCore
  <2>. QED
    BY <2>1
<1> HIDE DEF r, p
<1>3. s.exit # 0 => Flush(space, r) = r
  BY <1>1 DEF Flush
<1>4. s.exit = 0 => Flush(space, r) = [WithLine(p, line) EXCEPT !.line = << >>]
  BY <1>1, <1>2 DEF Flush
<1>5. [WithLine(p, line) EXCEPT !.line = << >>] = WithLine(p, << >>)
  BY DEF WithLine
<1>. QED
  BY <1>3, <1>4, <1>5 DEF r, p

LEMMA KvStepCases ==
    ASSUME NEW X, NEW space, NEW n \in Nat \ {0}, NEW s \in Cores(X, n), NEW line \in Seq(X), Len(line) < n,
           NEW ch \in X
    PROVE  /\ s.exit # 0 => KvStep(space, n, WithLine(s, line), ch) = WithLine(s, line)
           /\ s.exit = 0 /\ ch = "nl"
              => KvStep(space, n, WithLine(s, line), ch) = WithLine(Process(space, s, line), << >>)
           /\ s.exit = 0 /\ ch # "nl" /\ Len(line) + 1 = n
              => KvStep(space, n, WithLine(s, line), ch) = WithLine(Process(space, s, Append(line, ch)), << >>)
           /\ s.exit = 0 /\ ch # "nl" /\ Len(line) + 1 # n
              => KvStep(space, n, WithLine(s, line), ch) = WithLine(s, Append(line, ch))
<1> DEFINE r == WithLine(s, line)
           more == Append(line, ch)
           with == WithLine(s, more)
<1>0. Len(line) \in Nat /\ n \in Nat /\ Len(line) <= n
  OBVIOUS
<1>1. r.exit = s.exit /\ r.line = line /\ [r EXCEPT !.line = more] = with
  BY DEF WithLine
<1>2. with.line = more
  BY DEF WithLine
<1>3. more \in Seq(X) /\ Len(more) = Len(line) + 1
  OBVIOUS
<1>4. KvStep(space, n, r, ch) =
        IF r.exit # 0 THEN r
        ELSE IF ch = "nl" THEN Flush(space, r)
        ELSE IF Len(with.line) = n THEN Flush(space, with) ELSE with
  <2>1. KvStep(space, n, r, ch) =
          IF r.exit # 0 THEN r
          ELSE IF ch = "nl" THEN Flush(space, r)
          ELSE LET x == [r EXCEPT !.line = Append(r.line, ch)]
               IN  IF Len(x.line) = n THEN Flush(space, x) ELSE x
    BY DEF KvStep
  <2>2. [r EXCEPT !.line = Append(r.line, ch)] = with
    BY <1>1
  <2> HIDE DEF r, with
  <2>. QED
    BY <2>1, <2>2
<1>5. s.exit = 0 => Flush(space, r) = WithLine(Process(space, s, line), << >>)
  BY <1>0, FlushDoes
<1>6. s.exit = 0 /\ Len(line) + 1 = n => Flush(space, with) = WithLine(Process(space, s, more), << >>)
  <2> SUFFICES ASSUME s.exit = 0, Len(line) + 1 = n
               PROVE  Flush(space, with) = WithLine(Process(space, s, more), << >>)
    OBVIOUS
  <2>1. Len(more) <= n
    BY <1>0, <1>3
  <2> HIDE DEF more
  <2>. QED
    BY <1>0, <1>3, <2>1, FlushDoes
<1> HIDE DEF r, with, more
<1>7. s.exit # 0 => KvStep(space, n, r, ch) = r
  BY <1>1, <1>4
<1>8. s.exit = 0 /\ ch = "nl" => KvStep(space, n, r, ch) = WithLine(Process(space, s, line), << >>)
  BY <1>1, <1>4, <1>5
<1>9. s.exit = 0 /\ ch # "nl" /\ Len(line) + 1 = n
      => KvStep(space, n, r, ch) = WithLine(Process(space, s, more), << >>)
  BY <1>1, <1>2, <1>3, <1>4, <1>6
<1>10. s.exit = 0 /\ ch # "nl" /\ Len(line) + 1 # n => KvStep(space, n, r, ch) = with
  BY <1>1, <1>2, <1>3, <1>4
<1>. QED
  BY <1>7, <1>8, <1>9, <1>10 DEF r, with, more

LEMMA ReaderType ==
    ASSUME NEW X, NEW n \in Nat \ {0}
    PROVE  /\ \A s \in Readers(X, n) :
                 /\ Core(s) \in Cores(X, n) /\ s.line \in Seq(X) /\ Len(s.line) < n
                 /\ s = WithLine(Core(s), s.line)
           /\ \A s \in Cores(X, n), line \in Seq(X) : Len(line) < n => WithLine(s, line) \in Readers(X, n)
           /\ \A s \in Cores(X, n) : WithLine(s, << >>) \in Readers(X, n)
<1>1. \A s \in Readers(X, n) :
         /\ Core(s) \in Cores(X, n) /\ s.line \in Seq(X) /\ Len(s.line) < n
         /\ s = WithLine(Core(s), s.line)
  BY CoreType DEF Readers
<1>2. \A s \in Cores(X, n), line \in Seq(X) : Len(line) < n => WithLine(s, line) \in Readers(X, n)
  BY CoreType DEF Readers
<1>3. << >> \in Seq(X) /\ Len(<< >>) < n
  OBVIOUS
<1> DEFINE z == << >>
<1>4. z \in Seq(X) /\ Len(z) < n
  BY <1>3
<1> HIDE DEF z
<1>5. \A s \in Cores(X, n) : WithLine(s, z) \in Readers(X, n)
  BY <1>2, <1>4
<1>. QED
  BY <1>1, <1>2, <1>5 DEF z

LEMMA KvStepType ==
    ASSUME NEW X, NEW space, NEW n \in Nat \ {0}, NEW r \in Readers(X, n), NEW ch \in X
    PROVE  KvStep(space, n, r, ch) \in Readers(X, n)
<1> DEFINE s == Core(r)
           line == r.line
           more == Append(line, ch)
<1>1. s \in Cores(X, n) /\ line \in Seq(X) /\ Len(line) < n /\ r = WithLine(s, line)
  BY ReaderType
<1> HIDE DEF s, line
<1>2. more \in Seq(X) /\ Len(more) = Len(line) + 1 /\ Len(line) \in Nat /\ n \in Nat
  BY <1>1
<1>3. Process(space, s, line) \in Cores(X, n)
  <2>1. Len(line) <= n
    BY <1>1, <1>2
  <2>2. Fits(X, n, s, line)
    BY <1>1, <1>2, <2>1 DEF Fits
  <2>. QED
    BY <2>2, ProcessCore
<1>4. Len(line) + 1 = n => Process(space, s, more) \in Cores(X, n)
  <2> SUFFICES ASSUME Len(line) + 1 = n PROVE Process(space, s, more) \in Cores(X, n)
    OBVIOUS
  <2>1. Len(more) <= n
    BY <1>2
  <2> HIDE DEF more
  <2>2. Fits(X, n, s, more)
    BY <1>1, <1>2, <2>1 DEF Fits
  <2>. QED
    BY <2>2, ProcessCore
<1>5. s.exit \in {0, 3}
  BY <1>1 DEF Cores
<1>6. /\ s.exit # 0 => KvStep(space, n, r, ch) = WithLine(s, line)
      /\ s.exit = 0 /\ ch = "nl" => KvStep(space, n, r, ch) = WithLine(Process(space, s, line), << >>)
      /\ s.exit = 0 /\ ch # "nl" /\ Len(line) + 1 = n
         => KvStep(space, n, r, ch) = WithLine(Process(space, s, more), << >>)
      /\ s.exit = 0 /\ ch # "nl" /\ Len(line) + 1 # n
         => KvStep(space, n, r, ch) = WithLine(s, more)
  BY <1>1, KvStepCases
<1> HIDE DEF more
<1>7. CASE s.exit # 0
  BY <1>1, <1>6, <1>7
<1>8. CASE s.exit = 0 /\ ch = "nl"
  BY <1>3, <1>6, <1>8, ReaderType
<1>9. CASE s.exit = 0 /\ ch # "nl" /\ Len(line) + 1 = n
  BY <1>4, <1>6, <1>9, ReaderType
<1>10. CASE s.exit = 0 /\ ch # "nl" /\ Len(line) + 1 # n
  <2>1. Len(more) < n
    BY <1>1, <1>2, <1>10
  <2>. QED
    BY <1>1, <1>2, <1>6, <1>10, <2>1, ReaderType
<1>. QED
  BY <1>7, <1>8, <1>9, <1>10

LEMMA StartTypes ==
    ASSUME NEW X, NEW n \in Nat \ {0}
    PROVE  /\ [out |-> << >>, section |-> << >>, exit |-> 0] \in Cores(X, n)
           /\ [out |-> << >>, section |-> << >>, line |-> << >>, exit |-> 0] \in Readers(X, n)
<1> DEFINE s == [out |-> << >>, section |-> << >>, exit |-> 0]
           r == [out |-> << >>, section |-> << >>, line |-> << >>, exit |-> 0]
<1>1. << >> \in Sections(X, n)
  BY DEF Sections
<1>2. s \in Cores(X, n)
  BY <1>1 DEF Cores
<1>3. r = WithLine(s, << >>)
  BY DEF WithLine
<1>. QED
  BY <1>2, <1>3, ReaderType

(* main, one character after the other.                                    *)
ReadsOn(X, space, n) ==
    /\ KvRead(space, n, << >>) = [out |-> << >>, section |-> << >>, line |-> << >>, exit |-> 0]
    /\ \A q \in Seq(X) : KvRead(space, n, q) \in Readers(X, n)
    /\ \A q \in Seq(X), ch \in X :
          KvRead(space, n, Append(q, ch)) = KvStep(space, n, KvRead(space, n, q), ch)

LEMMA KvReadLaws ==
    ASSUME NEW X, NEW space, NEW n \in Nat \ {0}
    PROVE  ReadsOn(X, space, n)
<1> DEFINE St == Readers(X, n)
           base == [out |-> << >>, section |-> << >>, line |-> << >>, exit |-> 0]
           op(s, ch) == KvStep(space, n, s, ch)
           H == [p \in St \X X |-> op(p[1], p[2])]
<1>1. base \in St
  BY StartTypes
<1>2. \A s \in St, ch \in X : op(s, ch) \in St
  BY KvStepType
<1>3. \A in \in Seq(X) : KvRead(space, n, in) = Folded(H, base, in)
  <2> SUFFICES ASSUME NEW in \in Seq(X) PROVE KvRead(space, n, in) = Folded(H, base, in)
    OBVIOUS
  <2> DEFINE Law(g) == g = [S \in SUBSET DOMAIN in |->
                              IF S = {} THEN base ELSE LET x == Max(S) IN op(g[S \ {x}], in[x])]
  <2>1. KvRead(space, n, in) = (CHOOSE g : Law(g))[DOMAIN in]
    BY DEF FoldLeft, MapThenFoldSet, KvRead
  <2> HIDE DEF op, St, base
  <2>2. \A s \in St, ch \in X : H[<<s, ch>>] = op(s, ch)
    OBVIOUS
  <2>3. H \in [St \X X -> St]
    BY <1>2
  <2> HIDE DEF H
  <2>4. ASSUME NEW g, TypedRun(H, St, base, in, g) PROVE Law(g)
    <3>1. \A S \in SUBSET (1 .. Len(in)) :
             S # {} => H[<<g[S \ {Max(S)}], in[Max(S)]>>] = op(g[S \ {Max(S)}], in[Max(S)])
      BY <2>2, <2>4, LastPosition DEF TypedRun
    <3>2. DOMAIN in = 1 .. Len(in)
      OBVIOUS
    <3>. QED
      BY <2>4, <3>1, <3>2 DEF SetRun, TypedRun
  <2>5. ASSUME NEW g, Law(g) PROVE Follows(X, St, H, base, in, g)
    <3>1. DOMAIN in = 1 .. Len(in)
      OBVIOUS
    <3>2. \A S \in SUBSET (1 .. Len(in)) : g[S] = IF S = {} THEN base ELSE op(g[S \ {Max(S)}], in[Max(S)])
      BY <2>5, <3>1
    <3> HIDE DEF Law
    <3>. QED
      BY <1>1, <2>2, <2>3, <3>2, LastPosition DEF Follows
  <2> HIDE DEF Law
  <2>6. PICK g : Law(g) /\ KvRead(space, n, in) = g[DOMAIN in]
    BY <1>1, <2>1, <2>3, <2>4, SetRunExists
  <2>7. Follows(X, St, H, base, in, g)
    BY <2>5, <2>6
  <2>. QED
    BY <2>6, <2>7, SetRunFolds
<1> HIDE DEF op, St, base
<1>4. H \in [St \X X -> St] /\ \A s \in St, ch \in X : H[<<s, ch>>] = op(s, ch)
  BY <1>2
<1> HIDE DEF H
<1>5. Folded(H, base, << >>) = base /\ << >> \in Seq(X)
  BY FoldedEmpty
<1>6. \A q \in Seq(X) : Folded(H, base, q) \in St
  BY <1>1, <1>4, FoldedType
<1>7. \A q \in Seq(X), ch \in X : /\ Append(q, ch) \in Seq(X)
                                /\ Folded(H, base, Append(q, ch)) = H[<<Folded(H, base, q), ch>>]
  BY FoldedAppend
<1>8. \A q \in Seq(X), ch \in X : KvRead(space, n, Append(q, ch)) = op(KvRead(space, n, q), ch)
  BY <1>3, <1>4, <1>6, <1>7
<1>. QED
  BY <1>3, <1>5, <1>6, <1>8 DEF base, St, op, ReadsOn

(* Lines of no more than n characters.                                     *)
Short(X, n) == {q \in Seq(X) : Len(q) <= n}

(* Lines processed one after the other, up to an error.                    *)
ProcessesOn(A, space, n) ==
    /\ Processed(space, << >>) = [out |-> << >>, section |-> << >>, exit |-> 0]
    /\ \A q \in Seq(Short(A, n)) : Processed(space, q) \in Cores(A, n)
    /\ \A q \in Seq(Short(A, n)), l \in Short(A, n) :
          Processed(space, Append(q, l)) = IF Processed(space, q).exit # 0 THEN Processed(space, q)
                                           ELSE Process(space, Processed(space, q), l)

LEMMA ProcessedLaws ==
    ASSUME NEW A, NEW space, NEW n \in Nat \ {0}
    PROVE  ProcessesOn(A, space, n)
<1> DEFINE St == Cores(A, n)
           X == Short(A, n)
           base == [out |-> << >>, section |-> << >>, exit |-> 0]
           op(s, l) == IF s.exit # 0 THEN s ELSE Process(space, s, l)
           H == [p \in St \X X |-> op(p[1], p[2])]
<1>1. base \in St
  BY StartTypes
<1>2. \A s \in St, l \in X : op(s, l) \in St
  <2> SUFFICES ASSUME NEW s \in Cores(A, n), NEW l \in Short(A, n)
               PROVE  Process(space, s, l) \in Cores(A, n)
    OBVIOUS
  <2>1. Fits(A, n, s, l)
    BY DEF Short, Fits
  <2>. QED
    BY <2>1, ProcessCore
<1>3. \A in \in Seq(X) : Processed(space, in) = Folded(H, base, in)
  <2> SUFFICES ASSUME NEW in \in Seq(X) PROVE Processed(space, in) = Folded(H, base, in)
    OBVIOUS
  <2> DEFINE Law(g) == g = [S \in SUBSET DOMAIN in |->
                              IF S = {} THEN base ELSE LET x == Max(S) IN op(g[S \ {x}], in[x])]
  <2>1. Processed(space, in) = (CHOOSE g : Law(g))[DOMAIN in]
    BY DEF FoldLeft, MapThenFoldSet, Processed
  <2> HIDE DEF op, St, X, base
  <2>2. \A s \in St, l \in X : H[<<s, l>>] = op(s, l)
    OBVIOUS
  <2>3. H \in [St \X X -> St]
    BY <1>2
  <2> HIDE DEF H
  <2>4. ASSUME NEW g, TypedRun(H, St, base, in, g) PROVE Law(g)
    <3>1. \A S \in SUBSET (1 .. Len(in)) :
             S # {} => H[<<g[S \ {Max(S)}], in[Max(S)]>>] = op(g[S \ {Max(S)}], in[Max(S)])
      BY <2>2, <2>4, LastPosition DEF TypedRun
    <3>2. DOMAIN in = 1 .. Len(in)
      OBVIOUS
    <3>. QED
      BY <2>4, <3>1, <3>2 DEF SetRun, TypedRun
  <2>5. ASSUME NEW g, Law(g) PROVE Follows(X, St, H, base, in, g)
    <3>1. DOMAIN in = 1 .. Len(in)
      OBVIOUS
    <3>2. \A S \in SUBSET (1 .. Len(in)) : g[S] = IF S = {} THEN base ELSE op(g[S \ {Max(S)}], in[Max(S)])
      BY <2>5, <3>1
    <3> HIDE DEF Law
    <3>. QED
      BY <1>1, <2>2, <2>3, <3>2, LastPosition DEF Follows
  <2> HIDE DEF Law
  <2>6. PICK g : Law(g) /\ Processed(space, in) = g[DOMAIN in]
    BY <1>1, <2>1, <2>3, <2>4, SetRunExists
  <2>7. Follows(X, St, H, base, in, g)
    BY <2>5, <2>6
  <2>. QED
    BY <2>6, <2>7, SetRunFolds
<1> HIDE DEF op, St, X, base
<1>4. H \in [St \X X -> St] /\ \A s \in St, l \in X : H[<<s, l>>] = op(s, l)
  BY <1>2
<1> HIDE DEF H
<1>5. Folded(H, base, << >>) = base /\ << >> \in Seq(X)
  BY FoldedEmpty
<1>6. \A q \in Seq(X) : Folded(H, base, q) \in St
  BY <1>1, <1>4, FoldedType
<1>7. \A q \in Seq(X), l \in X : /\ Append(q, l) \in Seq(X)
                                /\ Folded(H, base, Append(q, l)) = H[<<Folded(H, base, q), l>>]
  BY FoldedAppend
<1>8. \A q \in Seq(X), l \in X : Processed(space, Append(q, l)) = op(Processed(space, q), l)
  BY <1>3, <1>4, <1>6, <1>7
<1>. QED
  BY <1>3, <1>5, <1>6, <1>8 DEF base, St, X, op, ProcessesOn

(* The lines as main cuts them.                                            *)
LEMMA CutLaws ==
    ASSUME NEW X, NEW n \in Nat \ {0}
    PROVE  /\ Cut(n, << >>) = << >>
           /\ \A q \in Seq(Seq(X)) : Cut(n, q) \in Seq(Short(X, n))
           /\ \A q \in Seq(Seq(X)), l \in Seq(X) : Cut(n, Append(q, l)) = Cut(n, q) \o Chunks(l, n)
<1> DEFINE T == Seq(X)
           Y == Short(X, n)
           g == [l \in T |-> Chunks(l, n)]
<1>1. \A l \in T : Chunks(l, n) \in Seq(Y)
  <2> DEFINE G == {h \in Seq(X) : Len(h) \in 1 .. n}
  <2>1. \A l \in T : Chunks(l, n) \in Seq(G)
    BY ChunkLaws
  <2>2. G \subseteq Y
    BY DEF Short
  <2> HIDE DEF G, Y, T
  <2>3. Seq(G) \subseteq Seq(Y)
    BY <2>2
  <2>. QED
    BY <2>1, <2>3
<1> HIDE DEF Y, T
<1>2. Maps(T, Seq(Y), g)
  BY <1>1 DEF Maps
<1>3. \A q \in Seq(T) : Cut(n, q) = FlattenSeq(Images(g, q))
  <2> SUFFICES ASSUME NEW q \in Seq(T) PROVE Cut(n, q) = FlattenSeq(Images(g, q))
    OBVIOUS
  <2>1. \A k \in DOMAIN q : g[q[k]] = Chunks(q[k], n)
    <3>1. \A k \in DOMAIN q : q[k] \in T
      OBVIOUS
    <3>. QED
      BY <3>1
  <2>2. Cut(n, q) = FlattenSeq([k \in DOMAIN q |-> Chunks(q[k], n)])
    BY DEF Cut, Mapped
  <2>3. Images(g, q) = [k \in DOMAIN q |-> Chunks(q[k], n)]
    <3> HIDE DEF g
    <3>. QED
      BY <2>1 DEF Images
  <2>. QED
    BY <2>2, <2>3
<1>4. \A l \in T : g[l] = Chunks(l, n)
  OBVIOUS
<1> HIDE DEF g
<1>5. /\ FlattenSeq(Images(g, << >>)) = << >>
      /\ \A q \in Seq(T) : FlattenSeq(Images(g, q)) \in Seq(Y)
      /\ \A q \in Seq(T), b \in T : FlattenSeq(Images(g, Append(q, b))) = FlattenSeq(Images(g, q)) \o g[b]
  BY <1>2, FlatImageLaws
<1>6. << >> \in Seq(T) /\ \A q \in Seq(T), b \in T : Append(q, b) \in Seq(T)
  OBVIOUS
<1>7. Cut(n, << >>) = << >>
  BY <1>3, <1>5, <1>6
<1>8. \A q \in Seq(T) : Cut(n, q) \in Seq(Y)
  BY <1>3, <1>5
<1>9. \A q \in Seq(T), l \in T : Cut(n, Append(q, l)) = Cut(n, q) \o Chunks(l, n)
  BY <1>3, <1>4, <1>5, <1>6
<1>. QED
  BY <1>7, <1>8, <1>9 DEF T, Y

(* Where main is: it has cut v off the lines it has read, and p and then g *)
(* is what it has read of the next line, of which it has cut p.            *)
At(X, space, n, r, v, p, g, a) ==
    /\ n \in Nat \ {0} /\ v \in Seq(Short(X, n)) /\ a \in Nat
    /\ p \in Seq(X) /\ g \in Seq(X) /\ Len(p) = n * a /\ Len(g) < n
    /\ r \in Readers(X, n)
    /\ Core(r) = Processed(space, v \o Chunks(p, n))
    /\ r.line = IF r.exit = 0 THEN g ELSE << >>

LEMMA CutOneMore ==
    ASSUME NEW X, NEW space, NEW n, NEW r, NEW v, NEW p, NEW g, NEW a, At(X, space, n, r, v, p, g, a),
           NEW h \in Seq(X), Len(h) \in 1 .. n
    PROVE  /\ v \o Chunks(p \o h, n) \in Seq(Short(X, n))
           /\ Processed(space, v \o Chunks(p \o h, n))
                = IF r.exit # 0 THEN Core(r) ELSE Process(space, Core(r), h)
<1>1. /\ n \in Nat \ {0} /\ v \in Seq(Short(X, n)) /\ a \in Nat
      /\ p \in Seq(X) /\ Len(p) = n * a
      /\ Core(r) = Processed(space, v \o Chunks(p, n))
  BY DEF At
<1> DEFINE Y == Short(X, n)
           d == Chunks(p, n)
<1>2. Chunks(p \o h, n) = Append(d, h)
  <2>1. AnotherChunk(X, n, p, a, h)
    BY <1>1 DEF AnotherChunk
  <2>. QED
    BY <2>1, OneMoreChunk
<1>3. d \in Seq(Y)
  <2> DEFINE G == {k \in Seq(X) : Len(k) \in 1 .. n}
  <2>1. d \in Seq(G)
    BY <1>1, ChunkLaws
  <2>2. G \subseteq Y
    BY DEF Short
  <2> HIDE DEF G, Y, d
  <2>. QED
    BY <2>1, <2>2
<1>4. h \in Y
  BY DEF Short
<1>40. v \in Seq(Y)
  BY <1>1
<1> HIDE DEF Y, d
<1>5. v \o Append(d, h) = Append(v \o d, h) /\ v \o d \in Seq(Y)
  BY <1>3, <1>4, <1>40, ConcatAppend
<1> DEFINE cd == v \o d
<1>6. cd \in Seq(Y) /\ Core(r) = Processed(space, cd)
  BY <1>1, <1>5 DEF d
<1> HIDE DEF cd
<1>7. Append(cd, h) \in Seq(Y)
  BY <1>4, <1>6
<1>8. Processed(space, Append(cd, h))
        = IF Processed(space, cd).exit # 0 THEN Processed(space, cd)
          ELSE Process(space, Processed(space, cd), h)
  <2>0. n \in Nat \ {0}
    BY <1>1
  <2>1. ProcessesOn(X, space, n)
    BY <2>0, ProcessedLaws
  <2>2. \A q \in Seq(Y), l \in Y :
           Processed(space, Append(q, l)) = IF Processed(space, q).exit # 0 THEN Processed(space, q)
                                            ELSE Process(space, Processed(space, q), l)
    BY <2>1 DEF Y, ProcessesOn
  <2>. QED
    BY <1>4, <1>6, <2>2
<1>9. Core(r).exit = r.exit
  BY DEF Core
<1>10. v \o Chunks(p \o h, n) = Append(cd, h)
  BY <1>2, <1>5 DEF cd
<1>. QED
  BY <1>6, <1>7, <1>8, <1>9, <1>10 DEF Y

(* What flushing the rest of a line does.                                  *)
LEMMA CutRest ==
    ASSUME NEW X, NEW space, NEW n, NEW r, NEW v, NEW p, NEW g, NEW a, At(X, space, n, r, v, p, g, a)
    PROVE  /\ v \o Chunks(p \o g, n) \in Seq(Short(X, n))
           /\ Processed(space, v \o Chunks(p \o g, n))
                = IF r.exit # 0 THEN Core(r) ELSE Process(space, Core(r), g)
<1>1. /\ n \in Nat \ {0} /\ v \in Seq(Short(X, n)) /\ p \in Seq(X) /\ g \in Seq(X) /\ Len(g) < n
      /\ Core(r) = Processed(space, v \o Chunks(p, n))
  BY DEF At
<1>2. CASE g = << >>
  <2>1. p \o g = p
    BY <1>1, <1>2, WithNothing
  <2>2. Process(space, Core(r), g) = Core(r)
    BY <1>2, ProcessNothing
  <2>3. v \o Chunks(p, n) \in Seq(Short(X, n))
    <3> DEFINE Y == Short(X, n)
               d == Chunks(p, n)
               G == {k \in Seq(X) : Len(k) \in 1 .. n}
    <3>1. d \in Seq(G)
      BY <1>1, ChunkLaws
    <3>2. G \subseteq Y
      BY DEF Short
    <3>3. v \in Seq(Y)
      BY <1>1
    <3> HIDE DEF G, Y, d
    <3>4. d \in Seq(Y)
      BY <3>1, <3>2
    <3>5. v \o d \in Seq(Y)
      BY <3>3, <3>4
    <3>. QED
      BY <3>5 DEF d, Y
  <2>. QED
    BY <1>1, <2>1, <2>2, <2>3
<1>3. CASE g # << >>
  <2>1. Len(g) \in 1 .. n
    BY <1>1, <1>3
  <2>. QED
    BY <1>1, <2>1, CutOneMore
<1>. QED
  BY <1>2, <1>3

LEMMA AtParts ==
    ASSUME NEW X, NEW space, NEW n, NEW r, NEW v, NEW p, NEW g, NEW a, At(X, space, n, r, v, p, g, a)
    PROVE  /\ n \in Nat \ {0} /\ Core(r) \in Cores(X, n) /\ Core(r).exit = r.exit
           /\ r.line \in Seq(X) /\ Len(r.line) < n /\ r = WithLine(Core(r), r.line)
           /\ r.exit = 0 => r.line = g
           /\ r.exit # 0 => r.line = << >>
           /\ p \in Seq(X) /\ g \in Seq(X) /\ Len(g) < n /\ a \in Nat /\ Len(p) = n * a
           /\ v \in Seq(Short(X, n)) /\ r \in Readers(X, n)
           /\ Core(r) = Processed(space, v \o Chunks(p, n))
<1>1. /\ n \in Nat \ {0} /\ v \in Seq(Short(X, n)) /\ a \in Nat
      /\ p \in Seq(X) /\ g \in Seq(X) /\ Len(p) = n * a /\ Len(g) < n
      /\ r \in Readers(X, n)
      /\ Core(r) = Processed(space, v \o Chunks(p, n))
      /\ r.line = IF r.exit = 0 THEN g ELSE << >>
  BY DEF At
<1>2. Core(r) \in Cores(X, n) /\ r.line \in Seq(X) /\ Len(r.line) < n /\ r = WithLine(Core(r), r.line)
  BY <1>1, ReaderType
<1>3. Core(r).exit = r.exit
  BY DEF Core
<1>4. (r.exit = 0 => r.line = g) /\ (r.exit # 0 => r.line = << >>)
  BY <1>1
<1>. QED
  BY <1>1, <1>2, <1>3, <1>4

LEMMA NoneOfIt ==
    ASSUME NEW n \in Nat
    PROVE  n * 0 = 0
OBVIOUS

LEMMA OneMoreTime ==
    ASSUME NEW n \in Nat, NEW a \in Nat
    PROVE  n * (a + 1) = n * a + n
OBVIOUS

(* Between two lines.                                                      *)
LEMMA Begins ==
    ASSUME NEW X, NEW space, NEW n \in Nat \ {0}, NEW s \in Cores(X, n), NEW v \in Seq(Short(X, n)),
           s = Processed(space, v)
    PROVE  At(X, space, n, WithLine(s, << >>), v, << >>, << >>, 0)
<1> DEFINE z == << >>
           o == 0
           r == WithLine(s, z)
           Y == Short(X, n)
<1>1. z \in Seq(X) /\ o \in Nat /\ Len(z) = n * o /\ Len(z) < n
  BY NoneOfIt
<1>2. r \in Readers(X, n)
  BY ReaderType
<1>3. Core(r) = s /\ r.line = z
  <2>1. z \in Seq(X)
    BY <1>1
  <2> HIDE DEF z
  <2>2. /\ WithLine(s, z) \in Reads(X, n) /\ Core(WithLine(s, z)) = s
        /\ WithLine(s, z).line = z /\ WithLine(s, z).exit = s.exit
    BY <2>1, CoreType
  <2>. QED
    BY <2>2
<1>4. Chunks(z, n) = z
  BY ChunkLaws
<1>5. v \o z = v
  <2> HIDE DEF Y
  <2>1. v \in Seq(Y)
    BY DEF Y
  <2>. QED
    BY <2>1, WithNothing
<1> HIDE DEF z, o, r
<1>6. Core(r) = Processed(space, v \o Chunks(z, n))
  BY <1>3, <1>4, <1>5
<1>7. At(X, space, n, r, v, z, z, o)
  BY <1>1, <1>2, <1>3, <1>6 DEF At
<1>. QED
  BY <1>7 DEF r, z, o

(* After a newline.                                                        *)
LEMMA AfterNewline ==
    ASSUME NEW X, NEW space, NEW n, NEW r, NEW v, NEW p, NEW g, NEW a, At(X, space, n, r, v, p, g, a),
           NEW ch \in X, ch = "nl"
    PROVE  At(X, space, n, KvStep(space, n, r, ch), v \o Chunks(p \o g, n), << >>, << >>, 0)
<1> DEFINE s == Core(r)
           line == r.line
           more == v \o Chunks(p \o g, n)
<1>1. /\ n \in Nat \ {0} /\ s \in Cores(X, n) /\ s.exit = r.exit
      /\ line \in Seq(X) /\ Len(line) < n /\ r = WithLine(s, line)
      /\ r.exit = 0 => line = g
      /\ r.exit # 0 => line = << >>
  BY AtParts
<1>2. more \in Seq(Short(X, n)) /\ Processed(space, more) = IF r.exit # 0 THEN s ELSE Process(space, s, g)
  BY CutRest
<1>3. /\ s.exit # 0 => KvStep(space, n, WithLine(s, line), ch) = WithLine(s, line)
      /\ s.exit = 0 /\ ch = "nl"
         => KvStep(space, n, WithLine(s, line), ch) = WithLine(Process(space, s, line), << >>)
  BY <1>1, KvStepCases
<1> HIDE DEF s, line, more
<1>4. CASE s.exit # 0
  <2>1. KvStep(space, n, r, ch) = WithLine(s, << >>)
    BY <1>1, <1>3, <1>4
  <2>2. s = Processed(space, more)
    BY <1>1, <1>2, <1>4
  <2>3. At(X, space, n, WithLine(s, << >>), more, << >>, << >>, 0)
    BY <1>1, <1>2, <2>2, Begins
  <2>. QED
    BY <2>1, <2>3 DEF more
<1>5. CASE s.exit = 0
  <2> DEFINE t == Process(space, s, line)
  <2>1. KvStep(space, n, r, ch) = WithLine(t, << >>)
    BY <1>1, <1>3, <1>5
  <2>2. t = Processed(space, more)
    BY <1>1, <1>2, <1>5
  <2>3. t \in Cores(X, n)
    <3>1. Len(line) <= n
      BY <1>1
    <3>2. Fits(X, n, s, line)
      BY <1>1, <3>1 DEF Fits
    <3>. QED
      BY <3>2, ProcessCore
  <2> HIDE DEF t
  <2>4. At(X, space, n, WithLine(t, << >>), more, << >>, << >>, 0)
    BY <1>1, <1>2, <2>2, <2>3, Begins
  <2>. QED
    BY <2>1, <2>4 DEF more
<1>6. s.exit \in {0, 3}
  BY <1>1 DEF Cores
<1>. QED
  BY <1>4, <1>5, <1>6

(* After another character: it fits into the line, or the line is cut.     *)
LEMMA AfterCharacter ==
    ASSUME NEW X, NEW space, NEW n, NEW r, NEW v, NEW p, NEW g, NEW a, At(X, space, n, r, v, p, g, a),
           NEW ch \in X, ch # "nl"
    PROVE  \/ At(X, space, n, KvStep(space, n, r, ch), v, p, Append(g, ch), a)
           \/ At(X, space, n, KvStep(space, n, r, ch), v, p \o Append(g, ch), << >>, a + 1)
<1> DEFINE s == Core(r)
           line == r.line
           h == Append(g, ch)
           z == << >>
           next == KvStep(space, n, r, ch)
<1>1. /\ n \in Nat \ {0} /\ s \in Cores(X, n) /\ s.exit = r.exit
      /\ line \in Seq(X) /\ Len(line) < n /\ r = WithLine(s, line)
      /\ r.exit = 0 => line = g
      /\ r.exit # 0 => line = z
  BY AtParts
<1>2. /\ p \in Seq(X) /\ g \in Seq(X) /\ Len(g) < n /\ a \in Nat /\ Len(p) = n * a
      /\ v \in Seq(Short(X, n)) /\ r \in Readers(X, n)
      /\ s = Processed(space, v \o Chunks(p, n))
  BY AtParts
<1>20. z \in Seq(X) /\ Len(z) = 0
  OBVIOUS
<1>3. /\ s.exit # 0 => KvStep(space, n, WithLine(s, line), ch) = WithLine(s, line)
      /\ s.exit = 0 /\ ch # "nl" /\ Len(line) + 1 = n
         => KvStep(space, n, WithLine(s, line), ch) = WithLine(Process(space, s, Append(line, ch)), z)
      /\ s.exit = 0 /\ ch # "nl" /\ Len(line) + 1 # n
         => KvStep(space, n, WithLine(s, line), ch) = WithLine(s, Append(line, ch))
  BY <1>1, KvStepCases
<1>4. h \in Seq(X) /\ Len(h) = Len(g) + 1 /\ Len(g) \in Nat
  BY <1>2
<1>5. next \in Readers(X, n)
  BY <1>1, <1>2, KvStepType
<1> HIDE DEF s, line, next, z
<1>6. s.exit \in {0, 3}
  BY <1>1 DEF Cores
<1>7. next = IF s.exit # 0 THEN WithLine(s, z)
             ELSE IF Len(h) = n THEN WithLine(Process(space, s, h), z) ELSE WithLine(s, h)
  BY <1>1, <1>3, <1>4 DEF next
<1>8. CASE Len(h) < n
  <2> HIDE DEF h
  <2>1. next = IF s.exit # 0 THEN WithLine(s, z) ELSE WithLine(s, h)
    BY <1>4, <1>7, <1>8
  <2>2. Core(next) = s /\ next.exit = s.exit /\ next.line = IF next.exit = 0 THEN h ELSE z
    <3>1. CASE s.exit # 0
      BY <1>1, <1>20, <2>1, <3>1, CoreType
    <3>2. CASE s.exit = 0
      BY <1>1, <1>4, <2>1, <3>2, CoreType
    <3>. QED
      BY <3>1, <3>2
  <2>3. At(X, space, n, next, v, p, h, a)
    BY <1>1, <1>2, <1>4, <1>5, <1>8, <2>2 DEF At, z
  <2>. QED
    BY <2>3 DEF next, h
<1>9. CASE Len(h) = n
  <2> DEFINE t == IF s.exit # 0 THEN s ELSE Process(space, s, h)
             q == p \o h
             b == a + 1
  <2>0. Len(h) \in 1 .. n
    BY <1>1, <1>9
  <2> HIDE DEF h
  <2>1. v \o Chunks(p \o h, n) \in Seq(Short(X, n))
        /\ Processed(space, v \o Chunks(p \o h, n)) = IF r.exit # 0 THEN Core(r) ELSE Process(space, Core(r), h)
    BY <1>4, <2>0, CutOneMore
  <2>2. t = Processed(space, v \o Chunks(q, n))
    BY <1>1, <2>1 DEF s
  <2>3. t \in Cores(X, n)
    <3>1. Fits(X, n, s, h)
      BY <1>1, <1>4, <1>9 DEF Fits
    <3>2. Process(space, s, h) \in Cores(X, n)
      BY <3>1, ProcessCore
    <3>. QED
      BY <1>1, <3>2
  <2>4. next = WithLine(t, z)
    BY <1>7, <1>9
  <2>5. q \in Seq(X) /\ Len(q) = n * b /\ b \in Nat
    <3>1. q \in Seq(X) /\ Len(q) = Len(p) + Len(h)
      BY <1>2, <1>4, Cat
    <3>2. n * (a + 1) = n * a + n
      BY <1>1, <1>2, OneMoreTime
    <3>. QED
      BY <1>2, <1>9, <3>1, <3>2
  <2> HIDE DEF t, q, b
  <2>6. Core(next) = t /\ next.line = z
    <3>1. z \in Seq(X)
      BY <1>20
    <3>2. /\ WithLine(t, z) \in Reads(X, n) /\ Core(WithLine(t, z)) = t
          /\ WithLine(t, z).line = z /\ WithLine(t, z).exit = t.exit
      BY <2>3, <3>1, CoreType
    <3>. QED
      BY <2>4, <3>2
  <2>7. At(X, space, n, next, v, q, z, b)
    <3>1. Len(z) < n
      BY <1>1, <1>20
    <3>2. next.line = IF next.exit = 0 THEN z ELSE << >>
      BY <2>6 DEF z
    <3>3. Core(next) = Processed(space, v \o Chunks(q, n))
      BY <2>2, <2>6
    <3>. QED
      BY <1>1, <1>2, <1>5, <1>20, <2>5, <3>1, <3>2, <3>3 DEF At
  <2>. QED
    BY <2>7 DEF next, q, b, h, z
<1>. QED
  <2>1. Len(h) < n \/ Len(h) = n
    BY <1>1, <1>2, <1>4
  <2>. QED
    BY <1>8, <1>9, <2>1

(* Main is somewhere in the last of the lines it has read.                 *)
ReadsAt(X, space, n, E, in) ==
    \E p, g \in Seq(X), a \in Nat :
       /\ At(X, space, n, KvRead(space, n, in), Cut(n, Complete(E, in)), p, g, a)
       /\ Rest(E, in) = p \o g

LEMMA ReadsNothing ==
    ASSUME NEW X, NEW space, NEW n \in Nat \ {0}, NEW E
    PROVE  ReadsAt(X, space, n, E, << >>)
<1> DEFINE z == << >>
           o == 0
           s == [out |-> << >>, section |-> << >>, exit |-> 0]
           Y == Short(X, n)
<1>1. z \in Seq(X) /\ z \in Seq(Y) /\ o \in Nat
  OBVIOUS
<1>2. s \in Cores(X, n)
  BY StartTypes
<1>3. s = Processed(space, z)
  <2>1. ProcessesOn(X, space, n)
    BY ProcessedLaws
  <2>. QED
    BY <2>1 DEF ProcessesOn
<1>4. KvRead(space, n, z) = WithLine(s, z)
  <2>1. ReadsOn(X, space, n)
    BY KvReadLaws
  <2>2. KvRead(space, n, z) = [out |-> << >>, section |-> << >>, line |-> << >>, exit |-> 0]
    BY <2>1 DEF ReadsOn
  <2>. QED
    BY <2>2 DEF WithLine
<1>5. Piecewise(X, E)
  BY PieceLaws
<1>6. Complete(E, z) = z /\ Rest(E, z) = z
  BY <1>5 DEF Piecewise
<1>7. Cut(n, z) = z
  BY CutLaws
<1>8. z \o z = z
  OBVIOUS
<1> HIDE DEF s, Y
<1>9. At(X, space, n, WithLine(s, << >>), z, << >>, << >>, 0)
  <2> HIDE DEF z
  <2>1. z \in Seq(Short(X, n))
    BY <1>1 DEF Y
  <2>. QED
    BY <1>2, <1>3, <2>1, Begins
<1>10. At(X, space, n, KvRead(space, n, z), Cut(n, Complete(E, z)), z, z, o)
  BY <1>4, <1>6, <1>7, <1>9
<1> HIDE DEF z, o
<1>11. ReadsAt(X, space, n, E, z)
  BY <1>1, <1>6, <1>8, <1>10 DEF ReadsAt
<1>. QED
  BY <1>11 DEF z

LEMMA ReadsOneMore ==
    ASSUME NEW X, NEW space, NEW n \in Nat \ {0}, NEW E, E = {"nl"}, NEW q \in Seq(X), NEW ch \in X,
           ReadsAt(X, space, n, E, q)
    PROVE  ReadsAt(X, space, n, E, Append(q, ch))
<1> DEFINE m == Append(q, ch)
           r == KvRead(space, n, q)
           next == KvStep(space, n, r, ch)
           done == Complete(E, q)
           v == Cut(n, done)
           z == << >>
           o == 0
<1>1. PICK p \in Seq(X), g \in Seq(X), a \in Nat :
         At(X, space, n, r, v, p, g, a) /\ Rest(E, q) = p \o g
  BY DEF ReadsAt
<1>2. m \in Seq(X) /\ z \in Seq(X) /\ o \in Nat
  OBVIOUS
<1>3. KvRead(space, n, m) = next
  <2>1. ReadsOn(X, space, n)
    BY KvReadLaws
  <2>. QED
    BY <2>1 DEF ReadsOn
<1>4. /\ done \in Seq(Seq(X)) /\ Rest(E, q) \in Seq(X)
      /\ ch \in E => /\ Complete(E, m) = Append(done, Rest(E, q))
                     /\ Rest(E, m) = z
      /\ ch \notin E => /\ Complete(E, m) = done
                        /\ Rest(E, m) = Append(Rest(E, q), ch)
  <2>1. Piecewise(X, E)
    BY PieceLaws
  <2>. QED
    BY <2>1 DEF Piecewise
<1>5. ch \in E <=> ch = "nl"
  OBVIOUS
<1> HIDE DEF m, r
<1>6. CASE ch = "nl"
  <2> DEFINE l == Rest(E, q)
  <2>1. l \in Seq(X) /\ l = p \o g /\ Complete(E, m) = Append(done, l) /\ Rest(E, m) = z
    BY <1>1, <1>4, <1>5, <1>6
  <2> HIDE DEF done, l
  <2>2. Cut(n, Append(done, l)) = Cut(n, done) \o Chunks(l, n)
    <3>1. done \in Seq(Seq(X))
      BY <1>4
    <3>2. l \in Seq(X)
      BY <2>1
    <3>3. \A d \in Seq(Seq(X)), k \in Seq(X) : Cut(n, Append(d, k)) = Cut(n, d) \o Chunks(k, n)
      BY CutLaws
    <3>. QED
      BY <3>1, <3>2, <3>3
  <2>3. At(X, space, n, r, v, p, g, a)
    BY <1>1
  <2> HIDE DEF v
  <2>4. At(X, space, n, KvStep(space, n, r, ch), v \o Chunks(p \o g, n), << >>, << >>, 0)
    BY <1>6, <2>3, AfterNewline
  <2>5. Cut(n, Complete(E, m)) = v \o Chunks(p \o g, n)
    BY <2>1, <2>2 DEF v
  <2>6. At(X, space, n, KvRead(space, n, m), Cut(n, Complete(E, m)), z, z, o)
    BY <1>3, <2>4, <2>5
  <2>7. Rest(E, m) = z \o z
    BY <2>1
  <2> HIDE DEF z, o, m
  <2>8. ReadsAt(X, space, n, E, m)
    BY <1>2, <2>6, <2>7 DEF ReadsAt
  <2>. QED
    BY <2>8 DEF m
<1>7. CASE ch # "nl"
  <2> DEFINE h == Append(g, ch)
             ph == p \o h
             b == a + 1
  <2>1. Complete(E, m) = done /\ Rest(E, m) = Append(p \o g, ch)
    BY <1>1, <1>4, <1>5, <1>7
  <2>2. Rest(E, m) = ph
    <3>1. p \o Append(g, ch) = Append(p \o g, ch) /\ p \o g \in Seq(X)
      BY ConcatAppend
    <3>. QED
      BY <2>1, <3>1
  <2>3. h \in Seq(X) /\ ph \in Seq(X) /\ b \in Nat
    <3>1. h \in Seq(X) /\ b \in Nat
      OBVIOUS
    <3> HIDE DEF h
    <3>. QED
      BY <3>1
  <2> HIDE DEF v
  <2>4. \/ At(X, space, n, KvStep(space, n, r, ch), v, p, Append(g, ch), a)
        \/ At(X, space, n, KvStep(space, n, r, ch), v, p \o Append(g, ch), << >>, a + 1)
    BY <1>1, <1>7, AfterCharacter
  <2>5. Cut(n, Complete(E, m)) = v
    BY <2>1 DEF v
  <2>6. \/ At(X, space, n, KvRead(space, n, m), Cut(n, Complete(E, m)), p, h, a)
        \/ At(X, space, n, KvRead(space, n, m), Cut(n, Complete(E, m)), ph, z, b)
    BY <1>3, <2>4, <2>5
  <2>7. Rest(E, m) = p \o h /\ Rest(E, m) = ph \o z
    <3>1. ph \in Seq(X)
      BY <2>3
    <3>2. Rest(E, m) = p \o h
      BY <2>2
    <3> HIDE DEF ph
    <3>3. ph \o << >> = ph /\ << >> \o ph = ph /\ << >> \in Seq(X)
      BY <3>1, WithNothing
    <3>. QED
      BY <2>2, <3>2, <3>3
  <2> HIDE DEF z, m, h, ph, b
  <2>8. ReadsAt(X, space, n, E, m)
    BY <1>2, <2>3, <2>6, <2>7 DEF ReadsAt
  <2>. QED
    BY <2>8 DEF m
<1>. QED
  BY <1>6, <1>7

LEMMA ReadsEverything ==
    ASSUME NEW X, NEW space, NEW n \in Nat \ {0}, NEW in \in Seq(X)
    PROVE  ReadsAt(X, space, n, {"nl"}, in)
<1> DEFINE E == {"nl"}
           T == {q \in Seq(X) : ReadsAt(X, space, n, E, q)}
<1>1. E = {"nl"}
  OBVIOUS
<1> HIDE DEF E
<1>2. << >> \in T
  BY ReadsNothing
<1>3. ASSUME NEW q \in Seq(X), NEW ch \in X, q \in T PROVE Append(q, ch) \in T
  <2>1. ReadsAt(X, space, n, E, q)
    BY <1>3
  <2>2. ReadsAt(X, space, n, E, Append(q, ch))
    BY <1>1, <2>1, ReadsOneMore
  <2>. QED
    BY <2>2
<1> HIDE DEF T
<1>4. Seq(X) \subseteq T
  BY <1>2, <1>3, SeqSetInduction
<1>. QED
  BY <1>1, <1>4 DEF T

(* What main prints for what it has read.                                  *)
LEMMA KvPrints ==
    ASSUME NEW X, NEW space, NEW n, NEW r, NEW v, NEW p, NEW g, NEW a, At(X, space, n, r, v, p, g, a)
    PROVE  /\ Flush(space, r).out = Processed(space, v \o Chunks(p \o g, n)).out
           /\ Flush(space, r).exit = Processed(space, v \o Chunks(p \o g, n)).exit
<1> DEFINE s == Core(r)
           line == r.line
           done == Processed(space, v \o Chunks(p \o g, n))
<1>1. /\ n \in Nat \ {0} /\ s \in Cores(X, n) /\ s.exit = r.exit
      /\ line \in Seq(X) /\ Len(line) < n /\ r = WithLine(s, line)
      /\ r.exit = 0 => line = g
  BY AtParts
<1>2. done = IF r.exit # 0 THEN s ELSE Process(space, s, g)
  BY CutRest
<1>3. r.out = s.out
  BY DEF Core
<1> HIDE DEF s, line, done
<1>4. Len(line) <= n /\ n \in Nat
  BY <1>1
<1>5. /\ s.exit # 0 => Flush(space, WithLine(s, line)) = WithLine(s, line)
      /\ s.exit = 0 => Flush(space, WithLine(s, line)) = WithLine(Process(space, s, line), << >>)
  BY <1>1, <1>4, FlushDoes
<1>6. \A t, k : WithLine(t, k).out = t.out /\ WithLine(t, k).exit = t.exit
  BY DEF WithLine
<1>7. CASE s.exit # 0
  BY <1>1, <1>2, <1>3, <1>5, <1>6, <1>7 DEF done
<1>8. CASE s.exit = 0
  BY <1>1, <1>2, <1>5, <1>6, <1>8 DEF done
<1>. QED
  BY <1>7, <1>8

(* What main prints for a whole input, and what its buffers hold.          *)
ProcessesLines(X, space, n, in) ==
    LET done == Processed(space, Cut(n, Append(Complete({"nl"}, in), Rest({"nl"}, in))))
        read == KvRead(space, n, in)
    IN  /\ Kv(space, n, in) = [out |-> done.out, exit |-> done.exit]
        /\ read \in Readers(X, n)

LEMMA KvProcesses ==
    ASSUME NEW X, NEW space, NEW n \in Nat \ {0}, NEW in \in Seq(X)
    PROVE  ProcessesLines(X, space, n, in)
<1> DEFINE E == {"nl"}
           read == KvRead(space, n, in)
           end == Flush(space, read)
           complete == Complete(E, in)
           rest == Rest(E, in)
           v == Cut(n, complete)
           lines == Append(complete, rest)
           done == Processed(space, Cut(n, lines))
<1>2. ReadsAt(X, space, n, E, in)
  BY ReadsEverything
<1> HIDE DEF E
<1>3. PICK p \in Seq(X), g \in Seq(X), a \in Nat : At(X, space, n, read, v, p, g, a) /\ rest = p \o g
  BY <1>2 DEF ReadsAt
<1>4. complete \in Seq(Seq(X)) /\ rest \in Seq(X)
  <2>1. Piecewise(X, E)
    BY PieceLaws
  <2>. QED
    BY <2>1 DEF Piecewise
<1>5. Cut(n, lines) = v \o Chunks(p \o g, n)
  <2>1. \A d \in Seq(Seq(X)), k \in Seq(X) : Cut(n, Append(d, k)) = Cut(n, d) \o Chunks(k, n)
    BY CutLaws
  <2> HIDE DEF complete, rest
  <2>2. Cut(n, lines) = Cut(n, complete) \o Chunks(rest, n)
    BY <1>4, <2>1
  <2>. QED
    BY <1>3, <2>2
<1> HIDE DEF read, v
<1>6. At(X, space, n, read, v, p, g, a)
  BY <1>3
<1>7. /\ Flush(space, read).out = Processed(space, v \o Chunks(p \o g, n)).out
      /\ Flush(space, read).exit = Processed(space, v \o Chunks(p \o g, n)).exit
  BY <1>6, KvPrints
<1>8. end.out = done.out /\ end.exit = done.exit
  BY <1>5, <1>7
<1>9. read \in Readers(X, n)
  BY <1>6, AtParts
<1>10. Kv(space, n, in) = [out |-> end.out, exit |-> end.exit]
  BY DEF Kv, read
<1>. QED
  BY <1>8, <1>9, <1>10 DEF ProcessesLines, read, E

(* kv_normalize processes the lines of its input in order, the last one    *)
(* though nothing ends it, each cut to what the buffer holds, up to the    *)
(* first error; and neither buffer ever overflows.                         *)
THEOREM KvReadsLines ==
    ASSUME NEW X, NEW max_line \in Nat \ {0, 1}, NEW in \in Seq(X)
    PROVE  KvIsRight(max_line, in)
<1> DEFINE n == max_line - 1
           space == {"sp", "cr"}
           read == KvRead(space, n, in)
<1>1. n \in Nat \ {0} /\ n < max_line /\ max_line \in Nat /\ n \in Nat
  OBVIOUS
<1> HIDE DEF n, space
<1>2. ProcessesLines(X, space, n, in)
  BY <1>1, KvProcesses
<1>3. read \in Readers(X, n)
  BY <1>2 DEF ProcessesLines
<1>4. read.line \in Seq(X) /\ Len(read.line) < n /\ read.section \in Seq(X) /\ Len(read.section) <= n
  <2> HIDE DEF read
  <2>. QED
    BY <1>3 DEF Readers, Reads, Sections
<1>5. Len(read.line) < max_line /\ Len(read.section) <= max_line
  <2>1. Len(read.line) \in Nat /\ Len(read.section) \in Nat
    BY <1>4
  <2>. QED
    BY <1>1, <1>4, <2>1
<1>. QED
  BY <1>2, <1>5 DEF KvIsRight, KvNormalize, ProcessesLines, n, space, read

-----------------------------------------------------------------------------
(* The programs of the pool.                                               *)

LEMMA RunLengthsGiven == MaxRuns \subseteq RunLengths
<1>1. Pow2[ByteBits] \in Nat
  BY BitsAssumption, Pow2Facts
<1> DEFINE m == Pow2[ByteBits]
<1> HIDE DEF m
<1>2. m \in Nat /\ MaxRuns \subseteq 1 .. m - 1
  BY <1>1, RunsAssumption DEF m
<1>3. \A k \in 1 .. m - 1 : k \in Nat \ {0} /\ k < m
  BY <1>2
<1>. QED
  BY <1>2, <1>3 DEF RunLengths, m

LEMMA SamplesGiven ==
    /\ \A in \in Samples.reverse_bytes : in \in Seq(Range(in))
    /\ \A in \in Samples.kv_normalize : in \in Seq(Range(in))
    /\ \A in \in Samples.rle_encode \union Samples.fnv1a_lines \union Samples.crc32 : in \in Seq(Bytes)
    /\ \A in \in Samples.base64_encode \union Samples.utf8_validate : in \in Seq(Octets)
    /\ \A in \in Samples.leb128_decode : in \in Seq(Nat)
BY SamplesAssumption DEF Bytes, Octets

(* Every C program of the pool does what its description says.             *)
THEOREM ProgramsAreSound == CProgramsAreSound
<1>1. ReverseSound
  <2> SUFFICES ASSUME NEW csz \in ChunkSizes, NEW in \in Samples.reverse_bytes
               PROVE  ReverseBytes(csz, in) = ReverseReference(csz, in)
    BY DEF ReverseSound, AllOf
  <2>1. csz \in Nat \ {0}
    BY SizesAssumption
  <2>2. in \in Seq(Range(in))
    BY SamplesGiven
  <2>. QED
    BY <2>1, <2>2, ReverseMirrorsChunks
<1>2. RleSound
  <2> SUFFICES ASSUME NEW max_run \in MaxRuns, NEW in \in Samples.rle_encode
               PROVE  RleIsRight(max_run, in)
    BY DEF RleSound, AllOf
  <2>1. max_run \in RunLengths
    BY RunLengthsGiven
  <2>2. in \in Seq(Bytes)
    BY SamplesGiven
  <2>. QED
    BY <2>1, <2>2, RleWritesRuns
<1>3. FnvSound
  <2> SUFFICES ASSUME NEW in \in Samples.fnv1a_lines PROVE FnvIsRight(in)
    BY DEF FnvSound, AllOf
  <2>1. in \in Seq(Bytes)
    BY SamplesGiven
  <2>. QED
    BY <2>1, FnvHashesLines
<1>4. CrcSound
  <2> SUFFICES ASSUME NEW poly \in Polys, NEW in \in Samples.crc32 PROVE CrcIsRight(poly, in)
    BY DEF CrcSound, AllOf
  <2>1. poly \in Words
    BY WordAssumption DEF Words
  <2>2. in \in Seq(Bytes)
    BY SamplesGiven
  <2>. QED
    BY <2>1, <2>2, CrcShiftsBits
<1>5. Base64Sound
  <2> SUFFICES ASSUME NEW wrap \in WrapColumns, NEW in \in Samples.base64_encode
               PROVE  Base64IsRight(wrap, in)
    BY DEF Base64Sound, AllOf
  <2>1. wrap \in Nat \ {0}
    BY SizesAssumption
  <2>2. in \in Seq(Octets)
    BY SamplesGiven
  <2>. QED
    BY <2>1, <2>2, Base64Decodes
<1>6. KvSound
  <2>1. ASSUME NEW max_line \in MaxLines, NEW in \in Samples.kv_normalize
        PROVE  KvIsRight(max_line, in)
    <3>1. max_line \in Nat \ {0, 1}
      BY SizesAssumption
    <3>2. in \in Seq(Range(in))
      BY SamplesGiven
    <3>. QED
      BY <3>1, <3>2, KvReadsLines
  <2>. QED
    BY <2>1, LinesAreRight DEF KvSound, AllOf
<1>7. LebSound
  <2> SUFFICES ASSUME NEW bits \in MaxBits, NEW in \in Samples.leb128_decode
               PROVE  Leb128IsRight(bits, in)
    BY DEF LebSound, AllOf
  <2>1. bits \in Nat
    BY SizesAssumption
  <2>2. in \in Seq(Nat)
    BY SamplesGiven
  <2>. QED
    BY <2>1, <2>2, Leb128Sums
<1>8. Utf8Sound
  <2> SUFFICES ASSUME NEW points \in MaxPoints, NEW in \in Samples.utf8_validate
               PROVE  Utf8IsRight(points, in)
    BY DEF Utf8Sound, AllOf
  <2>1. points \in Nat
    BY SizesAssumption
  <2>2. in \in Seq(Octets)
    BY SamplesGiven
  <2>. QED
    BY <2>1, <2>2, Utf8Validates
<1>. QED
  BY <1>1, <1>2, <1>3, <1>4, <1>5, <1>6, <1>7, <1>8 DEF CProgramsAreSound

-----------------------------------------------------------------------------
(* The weak translations: fnv1a_lines, crc32 and base64_encode.            *)

(* A last line that ends with a newline is not forgotten.                  *)
LEMMA FnvWeakOnly ==
    ASSUME NEW in \in Seq(Bytes), FnvWeak(in) # FnvLines(in)
    PROVE  in[Len(in)] # Newline
<1>1. in # << >> /\ FnvRead(in).hash # Basis
  BY DEF FnvWeak, FnvLines
<1>2. PICK q \in Seq(Bytes), ch \in Bytes : in = Append(q, ch)
  <2>1. SubSeq(in, 1, Len(in) - 1) \in Seq(Bytes) /\ in[Len(in)] \in Bytes
        /\ in = Append(SubSeq(in, 1, Len(in) - 1), in[Len(in)])
    BY <1>1
  <2>. QED
    BY <2>1
<1>3. in[Len(in)] = ch
  BY <1>2
<1>4. FnvRead(in) = FnvStep(FnvRead(q), ch)
  BY <1>2, FnvReadLaws
<1>5. ch = Newline => FnvRead(in).hash = Basis
  BY <1>4 DEF FnvStep
<1>. QED
  BY <1>1, <1>3, <1>5

(* An input that the buffer holds is read whole.                           *)
LEMMA CrcWeakOnly ==
    ASSUME NEW X, NEW in \in Seq(X), NEW poly, BufSize \in Nat, CrcWeak(poly, in) # Crc32(poly, in)
    PROVE  Len(in) > BufSize
<1>1. ASSUME Len(in) <= BufSize PROVE FALSE
  <2>1. Min({BufSize, Len(in)}) = Len(in)
    <3>1. BufSize \in Int /\ Len(in) \in Int
      OBVIOUS
    <3>2. Min({BufSize, Len(in)}) = IF BufSize <= Len(in) THEN BufSize ELSE Len(in)
      BY <3>1, MinOfTwo
    <3>. QED
      BY <1>1, <3>1, <3>2
  <2>2. SubSeq(in, 1, Len(in)) = in
    OBVIOUS
  <2>. QED
    BY <2>1, <2>2 DEF CrcWeak
<1>. QED
  BY <1>1

(* The column is what the full lines leave of the characters.              *)
LEMMA ColumnIsRest ==
    ASSUME NEW wrap \in Nat \ {0}, NEW chars \in Seq(Alphabet), Emitted(wrap, chars).col = 0
    PROVE  Len(chars) % wrap = 0
<1> DEFINE col(q) == Emitted(wrap, q).col
           T == {q \in Seq(Alphabet) : \E a \in Nat : Len(q) = wrap * a + col(q)}
<1>1. << >> \in T
  <2>1. col(<< >>) = 0 /\ << >> \in Seq(Alphabet) /\ Len(<< >>) = wrap * 0 + 0
    BY EmittedLaws
  <2>. QED
    BY <2>1
<1>2. ASSUME NEW q \in Seq(Alphabet), NEW ch \in Alphabet, q \in T PROVE Append(q, ch) \in T
  <2> DEFINE s == Emitted(wrap, q)
             t == Append(q, ch)
  <2>1. s \in EmitStates /\ Emitted(wrap, t) = Emit(wrap, s, ch)
    BY EmittedLaws
  <2>2. s.col \in Nat
    BY <2>1 DEF EmitStates
  <2>3. col(t) = IF s.col + 1 = wrap THEN 0 ELSE s.col + 1
    BY <2>1 DEF Emit
  <2>4. PICK a \in Nat : Len(q) = wrap * a + s.col
    BY <1>2
  <2>5. t \in Seq(Alphabet) /\ Len(t) = Len(q) + 1 /\ Len(q) \in Nat
    OBVIOUS
  <2>6. wrap * (a + 1) = wrap * a + wrap /\ wrap * a \in Nat /\ a + 1 \in Nat
    OBVIOUS
  <2> HIDE DEF s, t, col
  <2>7. Len(t) = wrap * a + col(t) \/ Len(t) = wrap * (a + 1) + col(t)
    BY <2>2, <2>3, <2>4, <2>5, <2>6
  <2>8. t \in T
    BY <2>5, <2>6, <2>7
  <2>. QED
    BY <2>8 DEF t
<1> HIDE DEF T
<1>3. chars \in T
  BY <1>1, <1>2, SeqSetInduction
<1>4. PICK a \in Nat : Len(chars) = wrap * a + 0
  BY <1>3 DEF T
<1>5. 0 \in 0 .. (wrap - 1)
  OBVIOUS
<1>. QED
  BY <1>4, <1>5, Divided

(* Without padding there are four letters to a group.                      *)
LEMMA FourLetters ==
    ASSUME NEW in \in Seq(Octets)
    PROVE  Len(FlattenSeq(Mapped(Sextets, Chunks(in, 3)))) = 4 * Len(Chunks(in, 3))
<1> DEFINE X == Octets
           n == 3
           G == {g \in Seq(X) : Len(g) \in 1 .. n}
           Q == {q \in Seq(Alphabet) : Len(q) = 4}
           groups == Chunks(in, n)
           qs == Mapped(Sextets, groups)
<1>1. n \in Nat \ {0} /\ in \in Seq(X)
  OBVIOUS
<1>2. \A g \in G : Sextets(g) \in Q
  BY GroupDecodes
<1> HIDE DEF X, n
<1>3. groups \in Seq(G)
  BY <1>1, ChunkLaws
<1>4. qs = [k \in DOMAIN groups |-> Sextets(groups[k])]
  BY DEF Mapped
<1> HIDE DEF G, groups, qs, Q
<1>5. qs \in Seq(Q) /\ Len(qs) = Len(groups)
  <2>1. DOMAIN groups = 1 .. Len(groups) /\ Len(groups) \in Nat /\ \A k \in 1 .. Len(groups) : groups[k] \in G
    BY <1>3
  <2>. QED
    BY <1>2, <1>4, <2>1
<1>6. Len(FlattenSeq(qs)) = 4 * Len(qs)
  <2>1. 4 \in Nat \ {0}
    OBVIOUS
  <2>. QED
    BY <1>5, <2>1, PiecesAreChunks DEF Q
<1>. QED
  BY <1>5, <1>6 DEF qs, groups, n

(* A last line that is not full is ended by both.                          *)
LEMMA Base64WeakOnly ==
    ASSUME NEW wrap \in Nat \ {0}, NEW in \in Seq(Octets), Base64Weak(wrap, in) # Base64Encode(wrap, in)
    PROVE  (4 * Len(Chunks(in, 3))) % wrap = 0
<1> DEFINE chars == FlattenSeq(Mapped(Sextets, Chunks(in, 3)))
<1>1. Emitted(wrap, chars).col = 0
  BY DEF Base64Weak, Base64Encode, Base64
<1>2. chars \in Seq(Alphabet)
  BY LettersDecode
<1>3. Len(chars) = 4 * Len(Chunks(in, 3))
  BY FourLetters
<1> HIDE DEF chars
<1>. QED
  BY <1>1, <1>2, <1>3, ColumnIsRest

-----------------------------------------------------------------------------
(* The weak rle_encode.                                                    *)

(* A run of more than n elements.                                          *)
LongRun(n, q) == \E i \in 1 .. Len(q) - n : \A j \in i .. i + n : q[j] = q[i]

(* The counted bytes are the last ones read.                               *)
EndsInRun(n, q, s) ==
    /\ s.count \in 1 .. n /\ s.count <= Len(q)
    /\ \A j \in Len(q) - s.count + 1 .. Len(q) : q[j] = s.current

AnyRun == [out : Seq(Bytes), current : Bytes, count : Nat]

LEMMA AnyRunReads ==
    ASSUME NEW max_run, NEW first \in Bytes
    PROVE  RleReads(AnyRun, max_run, first)
<1>1. RleStart(first) \in AnyRun
  BY DEF RleStart, AnyRun
<1>2. ASSUME NEW s \in AnyRun, NEW b \in Bytes PROVE RleStep(max_run, s, b) \in AnyRun
  <2>1. s.out \in Seq(Bytes) /\ s.current \in Bytes /\ s.count \in Nat
    BY DEF AnyRun
  <2>2. s.count % Pow2[ByteBits] \in Bytes
    <3> DEFINE p == Pow2[ByteBits]
               k == s.count
    <3>1. p \in Nat \ {0}
      BY BitsAssumption, Pow2Facts
    <3> HIDE DEF p, k
    <3>2. k % p \in 0 .. (p - 1)
      BY <2>1, <3>1 DEF k
    <3>. QED
      BY <3>2 DEF Bytes, p, k
  <2>3. <<s.count % Pow2[ByteBits], s.current>> \in Seq(Bytes)
    BY <2>1, <2>2
  <2>4. Pair(s) \in Seq(Bytes)
    BY <2>1, <2>3, Cat DEF Pair
  <2>5. s.count + 1 \in Nat /\ 1 \in Nat
    BY <2>1
  <2>. QED
    BY <2>1, <2>4, <2>5 DEF RleStep, AnyRun
<1>3. RleStaysIn(AnyRun, max_run, first)
  BY <1>1, <1>2 DEF RleStaysIn
<1>. QED
  BY <1>3, RleReadsBytes

(* Without a run of more than n, a count without limit is the same.        *)
LEMMA CountsTheSame ==
    ASSUME NEW n \in Nat \ {0}, NEW m \in Nat, NEW x \in Seq(Bytes), NEW s \in AnyRun, NEW b \in Bytes,
           Len(x) < m, EndsInRun(n, x, s), ~ LongRun(n, Append(x, b))
    PROVE  RleStep(m, s, b) = RleStep(n, s, b) /\ EndsInRun(n, Append(x, b), RleStep(n, s, b))
<1> DEFINE y == Append(x, b)
           l == Len(x)
           k == s.count
<1>1. /\ y \in Seq(Bytes) /\ Len(y) = l + 1 /\ y[l + 1] = b /\ l \in Nat
      /\ \A j \in 1 .. l : y[j] = x[j]
  OBVIOUS
<1>2. /\ k \in 1 .. n /\ k <= l /\ l < m
      /\ \A j \in l - k + 1 .. l : x[j] = s.current
  BY DEF EndsInRun
<1> HIDE DEF y, l, k
<1>3. CASE b = s.current /\ k < n
  <2> DEFINE t == [s EXCEPT !.count = @ + 1]
  <2>1. RleStep(m, s, b) = t /\ RleStep(n, s, b) = t /\ t.count = k + 1 /\ t.current = s.current
    <3>1. b = s.current /\ s.count < n /\ s.count < m
      BY <1>1, <1>2, <1>3 DEF k
    <3>2. t.count = k + 1 /\ t.current = s.current
      BY DEF AnyRun, k
    <3>. QED
      BY <3>1, <3>2 DEF RleStep
  <2> HIDE DEF t
  <2>2. \A j \in (l + 1) - (k + 1) + 1 .. l + 1 : y[j] = s.current
    <3> SUFFICES ASSUME NEW j \in (l + 1) - (k + 1) + 1 .. l + 1 PROVE y[j] = s.current
      OBVIOUS
    <3>1. CASE j = l + 1
      BY <1>1, <1>3, <3>1
    <3>2. CASE j # l + 1
      <4>1. j \in l - k + 1 .. l /\ j \in 1 .. l
        BY <1>1, <1>2, <3>2
      <4>. QED
        BY <1>1, <1>2, <4>1
    <3>. QED
      BY <3>1, <3>2
  <2>3. k + 1 \in 1 .. n /\ k + 1 <= l + 1
    BY <1>1, <1>2, <1>3
  <2>. QED
    BY <1>1, <2>1, <2>2, <2>3 DEF EndsInRun, y
<1>4. CASE b = s.current /\ ~ k < n
  <2>1. k = n
    BY <1>2, <1>4
  <2> DEFINE i == l - n + 1
  <2>2. i \in 1 .. (l + 1) - n /\ i \in l - k + 1 .. l /\ i \in 1 .. l
    BY <1>1, <1>2, <2>1
  <2>3. \A j \in i .. i + n : y[j] = y[i]
    <3> SUFFICES ASSUME NEW j \in i .. i + n PROVE y[j] = y[i]
      OBVIOUS
    <3>1. y[i] = s.current
      BY <1>1, <1>2, <2>2
    <3>2. CASE j = l + 1
      BY <1>1, <1>4, <3>1, <3>2
    <3>3. CASE j # l + 1
      <4>1. j \in l - k + 1 .. l /\ j \in 1 .. l
        BY <1>1, <1>2, <2>1, <3>3
      <4>. QED
        BY <1>1, <1>2, <3>1, <4>1
    <3>. QED
      BY <3>2, <3>3
  <2> HIDE DEF i
  <2>4. LongRun(n, y)
    BY <1>1, <2>2, <2>3 DEF LongRun
  <2>. QED
    BY <2>4 DEF y
<1>5. CASE b # s.current
  <2> DEFINE t == [out |-> Pair(s), current |-> b, count |-> 1]
  <2>1. RleStep(m, s, b) = t /\ RleStep(n, s, b) = t /\ t.count = 1 /\ t.current = b
    BY <1>5 DEF RleStep
  <2> HIDE DEF t
  <2>2. \A j \in (l + 1) - 1 + 1 .. l + 1 : j = l + 1
    BY <1>1
  <2>3. 1 \in 1 .. n /\ 1 <= l + 1
    BY <1>1
  <2>. QED
    BY <1>1, <2>1, <2>2, <2>3 DEF EndsInRun, y
<1>. QED
  BY <1>3, <1>4, <1>5

LEMMA ShorterRuns ==
    ASSUME NEW X, NEW n \in Nat, NEW q \in Seq(X), NEW b \in X, LongRun(n, q)
    PROVE  LongRun(n, Append(q, b))
<1>1. PICK i \in 1 .. Len(q) - n : \A j \in i .. i + n : q[j] = q[i]
  BY DEF LongRun
<1>2. i \in 1 .. Len(q) /\ i \in 1 .. (Len(q) + 1) - n /\ \A j \in i .. i + n : j \in 1 .. Len(q)
  BY <1>1
<1>3. Len(Append(q, b)) = Len(q) + 1 /\ \A j \in 1 .. Len(q) : Append(q, b)[j] = q[j]
  OBVIOUS
<1>4. \A j \in i .. i + n : Append(q, b)[j] = Append(q, b)[i]
  BY <1>1, <1>2, <1>3
<1>. QED
  BY <1>2, <1>3, <1>4 DEF LongRun

(* Counts that need no limit are the same without one.                     *)
LEMMA RleWeakOnly ==
    ASSUME NEW max_run \in Nat \ {0}, NEW in \in Seq(Bytes), RleWeak(in) # RleEncode(max_run, in)
    PROVE  LongRun(max_run, in)
<1> SUFFICES ASSUME ~ LongRun(max_run, in) PROVE FALSE
  OBVIOUS
<1> DEFINE m == Len(in)
           n == max_run
           first == in[1]
           rest == Tail(in)
<1>1. in # << >>
  BY DEF RleWeak, RleEncode
<1>2. first \in Bytes /\ rest \in Seq(Bytes) /\ in = <<first>> \o rest /\ m = Len(rest) + 1 /\ m \in Nat
  BY <1>1
<1>3. RleWeak(in) = Pair(RleRead(m, first, rest)) /\ RleEncode(n, in) = Pair(RleRead(n, first, rest))
  BY <1>1 DEF RleWeak, RleEncode
<1> HIDE DEF m, n, first, rest
<1>4. RleReads(AnyRun, m, first) /\ RleReads(AnyRun, n, first) /\ n \in Nat \ {0}
  BY <1>2, AnyRunReads DEF n
<1> DEFINE x(q) == <<first>> \o q
           Same(q) == /\ RleRead(m, first, q) = RleRead(n, first, q)
                      /\ EndsInRun(n, x(q), RleRead(n, first, q))
           T == {q \in Seq(Bytes) : Len(q) < m /\ ~ LongRun(n, x(q)) => Same(q)}
<1>5. << >> \in T
  <2>1. RleRead(m, first, << >>) = RleStart(first) /\ RleRead(n, first, << >>) = RleStart(first)
    BY <1>4 DEF RleReads
  <2>2. RleStart(first).count = 1 /\ RleStart(first).current = first
    BY DEF RleStart
  <2>3. x(<< >>) = <<first>> /\ Len(<<first>>) = 1 /\ <<first>>[1] = first
    OBVIOUS
  <2>4. 1 \in 1 .. n /\ \A j \in 1 - 1 + 1 .. 1 : j = 1
    BY <1>4
  <2>5. EndsInRun(n, <<first>>, RleStart(first))
    BY <2>2, <2>3, <2>4 DEF EndsInRun
  <2>. QED
    BY <2>1, <2>3, <2>5
<1>6. ASSUME NEW q \in Seq(Bytes), NEW b \in Bytes, q \in T PROVE Append(q, b) \in T
  <2> SUFFICES ASSUME Len(Append(q, b)) < m, ~ LongRun(n, x(Append(q, b))) PROVE Same(Append(q, b))
    OBVIOUS
  <2> DEFINE y == x(q)
             s == RleRead(n, first, q)
  <2>1. /\ y \in Seq(Bytes) /\ Len(y) = Len(q) + 1 /\ x(Append(q, b)) = Append(y, b)
        /\ Len(Append(q, b)) = Len(q) + 1 /\ Len(q) \in Nat
    BY <1>2
  <2>2. ~ LongRun(n, y)
    BY <1>4, <2>1, ShorterRuns
  <2>3. Same(q)
    BY <1>6, <1>2, <2>1, <2>2
  <2>4. s \in AnyRun /\ Len(y) < m /\ EndsInRun(n, y, s) /\ ~ LongRun(n, Append(y, b))
    BY <1>4, <2>1, <2>3 DEF RleReads
  <2>5. /\ RleRead(m, first, Append(q, b)) = RleStep(m, s, b)
        /\ RleRead(n, first, Append(q, b)) = RleStep(n, s, b)
    BY <1>4, <2>3 DEF RleReads
  <2> HIDE DEF y, s, x
  <2>6. RleStep(m, s, b) = RleStep(n, s, b) /\ EndsInRun(n, Append(y, b), RleStep(n, s, b))
    BY <1>2, <1>4, <2>1, <2>4, CountsTheSame
  <2>. QED
    BY <2>1, <2>5, <2>6
<1> HIDE DEF T
<1>7. rest \in T
  BY <1>2, <1>5, <1>6, SeqSetInduction
<1>8. Len(rest) < m /\ ~ LongRun(n, <<first>> \o rest)
  BY <1>2 DEF n
<1>9. RleRead(m, first, rest) = RleRead(n, first, rest)
  BY <1>7, <1>8 DEF T
<1>. QED
  BY <1>3, <1>9 DEF n

-----------------------------------------------------------------------------
(* The weak utf8_validate.                                                 *)

(* The first bytes of a surrogate.                                         *)
LEMMA SurrogateBytes ==
    ASSUME NEW cp, NEW b, NEW h, NEW d, CodedInThree(cp, b, h, d), cp \in Surrogates
    PROVE  b = 237 /\ h \in 160 .. 191
<1>1. /\ b \in 224 .. 239 /\ h \in 128 .. 191 /\ d \in 128 .. 191
      /\ cp = ((b % 16) * 64 + (h % 64)) * 64 + (d % 64)
  BY DEF CodedInThree, Behind
<1>2. b % 16 = b - 224 /\ h % 64 = h - 128 /\ d % 64 = d - 128
  BY <1>1
<1>3. cp = ((b - 224) * 64 + (h - 128)) * 64 + (d - 128)
  BY <1>1, <1>2
<1>4. 55296 <= cp /\ cp <= 57343
  BY DEF Surrogates
<1>5. b = 237 /\ h >= 160
  BY <1>1, <1>3, <1>4
<1>. QED
  BY <1>1, <1>5

(* A character that only the weak translation accepts.                     *)
OnlyWeakly(in, i) == Rejected(Surrogates, in, i) /\ ~ Rejected({}, in, i)

LEMMA AcceptedWeakly ==
    ASSUME NEW in, NEW i, OnlyWeakly(in, i)
    PROVE  LET n == Need(in[i])
               cp == CodedUpTo(in, i, in[i] % LeadMask[n], n)
           IN  /\ n # -1 /\ ~ (n > Len(in) - i)
               /\ \A k \in 1 .. n : in[i + k] \in Behind
               /\ cp \in Surrogates /\ ~ (cp < Lowest[n])
<1> DEFINE n == Need(in[i])
           cp == CodePoint(in[i] % LeadMask[n], SubSeq(in, i + 1, i + n))
           P == n = -1 \/ n > Len(in) - i \/ \E k \in 1 .. n : in[i + k] \notin 128 .. 191
<1>1. Rejected(Surrogates, in, i) <=> P \/ (cp < Lowest[n] \/ cp \in Surrogates \/ cp > 1114111)
  BY DEF Rejected
<1>2. Rejected({}, in, i) <=> P \/ (cp < Lowest[n] \/ cp > 1114111)
  BY DEF Rejected
<1>3. CodedUpTo(in, i, in[i] % LeadMask[n], n) = cp
  BY DEF CodedUpTo
<1>. QED
  BY <1>1, <1>2, <1>3 DEF OnlyWeakly, Behind

LEMMA OnlySurrogates ==
    ASSUME NEW in \in Seq(Octets), NEW i \in 1 .. Len(in), OnlyWeakly(in, i)
    PROVE  i + 1 <= Len(in) /\ in[i] = 237 /\ in[i + 1] \in 160 .. 191
<1> DEFINE b == in[i]
           n == Need(b)
           h == in[i + 1]
           d == in[i + 2]
           lead == b % LeadMask[n]
           C(k) == CodedUpTo(in, i, lead, k)
           l == Len(in)
<1>1. in \in Seq(Nat) /\ b \in Nat /\ b \in Octets
  BY OctetsAreNumbers
<1>2. NeedsOf(b, n)
  BY <1>1, NeedsAre
<1>3. n # -1 /\ ~ (n > l - i) /\ (\A k \in 1 .. n : in[i + k] \in Behind) /\ C(n) \in Surrogates
      /\ ~ (C(n) < Lowest[n])
  BY AcceptedWeakly
<1>4. LeadMask[0] = 128 /\ LeadMask[1] = 32 /\ LeadMask[2] = 16 /\ LeadMask[3] = 8 /\ Lowest[3] = 65536
  BY DEF LeadMask, Lowest
<1>5. i \in Nat /\ l \in Nat
  OBVIOUS
<1> HIDE DEF b, n, Octets
<1>6. n \in {0, 1, 2, 3}
  BY <1>2, <1>3 DEF NeedsOf
<1>7. i + n <= l
  <2> HIDE DEF l, C
  <2>. QED
    BY <1>3, <1>5, <1>6
<1>8. lead \in Nat
  BY <1>1, <1>4, <1>6
<1> HIDE DEF lead
<1>9. PartsOf(in, i, lead)
  BY <1>1, <1>8, CodedInParts
<1>10. /\ C(0) = lead
       /\ i + 1 <= l => C(1) = lead * 64 + (h % 64)
       /\ i + 2 <= l => C(2) = C(1) * 64 + (d % 64)
  BY <1>9 DEF PartsOf
<1> HIDE DEF C, h, d, l
<1>11. \A cp \in Surrogates : cp \in Nat /\ cp >= 55296 /\ cp < 65536
  BY DEF Surrogates
<1>12. n # 0
  <2> SUFFICES ASSUME n = 0 PROVE FALSE
    OBVIOUS
  <2>1. C(0) < 128
    BY <1>1, <1>4, <1>10 DEF lead
  <2>. QED
    BY <1>3, <1>11, <2>1
<1>13. n # 1
  <2> SUFFICES ASSUME n = 1 PROVE FALSE
    OBVIOUS
  <2>1. lead < 32 /\ C(1) = lead * 64 + (h % 64)
    BY <1>1, <1>4, <1>7, <1>10 DEF lead
  <2>2. h \in Behind
    BY <1>3 DEF h
  <2>3. h % 64 \in 0 .. 63
    BY <2>2 DEF Behind
  <2> DEFINE x == h % 64
  <2>4. C(1) = lead * 64 + x /\ x \in 0 .. 63 /\ lead < 32
    BY <2>1, <2>3
  <2> HIDE DEF x
  <2>5. C(1) < 2048
    BY <1>8, <2>4
  <2>. QED
    BY <1>3, <1>11, <2>5
<1>14. n # 3
  BY <1>3, <1>4, <1>11
<1>15. n = 2
  BY <1>6, <1>12, <1>13, <1>14
<1>16. h \in Behind /\ d \in Behind /\ b \in 224 .. 239
  BY <1>2, <1>3, <1>15 DEF h, d, NeedsOf
<1>17. i + 1 <= l /\ i + 2 <= l
  BY <1>5, <1>7, <1>15
<1>18. C(2) = ((b % 16) * 64 + (h % 64)) * 64 + (d % 64)
  BY <1>4, <1>10, <1>15, <1>17 DEF lead
<1>19. CodedInThree(C(2), b, h, d)
  BY <1>16, <1>18 DEF CodedInThree
<1>20. b = 237 /\ h \in 160 .. 191
  BY <1>3, <1>15, <1>19, SurrogateBytes
<1>. QED
  BY <1>17, <1>20 DEF b, h, l

(* Scans of a text without the first bytes of a surrogate are the same.    *)
LEMMA Utf8WeakOnly ==
    ASSUME NEW max_points \in Nat, NEW in \in Seq(Octets),
           Utf8Weak(max_points, in) # Utf8Validate(max_points, in)
    PROVE  \E i \in 1 .. Len(in) - 1 : in[i] = 237 /\ in[i + 1] \in 160 .. 191
<1> SUFFICES ASSUME ~ \E i \in 1 .. Len(in) - 1 : in[i] = 237 /\ in[i + 1] \in 160 .. 191
             PROVE  FALSE
  OBVIOUS
<1>1. ASSUME NEW i \in 1 .. Len(in) PROVE Rejected({}, in, i) = Rejected(Surrogates, in, i)
  <2>1. ~ OnlyWeakly(in, i)
    <3> SUFFICES ASSUME OnlyWeakly(in, i) PROVE FALSE
      OBVIOUS
    <3>1. i + 1 <= Len(in) /\ in[i] = 237 /\ in[i + 1] \in 160 .. 191
      BY OnlySurrogates
    <3>2. i \in 1 .. Len(in) - 1
      BY <3>1
    <3>. QED
      BY <3>1, <3>2
  <2>2. Rejected({}, in, i) => Rejected(Surrogates, in, i)
    BY DEF Rejected
  <2>3. Rejected({}, in, i) \in BOOLEAN /\ Rejected(Surrogates, in, i) \in BOOLEAN
    BY DEF Rejected
  <2>. QED
    BY <2>1, <2>2, <2>3 DEF OnlyWeakly
<1>2. ScansAs(max_points, {}, in)
  BY <1>1 DEF ScansAs, Scanned, Utf8Step, Positions
<1>3. ScansAs(max_points, Surrogates, in)
  BY DEF ScansAs, Scanned
<1> DEFINE all == [i \in DOMAIN in |-> i]
<1>4. all \in Seq(Positions(in))
  BY DEF Positions
<1> HIDE DEF all
<1>5. Utf8Scan(max_points, {}, in, all) = Utf8Scan(max_points, Surrogates, in, all)
  BY <1>2, <1>3, <1>4, ScanFolds
<1>6. Utf8(max_points, {}, in) = Utf8(max_points, Surrogates, in)
  BY <1>5 DEF Utf8, all
<1>7. Utf8Validate(max_points, in) = Utf8(max_points, Surrogates, in)
  BY DEF Utf8Validate, Surrogates
<1>. QED
  BY <1>6, <1>7 DEF Utf8Weak

-----------------------------------------------------------------------------
(* The weak kv_normalize.                                                  *)

(* Without "\r", a blank is a blank for both.                              *)
Both == {"sp", "cr"}
Space == {"sp"}

LEMMA SameTrim ==
    ASSUME NEW X, "cr" \notin X, NEW q \in Seq(X)
    PROVE  Trim(Space, q) = Trim(Both, q)
<1>1. \A i \in DOMAIN q : q[i] \in X
  OBVIOUS
<1>2. \A i \in DOMAIN q : q[i] \notin Space <=> q[i] \notin Both
  BY <1>1 DEF Space, Both
<1>3. {i \in DOMAIN q : q[i] \notin Space} = {i \in DOMAIN q : q[i] \notin Both}
  BY <1>2
<1>. QED
  BY <1>3 DEF Trim

LEMMA SameLine ==
    ASSUME NEW X, "cr" \notin X, NEW s, NEW q \in Seq(X)
    PROVE  Process(Space, s, q) = Process(Both, s, q)
<1> DEFINE t == Trim(Both, q)
           eq == FirstOf(t, "=")
           close == FirstOf(t, "]")
           key == SubSeq(t, 1, eq - 1)
           value == SubSeq(t, eq + 1, Len(t))
           name == SubSeq(t, 2, close - 1)
<1>1. Trim(Space, q) = t /\ t \in Seq(X)
  BY SameTrim, TrimType
<1> HIDE DEF t
<1>2. Process(Space, s, q) = Does(Space, s, t) /\ Process(Both, s, q) = Does(Both, s, t)
  BY <1>1, ProcessDoes DEF t
<1>3. eq \in 0 .. Len(t) /\ close \in 0 .. Len(t) /\ Len(t) \in Nat /\ (close # 0 => t[close] = "]")
  BY <1>1, FirstType
<1> HIDE DEF eq, close
<1>4. ASSUME eq # 0
      PROVE  Trim(Space, key) = Trim(Both, key) /\ Trim(Space, value) = Trim(Both, value)
  <2>1. key \in Seq(X) /\ value \in Seq(X)
    BY <1>1, <1>3, <1>4
  <2> HIDE DEF key, value
  <2>. QED
    BY <2>1, SameTrim
<1>5. ASSUME close # 0, t[1] = "["
      PROVE  Trim(Space, name) = Trim(Both, name)
  <2>1. close # 1
    BY <1>3, <1>5
  <2>2. name \in Seq(X)
    BY <1>1, <1>3, <1>5, <2>1
  <2> HIDE DEF name
  <2>. QED
    BY <2>2, SameTrim
<1>6. Does(Space, s, t) = Does(Both, s, t)
  <2>1. CASE t = << >>
    BY <2>1, DoesNothing
  <2>2. CASE t # << >> /\ t[1] = "#"
    BY <2>2, DoesComment
  <2>3. CASE t # << >> /\ t[1] = "[" /\ close = 0
    BY <2>3, DoesFail DEF close
  <2>4. CASE t # << >> /\ t[1] = "[" /\ close # 0
    <3>1. /\ Does(Space, s, t) = Named(s, Trim(Space, name))
          /\ Does(Both, s, t) = Named(s, Trim(Both, name))
      BY <2>4, DoesSection DEF close
    <3>. QED
      BY <1>5, <2>4, <3>1
  <2>5. CASE t # << >> /\ t[1] \notin {"#", "["} /\ eq = 0
    BY <2>5, DoesSkip DEF eq
  <2>6. CASE t # << >> /\ t[1] \notin {"#", "["} /\ eq # 0
    <3> DEFINE k == Trim(Both, key)
               v == Trim(Both, value)
    <3>1. Trim(Space, key) = k /\ Trim(Space, value) = v
      BY <1>4, <2>6
    <3>2. CASE k = << >>
      <4>1. Does(Space, s, t) = s
        BY <2>6, <3>1, <3>2, DoesSkip DEF eq
      <4>2. Does(Both, s, t) = s
        BY <2>6, <3>2, DoesSkip DEF eq
      <4>. QED
        BY <4>1, <4>2
    <3>3. CASE k # << >>
      <4>1. Does(Space, s, t) = Keyed(s, Trim(Space, key), Trim(Space, value))
        BY <2>6, <3>1, <3>3, DoesKey DEF eq
      <4>2. Does(Both, s, t) = Keyed(s, Trim(Both, key), Trim(Both, value))
        BY <2>6, <3>3, DoesKey DEF eq
      <4>. QED
        BY <3>1, <4>1, <4>2
    <3>. QED
      BY <3>2, <3>3
  <2>. QED
    BY <2>1, <2>2, <2>3, <2>4, <2>5, <2>6
<1>. QED
  BY <1>2, <1>6

LEMMA SameLines ==
    ASSUME NEW X, "cr" \notin X, NEW n \in Nat \ {0}, NEW lines \in Seq(Short(X, n))
    PROVE  Processed(Space, lines) = Processed(Both, lines)
<1> DEFINE L == Short(X, n)
           T == {q \in Seq(L) : Processed(Space, q) = Processed(Both, q)}
<1>1. ProcessesOn(X, Space, n) /\ ProcessesOn(X, Both, n)
  BY ProcessedLaws
<1>2. << >> \in T
  BY <1>1 DEF ProcessesOn
<1>3. ASSUME NEW q \in Seq(L), NEW l \in L, q \in T PROVE Append(q, l) \in T
  <2>1. l \in Seq(X)
    BY DEF Short
  <2> DEFINE P(space) == Processed(space, q)
  <2>2. P(Space) = P(Both)
    BY <1>3
  <2>3. /\ Processed(Space, Append(q, l)) = IF P(Space).exit # 0 THEN P(Space) ELSE Process(Space, P(Space), l)
        /\ Processed(Both, Append(q, l)) = IF P(Both).exit # 0 THEN P(Both) ELSE Process(Both, P(Both), l)
    BY <1>1 DEF ProcessesOn
  <2> HIDE DEF P
  <2>4. Process(Space, P(Both), l) = Process(Both, P(Both), l)
    BY <2>1, SameLine
  <2>5. Processed(Space, Append(q, l)) = Processed(Both, Append(q, l))
    BY <2>2, <2>3, <2>4
  <2>6. Append(q, l) \in Seq(L)
    OBVIOUS
  <2>. QED
    BY <2>5, <2>6
<1> HIDE DEF T
<1>4. lines \in T
  BY <1>2, <1>3, SeqSetInduction
<1>. QED
  BY <1>4 DEF T

LEMMA SameCut ==
    ASSUME NEW X, NEW m \in Nat \ {0}, NEW n \in Nat \ {0}, NEW L, L \subseteq Seq(X),
           \A l \in L : Len(l) <= m /\ Len(l) <= n, NEW lines \in Seq(L)
    PROVE  Cut(m, lines) = Cut(n, lines)
<1> DEFINE T == {q \in Seq(L) : Cut(m, q) = Cut(n, q)}
<1>1. << >> \in T
  <2>1. Cut(m, << >>) = << >> /\ Cut(n, << >>) = << >>
    BY CutLaws
  <2>. QED
    BY <2>1
<1>2. ASSUME NEW q \in Seq(L), NEW l \in L, q \in T PROVE Append(q, l) \in T
  <2>1. q \in Seq(Seq(X)) /\ l \in Seq(X) /\ Append(q, l) \in Seq(L)
    OBVIOUS
  <2>2. Cut(m, Append(q, l)) = Cut(m, q) \o Chunks(l, m)
    BY <2>1, CutLaws
  <2>3. Cut(n, Append(q, l)) = Cut(n, q) \o Chunks(l, n)
    BY <2>1, CutLaws
  <2>4. Chunks(l, m) = Chunks(l, n)
    <3>1. Len(l) <= m /\ Len(l) <= n
      OBVIOUS
    <3>2. Chunks(l, m) = IF l = << >> THEN << >> ELSE <<l>>
      BY <2>1, <3>1, ShortChunks
    <3>3. Chunks(l, n) = IF l = << >> THEN << >> ELSE <<l>>
      BY <2>1, <3>1, ShortChunks
    <3>. QED
      BY <3>2, <3>3
  <2>5. Cut(m, q) = Cut(n, q)
    BY <1>2
  <2>. QED
    BY <2>1, <2>2, <2>3, <2>4, <2>5
<1> HIDE DEF T
<1>3. lines \in T
  BY <1>1, <1>2, SeqSetInduction
<1>. QED
  BY <1>3 DEF T

(* A line of n characters or more.                                         *)
LongLine(n, q) == \E i \in 1 .. Len(q) - n + 1 : \A j \in i .. i + n - 1 : q[j] # "nl"

LEMMA ShorterLines ==
    ASSUME NEW X, NEW n \in Nat \ {0}, NEW q \in Seq(X), NEW b \in X, LongLine(n, q)
    PROVE  LongLine(n, Append(q, b))
<1>1. PICK i \in 1 .. Len(q) - n + 1 : \A j \in i .. i + n - 1 : q[j] # "nl"
  BY DEF LongLine
<1>2. i \in 1 .. Len(q) /\ i \in 1 .. (Len(q) + 1) - n + 1 /\ \A j \in i .. i + n - 1 : j \in 1 .. Len(q)
  BY <1>1
<1>3. Len(Append(q, b)) = Len(q) + 1 /\ \A j \in 1 .. Len(q) : Append(q, b)[j] = q[j]
  OBVIOUS
<1>4. \A j \in i .. i + n - 1 : Append(q, b)[j] # "nl"
  BY <1>1, <1>2, <1>3
<1>. QED
  BY <1>2, <1>3, <1>4 DEF LongLine

(* What has been read of the last line holds no newline.                   *)
Behindhand(q, rest) ==
    Len(rest) <= Len(q) /\ \A j \in Len(q) - Len(rest) + 1 .. Len(q) : q[j] # "nl"

LEMMA LineGrows ==
    ASSUME NEW X, NEW n \in Nat \ {0}, NEW q \in Seq(X), NEW b \in X, b # "nl", NEW rest \in Seq(X),
           Behindhand(q, rest), Len(rest) < n, ~ LongLine(n, Append(q, b))
    PROVE  Behindhand(Append(q, b), Append(rest, b)) /\ Len(Append(rest, b)) < n
<1> DEFINE y == Append(q, b)
           r == Append(rest, b)
           l == Len(q)
           k == Len(rest)
<1>1. /\ Len(y) = l + 1 /\ y[l + 1] = b /\ l \in Nat /\ \A j \in 1 .. l : y[j] = q[j]
      /\ Len(r) = k + 1 /\ k \in Nat
  OBVIOUS
<1>2. k <= l /\ k < n /\ \A j \in l - k + 1 .. l : q[j] # "nl"
  BY DEF Behindhand
<1> HIDE DEF y, r, l, k
<1>3. \A j \in (l + 1) - (k + 1) + 1 .. l + 1 : y[j] # "nl"
  <2> SUFFICES ASSUME NEW j \in (l + 1) - (k + 1) + 1 .. l + 1 PROVE y[j] # "nl"
    OBVIOUS
  <2>1. CASE j = l + 1
    BY <1>1, <2>1
  <2>2. CASE j # l + 1
    <3>1. j \in l - k + 1 .. l /\ j \in 1 .. l
      BY <1>1, <1>2, <2>2
    <3>. QED
      BY <1>1, <1>2, <3>1
  <2>. QED
    BY <2>1, <2>2
<1>4. k + 1 < n
  <2> SUFFICES ASSUME ~ (k + 1 < n) PROVE FALSE
    OBVIOUS
  <2>1. k + 1 = n
    BY <1>1, <1>2
  <2> DEFINE i == l - k + 1
  <2>2. i \in 1 .. (l + 1) - n + 1 /\ i = (l + 1) - (k + 1) + 1 /\ i + n - 1 = l + 1
    BY <1>1, <1>2, <2>1
  <2>3. \A j \in i .. i + n - 1 : y[j] # "nl"
    BY <1>3, <2>2
  <2> HIDE DEF i
  <2>4. LongLine(n, y)
    BY <1>1, <2>2, <2>3 DEF LongLine
  <2>. QED
    BY <2>4 DEF y
<1>5. k + 1 <= l + 1
  BY <1>1, <1>2
<1>. QED
  BY <1>1, <1>3, <1>4, <1>5 DEF Behindhand, y, r

(* Without a line of n characters, all lines are shorter.                  *)
Newlines == {"nl"}

Lines(X, n, m) == {l \in Seq(X) : Len(l) < n /\ Len(l) <= m}

ShortLines(X, n, m, q) ==
    /\ Complete(Newlines, q) \in Seq(Lines(X, n, m)) /\ Rest(Newlines, q) \in Lines(X, n, m)
    /\ Behindhand(q, Rest(Newlines, q))

LEMMA AllLinesShort ==
    ASSUME NEW X, NEW n \in Nat \ {0}, NEW m \in Nat, NEW in \in Seq(X), Len(in) <= m, ~ LongLine(n, in)
    PROVE  ShortLines(X, n, m, in)
<1> DEFINE E == Newlines
           L == Lines(X, n, m)
           T == {q \in Seq(X) : Len(q) <= m /\ ~ LongLine(n, q) => ShortLines(X, n, m, q)}
<1>1. Piecewise(X, E)
  BY PieceLaws
<1>2. << >> \in L
  BY DEF Lines
<1>3. << >> \in T
  <2>1. Complete(E, << >>) = << >> /\ Rest(E, << >>) = << >>
    BY <1>1 DEF Piecewise
  <2>2. Behindhand(<< >>, << >>)
    BY DEF Behindhand
  <2>3. << >> \in Seq(L) /\ << >> \in Seq(X)
    OBVIOUS
  <2>. QED
    BY <1>2, <2>1, <2>2, <2>3 DEF ShortLines
<1>4. ASSUME NEW q \in Seq(X), NEW b \in X, q \in T PROVE Append(q, b) \in T
  <2> SUFFICES ASSUME Len(Append(q, b)) <= m, ~ LongLine(n, Append(q, b))
               PROVE  ShortLines(X, n, m, Append(q, b))
    OBVIOUS
  <2>1. Len(Append(q, b)) = Len(q) + 1 /\ Len(q) \in Nat
    OBVIOUS
  <2>2. Len(q) <= m /\ ~ LongLine(n, q)
    BY <2>1, ShorterLines
  <2>3. ShortLines(X, n, m, q)
    BY <1>4, <2>2
  <2> DEFINE v == Complete(E, q)
             r == Rest(E, q)
  <2>4. v \in Seq(L) /\ r \in L /\ Behindhand(q, r)
    BY <2>3 DEF ShortLines
  <2>5. /\ b \in E => /\ Complete(E, Append(q, b)) = Append(v, r)
                      /\ Rest(E, Append(q, b)) = << >>
        /\ b \notin E => /\ Complete(E, Append(q, b)) = v
                         /\ Rest(E, Append(q, b)) = Append(r, b)
    BY <1>1 DEF Piecewise
  <2> HIDE DEF v, r
  <2>6. CASE b \in E
    <3>1. Append(v, r) \in Seq(L)
      <4> HIDE DEF L
      <4>. QED
        BY <2>4
    <3>2. Behindhand(Append(q, b), << >>)
      BY <2>1 DEF Behindhand
    <3>. QED
      BY <1>2, <2>5, <2>6, <3>1, <3>2 DEF ShortLines
  <2>7. CASE b \notin E
    <3>1. r \in Seq(X) /\ Len(r) < n
      BY <2>4 DEF Lines
    <3>2. b # "nl"
      BY <2>7 DEF Newlines
    <3>3. Behindhand(Append(q, b), Append(r, b)) /\ Len(Append(r, b)) < n
      BY <2>4, <3>1, <3>2, LineGrows
    <3>4. Append(r, b) \in Seq(X) /\ Len(Append(r, b)) <= Len(Append(q, b)) /\ Len(Append(r, b)) \in Nat
      BY <3>1, <3>3 DEF Behindhand
    <3>5. Append(r, b) \in L
      BY <2>1, <3>3, <3>4 DEF Lines
    <3>. QED
      BY <2>4, <2>5, <2>7, <3>3, <3>5 DEF ShortLines
  <2>. QED
    BY <2>6, <2>7
<1> HIDE DEF T
<1>5. in \in T
  BY <1>3, <1>4, SeqSetInduction
<1>. QED
  BY <1>5 DEF T

(* Lines that fit and hold no "\r" are the same to both.                   *)
LEMMA KvWeakOnly ==
    ASSUME NEW X, NEW max_line \in Nat \ {0, 1}, NEW in \in Seq(X),
           KvWeak(in) # KvNormalize(max_line, in)
    PROVE  (\E i \in 1 .. Len(in) : in[i] = "cr") \/ LongLine(max_line, in)
<1> SUFFICES ASSUME ~ \E i \in 1 .. Len(in) : in[i] = "cr", ~ LongLine(max_line, in)
             PROVE  FALSE
  OBVIOUS
<1> DEFINE Y == X \ {"cr"}
           n == max_line - 1
           m == Len(in) + 1
           L == Lines(Y, max_line, m)
           v == Complete(Newlines, in)
           r == Rest(Newlines, in)
           lines == Append(v, r)
<1>1. in \in Seq(Y) /\ "cr" \notin Y
  OBVIOUS
<1>2. n \in Nat \ {0} /\ m \in Nat \ {0} /\ m \in Nat /\ Len(in) <= m /\ max_line \in Nat \ {0} /\ n + 1 = max_line
  OBVIOUS
<1> HIDE DEF Y, n, m
<1>3. v \in Seq(L) /\ r \in L
  <2>1. ShortLines(Y, max_line, m, in)
    BY <1>1, <1>2, AllLinesShort
  <2>. QED
    BY <2>1 DEF ShortLines
<1> HIDE DEF v, r
<1>4. lines \in Seq(L)
  <2> HIDE DEF L
  <2>. QED
    BY <1>3
<1> HIDE DEF lines
<1>5. L \subseteq Seq(Y) /\ \A l \in L : Len(l) <= m /\ Len(l) <= n
  BY <1>2 DEF Lines
<1> HIDE DEF L
<1>6. Cut(m, lines) = Cut(n, lines)
  BY <1>2, <1>4, <1>5, SameCut
<1>7. lines \in Seq(Seq(Y))
  BY <1>4, <1>5
<1>8. Cut(n, lines) \in Seq(Short(Y, n))
  BY <1>2, <1>7, CutLaws
<1>9. Processed(Space, Cut(m, lines)) = Processed(Both, Cut(n, lines))
  BY <1>1, <1>2, <1>6, <1>8, SameLines
<1>10. ProcessesLines(Y, Space, m, in) /\ ProcessesLines(Y, Both, n, in)
  BY <1>1, <1>2, KvProcesses
<1>11. Kv(Space, m, in) = Kv(Both, n, in)
  BY <1>9, <1>10 DEF ProcessesLines, lines, v, r, Newlines
<1>. QED
  BY <1>11 DEF KvWeak, KvNormalize, Space, Both, m, n

-----------------------------------------------------------------------------
(* The weak leb128_decode.                                                 *)

(* A number with as many parts as the word needs, but too big for it.      *)
TrapNumber(bits, number) ==
    Payload * (Len(number) - 1) < bits /\ LebSum(number) >= Pow2[bits]

TrapComplete(bits, numbers) == \E k \in 1 .. Len(numbers) : TrapNumber(bits, numbers[k])

LEMMA TrapsStay ==
    ASSUME NEW bits, NEW numbers \in Seq(Seq(Nat)), NEW r \in Seq(Nat),
           TrapComplete(bits, numbers) \/ TrapNumber(bits, r)
    PROVE  TrapComplete(bits, Append(numbers, r))
<1>1. /\ Len(Append(numbers, r)) = Len(numbers) + 1 /\ Append(numbers, r)[Len(numbers) + 1] = r
      /\ Len(numbers) \in Nat /\ \A k \in 1 .. Len(numbers) : Append(numbers, r)[k] = numbers[k]
  OBVIOUS
<1>2. CASE TrapComplete(bits, numbers)
  <2>1. PICK k \in 1 .. Len(numbers) : TrapNumber(bits, numbers[k])
    BY <1>2 DEF TrapComplete
  <2>2. k \in 1 .. Len(Append(numbers, r)) /\ Append(numbers, r)[k] = numbers[k]
    BY <1>1
  <2>. QED
    BY <2>1, <2>2 DEF TrapComplete
<1>3. CASE TrapNumber(bits, r)
  <2>1. Len(numbers) + 1 \in 1 .. Len(Append(numbers, r))
    BY <1>1
  <2>. QED
    BY <1>1, <1>3, <2>1 DEF TrapComplete
<1>. QED
  BY <1>2, <1>3

(* Where both decoders are: at the same place, or done with the same       *)
(* outcome, or the weak one is yet to stop at the next byte.               *)
Together(bits, s, t, r) == s = t /\ s.exit = 0 /\ s.shift = Payload * Len(r)

BothDone(s, t) == s.exit = 1 /\ t.exit = 1 /\ s.out = t.out

Trailing(bits, s, t, r) ==
    /\ s.exit = 1 /\ t.exit = 0 /\ s.out = Append(t.out, Err)
    /\ t.shift >= bits /\ TrapNumber(bits, r)

SameNumbers(bits, s, t, r) == Together(bits, s, t, r) \/ BothDone(s, t) \/ Trailing(bits, s, t, r)

Both128(bits, s, t) == bits \in Nat /\ s \in LebStates /\ t \in LebStates

LEMMA BothStep ==
    ASSUME NEW bits, NEW s, NEW t, Both128(bits, s, t), NEW b \in Nat
    PROVE  /\ LebSteps(bits, TRUE, s, b) /\ LebSteps(bits, FALSE, t, b)
           /\ s.shift \in Nat /\ s.out \in Seq(Int) /\ t.out \in Seq(Int)
<1>1. bits \in Nat /\ s \in LebStates /\ t \in LebStates
  BY DEF Both128
<1>2. LebSteps(bits, TRUE, s, b) /\ LebSteps(bits, FALSE, t, b)
  BY <1>1, LebStepCases
<1>. QED
  BY <1>1, <1>2 DEF LebStates

(* The three ways to change a state.                                       *)
Erred(s) == [out |-> Append(s.out, Err), value |-> s.value, shift |-> s.shift, exit |-> 1]
Ended(s, value) == [out |-> Append(s.out, value), value |-> 0, shift |-> 0, exit |-> s.exit]
Going128(s, value) == [out |-> s.out, value |-> value, shift |-> s.shift + Payload, exit |-> s.exit]

LEMMA LebChanges ==
    ASSUME NEW s \in LebStates, NEW value, NEW t
    PROVE  /\ t = [s EXCEPT !.out = Append(s.out, Err), !.exit = 1] => t = Erred(s)
           /\ t = [s EXCEPT !.out = Append(s.out, value), !.value = 0, !.shift = 0] => t = Ended(s, value)
           /\ t = [s EXCEPT !.value = value, !.shift = s.shift + Payload] => t = Going128(s, value)
<1>1. ASSUME t = [s EXCEPT !.out = Append(s.out, Err), !.exit = 1]
      PROVE  t = [out |-> Append(s.out, Err), value |-> s.value, shift |-> s.shift, exit |-> 1]
  BY <1>1 DEF LebStates
<1>2. ASSUME t = [s EXCEPT !.out = Append(s.out, value), !.value = 0, !.shift = 0]
      PROVE  t = [out |-> Append(s.out, value), value |-> 0, shift |-> 0, exit |-> s.exit]
  BY <1>2 DEF LebStates
<1>3. ASSUME t = [s EXCEPT !.value = value, !.shift = s.shift + Payload]
      PROVE  t = [out |-> s.out, value |-> value, shift |-> s.shift + Payload, exit |-> s.exit]
  BY <1>3 DEF LebStates
<1>. QED
  BY <1>1, <1>2, <1>3 DEF Erred, Ended, Going128

(* Apart from a number that is too big, they agree after another byte.     *)
Next128(bits, s, t, r, b) ==
    LET u == LebStep(bits, TRUE, s, b)
        w == LebStep(bits, FALSE, t, b)
    IN  IF b < Pow2[Payload]
        THEN SameNumbers(bits, u, w, << >>) \/ TrapNumber(bits, Append(r, b))
        ELSE SameNumbers(bits, u, w, Append(r, b))

LEMMA DoneStays ==
    ASSUME NEW bits, NEW s, NEW t, Both128(bits, s, t), NEW b \in Nat, NEW r, BothDone(s, t)
    PROVE  Next128(bits, s, t, r, b)
<1>0. LebSteps(bits, TRUE, s, b) /\ LebSteps(bits, FALSE, t, b)
  BY BothStep
<1>1. s.exit # 0 /\ t.exit # 0
  BY DEF BothDone
<1>2. s.exit # 0 => LebStep(bits, TRUE, s, b) = s
  BY <1>0, Zenon DEF LebSteps
<1>3. t.exit # 0 => LebStep(bits, FALSE, t, b) = t
  BY <1>0, Zenon DEF LebSteps
<1>. QED
  BY <1>1, <1>2, <1>3 DEF Next128, SameNumbers

LEMMA TrailingStops ==
    ASSUME NEW bits, NEW s, NEW t, Both128(bits, s, t), NEW b \in Nat, NEW r, Trailing(bits, s, t, r)
    PROVE  Next128(bits, s, t, r, b)
<1> DEFINE u == LebStep(bits, TRUE, s, b)
           w == LebStep(bits, FALSE, t, b)
<1>1. s.exit = 1 /\ t.exit = 0 /\ s.out = Append(t.out, Err) /\ t.shift >= bits
  BY DEF Trailing
<1>0. LebSteps(bits, TRUE, s, b) /\ LebSteps(bits, FALSE, t, b)
  BY BothStep
<1>2. u = s
  <2>1. s.exit # 0 => u = s
    BY <1>0, Zenon DEF LebSteps
  <2>2. s.exit # 0
    BY <1>1
  <2>. QED
    BY <2>1, <2>2, Zenon
<1>3. w = [t EXCEPT !.out = Append(t.out, Err), !.exit = 1]
  BY <1>0, <1>1 DEF LebSteps, TooBig
<1>4. w.out = Append(t.out, Err) /\ w.exit = 1
  BY <1>3 DEF Both128, LebStates
<1> HIDE DEF u, w
<1>5. BothDone(u, w)
  BY <1>1, <1>2, <1>4 DEF BothDone
<1>. QED
  BY <1>5 DEF Next128, SameNumbers, u, w

LEMMA TogetherGoes ==
    ASSUME NEW bits, NEW s, NEW t, Both128(bits, s, t), NEW b \in Nat, NEW r \in Seq(Nat),
           Together(bits, s, t, r)
    PROVE  Next128(bits, s, t, r, b)
<1> DEFINE u == LebStep(bits, TRUE, s, b)
           w == LebStep(bits, FALSE, t, b)
           p == Append(r, b)
           value == s.value + Part(b) * Pow2[s.shift]
           strict == TooBig(bits, TRUE, s.shift, b)
           weak == TooBig(bits, FALSE, s.shift, b)
<1>1. t = s /\ s.exit = 0 /\ s.shift = Payload * Len(r) /\ bits \in Nat /\ s \in LebStates /\ s.shift \in Nat
      /\ s.out \in Seq(Int)
  BY BothStep DEF Together, Both128
<1>2. /\ LebSteps(bits, TRUE, s, b) /\ LebSteps(bits, FALSE, s, b)
  BY <1>1, BothStep
<1> DEFINE erred == Erred(s)
           ended == Ended(s, value)
           going == Going128(s, value)
<1>5. /\ strict => u = erred
      /\ ~ strict /\ b < Pow2[Payload] => u = ended
      /\ ~ strict /\ ~ b < Pow2[Payload] => u = going
      /\ weak => w = erred
      /\ ~ weak /\ b < Pow2[Payload] => w = ended
      /\ ~ weak /\ ~ b < Pow2[Payload] => w = going
  <2> DEFINE x == [s EXCEPT !.out = Append(s.out, Err), !.exit = 1]
             y == [s EXCEPT !.out = Append(s.out, value), !.value = 0, !.shift = 0]
             z == [s EXCEPT !.value = value, !.shift = s.shift + Payload]
  <2>1. /\ strict => u = x
        /\ ~ strict /\ b < Pow2[Payload] => u = y
        /\ ~ strict /\ ~ b < Pow2[Payload] => u = z
    BY <1>1, <1>2, Zenon DEF LebSteps
  <2>2. /\ weak => w = x
        /\ ~ weak /\ b < Pow2[Payload] => w = y
        /\ ~ weak /\ ~ b < Pow2[Payload] => w = z
    BY <1>1, <1>2, Zenon DEF LebSteps
  <2>3. /\ u = x => u = erred
        /\ u = y => u = ended
        /\ u = z => u = going
    BY <1>1, LebChanges
  <2>4. /\ w = x => w = erred
        /\ w = y => w = ended
        /\ w = z => w = going
    BY <1>1, LebChanges
  <2> HIDE DEF x, y, z, u, w, strict, weak, erred, ended, going, value
  <2>. QED
    BY <2>1, <2>2, <2>3, <2>4
<1>6. weak <=> s.shift >= bits
  BY DEF TooBig
<1>7. strict <=> s.shift >= bits \/ (s.shift + Payload > bits /\ Part(b) \div Pow2[bits - s.shift] # 0)
  BY DEF TooBig
<1>8. p \in Seq(Nat) /\ Len(p) = Len(r) + 1 /\ Len(r) \in Nat
  OBVIOUS
<1>9. Payload * (Len(p) - 1) = s.shift /\ Payload * Len(p) = s.shift + Payload
      /\ Payload * Len(<< >>) = 0 /\ Payload \in Nat
  BY <1>1, <1>8, BitsAssumption
<1>11. erred.exit = 1 /\ erred.out = Append(s.out, Err) /\ ended.exit = 0 /\ ended.shift = 0
       /\ going.exit = 0 /\ going.shift = s.shift + Payload /\ going.out = s.out
  BY <1>1 DEF Erred, Ended, Going128
<1> SUFFICES IF b < Pow2[Payload]
             THEN SameNumbers(bits, u, w, << >>) \/ TrapNumber(bits, p)
             ELSE SameNumbers(bits, u, w, p)
  BY DEF Next128
<1> HIDE DEF u, w, p, value, erred, ended, going, strict, weak
<1>10. ASSUME strict, ~ weak PROVE TrapNumber(bits, p)
  <2>1. Overflows(bits, Payload * Len(r), b)
    BY <1>1, <1>7, <1>10 DEF Overflows
  <2>2. ~ LebFits(bits, p)
    BY <1>1, <2>1, OverflowIsSeen DEF p
  <2>3. s.shift < bits
    BY <1>1, <1>6, <1>10
  <2>4. LebSum(p) \in Nat /\ Pow2[bits] \in Nat
    BY <1>1, <1>8, SumsOfParts, Pow2Facts
  <2>5. ~ (LebSum(p) < Pow2[bits])
    BY <1>9, <2>2, <2>3 DEF LebFits
  <2>6. LebSum(p) >= Pow2[bits]
    BY <2>4, <2>5
  <2>. QED
    BY <1>9, <2>3, <2>6 DEF TrapNumber
<1>12. CASE weak
  <2>1. strict
    BY <1>6, <1>7, <1>12
  <2>2. BothDone(u, w)
    BY <1>5, <1>11, <1>12, <2>1 DEF BothDone
  <2>. QED
    BY <2>2 DEF SameNumbers
<1>13. CASE ~ strict
  <2>1. ~ weak
    BY <1>6, <1>7, <1>13
  <2>2. CASE b < Pow2[Payload]
    <3>1. u = ended /\ w = ended
      BY <1>5, <1>13, <2>1, <2>2
    <3>2. Together(bits, u, w, << >>)
      BY <1>9, <1>11, <3>1 DEF Together
    <3>. QED
      BY <2>2, <3>2 DEF SameNumbers
  <2>3. CASE ~ b < Pow2[Payload]
    <3>1. u = going /\ w = going
      BY <1>5, <1>13, <2>1, <2>3
    <3>2. Together(bits, u, w, p)
      BY <1>9, <1>11, <3>1 DEF Together
    <3>. QED
      BY <2>3, <3>2 DEF SameNumbers
  <2>. QED
    BY <2>2, <2>3
<1>14. CASE strict /\ ~ weak
  <2>1. TrapNumber(bits, p)
    BY <1>10, <1>14
  <2>2. CASE b < Pow2[Payload]
    BY <2>1, <2>2
  <2>3. CASE ~ b < Pow2[Payload]
    <3>1. u = erred /\ w = going
      BY <1>5, <1>14, <2>3
    <3>2. s.shift + Payload >= bits
      BY <1>1, <1>6, <1>7, <1>9, <1>14
    <3>3. Trailing(bits, u, w, p)
      BY <1>11, <2>1, <3>1, <3>2 DEF Trailing
    <3>. QED
      BY <2>3, <3>3 DEF SameNumbers
  <2>. QED
    BY <2>2, <2>3
<1>. QED
  BY <1>12, <1>13, <1>14

(* They agree up to a complete number that is too big.                     *)
AgreeAfter(bits, q) ==
    \/ SameNumbers(bits, LebRead(bits, TRUE, q), LebRead(bits, FALSE, q), Rest(Final, q))
    \/ TrapComplete(bits, LebNumbers(q))

LEMMA AgreeByteByByte ==
    ASSUME NEW bits \in Nat, NEW in \in Seq(Nat)
    PROVE  AgreeAfter(bits, in)
<1> DEFINE T == {q \in Seq(Nat) : AgreeAfter(bits, q)}
<1>1. << >> \in T
  <2> DEFINE start == [out |-> << >>, value |-> 0, shift |-> 0, exit |-> 0]
  <2>1. LebRead(bits, TRUE, << >>) = start /\ LebRead(bits, FALSE, << >>) = start /\ Rest(Final, << >>) = << >>
    BY LebReadLaws, NumberLaws
  <2>2. start.exit = 0 /\ start.shift = 0 /\ Payload * Len(<< >>) = 0 /\ << >> \in Seq(Nat)
    BY BitsAssumption
  <2> HIDE DEF start
  <2>3. Together(bits, start, start, << >>)
    BY <2>2 DEF Together
  <2>. QED
    BY <2>1, <2>2, <2>3 DEF AgreeAfter, SameNumbers
<1>2. ASSUME NEW q \in Seq(Nat), NEW b \in Nat, q \in T PROVE Append(q, b) \in T
  <2> DEFINE s == LebRead(bits, TRUE, q)
             t == LebRead(bits, FALSE, q)
             r == Rest(Final, q)
             v == LebNumbers(q)
             u == LebStep(bits, TRUE, s, b)
             w == LebStep(bits, FALSE, t, b)
  <2>1. s \in LebStates /\ t \in LebStates /\ v \in Seq(Seq(Nat)) /\ r \in Seq(Nat)
    BY LebReadLaws, NumberLaws
  <2>2. LebRead(bits, TRUE, Append(q, b)) = u /\ LebRead(bits, FALSE, Append(q, b)) = w
    BY LebReadLaws
  <2>3. /\ b < Pow2[Payload] => /\ LebNumbers(Append(q, b)) = Append(v, Append(r, b))
                                /\ Rest(Final, Append(q, b)) = << >>
        /\ b >= Pow2[Payload] => /\ LebNumbers(Append(q, b)) = v
                                 /\ Rest(Final, Append(q, b)) = Append(r, b)
    BY NumberLaws
  <2>4. ~ b < Pow2[Payload] => b >= Pow2[Payload]
    <3>1. Pow2[Payload] \in Nat
      BY PartType
    <3>. QED
      BY <3>1
  <2>5. SameNumbers(bits, s, t, r) \/ TrapComplete(bits, v)
    BY <1>2 DEF AgreeAfter
  <2>6. Append(q, b) \in Seq(Nat) /\ Append(r, b) \in Seq(Nat)
    BY <2>1
  <2> HIDE DEF s, t, r, v
  <2>7. Both128(bits, s, t)
    BY <2>1 DEF Both128
  <2>8. CASE TrapComplete(bits, v)
    <3>1. TrapComplete(bits, Append(v, Append(r, b)))
      BY <2>1, <2>6, <2>8, TrapsStay
    <3>. QED
      BY <2>3, <2>4, <2>6, <2>8, <3>1 DEF AgreeAfter
  <2>9. CASE SameNumbers(bits, s, t, r)
    <3>1. Next128(bits, s, t, r, b)
      BY <2>1, <2>7, <2>9, DoneStays, TrailingStops, TogetherGoes DEF SameNumbers
    <3>2. CASE b < Pow2[Payload]
      <4>1. SameNumbers(bits, u, w, << >>) \/ TrapNumber(bits, Append(r, b))
        BY <3>1, <3>2 DEF Next128
      <4>2. TrapNumber(bits, Append(r, b)) => TrapComplete(bits, Append(v, Append(r, b)))
        BY <2>1, <2>6, TrapsStay
      <4>. QED
        BY <2>2, <2>3, <2>6, <3>2, <4>1, <4>2 DEF AgreeAfter
    <3>3. CASE ~ b < Pow2[Payload]
      <4>1. SameNumbers(bits, u, w, Append(r, b))
        BY <3>1, <3>3 DEF Next128
      <4>. QED
        BY <2>2, <2>3, <2>4, <2>6, <3>3, <4>1 DEF AgreeAfter
    <3>. QED
      BY <3>2, <3>3
  <2>. QED
    BY <2>5, <2>8, <2>9
<1> HIDE DEF T
<1>3. in \in T
  BY <1>1, <1>2, SeqSetInduction
<1>. QED
  BY <1>3 DEF T

(* Only a number that is too big for the word is decoded differently.      *)
LEMMA LebWeakOnly ==
    ASSUME NEW bits \in Nat, NEW in \in Seq(Nat), Leb128Weak(bits, in) # Leb128Decode(bits, in)
    PROVE  \E number \in Range(LebNumbers(in)) \union {Rest(Final, in)} : TrapNumber(bits, number)
<1> DEFINE s == LebRead(bits, TRUE, in)
           t == LebRead(bits, FALSE, in)
           r == Rest(Final, in)
           v == LebNumbers(in)
           Printed(e) == IF e.exit = 0 /\ e.shift # 0
                         THEN [out |-> Append(e.out, Trunc), exit |-> 2]
                         ELSE [out |-> e.out, exit |-> e.exit]
<1>1. SameNumbers(bits, s, t, r) \/ TrapComplete(bits, v)
  BY AgreeByteByByte DEF AgreeAfter
<1>2. Leb128Decode(bits, in) = Printed(s) /\ Leb128Weak(bits, in) = Printed(t)
  BY DEF Leb128Decode, Leb128Weak, Leb
<1> HIDE DEF s, t, r, v
<1>3. ~ Together(bits, s, t, r)
  BY <1>2 DEF Together
<1>4. ~ BothDone(s, t)
  BY <1>2 DEF BothDone
<1>5. TrapNumber(bits, r) \/ TrapComplete(bits, v)
  BY <1>1, <1>3, <1>4 DEF SameNumbers, Trailing
<1>6. TrapComplete(bits, v) => \E number \in Range(v) : TrapNumber(bits, number)
  <2>1. v \in Seq(Seq(Nat))
    BY NumberLaws DEF v
  <2>2. DOMAIN v = 1 .. Len(v)
    BY <2>1
  <2>. QED
    BY <2>2 DEF TrapComplete, Range
<1>. QED
  BY <1>5, <1>6 DEF r, v

-----------------------------------------------------------------------------
(* The weak reverse_bytes.                                                 *)

(* Pieces of single elements are single elements of the pieces.            *)
LEMMA SinglesMirrored ==
    ASSUME NEW X, NEW csz \in Nat \ {0}, NEW in \in Seq(X)
    PROVE  /\ ReverseReference(csz, Singles(in)) = Singles(ReverseReference(csz, in))
           /\ ReverseReference(csz, in) \in Seq(X)
<1> DEFINE R(q) == ReverseReference(csz, q)
           T == {q \in Seq(X) : R(Singles(q)) = Singles(R(q)) /\ R(q) \in Seq(X)}
           e == << >>
<1>1. /\ e \in Seq(X) /\ Chunks(e, csz) = e /\ Singles(e) = e
      /\ FlattenSeq(Mapped(Reverse, e)) = e
  <2>1. e \in Seq(X) /\ Singles(e) = e
    BY DEF Singles
  <2>2. Chunks(<< >>, csz) = << >>
    BY ChunkLaws
  <2>3. FlattenSeq(Mapped(Reverse, << >>)) = << >>
    BY MirrorLaws
  <2>. QED
    BY <2>1, <2>2, <2>3
<1> HIDE DEF e
<1>2. e \in T
  BY <1>1 DEF ReverseReference
<1>3. ASSUME NEW p \in Seq(X), NEW g \in Seq(X), NEW a \in Nat, p \in T, Len(p) = csz * a, Len(g) \in 1 .. csz
      PROVE  p \o g \in T
  <2> DEFINE u == Singles(p)
             v == Singles(g)
             S == Seq(X)
             r == Reverse(g)
  <2>1. /\ u \in Seq(S) /\ Len(u) = Len(p) /\ v \in Seq(S) /\ Len(v) = Len(g)
    BY SinglesAre
  <2>2. Singles(p \o g) = u \o v /\ p \o g \in Seq(X)
    BY SinglesJoined
  <2>3. AnotherChunk(X, csz, p, a, g)
    BY <1>3 DEF AnotherChunk
  <2>4. AnotherChunk(S, csz, u, a, v)
    <3> HIDE DEF u, v, S
    <3>. QED
      BY <1>3, <2>1 DEF AnotherChunk
  <2>5. R(p \o g) = R(p) \o r
    <3>1. Chunks(p \o g, csz) = Append(Chunks(p, csz), g)
      BY <2>3, OneMoreChunk
    <3>2. Chunks(p, csz) \in Seq(Seq(X))
      BY AllChunks
    <3>3. FlattenSeq(Mapped(Reverse, Append(Chunks(p, csz), g)))
             = FlattenSeq(Mapped(Reverse, Chunks(p, csz))) \o Reverse(g)
      BY <3>2, MirrorLaws
    <3>. QED
      BY <3>1, <3>3 DEF ReverseReference
  <2>6. R(u \o v) = R(u) \o Reverse(v)
    <3>1. Chunks(u \o v, csz) = Append(Chunks(u, csz), v)
      <4> HIDE DEF u, v, S
      <4>. QED
        BY <2>4, OneMoreChunk
    <3>2. Chunks(u, csz) \in Seq(Seq(S))
      <4> HIDE DEF u, v, S
      <4>. QED
        BY <2>1, AllChunks
    <3>3. FlattenSeq(Mapped(Reverse, Append(Chunks(u, csz), v)))
             = FlattenSeq(Mapped(Reverse, Chunks(u, csz))) \o Reverse(v)
      <4> HIDE DEF u, v, S
      <4>. QED
        BY <3>2, <2>1, MirrorLaws
    <3>. QED
      BY <3>1, <3>3 DEF ReverseReference
  <2>7. Reverse(v) = Singles(r) /\ r \in Seq(X)
    BY SinglesReversed, ReverseType
  <2>8. R(u) = Singles(R(p)) /\ R(p) \in Seq(X)
    BY <1>3
  <2> HIDE DEF u, v, r, R, S
  <2>9. Singles(R(p) \o r) = Singles(R(p)) \o Singles(r) /\ R(p) \o r \in Seq(X)
    <3> DEFINE k == R(p)
    <3>1. k \in Seq(X) /\ r \in Seq(X)
      BY <2>7, <2>8
    <3> HIDE DEF k
    <3>2. Singles(k \o r) = Singles(k) \o Singles(r)
      BY <3>1, SinglesJoined
    <3>3. k \o r \in Seq(X)
      BY <3>1
    <3>. QED
      BY <3>2, <3>3 DEF k
  <2>. QED
    BY <2>2, <2>5, <2>6, <2>7, <2>8, <2>9
<1> HIDE DEF T
<1>4. in \in T
  <2>1. Seq(X) \subseteq T
    BY <1>2, <1>3, ChunkInduction DEF e
  <2>. QED
    BY <2>1
<1>. QED
  BY <1>4 DEF T

(* Nothing is lost that is not there.                                      *)
LEMMA NothingDropped ==
    ASSUME NEW X, NEW in \in Seq(X), NEW b, \A i \in 1 .. Len(in) : in[i] # b
    PROVE  Without(in, b) = in
<1>1. DOMAIN in = 1 .. Len(in)
  OBVIOUS
<1>2. Without(in, b) = FlattenSeq(Singles(in))
  BY <1>1 DEF Without, Singles
<1>. QED
  BY <1>2, SinglesFlat

(* A text without characters of two bytes is its bytes.                    *)
LEMMA TextOfBytes ==
    ASSUME NEW X, NEW in \in Seq(X), IsText(in), \A i \in 1 .. Len(in) : in[i] # "lead"
    PROVE  Chars(in) = Singles(in)
<1>1. DOMAIN in = 1 .. Len(in) /\ \A i \in 1 .. Len(in) : i > 1 => i - 1 \in 1 .. Len(in)
  OBVIOUS
<1>2. \A i \in 1 .. Len(in) : in[i] # "tail"
  BY <1>1 DEF IsText
<1>3. Without(in, "tail") = in
  BY <1>2, NothingDropped
<1>. QED
  BY <1>1, <1>3 DEF Chars, Mapped, Singles

(* Text is reversed by characters; in other input NULs are lost.           *)
LEMMA ReverseWeakOnly ==
    ASSUME NEW X, NEW csz \in Nat \ {0}, NEW in \in Seq(X), ReverseWeak(csz, in) # ReverseBytes(csz, in)
    PROVE  IF IsText(in) THEN \E i \in 1 .. Len(in) : in[i] = "lead"
                         ELSE \E i \in 1 .. Len(in) : in[i] = "nul"
<1>1. ReverseBytes(csz, in) = ReverseReference(csz, in)
  BY ReverseMirrorsChunks
<1>2. ASSUME IsText(in), \A i \in 1 .. Len(in) : in[i] # "lead" PROVE FALSE
  <2>1. Chars(in) = Singles(in)
    BY <1>2, TextOfBytes
  <2>2. /\ ReverseReference(csz, Singles(in)) = Singles(ReverseReference(csz, in))
        /\ ReverseReference(csz, in) \in Seq(X)
    BY SinglesMirrored
  <2>3. FlattenSeq(Singles(ReverseReference(csz, in))) = ReverseReference(csz, in)
    BY <2>2, SinglesFlat
  <2>. QED
    BY <1>1, <1>2, <2>1, <2>2, <2>3 DEF ReverseWeak
<1>3. ASSUME ~IsText(in), \A i \in 1 .. Len(in) : in[i] # "nul" PROVE FALSE
  <2>1. Without(in, "nul") = in
    BY <1>3, NothingDropped
  <2>. QED
    BY <1>1, <1>3, <2>1 DEF ReverseWeak
<1>. QED
  BY <1>2, <1>3

-----------------------------------------------------------------------------
(* The weak translations of the pool.                                      *)

(* A weak translation is wrong by the bug it was given (kv_normalize: by   *)
(* one of its two) and by no other, whatever the sizes of the round are.   *)
THEOREM WeakOnesHaveOneBug ==
    /\ \A csz \in ChunkSizes, in \in Samples.reverse_bytes :
          ReverseWeak(csz, in) # ReverseBytes(csz, in)
             => IF IsText(in) THEN Contains(in, "lead") ELSE Contains(in, "nul")
    /\ \A max_run \in MaxRuns, in \in Samples.rle_encode :
          RleWeak(in) # RleEncode(max_run, in) => LongRun(max_run, in)
    /\ \A in \in Samples.fnv1a_lines : FnvWeak(in) # FnvLines(in) => in[Len(in)] # Newline
    /\ \A poly \in Polys, in \in Samples.crc32 :
          CrcWeak(poly, in) # Crc32(poly, in) => Len(in) > BufSize
    /\ \A wrap \in WrapColumns, in \in Samples.base64_encode :
          Base64Weak(wrap, in) # Base64Encode(wrap, in) => (4 * Len(Chunks(in, 3))) % wrap = 0
    /\ \A max_line \in MaxLines, in \in Samples.kv_normalize :
          KvWeak(in) # KvNormalize(max_line, in) => Contains(in, "cr") \/ LongLine(max_line, in)
    /\ \A bits \in MaxBits, in \in Samples.leb128_decode :
          Leb128Weak(bits, in) # Leb128Decode(bits, in)
             => \E number \in Range(LebNumbers(in)) \union {Rest(Final, in)} : TrapNumber(bits, number)
    /\ \A points \in MaxPoints, in \in Samples.utf8_validate :
          Utf8Weak(points, in) # Utf8Validate(points, in)
             => \E i \in 1 .. Len(in) - 1 : in[i] = 237 /\ in[i + 1] \in 160 .. 191
<1>1. ASSUME NEW csz \in ChunkSizes, NEW in \in Samples.reverse_bytes,
             ReverseWeak(csz, in) # ReverseBytes(csz, in)
      PROVE  IF IsText(in) THEN Contains(in, "lead") ELSE Contains(in, "nul")
  <2>1. csz \in Nat \ {0}
    BY SizesAssumption
  <2>2. in \in Seq(Range(in))
    BY SamplesGiven
  <2>3. IF IsText(in) THEN \E i \in 1 .. Len(in) : in[i] = "lead"
                      ELSE \E i \in 1 .. Len(in) : in[i] = "nul"
    BY <1>1, <2>1, <2>2, ReverseWeakOnly
  <2>. QED
    BY <2>3 DEF Contains
<1>2. ASSUME NEW max_run \in MaxRuns, NEW in \in Samples.rle_encode, RleWeak(in) # RleEncode(max_run, in)
      PROVE  LongRun(max_run, in)
  <2>1. max_run \in Nat \ {0}
    BY RunLengthsGiven DEF RunLengths
  <2>2. in \in Seq(Bytes)
    BY SamplesGiven
  <2>. QED
    BY <1>2, <2>1, <2>2, RleWeakOnly
<1>3. ASSUME NEW in \in Samples.fnv1a_lines, FnvWeak(in) # FnvLines(in) PROVE in[Len(in)] # Newline
  <2>1. in \in Seq(Bytes)
    BY SamplesGiven
  <2>. QED
    BY <1>3, <2>1, FnvWeakOnly
<1>4. ASSUME NEW poly \in Polys, NEW in \in Samples.crc32, CrcWeak(poly, in) # Crc32(poly, in)
      PROVE  Len(in) > BufSize
  <2>1. in \in Seq(Bytes)
    BY SamplesGiven
  <2>2. BufSize \in Nat
    BY SizesAssumption
  <2>. QED
    BY <1>4, <2>1, <2>2, CrcWeakOnly
<1>5. ASSUME NEW wrap \in WrapColumns, NEW in \in Samples.base64_encode,
             Base64Weak(wrap, in) # Base64Encode(wrap, in)
      PROVE  (4 * Len(Chunks(in, 3))) % wrap = 0
  <2>1. wrap \in Nat \ {0}
    BY SizesAssumption
  <2>2. in \in Seq(Octets)
    BY SamplesGiven
  <2>. QED
    BY <1>5, <2>1, <2>2, Base64WeakOnly
<1>6. ASSUME NEW max_line \in MaxLines, NEW in \in Samples.kv_normalize,
             KvWeak(in) # KvNormalize(max_line, in)
      PROVE  Contains(in, "cr") \/ LongLine(max_line, in)
  <2>1. max_line \in Nat \ {0, 1}
    BY SizesAssumption
  <2>2. in \in Seq(Range(in))
    BY SamplesGiven
  <2>3. (\E i \in 1 .. Len(in) : in[i] = "cr") \/ LongLine(max_line, in)
    BY <1>6, <2>1, <2>2, KvWeakOnly
  <2>. QED
    BY <2>3 DEF Contains
<1>7. ASSUME NEW bits \in MaxBits, NEW in \in Samples.leb128_decode,
             Leb128Weak(bits, in) # Leb128Decode(bits, in)
      PROVE  \E number \in Range(LebNumbers(in)) \union {Rest(Final, in)} : TrapNumber(bits, number)
  <2>1. bits \in Nat
    BY SizesAssumption
  <2>2. in \in Seq(Nat)
    BY SamplesGiven
  <2>. QED
    BY <1>7, <2>1, <2>2, LebWeakOnly
<1>8. ASSUME NEW points \in MaxPoints, NEW in \in Samples.utf8_validate,
             Utf8Weak(points, in) # Utf8Validate(points, in)
      PROVE  \E i \in 1 .. Len(in) - 1 : in[i] = 237 /\ in[i + 1] \in 160 .. 191
  <2>1. points \in Nat
    BY SizesAssumption
  <2>2. in \in Seq(Octets)
    BY SamplesGiven
  <2>. QED
    BY <1>8, <2>1, <2>2, Utf8WeakOnly
<1>. QED
  BY <1>1, <1>2, <1>3, <1>4, <1>5, <1>6, <1>7, <1>8

(* Among the inputs of every program is one that brings the bug of its     *)
(* weak translation out.                                                   *)
EveryBugShows ==
    /\ \A csz \in ChunkSizes :
          \E in \in Samples.reverse_bytes : ReverseWeak(csz, in) # ReverseBytes(csz, in)
    /\ \A max_run \in MaxRuns :
          \E in \in Samples.rle_encode : RleWeak(in) # RleEncode(max_run, in)
    /\ \E in \in Samples.fnv1a_lines : FnvWeak(in) # FnvLines(in)
    /\ \A poly \in Polys :
          \E in \in Samples.crc32 : CrcWeak(poly, in) # Crc32(poly, in)
    /\ \A wrap \in WrapColumns :
          \E in \in Samples.base64_encode : Base64Weak(wrap, in) # Base64Encode(wrap, in)
    /\ \A max_line \in MaxLines :
          \E in \in Samples.kv_normalize : KvWeak(in) # KvNormalize(max_line, in)
    /\ \A bits \in MaxBits :
          \E in \in Samples.leb128_decode : Leb128Weak(bits, in) # Leb128Decode(bits, in)
    /\ \A points \in MaxPoints :
          \E in \in Samples.utf8_validate : Utf8Weak(points, in) # Utf8Validate(points, in)

LEMMA BugsAreKnown == ASSUME EveryBugShows PROVE WeakOnesAreWeak
<1>1. ReverseTrap /\ RleTrap
  BY EveryBugShows, WeakOnesHaveOneBug DEF EveryBugShows, ReverseTrap, RleTrap, WeakOnlyOn, LongRun
<1>2. FnvTrap /\ CrcTrap
  BY EveryBugShows, WeakOnesHaveOneBug DEF EveryBugShows, FnvTrap, CrcTrap, WeakOnlyOn
<1>3. Base64Trap /\ KvTrap
  BY EveryBugShows, WeakOnesHaveOneBug DEF EveryBugShows, Base64Trap, KvTrap, WeakOnlyOn, LongLine
<1>4. LebTrap /\ Utf8Trap
  BY EveryBugShows, WeakOnesHaveOneBug DEF EveryBugShows, LebTrap, Utf8Trap, WeakOnlyOn, TrapNumber
<1>. QED
  BY <1>1, <1>2, <1>3, <1>4 DEF WeakOnesAreWeak

(* Whatever fails or is late, the C programs of the pool are right, and a  *)
(* translation that does what they do passes every test both got to run.   *)
THEOREM PoolIsSound == Spec => []TasksAreSound
<1>1. IInv => TasksAreSound
  BY ProgramsAreSound DEF IInv, TasksAreSound
<1> QED BY <1>1, InitInvariant, NextInvariant, PTL DEF Spec

(* Whatever fails or is late, a weak translation is wrong on an input that *)
(* is there to show it, by its own bug and no other, and every test that   *)
(* shows a difference counts against it.                                   *)
THEOREM PoolIsCatchable == ASSUME EveryBugShows PROVE Spec => []WeakIsCatchable
<1>1. IInv => WeakIsCatchable
  BY EveryBugShows, BugsAreKnown DEF IInv, WeakIsCatchable
<1> QED BY <1>1, InitInvariant, NextInvariant, PTL DEF Spec

=============================================================================
