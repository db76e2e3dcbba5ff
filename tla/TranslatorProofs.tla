-------------------------- MODULE TranslatorProofs --------------------------
(***************************************************************************)
(* What a translator submits, for any model behind it, any programs, any   *)
(* recordings, any number of repairs and any failures.                     *)
(***************************************************************************)
EXTENDS Translator, FiniteSetTheorems, TLAPS

VerdictType == [why : Verdicts \union {"untested"}, hits : SUBSET Inputs]
DraftType == [code : Programs, by : {"live", "stub"}, verdict : VerdictType]

DraftsType == drafts \in Seq(DraftType) /\ best \in 0 .. Len(drafts)

Compiled == {k \in DOMAIN drafts : drafts[k].verdict.why \in {"clean", "diverges"}}
Divergences(k) == Cardinality(drafts[k].verdict.hits)

(* The first of the drafts with the fewest divergences.                    *)
IsBest(r) ==
    /\ r \in Compiled
    /\ \A k \in Compiled : /\ Divergences(r) <= Divergences(k)
                           /\ k < r => Divergences(r) < Divergences(k)

BestSoFar == IF best = 0 THEN Compiled = {} ELSE IsBest(best)

(* A clean draft is the last, and the best.                                *)
CleanIsLast ==
    \A k \in DOMAIN drafts :
        /\ drafts[k].verdict.why = "diverges" => drafts[k].verdict.hits # {}
        /\ drafts[k].verdict.why = "clean" =>
               k = Len(drafts) /\ best = k /\ pc \notin {"oracle", "judge", "test"}

(* Where the loop is: there is a draft, and until it is judged it has no   *)
(* verdict; the one under test is the one that was built.                  *)
InTheLoop ==
    /\ pc \in {"oracle", "judge", "test", "decide"} => Len(drafts) > 0
    /\ pc \in {"oracle", "judge", "test"} => Draft.verdict = Untested
    /\ pc = "test" => built = Draft.code.differs /\ cand = Nothing
    /\ pc = "first" => drafts = << >> /\ best = 0 /\ reply = 0

(* What the screen passed is what the oracle can tell to be clean.         *)
CleanTrue ==
    \A i \in DOMAIN clean :
        clean[i] => i \notin crash /\ (oracle = "sanitized" => Valid(i))

IInv == /\ DraftsType /\ InTheLoop /\ CleanTrue /\ EvidenceIsOwn
        /\ BestSoFar /\ CleanIsLast /\ BestOfDrafts

(* The variables the invariant speaks of.                                  *)
loop == <<ub, crash, oracle, built, cache, pc, drafts, best, reply>>

-----------------------------------------------------------------------------
(* Hits are finitely many.                                                 *)
LEMMA DivergencesCount ==
    ASSUME DraftsType, NEW k \in DOMAIN drafts
    PROVE  /\ Divergences(k) \in Nat
           /\ Divergences(k) = 0 <=> drafts[k].verdict.hits = {}
<1>1. drafts[k] \in DraftType
  BY DEF DraftsType
<1>2. drafts[k].verdict.hits \in SUBSET Inputs
  BY <1>1 DEF DraftType, VerdictType
<1>3. IsFiniteSet(drafts[k].verdict.hits)
  BY <1>2, InputsAssumption, FS_Subset
<1>. QED
  BY <1>3, FS_CardinalityType, FS_EmptySet DEF Divergences

LEMMA LastDraft ==
    ASSUME DraftsType, Len(drafts) > 0
    PROVE  /\ Len(drafts) \in DOMAIN drafts
           /\ Draft \in DraftType
           /\ DOMAIN drafts = 1 .. Len(drafts)
  BY DEF DraftsType, Draft

LEMMA UnchangedLoop == IInv /\ UNCHANGED loop => IInv'
  BY DEF IInv, loop, cache, DraftsType, DraftType, VerdictType, InTheLoop, CleanTrue,
         EvidenceIsOwn, Valid, Late, BestSoFar, CleanIsLast, BestOfDrafts, IsBest, Compiled,
         Divergences, Draft

(* Judging the draft at hand changes nothing about the others.             *)
LEMMA JudgedDraft ==
    ASSUME DraftsType, Len(drafts) > 0, NEW verdict \in VerdictType, Judged(verdict)
    PROVE  /\ drafts' \in Seq(DraftType)
           /\ Len(drafts') = Len(drafts)
           /\ drafts'[Len(drafts)].verdict = verdict
           /\ drafts'[Len(drafts)].code = Draft.code
           /\ \A k \in 1 .. Len(drafts) : k # Len(drafts) => drafts'[k] = drafts[k]
<1> DEFINE judged == [code |-> Draft.code, by |-> Draft.by, verdict |-> verdict]
<1>1. Len(drafts) \in DOMAIN drafts /\ judged \in DraftType
  BY LastDraft DEF DraftType
<1>2. drafts' = [drafts EXCEPT ![Len(drafts)] = judged]
  BY DEF Judged
<1>3. judged.verdict = verdict /\ judged.code = Draft.code
  OBVIOUS
<1> HIDE DEF judged
<1>. QED
  BY <1>1, <1>2, <1>3 DEF DraftsType

LEMMA SameScreen ==
    ASSUME CleanTrue, UNCHANGED <<ub, crash>>,
           clean' = Nothing \/ UNCHANGED <<clean, oracle>>
    PROVE  CleanTrue'
<1>1. DOMAIN Nothing = {}
  BY DEF Nothing
<1>. QED
  BY <1>1 DEF CleanTrue, Valid

(* Outside of the loop the drafts only wait to be looked at.               *)
LEMMA Outside ==
    ASSUME IInv, UNCHANGED <<drafts, best>>, pc' \in {"idle", "route"}, CleanTrue'
    PROVE  IInv'
  BY DEF IInv, DraftsType, InTheLoop, EvidenceIsOwn, BestSoFar,
         CleanIsLast, BestOfDrafts, IsBest, Compiled, Divergences

(* Before the first draft there is nothing to be said.                     *)
LEMMA NoDraftsYet ==
    ASSUME drafts' = << >>, best' = 0, reply' = 0, CleanTrue',
           pc' \notin {"oracle", "judge", "test", "decide"}
    PROVE  IInv'
<1>1. drafts' \in Seq(DraftType) /\ Len(drafts') = 0 /\ DOMAIN drafts' = {}
  OBVIOUS
<1>. QED
  BY <1>1 DEF IInv, DraftsType, InTheLoop, EvidenceIsOwn, BestSoFar,
         CleanIsLast, BestOfDrafts, IsBest, Compiled, Divergences

(* A new draft has no verdict, and takes nothing from the ones before.     *)
LEMMA DraftedLast ==
    ASSUME IInv, NEW answer \in Answers, Drafted(answer), pc' \in {"oracle", "judge"},
           CleanTrue', UNCHANGED best,
           \A k \in DOMAIN drafts : drafts[k].verdict.why # "clean"
    PROVE  IInv'
<1> DEFINE new == [code |-> answer.text, by |-> answer.by, verdict |-> Untested]
<1>1. new \in DraftType /\ new.verdict = Untested
  BY DEF Answers, DraftType, VerdictType, Untested, Evidence
<1>2. Untested.why = "untested" /\ Untested.hits = {}
  BY DEF Untested, Evidence
<1>3. /\ drafts \in Seq(DraftType) /\ best \in 0 .. Len(drafts)
      /\ drafts' = Append(drafts, new)
  BY DEF IInv, DraftsType, Drafted
<1> HIDE DEF new
<1>4. /\ drafts' \in Seq(DraftType) /\ Len(drafts') = Len(drafts) + 1
      /\ DOMAIN drafts' = 1 .. Len(drafts) + 1 /\ DOMAIN drafts = 1 .. Len(drafts)
      /\ drafts'[Len(drafts) + 1] = new
      /\ \A k \in 1 .. Len(drafts) : drafts'[k] = drafts[k]
  BY <1>1, <1>3
<1>5. Compiled' = Compiled
  BY <1>1, <1>2, <1>4 DEF Compiled
<1>6. \A k \in Compiled : Divergences(k)' = Divergences(k)
  BY <1>4 DEF Compiled, Divergences
<1>7. BestSoFar'
  BY <1>3, <1>4, <1>5, <1>6 DEF IInv, BestSoFar, IsBest
<1>8. EvidenceIsOwn'
  BY <1>1, <1>2, <1>4 DEF IInv, EvidenceIsOwn
<1>9. CleanIsLast'
  BY <1>1, <1>2, <1>4 DEF IInv, CleanIsLast
<1>10. InTheLoop'
  BY <1>1, <1>4 DEF InTheLoop, Draft
<1>. QED
  BY <1>3, <1>4, <1>7, <1>8, <1>9, <1>10 DEF IInv, DraftsType, BestOfDrafts

(* A verdict on the draft at hand keeps the best draft the best.           *)
LEMMA JudgedBest ==
    ASSUME IInv, pc \in {"judge", "test"}, NEW verdict \in VerdictType, Judged(verdict),
           verdict.why # "untested",
           verdict.why = "clean" => verdict.hits = {},
           verdict.why = "diverges" => verdict.hits # {},
           verdict.hits \subseteq Draft.code.differs \union Late',
           verdict.hits \intersect crash' = {},
           oracle' = "sanitized" => \A i \in verdict.hits : Valid(i)',
           best' = IF verdict.why \in {"clean", "diverges"} /\ Fewer(verdict.hits)
                   THEN Len(drafts) ELSE best,
           CleanTrue'
    PROVE  IInv'
<1>0. PICK n \in Nat : n = Len(drafts)
  BY DEF IInv, DraftsType
<1>1. /\ drafts \in Seq(DraftType) /\ n \in Nat /\ n > 0 /\ DOMAIN drafts = 1 .. n
      /\ best \in 0 .. n /\ Draft.verdict = Untested /\ DraftsType
  BY <1>0 DEF IInv, InTheLoop, DraftsType
<1>2. /\ drafts' \in Seq(DraftType) /\ Len(drafts') = n /\ DOMAIN drafts' = 1 .. n
      /\ drafts'[n].verdict = verdict
      /\ drafts'[n].code = Draft.code
      /\ \A k \in 1 .. n : k # n => drafts'[k] = drafts[k]
  <2>1. Len(drafts) > 0 /\ DraftsType
    BY <1>0, <1>1
  <2>2. /\ drafts' \in Seq(DraftType) /\ Len(drafts') = n
        /\ drafts'[n].verdict = verdict /\ drafts'[n].code = Draft.code
        /\ \A k \in 1 .. n : k # n => drafts'[k] = drafts[k]
    BY <1>0, <2>1, JudgedDraft
  <2>. QED
    BY <2>2
<1>3. Draft = drafts[n] /\ Untested.why = "untested"
  BY <1>0 DEF Draft, Untested, Evidence
<1>4. pc' = "decide"
  BY DEF Judged
<1>5. best' \in 0 .. n
  BY <1>0, <1>1
<1>6. DraftsType'
  BY <1>2, <1>5 DEF DraftsType
<1>7. n \notin Compiled /\ Compiled \subseteq 1 .. n
  BY <1>1, <1>3 DEF Compiled
<1>8. Compiled' = IF verdict.why \in {"clean", "diverges"} THEN Compiled \union {n} ELSE Compiled
  BY <1>1, <1>2, <1>7 DEF Compiled
<1>9. \A k \in Compiled : Divergences(k)' = Divergences(k)
  BY <1>2, <1>7 DEF Divergences
<1>10. \A k \in Compiled : Divergences(k) \in Nat \ {0}
  <2> SUFFICES ASSUME NEW k \in Compiled PROVE Divergences(k) \in Nat \ {0}
    OBVIOUS
  <2>1. k \in DOMAIN drafts /\ drafts[k].verdict.why # "clean"
    BY DEF IInv, CleanIsLast, Compiled
  <2>2. drafts[k].verdict.hits # {}
    BY <2>1 DEF IInv, CleanIsLast, Compiled
  <2>. QED
    BY <1>1, <2>1, <2>2, DivergencesCount
<1>11. Divergences(n)' = Cardinality(verdict.hits) /\ Cardinality(verdict.hits) \in Nat
  <2>1. Divergences(n)' = Cardinality(drafts'[n].verdict.hits)
    BY DEF Divergences
  <2>2. verdict.hits \in SUBSET Inputs
    BY DEF VerdictType
  <2>. QED
    BY <1>2, <2>1, <2>2, InputsAssumption, FS_Subset, FS_CardinalityType
<1>12. best # 0 => best \in Compiled /\ IsBest(best)
  BY DEF IInv, BestSoFar, IsBest
<1>13. Fewer(verdict.hits) <=> best = 0 \/ Cardinality(verdict.hits) < Divergences(best)
  BY DEF Fewer, Divergences
<1>14. verdict.why = "clean" => best' = n
  <2> SUFFICES ASSUME verdict.why = "clean" PROVE Fewer(verdict.hits)
    BY <1>0
  <2>1. Cardinality(verdict.hits) = 0
    BY FS_EmptySet
  <2>. QED
    BY <1>10, <1>12, <1>13, <2>1
<1>15. BestSoFar'
  <2>1. CASE verdict.why \notin {"clean", "diverges"}
    <3>1. Compiled' = Compiled /\ best' = best
      BY <1>8, <2>1
    <3>. QED
      BY <1>9, <3>1 DEF IInv, BestSoFar, IsBest
  <2>2. CASE verdict.why \in {"clean", "diverges"} /\ Fewer(verdict.hits)
    <3>1. best' = n /\ Compiled' = Compiled \union {n}
      BY <1>0, <1>8, <2>2
    <3>2. \A k \in Compiled : Divergences(n)' < Divergences(k)'
      <4>1. CASE best = 0
        BY <4>1 DEF IInv, BestSoFar
      <4>2. CASE best # 0
        BY <1>9, <1>10, <1>11, <1>12, <1>13, <2>2, <4>2 DEF IsBest
      <4>. QED
        BY <4>1, <4>2
    <3>. QED
      BY <1>1, <1>7, <1>9, <1>10, <1>11, <3>1, <3>2 DEF BestSoFar, IsBest
  <2>3. CASE verdict.why \in {"clean", "diverges"} /\ ~ Fewer(verdict.hits)
    <3>1. best' = best /\ best # 0 /\ Compiled' = Compiled \union {n}
      BY <1>8, <1>13, <2>3
    <3>2. Divergences(best) <= Divergences(n)'
      BY <1>10, <1>11, <1>12, <1>13, <2>3, <3>1
    <3>. QED
      BY <1>1, <1>7, <1>9, <1>10, <1>11, <1>12, <3>1, <3>2 DEF BestSoFar, IsBest
  <2>. QED
    BY <2>1, <2>2, <2>3
<1>16. EvidenceIsOwn'
  <2>1. Draft' = drafts'[n]
    BY <1>2 DEF Draft
  <2>. QED
    BY <1>2, <2>1 DEF EvidenceIsOwn
<1>17. CleanIsLast'
  BY <1>1, <1>2, <1>4, <1>14 DEF IInv, CleanIsLast
<1>18. InTheLoop'
  BY <1>1, <1>2, <1>4 DEF InTheLoop
<1>. QED
  BY <1>4, <1>6, <1>15, <1>16, <1>17, <1>18 DEF IInv, BestOfDrafts

-----------------------------------------------------------------------------
LEMMA InitLoop == Init => IInv
<1>1. << >> \in Seq(DraftType) /\ Len(<< >>) = 0
  OBVIOUS
<1>. QED
  BY <1>1 DEF Init, IInv, DraftsType, InTheLoop, CleanTrue, Nothing, EvidenceIsOwn, BestSoFar,
         CleanIsLast, BestOfDrafts, Compiled

(* Whatever the loop returns after its self-tests is the best it has.      *)
LEMMA ReturnsBest ==
    ASSUME IInv, pc = "decide", NEW d \in {Len(drafts), Salvaged}, Return(d),
           UNCHANGED drafts,
           d = Len(drafts) => Draft.verdict.why = "clean" \/ d = Salvaged
    PROVE  IInv'
<1>1. /\ DraftsType /\ Len(drafts) > 0 /\ DOMAIN drafts = 1 .. Len(drafts)
      /\ Draft = drafts[Len(drafts)]
  BY DEF IInv, InTheLoop, DraftsType, Draft
<1>2. /\ pc' = "return" /\ reply' = d
      /\ UNCHANGED <<ub, crash, oracle, built, cache, drafts, best>>
  BY DEF Return, diffVars, program
<1>3. IF Compiled = {} THEN d = Len(drafts) ELSE IsBest(d)
  <2>1. CASE d = Salvaged
    BY <2>1 DEF IInv, BestSoFar, Salvaged, IsBest
  <2>2. CASE Draft.verdict.why = "clean" /\ d = Len(drafts)
    <3>1. best = Len(drafts)
      BY <1>1, <2>2 DEF IInv, CleanIsLast
    <3>. QED
      BY <1>1, <2>2, <3>1 DEF IInv, BestSoFar, IsBest
  <2>. QED
    BY <2>1, <2>2
<1>4. BestOfDrafts'
  BY <1>2, <1>3 DEF BestOfDrafts, IsBest, Compiled, Divergences
<1>. QED
  BY <1>2, <1>4 DEF IInv, cache, DraftsType, InTheLoop, CleanTrue, Valid, EvidenceIsOwn, BestSoFar,
         CleanIsLast, IsBest, Compiled, Divergences

LEMMA FirstDraftStep ==
    ASSUME IInv, NEW result \in Answers \union {NoText}, FirstDraft(result)
    PROVE  IInv'
<1>1. /\ pc = "first" /\ drafts = << >> /\ best = 0 /\ reply = 0
      /\ UNCHANGED <<ub, crash, oracle, clean, best, reply>> /\ CleanTrue'
  BY SameScreen DEF FirstDraft, IInv, InTheLoop, diffVars, cache, program
<1>2. CASE result = NoText
  BY <1>1, <1>2, NoDraftsYet DEF FirstDraft
<1>3. CASE result # NoText
  <2>1. result \in Answers /\ Drafted(result) /\ pc' = "oracle"
    BY <1>3 DEF FirstDraft
  <2>. QED
    BY <1>1, <2>1, DraftedLast
<1>. QED
  BY <1>2, <1>3

LEMMA OracleStep ==
    ASSUME IInv, NEW left \in Oracles, Oracle(left)
    PROVE  IInv'
<1>1. /\ pc = "oracle" /\ UNCHANGED <<ub, crash, drafts, best>>
      /\ oracle' = left /\ clean' = Nothing
      /\ left = "none" => pc' = "return"
      /\ left # "none" => pc' = "judge"
  BY DEF Oracle, BuildOracle, program
<1>2. CleanTrue'
  BY <1>1, SameScreen DEF IInv
<1>. QED
  BY <1>1, <1>2 DEF IInv, DraftsType, InTheLoop, EvidenceIsOwn, BestSoFar,
         CleanIsLast, BestOfDrafts, IsBest, Compiled, Divergences, Draft

LEMMA JudgeStep ==
    ASSUME IInv, Judge
    PROVE  IInv'
<1>1. /\ pc = "judge" /\ UNCHANGED <<ub, crash, oracle, clean, best, reply>>
      /\ DraftsType /\ Len(drafts) > 0 /\ CleanTrue'
  <2>1. pc = "judge" /\ UNCHANGED <<ub, crash, oracle, best, reply>>
    BY DEF Judge, program
  <2>2. clean' = clean
    BY <2>1, LastDraft, ProgramsAssumption
    DEF Judge, Banned, BuildRust, cache, IInv, InTheLoop, DraftType
  <2>. QED
    BY <2>1, <2>2, SameScreen DEF IInv, InTheLoop
<1>2. Draft.code.gate \in {"banned", "rejected", "compiles"}
  BY <1>1, LastDraft, ProgramsAssumption DEF DraftType
<1>3. ASSUME NEW why \in {"banned", "rejected"}, Judged(Evidence(why, {}))
      PROVE  IInv'
  <2>1. /\ Evidence(why, {}) \in VerdictType
        /\ Evidence(why, {}).why = why /\ Evidence(why, {}).hits = {}
    BY DEF Evidence, VerdictType, Verdicts
  <2>. QED
    BY <1>1, <1>3, <2>1, JudgedBest
<1>4. CASE Draft.code.gate = "compiles"
  <2>1. /\ pc' = "test" /\ drafts' = drafts
        /\ built' = Draft.code.differs /\ cand' = Nothing
    BY <1>4 DEF Judge, Banned, BuildRust
  <2>. QED
    BY <1>1, <2>1 DEF IInv, DraftsType, InTheLoop, EvidenceIsOwn, BestSoFar,
         CleanIsLast, BestOfDrafts, IsBest, Compiled, Divergences, Draft
<1>5. CASE Draft.code.gate = "banned"
  BY <1>3, <1>5 DEF Judge, Banned
<1>6. CASE Draft.code.gate = "rejected"
  BY <1>3, <1>6 DEF Judge, Banned
<1>. QED
  BY <1>2, <1>4, <1>5, <1>6

(* The self-test reports what it has seen the built draft and C do.        *)
LEMMA SelfTestStep ==
    ASSUME IInv, NEW batch \in SUBSET Inputs, NEW mishap \in Mishaps(batch),
           NEW unclean \in Losses(clean, batch), SelfTest(batch, mishap, unclean)
    PROVE  IInv'
<1> DEFINE hit == HitsIn(ref', cand', batch)
<1>1. /\ pc = "test" /\ UNCHANGED <<ub, crash, oracle, built, reply>>
      /\ ref' = RefAfter(batch, mishap) /\ cand' = CandAfter(batch, mishap)
      /\ clean' = Screened(clean, hit, unclean)
      /\ built = Draft.code.differs /\ cand = Nothing
  BY DEF SelfTest, IInv, InTheLoop, program
<1>2. PICK hits \in SUBSET {i \in hit : clean'[i]} :
          /\ hits = {} <=> {i \in hit : clean'[i]} = {}
          /\ best' = IF Fewer(hits) THEN Len(drafts) ELSE best
          /\ Judged(Evidence(IF hits = {} THEN "clean" ELSE "diverges", hits))
  BY <1>1 DEF SelfTest
<1>3. \A i \in DOMAIN clean' : clean'[i] => i \notin crash /\ (oracle = "sanitized" => Valid(i))
  BY <1>1 DEF Screened, Valid, IInv, CleanTrue
<1>4. hit \subseteq DOMAIN clean'
  BY <1>1 DEF Screened
<1>5. \A i \in DOMAIN cand' : cand'[i] \in {"same", "late"} \/ i \in Draft.code.differs
  BY <1>1 DEF CandAfter, Executed, Nothing
<1>6. hit \subseteq (Draft.code.differs \union Late') \intersect Inputs
  <2>1. DOMAIN cand' \subseteq DOMAIN ref'
    BY <1>1 DEF RefAfter, CandAfter, Executed, Nothing
  <2>. QED
    BY <1>5, <2>1 DEF HitsIn, Late
<1> HIDE DEF hit
<1>7. /\ hits \subseteq Draft.code.differs \union Late' /\ hits \subseteq Inputs
      /\ \A i \in hits : i \notin crash /\ (oracle = "sanitized" => Valid(i))
  BY <1>3, <1>4, <1>6
<1> DEFINE why == IF hits = {} THEN "clean" ELSE "diverges"
           verdict == Evidence(why, hits)
<1>8. /\ verdict \in VerdictType /\ verdict.why = why /\ verdict.hits = hits
  BY <1>7 DEF Evidence, VerdictType, Verdicts
<1>9. CleanTrue'
  BY <1>1, <1>3 DEF CleanTrue, Valid
<1>10. Judged(verdict) /\ why \in {"clean", "diverges"}
  BY <1>2
<1>11. best' = IF why \in {"clean", "diverges"} /\ Fewer(hits) THEN Len(drafts) ELSE best
  BY <1>2
<1>12. (why = "clean" => hits = {}) /\ (why = "diverges" => hits # {}) /\ why # "untested"
  OBVIOUS
<1> HIDE DEF why, verdict
<1>13. /\ verdict.hits \intersect crash' = {}
       /\ oracle' = "sanitized" => \A i \in verdict.hits : Valid(i)'
  BY <1>1, <1>7, <1>8 DEF Valid
<1>. QED
  BY <1>1, <1>7, <1>8, <1>9, <1>10, <1>11, <1>12, <1>13, JudgedBest

LEMMA RepairStep ==
    ASSUME IInv, NEW result \in Answers \union {NoText}, Repair(result)
    PROVE  IInv'
<1>1. pc = "decide" /\ Draft.verdict.why # "clean"
  BY DEF Repair
<1>2. CASE result = NoText
  BY <1>1, <1>2, ReturnsBest DEF Repair
<1>3. CASE result # NoText
  <2>1. /\ result \in Answers /\ Drafted(result) /\ pc' = "judge"
        /\ UNCHANGED <<ub, crash, oracle, clean, best>> /\ CleanTrue'
    BY <1>3, SameScreen DEF Repair, IInv, diffVars, cache, program
  <2>2. \A k \in DOMAIN drafts : drafts[k].verdict.why # "clean"
    BY <1>1 DEF IInv, CleanIsLast, Draft
  <2>. QED
    BY <2>1, <2>2, DraftedLast
<1>. QED
  BY <1>2, <1>3

LEMMA StepLoop == IInv /\ [Next]_vars => IInv'
<1> SUFFICES ASSUME IInv, [Next]_vars PROVE IInv'
    OBVIOUS
<1>1. CASE Request
  BY <1>1, SameScreen, Outside DEF Request, Turn, diffVars, cache, program, IInv
<1>2. ASSUME NEW c \in Clients, Restart(c) PROVE IInv'
  BY <1>2, SameScreen, NoDraftsYet DEF Restart, diffVars, cache, program, IInv
<1>3. CASE Route
  <2>1. CleanTrue'
    BY <1>3, SameScreen DEF Route, diffVars, cache, program, IInv
  <2>2. CASE Axon \in {"gone", "fixture"}
    <3>1. pc' \in {"idle", "route"} /\ UNCHANGED <<drafts, best, reply>>
      BY <1>3, <2>2 DEF Route, Respond, Turn
    <3>. QED
      BY <2>1, <3>1, Outside
  <2>3. CASE Axon \notin {"gone", "fixture"} /\ Axon = "llm"
    <3>1. pc' = "first" /\ drafts' = << >> /\ best' = 0 /\ reply' = 0
      BY <1>3, <2>3 DEF Route
    <3>. QED
      BY <2>1, <3>1, NoDraftsYet
  <2>4. Axon \in {"gone", "fixture", "llm"}
    BY <1>3 DEF Route
  <2>. QED
    BY <2>2, <2>3, <2>4
<1>4. ASSUME NEW result \in Answers \union {NoText}, FirstDraft(result) PROVE IInv'
  BY <1>4, FirstDraftStep
<1>5. ASSUME NEW result \in Answers \union {NoText}, Repair(result) PROVE IInv'
  BY <1>5, RepairStep
<1>6. ASSUME NEW left \in Oracles, Oracle(left) PROVE IInv'
  BY <1>6, OracleStep
<1>7. CASE Judge
  BY <1>7, JudgeStep
<1>8. ASSUME NEW batch \in SUBSET Inputs, NEW mishap \in Mishaps(batch),
             NEW unclean \in Losses(clean, batch), SelfTest(batch, mishap, unclean)
      PROVE  IInv'
  BY <1>8, SelfTestStep
<1>9. CASE Accept
  BY <1>9, ReturnsBest DEF Accept
<1>10. CASE GiveUp
  BY <1>10, ReturnsBest DEF GiveUp
<1>11. CASE Answer \/ MinerRaises \/ RecordingRaises
  <2>1. /\ pc' \in {"idle", "route"} /\ clean' = Nothing
        /\ UNCHANGED <<ub, crash, drafts, best>>
    BY <1>11 DEF Answer, MinerRaises, RecordingRaises, Fails, Close, Respond, Turn, program
  <2>. QED
    BY <2>1, SameScreen, Outside DEF IInv
<1>12. CASE UNCHANGED vars
  BY <1>12, UnchangedLoop DEF vars, diffVars, program, loop
<1>. QED
  BY <1>1, <1>2, <1>3, <1>4, <1>5, <1>6, <1>7, <1>8, <1>9, <1>10, <1>11, <1>12 DEF Next, Work

(* Out of repairs, out of answers or content: the draft that is submitted  *)
(* is the first with the fewest divergences among those that compiled.     *)
THEOREM BestIsSubmitted == Spec => []BestOfDrafts
<1>1. IInv => BestOfDrafts
  BY DEF IInv
<1>. QED
  BY InitLoop, StepLoop, <1>1, PTL DEF Spec

(* No draft is charged with a divergence of another draft, nor for an      *)
(* input on which the C program crashes or hangs, nor, with a sanitizer    *)
(* build, for one on which its behaviour is undefined.                     *)
THEOREM EvidenceIsOfTheDraft == Spec => []EvidenceIsOwn
<1>1. IInv => EvidenceIsOwn
  BY DEF IInv
<1>. QED
  BY InitLoop, StepLoop, <1>1, PTL DEF Spec

-----------------------------------------------------------------------------
(* Whose answers are replayed.                                             *)

(* What is recorded is what a live provider answered, or cut off.          *)
RecordingsLive ==
    \A n \in DOMAIN recordings : recordings[n] = Unreadable \/ recordings[n].by = "live"

ReplayInv == client \in Clients /\ RecordingsLive /\ GenuineReplay

LEMMA ProviderKnown ==
    ASSUME client \in Clients
    PROVE  client.provider \in {"none", "live", "stub"}
  BY ClientsAssumption DEF AnyClient, Providers

LEMMA ReplayedIsRecorded ==
    ASSUME NEW evidence, NEW attempt, client \in Clients, RecordingsLive,
           Replayed(evidence, attempt) # NoText
    PROVE  Replayed(evidence, attempt).by = "live"
<1> DEFINE names == Candidates(evidence, attempt)
           found == {k \in DOMAIN names : names[k] \in DOMAIN recordings}
           first == CHOOSE k \in found : \A j \in found : k <= j
<1>1. DOMAIN names \subseteq 1 .. 3
  BY DEF Candidates, Names
<1>2. /\ found # {} /\ recordings[names[first]] # Unreadable
      /\ Replayed(evidence, attempt) = recordings[names[first]]
  BY DEF Replayed
<1> HIDE DEF names
<1>3. \E k \in found : \A j \in found : k <= j
  <2>1. CASE 1 \in found
    BY <1>1, <2>1
  <2>2. CASE 1 \notin found /\ 2 \in found
    BY <1>1, <2>2
  <2>3. CASE 1 \notin found /\ 2 \notin found
    <3>1. found = {3}
      BY <1>1, <1>2, <2>3
    <3>. QED
      BY <3>1
  <2>. QED
    BY <2>1, <2>2, <2>3
<1>4. first \in found
  BY <1>3
<1>. QED
  BY <1>2, <1>4 DEF RecordingsLive

LEMMA WithLive ==
    ASSUME NEW names, NEW answer, RecordingsLive, answer.by = "live"
    PROVE  \A n \in DOMAIN With(names, answer) :
               \/ With(names, answer)[n] = Unreadable
               \/ With(names, answer)[n].by = "live"
  BY DEF With, RecordingsLive

LEMMA CompleteLive ==
    ASSUME ReplayInv, NEW evidence, NEW attempt, NEW result, Complete(evidence, attempt, result)
    PROVE  /\ RecordingsLive'
           /\ client.provider = "none" /\ result # NoText => result.by = "live"
<1>1. client \in Clients /\ RecordingsLive
  BY DEF ReplayInv
<1>2. CASE Replayed(evidence, attempt) # NoText
  <2>1. result.by = "live" /\ UNCHANGED recordings
    BY <1>1, <1>2, ReplayedIsRecorded DEF Complete
  <2>. QED
    BY <1>1, <2>1 DEF RecordingsLive
<1>3. CASE Replayed(evidence, attempt) = NoText
  <2>1. Called(result) /\ IF result = NoText THEN UNCHANGED recordings
                          ELSE Save(evidence, attempt, result)
    BY <1>3 DEF Complete
  <2>2. client.provider = "none" => result = NoText
    BY <2>1 DEF Called
  <2>3. CASE UNCHANGED recordings
    BY <1>1, <2>2, <2>3 DEF RecordingsLive
  <2>4. CASE result # NoText /\ Recorded
    <3>1. result.by = "live"
      BY <1>1, <2>1, <2>4, ProviderKnown DEF Called, Recorded
    <3>2. recordings' = With(Names(evidence, attempt), result)
      BY <2>1, <2>4 DEF Save
    <3>3. RecordingsLive'
      BY <1>1, <3>1, <3>2, WithLive DEF RecordingsLive
    <3>. QED
      BY <2>2, <3>3
  <2>. QED
    BY <2>1, <2>3, <2>4 DEF Save
<1>. QED
  BY <1>2, <1>3

LEMMA RaisesLive ==
    ASSUME ReplayInv, NEW evidence, NEW attempt, CompleteRaises(evidence, attempt)
    PROVE  RecordingsLive'
<1>1. client \in Clients /\ RecordingsLive
  BY DEF ReplayInv
<1>2. PICK text \in Programs :
          SaveFails(evidence, attempt, [text |-> text, by |-> client.provider])
  BY DEF CompleteRaises
<1> DEFINE answer == [text |-> text, by |-> client.provider]
<1>3. answer.by = "live"
  BY <1>1, <1>2, ProviderKnown DEF CompleteRaises, SaveFails, Recorded
<1> HIDE DEF answer
<1>4. PICK n \in 0 .. 2, cut \in BOOLEAN :
        LET names == Names(evidence, attempt)
            whole == With(SubSeq(names, 1, n), answer)
        IN  recordings' =
               IF cut THEN [f \in DOMAIN whole \union {names[n + 1]} |->
                               IF f = names[n + 1] THEN Unreadable ELSE whole[f]]
               ELSE whole
  BY <1>2 DEF SaveFails, answer
<1> DEFINE last == Names(evidence, attempt)[n + 1]
           whole == With(SubSeq(Names(evidence, attempt), 1, n), answer)
<1>5. \A f \in DOMAIN whole : whole[f] = Unreadable \/ whole[f].by = "live"
  BY <1>1, <1>3, WithLive
<1>6. recordings' = IF cut THEN [f \in DOMAIN whole \union {last} |->
                                    IF f = last THEN Unreadable ELSE whole[f]]
                    ELSE whole
  BY <1>4
<1> HIDE DEF whole, last
<1>. QED
  BY <1>5, <1>6 DEF RecordingsLive

(* A draft more keeps the promise if its author does.                      *)
LEMMA DraftedLive ==
    ASSUME DraftsType, GenuineReplay, NEW result \in Answers, Drafted(result), UNCHANGED client,
           client.provider = "none" => result.by = "live"
    PROVE  GenuineReplay'
<1> DEFINE draft == [code |-> result.text, by |-> result.by, verdict |-> Untested]
<1>1. drafts' = Append(drafts, draft) /\ draft.by = result.by
  BY DEF Drafted
<1> HIDE DEF draft
<1>. QED
  BY <1>1 DEF GenuineReplay, DraftsType

LEMMA JudgedLive ==
    ASSUME DraftsType, GenuineReplay, NEW verdict, Judged(verdict), UNCHANGED client
    PROVE  GenuineReplay'
<1> DEFINE judged == [code |-> Draft.code, by |-> Draft.by, verdict |-> verdict]
<1>1. drafts' = [drafts EXCEPT ![Len(drafts)] = judged] /\ judged.by = drafts[Len(drafts)].by
  BY DEF Judged, Draft
<1> HIDE DEF judged
<1>. QED
  BY <1>1 DEF GenuineReplay, DraftsType

LEMMA StepReplay == IInv /\ ReplayInv /\ [Next]_vars => ReplayInv'
<1> SUFFICES ASSUME IInv, DraftsType, ReplayInv, [Next]_vars PROVE ReplayInv'
    BY DEF IInv
<1> USE DEF ReplayInv
<1>1. ASSUME UNCHANGED <<client, recordings>>, drafts' \in {drafts, << >>} PROVE ReplayInv'
  BY <1>1 DEF RecordingsLive, GenuineReplay
<1>2. ASSUME NEW c \in Clients, Restart(c) PROVE ReplayInv'
  BY <1>2 DEF Restart, RecordingsLive, GenuineReplay
<1>3. CASE Request \/ Route \/ Accept \/ GiveUp \/ Answer \/ MinerRaises \/ UNCHANGED vars
  BY <1>1, <1>3 DEF Request, Route, Accept, GiveUp, Answer, MinerRaises, Return, llmVars, vars
<1>4. ASSUME NEW left \in Oracles, Oracle(left) PROVE ReplayInv'
  BY <1>1, <1>4 DEF Oracle, llmVars
<1>5. ASSUME NEW result \in Answers \union {NoText}, FirstDraft(result) PROVE ReplayInv'
  <2>1. Complete(First, 1, result) /\ UNCHANGED client
    BY <1>5 DEF FirstDraft
  <2>2. CASE result = NoText
    BY <1>5, <2>1, <2>2, CompleteLive DEF FirstDraft, GenuineReplay
  <2>3. CASE result # NoText
    <3>1. Drafted(result) /\ result \in Answers
      BY <1>5, <2>3 DEF FirstDraft
    <3>. QED
      BY <2>1, <2>3, <3>1, CompleteLive, DraftedLive
  <2>. QED
    BY <2>2, <2>3
<1>6. ASSUME NEW result \in Answers \union {NoText}, Repair(result) PROVE ReplayInv'
  <2>1. Complete(Draft.verdict, Len(drafts) + 1, result) /\ UNCHANGED client
    BY <1>6 DEF Repair, Return
  <2>2. CASE result = NoText
    BY <1>6, <2>1, <2>2, CompleteLive DEF Repair, GenuineReplay
  <2>3. CASE result # NoText
    <3>1. Drafted(result) /\ result \in Answers
      BY <1>6, <2>3 DEF Repair
    <3>. QED
      BY <2>1, <2>3, <3>1, CompleteLive, DraftedLive
  <2>. QED
    BY <2>2, <2>3
<1>7. CASE Judge
  <2>1. UNCHANGED <<client, recordings>>
    BY <1>7 DEF Judge, llmVars
  <2>2. Draft.code.gate \in {"banned", "rejected", "compiles"}
    BY <1>7, LastDraft, ProgramsAssumption DEF Judge, IInv, InTheLoop, DraftType
  <2>3. CASE Draft.code.gate = "compiles"
    BY <1>1, <1>7, <2>1, <2>3 DEF Judge, Banned
  <2>4. CASE Draft.code.gate \in {"banned", "rejected"}
    <3>1. \E verdict : Judged(verdict)
      BY <1>7, <2>4 DEF Judge, Banned
    <3>. QED
      BY <2>1, <3>1, JudgedLive DEF RecordingsLive
  <2>. QED
    BY <2>2, <2>3, <2>4
<1>8. ASSUME NEW batch \in SUBSET Inputs, NEW mishap \in Mishaps(batch),
             NEW unclean \in Losses(clean, batch), SelfTest(batch, mishap, unclean)
      PROVE  ReplayInv'
  <2>1. UNCHANGED <<client, recordings>> /\ \E verdict : Judged(verdict)
    BY <1>8 DEF SelfTest, llmVars
  <2>. QED
    BY <2>1, JudgedLive DEF RecordingsLive
<1>9. CASE RecordingRaises
  <2>1. UNCHANGED <<client, drafts>> /\ \E evidence, attempt : CompleteRaises(evidence, attempt)
    BY <1>9 DEF RecordingRaises
  <2>. QED
    BY <2>1, RaisesLive DEF GenuineReplay
<1>. QED
  BY <1>2, <1>3, <1>4, <1>5, <1>6, <1>7, <1>8, <1>9 DEF Next, Work

(* Replayed drafts are ones a live model wrote, whatever was run before.   *)
THEOREM ReplaysAreGenuine == Spec => []GenuineReplay
<1>1. Init => ReplayInv
  BY DEF Init, ReplayInv, RecordingsLive, GenuineReplay
<1>2. ReplayInv => GenuineReplay
  BY DEF ReplayInv
<1>. QED
  BY InitLoop, StepLoop, StepReplay, <1>1, <1>2, PTL DEF Spec

-----------------------------------------------------------------------------
(* Types, and with them the bound of the repair loop.                      *)

Steps == {"idle", "route", "first", "oracle", "judge", "test", "decide", "return"}

RecordingsOK == \A n \in DOMAIN recordings : recordings[n] \in Answers \union {Unreadable}

(* The handler runs for an axon that has no response yet.                  *)
AxonsInTurn ==
    /\ Len(responses) \in 0 .. Len(Axons)
    /\ responses \in Seq([status : {200, 404, 500}, code : Programs \union {NoText}])
    /\ pc # "idle" => Len(responses) < Len(Axons)

LoopIsBounded == Len(drafts) <= MaxRepairs + 1 /\ reply \in 0 .. Len(drafts)

TypeInv ==
    /\ DiffTypeOK /\ client \in Clients /\ RecordingsOK
    /\ requests \in 0 .. MaxRequests
    /\ pc \in Steps
    /\ AxonsInTurn
    /\ LoopIsBounded

(* What was executed stays typed, and so does what was screened.           *)
LEMMA ExecutedTyped ==
    ASSUME DiffTypeOK, built \in SUBSET Inputs, NEW batch \in SUBSET Inputs,
           NEW mishap \in Mishaps(batch), NEW unclean, NEW hit \in SUBSET Inputs,
           UNCHANGED <<program, oracle, built>>,
           ref' = RefAfter(batch, mishap), cand' = CandAfter(batch, mishap),
           clean' = Screened(clean, hit, unclean)
    PROVE  DiffTypeOK'
<1>1. /\ ref' = [i \in (DOMAIN ref \union batch) \ mishap.lost |->
                    CASE i \in DOMAIN ref -> ref[i]
                      [] i \in mishap.ref \ DOMAIN ref -> "late"
                      [] i \in {} \ (mishap.ref \union DOMAIN ref) -> "differs"
                      [] OTHER -> "same"]
      /\ cand' = [i \in (DOMAIN cand \union batch) \ mishap.lost |->
                    CASE i \in DOMAIN cand -> cand[i]
                      [] i \in mishap.cand \ DOMAIN cand -> "late"
                      [] i \in built \ (mishap.cand \union DOMAIN cand) -> "differs"
                      [] OTHER -> "same"]
  BY DEF RefAfter, CandAfter, Executed
<1>2. /\ DOMAIN cand' \subseteq DOMAIN ref' /\ DOMAIN ref' \subseteq Inputs
  BY <1>1 DEF DiffTypeOK
<1>3. \A i \in DOMAIN ref' : ref'[i] \in {"same", "late"}
  BY <1>1 DEF DiffTypeOK
<1>4. \A i \in DOMAIN cand' : cand'[i] \in {"same", "differs", "late"}
  BY <1>1 DEF DiffTypeOK
<1>5. DOMAIN clean' \subseteq Inputs /\ \A i \in DOMAIN clean' : clean'[i] \in BOOLEAN
  BY DEF DiffTypeOK, Screened, Valid
<1>. QED
  BY <1>2, <1>3, <1>4, <1>5 DEF DiffTypeOK, program

LEMMA CompleteTyped ==
    ASSUME RecordingsOK, NEW evidence, NEW attempt, NEW result \in Answers \union {NoText},
           Complete(evidence, attempt, result)
    PROVE  RecordingsOK'
<1>1. CASE UNCHANGED recordings
  BY <1>1 DEF RecordingsOK
<1>2. CASE result # NoText /\ recordings' = With(Names(evidence, attempt), result)
  BY <1>2 DEF RecordingsOK, With
<1>. QED
  BY <1>1, <1>2 DEF Complete, Save

LEMMA RaisesTyped ==
    ASSUME RecordingsOK, client \in Clients, NEW evidence, NEW attempt,
           CompleteRaises(evidence, attempt)
    PROVE  RecordingsOK'
<1>1. PICK text \in Programs :
          SaveFails(evidence, attempt, [text |-> text, by |-> client.provider])
  BY DEF CompleteRaises
<1> DEFINE answer == [text |-> text, by |-> client.provider]
<1>2. answer \in Answers
  BY ProviderKnown DEF CompleteRaises, Answers
<1> HIDE DEF answer
<1>3. PICK n \in 0 .. 2, cut \in BOOLEAN :
        LET names == Names(evidence, attempt)
            whole == With(SubSeq(names, 1, n), answer)
        IN  recordings' =
               IF cut THEN [f \in DOMAIN whole \union {names[n + 1]} |->
                               IF f = names[n + 1] THEN Unreadable ELSE whole[f]]
               ELSE whole
  BY <1>1 DEF SaveFails, answer
<1> DEFINE last == Names(evidence, attempt)[n + 1]
           whole == With(SubSeq(Names(evidence, attempt), 1, n), answer)
<1>4. \A f \in DOMAIN whole : whole[f] \in Answers \union {Unreadable}
  BY <1>2 DEF With, RecordingsOK
<1>5. recordings' = IF cut THEN [f \in DOMAIN whole \union {last} |->
                                    IF f = last THEN Unreadable ELSE whole[f]]
                    ELSE whole
  BY <1>3
<1> HIDE DEF whole, last
<1>. QED
  BY <1>4, <1>5 DEF RecordingsOK

(* A response more, and the next axon's turn.                              *)
LEMMA RespondTyped ==
    ASSUME AxonsInTurn, pc # "idle", NEW status \in {200, 404, 500},
           NEW code \in Programs \union {NoText}, Respond(status, code)
    PROVE  AxonsInTurn' /\ pc' \in {"idle", "route"}
<1> DEFINE new == [status |-> status, code |-> code]
           Response == [status : {200, 404, 500}, code : Programs \union {NoText}]
<1>1. /\ responses \in Seq(Response) /\ Len(responses) < Len(Axons)
      /\ responses' = Append(responses, new) /\ new \in Response
      /\ pc' = Turn(Len(responses) + 1)
  BY DEF AxonsInTurn, Respond
<1> HIDE DEF new, Response
<1>2. responses' \in Seq(Response) /\ Len(responses') = Len(responses) + 1
      /\ Len(responses) \in Nat /\ Len(Axons) \in Nat
  BY <1>1, AxonsAssumption
<1>. QED
  BY <1>1, <1>2 DEF AxonsInTurn, Turn, Response

LEMMA CloseTyped ==
    ASSUME DiffTypeOK, Close, UNCHANGED program
    PROVE  DiffTypeOK'
<1>1. DOMAIN Nothing = {} /\ "none" \in Oracles
  BY DEF Nothing, Oracles
<1>. QED
  BY <1>1 DEF DiffTypeOK, Close, program

(* A draft more, if there may be one.                                      *)
LEMMA DraftedBounded ==
    ASSUME DraftsType, LoopIsBounded, NEW answer, Drafted(answer), MayRepair, UNCHANGED reply
    PROVE  LoopIsBounded'
<1> DEFINE draft == [code |-> answer.text, by |-> answer.by, verdict |-> Untested]
<1>1. drafts' = Append(drafts, draft) /\ drafts \in Seq(DraftType)
  BY DEF Drafted, DraftsType
<1> HIDE DEF draft
<1>2. Len(drafts') = Len(drafts) + 1 /\ Len(drafts) \in Nat
  BY <1>1
<1>. QED
  BY <1>2, MaxRepairsAssumption DEF LoopIsBounded, MayRepair

LEMMA JudgedBounded ==
    ASSUME DraftsType, Len(drafts) > 0, LoopIsBounded, NEW verdict, Judged(verdict), UNCHANGED reply
    PROVE  LoopIsBounded' /\ pc' = "decide"
<1> DEFINE judged == [code |-> Draft.code, by |-> Draft.by, verdict |-> verdict]
<1>1. drafts' = [drafts EXCEPT ![Len(drafts)] = judged] /\ drafts \in Seq(DraftType) /\ pc' = "decide"
  BY DEF Judged, DraftsType
<1> HIDE DEF judged
<1>2. Len(drafts') = Len(drafts)
  BY <1>1
<1>. QED
  BY <1>1, <1>2 DEF LoopIsBounded

(* One place among the axons for the whole of a request.                   *)
LEMMA SameTurn ==
    ASSUME AxonsInTurn, UNCHANGED responses, pc # "idle"
    PROVE  AxonsInTurn'
  BY DEF AxonsInTurn

LEMMA InitType == Init => TypeInv
<1> SUFFICES ASSUME Init PROVE TypeInv
    OBVIOUS
<1>1. DOMAIN Nothing = {}
  BY DEF Nothing
<1>2. DiffTypeOK
  BY <1>1, CProgramsAssumption DEF Init, DiffTypeOK, Oracles
<1>3. Len(Axons) \in Nat
  BY AxonsAssumption
<1>4. AxonsInTurn /\ LoopIsBounded
  BY <1>3, MaxRepairsAssumption DEF Init, AxonsInTurn, LoopIsBounded
<1>. QED
  BY <1>2, <1>4, RequestsAssumption DEF Init, TypeInv, RecordingsOK, Steps

LEMMA StepType == IInv /\ TypeInv /\ [Next]_vars => TypeInv'
<1> SUFFICES ASSUME IInv, DraftsType, InTheLoop, TypeInv, [Next]_vars PROVE TypeInv'
    BY DEF IInv
<1> USE DEF TypeInv
<1>1. CASE Request
  <2>1. AxonsInTurn' /\ pc' \in Steps
    <3>1. Len(Axons) \in Nat
      BY AxonsAssumption
    <3>. QED
      BY <1>1, <3>1 DEF Request, AxonsInTurn, Turn, Steps
  <2>. QED
    BY <1>1, <2>1, RequestsAssumption
       DEF Request, diffVars, program, cache, llmVars, DiffTypeOK, RecordingsOK, LoopIsBounded
<1>2. ASSUME NEW c \in Clients, Restart(c) PROVE TypeInv'
  BY <1>2, MaxRepairsAssumption
     DEF Restart, diffVars, program, cache, DiffTypeOK, RecordingsOK, LoopIsBounded, AxonsInTurn
<1>3. CASE Route
  <2>1. /\ DiffTypeOK' /\ RecordingsOK' /\ client' \in Clients /\ requests' \in 0 .. MaxRequests
        /\ pc = "route"
    BY <1>3 DEF Route, diffVars, program, cache, llmVars, DiffTypeOK, RecordingsOK
  <2>2. CASE Axon = "gone" \/ Axon = "fixture"
    <3>1. /\ \E status \in {200, 404, 500}, code \in Programs \union {NoText} : Respond(status, code)
          /\ UNCHANGED <<drafts, best, reply>>
      BY <1>3, <2>2, FixtureAssumption DEF Route
    <3>. QED
      BY <2>1, <3>1, RespondTyped DEF LoopIsBounded, Steps
  <2>3. CASE pc' = "first" /\ drafts' = << >> /\ reply' = 0 /\ UNCHANGED responses
    BY <2>1, <2>3, SameTurn, MaxRepairsAssumption DEF LoopIsBounded, Steps
  <2>. QED
    BY <1>3, <2>2, <2>3 DEF Route
<1>4. ASSUME NEW result \in Answers \union {NoText}, FirstDraft(result) PROVE TypeInv'
  <2>1. /\ DiffTypeOK' /\ RecordingsOK' /\ client' \in Clients /\ requests' \in 0 .. MaxRequests
        /\ AxonsInTurn' /\ pc' \in Steps
    BY <1>4, CompleteTyped, SameTurn DEF FirstDraft, diffVars, program, cache, DiffTypeOK, Steps
  <2>2. MayRepair
    BY <1>4, MaxRepairsAssumption DEF FirstDraft, InTheLoop, MayRepair
  <2>3. LoopIsBounded'
    BY <1>4, <2>2, DraftedBounded DEF FirstDraft, LoopIsBounded
  <2>. QED
    BY <2>1, <2>3
<1>5. ASSUME NEW result \in Answers \union {NoText}, Repair(result) PROVE TypeInv'
  <2>1. /\ DiffTypeOK' /\ RecordingsOK' /\ client' \in Clients /\ requests' \in 0 .. MaxRequests
        /\ AxonsInTurn' /\ pc' \in Steps
    BY <1>5, CompleteTyped, SameTurn DEF Repair, Return, diffVars, program, cache, DiffTypeOK, Steps
  <2>2. CASE result = NoText
    BY <1>5, <2>1, <2>2 DEF Repair, Return, Salvaged, DraftsType, LoopIsBounded
  <2>3. CASE result # NoText
    BY <1>5, <2>1, <2>3, DraftedBounded DEF Repair
  <2>. QED
    BY <2>2, <2>3
<1>6. ASSUME NEW left \in Oracles, Oracle(left) PROVE TypeInv'
  <2>1. DOMAIN Nothing = {}
    BY DEF Nothing
  <2>2. DiffTypeOK'
    BY <1>6, <2>1 DEF Oracle, BuildOracle, program, DiffTypeOK
  <2>3. LoopIsBounded'
    BY <1>6, LastDraft DEF Oracle, LoopIsBounded, DraftsType, InTheLoop
  <2>. QED
    BY <1>6, <2>2, <2>3, SameTurn DEF Oracle, llmVars, RecordingsOK, Steps
<1>7. CASE Judge
  <2>1. /\ pc = "judge" /\ Len(drafts) > 0 /\ Draft \in DraftType
        /\ Draft.code.gate \in {"banned", "rejected", "compiles"}
        /\ Draft.code.differs \in SUBSET Inputs
    BY <1>7, LastDraft, ProgramsAssumption DEF Judge, InTheLoop, DraftType
  <2>2. /\ RecordingsOK' /\ client' \in Clients /\ requests' \in 0 .. MaxRequests
        /\ AxonsInTurn' /\ UNCHANGED <<program, oracle, reply>>
    BY <1>7, SameTurn DEF Judge, llmVars, RecordingsOK
  <2>3. /\ \/ UNCHANGED <<built, cache>>
           \/ BuildRust(NoBinary)
           \/ BuildRust(Draft.code.differs)
        /\ \/ \E verdict : Judged(verdict)
           \/ pc' = "test" /\ UNCHANGED drafts
    <3>1. CASE Draft.code.gate = "compiles"
      BY <1>7, <3>1 DEF Judge, Banned
    <3>2. CASE Draft.code.gate = "rejected"
      BY <1>7, <3>2 DEF Judge, Banned
    <3>3. CASE Draft.code.gate = "banned"
      BY <1>7, <3>3 DEF Judge, Banned
    <3>. QED
      BY <2>1, <3>1, <3>2, <3>3
  <2>4. DiffTypeOK'
    <3>1. DOMAIN Nothing = {}
      BY DEF Nothing
    <3>. QED
      BY <2>1, <2>2, <2>3, <3>1 DEF BuildRust, program, cache, DiffTypeOK
  <2>5. LoopIsBounded' /\ pc' \in Steps
    BY <2>1, <2>2, <2>3, JudgedBounded DEF LoopIsBounded, Steps
  <2>. QED
    BY <2>2, <2>4, <2>5
<1>8. ASSUME NEW batch \in SUBSET Inputs, NEW mishap \in Mishaps(batch),
             NEW unclean \in Losses(clean, batch), SelfTest(batch, mishap, unclean)
      PROVE  TypeInv'
  <2> DEFINE hit == HitsIn(RefAfter(batch, mishap), CandAfter(batch, mishap), batch)
  <2>1. /\ pc = "test" /\ ref' = RefAfter(batch, mishap) /\ cand' = CandAfter(batch, mishap)
        /\ clean' = Screened(clean, hit, unclean)
        /\ UNCHANGED <<program, oracle, built, client, recordings, requests, responses, reply>>
        /\ \E verdict : Judged(verdict)
    BY <1>8 DEF SelfTest, llmVars
  <2>2. hit \in SUBSET Inputs
    BY DEF HitsIn
  <2> HIDE DEF hit
  <2>3. Len(drafts) > 0 /\ built \in SUBSET Inputs
    BY <2>1, LastDraft, ProgramsAssumption DEF InTheLoop, DraftType
  <2>4. DiffTypeOK'
    BY <2>1, <2>2, <2>3, ExecutedTyped
  <2>. QED
    BY <2>1, <2>3, <2>4, JudgedBounded, SameTurn DEF RecordingsOK, Steps
<1>9. CASE Accept \/ GiveUp
  <2>1. /\ pc = "decide" /\ pc' = "return" /\ reply' \in {Len(drafts), Salvaged}
        /\ UNCHANGED <<diffVars, llmVars, requests, responses, drafts>>
    BY <1>9 DEF Accept, GiveUp, Return, llmVars
  <2>2. LoopIsBounded'
    BY <2>1, LastDraft DEF LoopIsBounded, Salvaged, DraftsType
  <2>. QED
    BY <2>1, <2>2, SameTurn DEF diffVars, program, cache, llmVars, DiffTypeOK, RecordingsOK, Steps
<1>10. CASE Answer \/ MinerRaises \/ RecordingRaises
  <2>1. /\ pc # "idle" /\ Close /\ UNCHANGED <<program, client, requests, drafts, reply>>
        /\ \E status \in {200, 404, 500}, code \in Programs \union {NoText} : Respond(status, code)
    <3>1. CASE Answer
      <4>1. reply # 0 => drafts[reply] \in DraftType
        BY DEF DraftsType, LoopIsBounded
      <4>2. (IF reply = 0 THEN NoText ELSE drafts[reply].code) \in Programs \union {NoText}
        BY <4>1 DEF DraftType
      <4>. QED
        BY <3>1, <4>2 DEF Answer, llmVars
    <3>2. CASE MinerRaises \/ RecordingRaises
      BY <3>2 DEF MinerRaises, RecordingRaises, Fails, llmVars
    <3>. QED
      BY <1>10, <3>1, <3>2
  <2>2. RecordingsOK'
    BY <1>10, RaisesTyped DEF Answer, MinerRaises, RecordingRaises, llmVars, RecordingsOK
  <2>. QED
    BY <2>1, <2>2, CloseTyped, RespondTyped DEF LoopIsBounded, Steps
<1>11. CASE UNCHANGED vars
  BY <1>11 DEF vars, diffVars, program, cache, llmVars, DiffTypeOK, RecordingsOK, AxonsInTurn,
     LoopIsBounded
<1>. QED
  BY <1>1, <1>2, <1>3, <1>4, <1>5, <1>6, <1>7, <1>8, <1>9, <1>10, <1>11 DEF Next, Work

(* For any axons, clients, programs and failures: a request gets one       *)
(* response per axon and no more, a handler drafts at most once and        *)
(* repairs at most max_repairs times, the draft it returns is one of its   *)
(* own, and a recording is an answer or cut short.                         *)
THEOREM TypeCorrect == Spec => []TypeOK
<1>1. IInv /\ TypeInv => TypeOK
  <2> SUFFICES ASSUME DraftsType, TypeInv PROVE TypeOK
      BY DEF IInv
  <2>1. ASSUME NEW k \in DOMAIN drafts
        PROVE  /\ [text |-> drafts[k].code, by |-> drafts[k].by] \in Answers
               /\ drafts[k].verdict \in VerdictType
    <3>1. drafts[k] \in DraftType
      BY DEF DraftsType
    <3>. QED
      BY <3>1 DEF DraftType, Answers
  <2>. QED
    BY <2>1, AxonsAssumption DEF TypeInv, TypeOK, RecordingsOK, AxonsInTurn, LoopIsBounded,
       DraftsType, VerdictType, Steps
<1>. QED
  BY InitLoop, StepLoop, InitType, StepType, <1>1, PTL DEF Spec

=============================================================================
