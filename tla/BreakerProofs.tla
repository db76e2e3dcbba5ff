--------------------------- MODULE BreakerProofs ----------------------------
(***************************************************************************)
(* What the breaker submits as a reproducer is one, and its answer is the  *)
(* one it owes: every hit and no input twice, the hits first. For any      *)
(* inputs, seeds, programs, launch failures and late executions.           *)
(***************************************************************************)
EXTENDS Breaker, FiniteSetTheorems, SequenceTheorems, TLAPS

(* An input the miner may use: C is not to blame for what it does there.   *)
Innocent(i) == i \notin crash /\ (oracle = "sanitized" => Valid(i))

(* What is remembered of either program is true of it.                     *)
CleanTrue == \A i \in DOMAIN clean : clean[i] => Innocent(i)
DiffersTrue ==
    /\ \A i \in DOMAIN cand : cand[i] = "differs" => i \in candidate
    /\ \A i \in DOMAIN cand : cand[i] \in {"same", "differs", "late"}
    /\ DOMAIN cand \subseteq DOMAIN ref

(* A hit stays one as long as its executions are cached.                   *)
HitsCached == found \union pending \union ({cur} \ {NoInput}) \subseteq DOMAIN cand

(* A hunt is for the candidate that was built, and only a hunt has hits at *)
(* hand.                                                                   *)
HuntsBuilt == pc = "hunt" => built = candidate
HitsInHunt == pending # {} \/ cur # NoInput => pc = "hunt"
NoHitsYet == pc \in {"start", "build"} => found = {}

IInv ==
    /\ CleanTrue /\ DiffersTrue /\ HuntsBuilt /\ HitsInHunt /\ NoHitsYet
    /\ HitsAreReal /\ HitsCached

-----------------------------------------------------------------------------
(* Screening keeps the memory of the sanitizer build true: a launch that   *)
(* failed is remembered as not clean.                                      *)
LEMMA ScreenedIsTrue ==
    ASSUME CleanTrue, NEW batch, NEW lost
    PROVE  \A i \in DOMAIN Screened(clean, batch, lost) :
               Screened(clean, batch, lost)[i] => Innocent(i)
  BY DEF Screened, CleanTrue, Innocent, Valid

(* A comparison keeps the memory of the candidate true, forgets no result  *)
(* and changes none, and the hits it finds are differences or late.        *)
LEMMA ComparedIsTrue ==
    ASSUME DiffersTrue, built = candidate, NEW batch, NEW mishap \in Mishaps(batch),
           ref' = RefAfter(batch, mishap), cand' = CandAfter(batch, mishap),
           candidate' = candidate
    PROVE  /\ DiffersTrue'
           /\ DOMAIN cand \subseteq DOMAIN cand'
           /\ Late \intersect DOMAIN cand \subseteq Late'
           /\ HitsIn(ref', cand', batch) \subseteq DOMAIN cand'
           /\ HitsIn(ref', cand', batch) \subseteq candidate' \union Late'
<1> DEFINE new == batch \ DOMAIN cand
<1>1. /\ mishap.lost \intersect DOMAIN cand = {} /\ mishap.lost \subseteq batch
      /\ mishap.ref \intersect DOMAIN ref = {}
  BY DEF Mishaps
<1>2. /\ DOMAIN ref' = (DOMAIN ref \union batch) \ mishap.lost
      /\ DOMAIN cand' = (DOMAIN cand \union batch) \ mishap.lost
      /\ \A i \in DOMAIN ref' : i \in DOMAIN ref => ref'[i] = ref[i]
      /\ \A i \in DOMAIN cand' : i \in DOMAIN cand => cand'[i] = cand[i]
      /\ \A i \in DOMAIN cand' : i \notin DOMAIN cand =>
            /\ cand'[i] \in {"same", "differs", "late"}
            /\ cand'[i] = "differs" => i \in candidate
  BY DEF RefAfter, CandAfter, Executed
<1>3. DiffersTrue'
  BY <1>1, <1>2 DEF DiffersTrue
<1>4. DOMAIN cand \subseteq DOMAIN cand'
  BY <1>1, <1>2
<1>5. Late \intersect DOMAIN cand \subseteq Late'
  BY <1>1, <1>2 DEF Late, DiffersTrue
<1>6. HitsIn(ref', cand', batch) \subseteq candidate' \union Late'
  BY <1>3 DEF HitsIn, DiffersTrue, Late
<1>. QED
  BY <1>3, <1>4, <1>5, <1>6 DEF HitsIn

LEMMA InitHits == Init => IInv
  BY DEF Init, IInv, CleanTrue, DiffersTrue, HuntsBuilt, HitsInHunt, NoHitsYet, HitsAreReal,
         HitsCached, Nothing

(* Every step keeps the invariant: a hit comes from a comparison with the  *)
(* candidate under attack and a look at the sanitizer build, and stays one *)
(* while it is shrunk.                                                     *)
LEMMA StepHits == IInv /\ [Next]_vars => IInv'
<1> SUFFICES ASSUME IInv, [Next]_vars PROVE IInv'
    OBVIOUS
<1> USE DEF IInv, HuntsBuilt, HitsInHunt, NoHitsYet
<1>1. ASSUME NEW left \in Oracles, Start(left) PROVE IInv'
  <2>1. found = {} /\ pending = {} /\ cur = NoInput
    BY <1>1 DEF Start
  <2>. QED
    BY <1>1, <2>1 DEF Start, BuildOracle, Nothing, CleanTrue, DiffersTrue, HitsAreReal, HitsCached
<1>2. CASE Build
  <2>1. found = {} /\ pending = {} /\ cur = NoInput
    BY <1>2 DEF Build
  <2>. QED
    BY <1>2, <2>1 DEF Build, BuildRust, Nothing, CleanTrue, DiffersTrue, HitsAreReal,
                      HitsCached, Innocent, Valid, program
<1>3. ASSUME NEW batch \in Batches, Probe(batch) PROVE IInv'
  <2> DEFINE fresh == batch \ seen
             hits == HitsIn(ref', cand', fresh)
  <2>1. PICK mishap \in Mishaps(fresh), unclean \in Losses(clean, fresh) :
            Absorb(fresh, mishap, unclean)
    BY <1>3 DEF Probe
  <2>2. /\ ref' = RefAfter(fresh, mishap) /\ cand' = CandAfter(fresh, mishap)
        /\ clean' = Screened(clean, hits, unclean)
        /\ pending' = {i \in hits : clean'[i]}
    BY <2>1 DEF Absorb, Clear
  <2>3. /\ UNCHANGED <<ub, crash, oracle, built, candidate, pc, cur, found>>
        /\ pc = "hunt" /\ built = candidate /\ cur = NoInput
    BY <1>3 DEF Probe, program
  <2>4. /\ DiffersTrue' /\ DOMAIN cand \subseteq DOMAIN cand'
        /\ Late \intersect DOMAIN cand \subseteq Late'
        /\ hits \subseteq DOMAIN cand' /\ hits \subseteq candidate' \union Late'
    BY <2>2, <2>3, ComparedIsTrue
  <2>5. \A i \in DOMAIN clean' : clean'[i] => Innocent(i)
    BY <2>2, ScreenedIsTrue
  <2>6. hits \subseteq DOMAIN clean'
    BY <2>2 DEF Screened
  <2>7. \A i \in pending' : i \in candidate \union Late' /\ i \in DOMAIN cand' /\ Innocent(i)
    BY <2>2, <2>3, <2>4, <2>5, <2>6
  <2>8. CleanTrue'
    BY <2>3, <2>5 DEF CleanTrue, Innocent, Valid
  <2>9. HitsAreReal' /\ HitsCached'
    BY <2>3, <2>4, <2>7 DEF HitsAreReal, HitsCached, Innocent, Valid
  <2>. QED
    BY <2>3, <2>4, <2>8, <2>9
<1>4. ASSUME NEW i \in Inputs, KeepHit(i) PROVE IInv'
  BY <1>4 DEF KeepHit, diffVars, cache, program, CleanTrue, DiffersTrue, HitsAreReal,
       HitsCached, Late, Innocent, Valid
<1>5. ASSUME NEW i \in Inputs, MinimizeStart(i) PROVE IInv'
  BY <1>5 DEF MinimizeStart, diffVars, cache, program, CleanTrue, DiffersTrue, HitsAreReal,
       HitsCached, Late, Innocent, Valid
<1>6. ASSUME NEW trial \in Inputs, Trial(trial) PROVE IInv'
  <2>1. /\ UNCHANGED <<ub, crash, oracle, built, candidate, pc, pending, found>>
        /\ cur # NoInput /\ pc = "hunt" /\ built = candidate
    BY <1>6 DEF Trial, program
  <2>2. PICK unclean \in Losses(clean, {trial}) : clean' = Screened(clean, {trial}, unclean)
    BY <1>6 DEF Trial
  <2>3. /\ \A i \in DOMAIN clean' : clean'[i] => Innocent(i)
        /\ trial \in DOMAIN clean'
    BY <2>2, ScreenedIsTrue DEF Screened
  <2>4. CleanTrue'
    BY <2>1, <2>3 DEF CleanTrue, Innocent, Valid
  <2>5. CASE ~ StillBad(trial, clean')
    <3>1. UNCHANGED <<ref, cand, cur>>
      BY <1>6, <2>5 DEF Trial
    <3>. QED
      BY <2>1, <2>4, <3>1 DEF DiffersTrue, HitsAreReal, HitsCached, Late, Innocent, Valid
  <2>6. CASE StillBad(trial, clean')
    <3>1. PICK mishap \in Mishaps({trial}) :
              /\ ref' = RefAfter({trial}, mishap)
              /\ cand' = CandAfter({trial}, mishap)
              /\ cur' = IF HitsIn(ref', cand', {trial}) # {} THEN trial ELSE cur
      BY <1>6, <2>6 DEF Trial
    <3>2. /\ DiffersTrue' /\ DOMAIN cand \subseteq DOMAIN cand'
          /\ Late \intersect DOMAIN cand \subseteq Late'
          /\ HitsIn(ref', cand', {trial}) \subseteq DOMAIN cand'
          /\ HitsIn(ref', cand', {trial}) \subseteq candidate' \union Late'
      BY <2>1, <3>1, ComparedIsTrue
    <3>3. cur' # cur => /\ cur' \in candidate \union Late' /\ cur' \in DOMAIN cand'
                        /\ Innocent(cur')
      <4>1. cur' # cur => cur' = trial /\ trial \in HitsIn(ref', cand', {trial})
        BY <3>1 DEF HitsIn
      <4>. QED
        BY <2>1, <2>3, <2>6, <3>2, <4>1 DEF StillBad
    <3>. QED
      BY <2>1, <2>4, <3>2, <3>3 DEF HitsAreReal, HitsCached, Innocent, Valid
  <2>. QED
    BY <2>5, <2>6
<1>7. CASE MinimizeEnd
  BY <1>7 DEF MinimizeEnd, diffVars, cache, program, CleanTrue, DiffersTrue, HitsAreReal,
       HitsCached, Late, Innocent, Valid
<1>8. CASE HuntEnd
  BY <1>8 DEF HuntEnd, diffVars, cache, program, CleanTrue, DiffersTrue, HitsAreReal,
       HitsCached, Late, Innocent, Valid
<1>9. CASE FillUp
  <2>1. /\ UNCHANGED <<ub, crash, oracle, built, ref, cand, candidate, pending, cur, found>>
        /\ pc = "fill" /\ pc' = "done"
    BY <1>9 DEF FillUp, program
  <2>2. \A i \in DOMAIN clean' : clean'[i] => Innocent(i)
    <3>1. CASE Cardinality(found) < Count
      <4>1. PICK unclean \in Losses(clean, Probes) : clean' = Screened(clean, Probes, unclean)
        BY <1>9, <3>1 DEF FillUp
      <4>. QED
        BY <4>1, ScreenedIsTrue
    <3>2. CASE ~ (Cardinality(found) < Count)
      BY <1>9, <3>2 DEF FillUp, CleanTrue
    <3>. QED
      BY <3>1, <3>2
  <2>. QED
    BY <2>1, <2>2 DEF CleanTrue, DiffersTrue, HitsAreReal,
       HitsCached, Late, Innocent, Valid
<1>10. CASE FillUpBlind
  BY <1>10 DEF FillUpBlind, diffVars, cache, program, CleanTrue, DiffersTrue, HitsAreReal,
       HitsCached, Late, Innocent, Valid
<1>11. CASE UNCHANGED vars
  BY <1>11 DEF vars, diffVars, cache, program, CleanTrue, DiffersTrue, HitsAreReal,
       HitsCached, Late, Innocent, Valid
<1>. QED
  BY <1>1, <1>2, <1>3, <1>4, <1>5, <1>6, <1>7, <1>8, <1>9, <1>10, <1>11 DEF Next

(* Whatever the seeds and mutants, the programs and the launch failures, a *)
(* reproducer is an input on which the candidate of this challenge differs *)
(* or one of the programs was late, and on which the C program does not    *)
(* crash and, where the sanitizers could be built, is defined.             *)
THEOREM ReproducersAreReal == Spec => []HitsAreReal
<1>1. IInv => HitsAreReal
  BY DEF IInv
<1>. QED
  BY InitHits, StepHits, <1>1, PTL DEF Spec

-----------------------------------------------------------------------------
(* The answer.  First what sorting and cutting do to inputs.               *)

(* A sequence without repetitions has as many elements as places.          *)
LEMMA DistinctElements ==
    ASSUME NEW S, NEW s \in Seq(S), \A i, j \in 1 .. Len(s) : s[i] = s[j] => i = j
    PROVE  Cardinality({s[k] : k \in DOMAIN s}) = Len(s)
<1> DEFINE T == {s[k] : k \in DOMAIN s}
<1>1. s \in [1 .. Len(s) -> T] /\ Len(s) \in Nat
  OBVIOUS
<1>2. s \in Injection(1 .. Len(s), T)
  BY <1>1 DEF Injection, IsInjective
<1>3. s \in Surjection(1 .. Len(s), T)
  BY <1>1 DEF Surjection
<1>4. s \in Bijection(1 .. Len(s), T)
  BY <1>2, <1>3 DEF Bijection
<1>5. ExistsBijection(1 .. Len(s), T)
  BY <1>4 DEF ExistsBijection
<1>. QED
  BY <1>1, <1>5, FS_CountingElements

(* The elements of a finite set of numbers can be put in order: each goes  *)
(* to the place that counts the elements up to it.                         *)
LEMMA OrderExists ==
    ASSUME NEW S \in SUBSET Nat, IsFiniteSet(S)
    PROVE  \E s \in [1 .. Cardinality(S) -> S] :
              \A i, j \in DOMAIN s : i < j => s[i] < s[j]
<1> DEFINE n == Cardinality(S)
           UpTo(x) == {y \in S : y <= x}
           rank == [x \in S |-> Cardinality(UpTo(x))]
<1>1. n \in Nat
  BY FS_CardinalityType
<1>2. ASSUME NEW x \in S PROVE rank[x] \in 1 .. n
  <2>1. IsFiniteSet(UpTo(x)) /\ Cardinality(UpTo(x)) <= n
    BY FS_Subset
  <2>2. Cardinality(UpTo(x)) \in Nat /\ (Cardinality(UpTo(x)) = 0 <=> UpTo(x) = {})
    BY <2>1, FS_CardinalityType, FS_EmptySet
  <2>3. x \in UpTo(x)
    OBVIOUS
  <2>. QED
    BY <1>1, <2>1, <2>2, <2>3
<1>3. ASSUME NEW x \in S, NEW y \in S, x < y PROVE rank[x] < rank[y]
  <2>1. UpTo(x) \subseteq UpTo(y) /\ y \in UpTo(y) /\ y \notin UpTo(x)
    <3>1. y <= y /\ ~ (y <= x) /\ \A z \in S : z <= x => z <= y
      BY <1>3
    <3>. QED
      BY <3>1
  <2>2. IsFiniteSet(UpTo(y))
    BY FS_Subset
  <2>3. /\ Cardinality(UpTo(x)) <= Cardinality(UpTo(y))
        /\ Cardinality(UpTo(x)) # Cardinality(UpTo(y))
    BY <2>1, <2>2, FS_Subset
  <2>. QED
    BY <1>2, <2>3
<1> HIDE DEF rank
<1>4. \A x, y \in S : rank[x] = rank[y] => x = y
  BY <1>2, <1>3
<1>5. rank \in Injection(S, 1 .. n)
  BY <1>2, <1>4 DEF Injection, IsInjective, rank
<1>6. IsFiniteSet(1 .. n) /\ Cardinality(1 .. n) = n
  BY <1>1, FS_Interval
<1>7. rank \in Surjection(S, 1 .. n)
  BY <1>5, <1>6, FS_Injection
<1>8. \A i \in 1 .. n : \E x \in S : rank[x] = i
  BY <1>7 DEF Surjection
<1> DEFINE order == [i \in 1 .. n |-> CHOOSE x \in S : rank[x] = i]
<1>9. \A i \in 1 .. n : order[i] \in S /\ rank[order[i]] = i
  BY <1>8
<1>10. ASSUME NEW i \in 1 .. n, NEW j \in 1 .. n, i < j PROVE order[i] < order[j]
  <2> HIDE DEF order
  <2>1. order[i] \in Nat /\ order[j] \in Nat
    BY <1>9
  <2>2. order[j] # order[i]
    BY <1>9, <1>10
  <2>3. ~ (order[j] < order[i])
    <3> SUFFICES ASSUME order[j] < order[i] PROVE FALSE
      OBVIOUS
    <3>1. rank[order[j]] < rank[order[i]]
      BY <1>3, <1>9
    <3>. QED
      BY <1>9, <1>10, <3>1
  <2>. QED
    BY <2>1, <2>2, <2>3
<1>. QED
  BY <1>9, <1>10

LEMMA SortedInOrder ==
    ASSUME NEW S \in SUBSET Nat, IsFiniteSet(S)
    PROVE  /\ Sorted(S) \in Seq(S)
           /\ Len(Sorted(S)) = Cardinality(S) /\ Cardinality(S) \in Nat
           /\ \A i, j \in 1 .. Cardinality(S) : i < j => Sorted(S)[i] < Sorted(S)[j]
           /\ \A x \in S : \E i \in 1 .. Cardinality(S) : Sorted(S)[i] = x
<1> DEFINE n == Cardinality(S)
           s == Sorted(S)
<1>1. /\ s \in [1 .. n -> S]
      /\ \A i, j \in DOMAIN s : i < j => s[i] < s[j]
  BY OrderExists DEF Sorted
<1>2. n \in Nat
  BY FS_CardinalityType
<1> HIDE DEF s
<1>3. s \in Seq(S) /\ Len(s) = n
  BY <1>1, <1>2
<1>4. s \in Injection(1 .. n, S)
  <2>1. \A i, j \in 1 .. n : s[i] = s[j] => i = j
    <3> SUFFICES ASSUME NEW i \in 1 .. n, NEW j \in 1 .. n, s[i] = s[j], i < j PROVE FALSE
      BY <1>2
    <3>1. s[i] < s[j] /\ s[i] \in Nat
      BY <1>1
    <3>. QED
      BY <3>1
  <2>. QED
    BY <1>1, <2>1 DEF Injection, IsInjective
<1>5. Cardinality(1 .. n) = n
  BY <1>2, FS_Interval
<1>6. s \in Surjection(1 .. n, S)
  BY <1>4, <1>5, FS_Injection
<1>7. \A x \in S : \E i \in 1 .. n : s[i] = x
  BY <1>6 DEF Surjection
<1>. QED
  BY <1>1, <1>2, <1>3, <1>7 DEF s

LEMMA UptoPrefix ==
    ASSUME NEW S, NEW s \in Seq(S), NEW n \in Nat
    PROVE  /\ Upto(n, s) \in Seq(S)
           /\ Len(Upto(n, s)) = IF n < Len(s) THEN n ELSE Len(s)
           /\ \A k \in 1 .. Len(Upto(n, s)) : Upto(n, s)[k] = s[k]
  BY DEF Upto

(* The first n of a set of inputs, smallest first: none twice, and one     *)
(* that is left out is larger than each that is in, and only if there are  *)
(* n of them.                                                              *)
LEMMA SmallestFirst ==
    ASSUME NEW S \in SUBSET Inputs, NEW n \in Nat
    PROVE  LET a == Upto(n, Sorted(S))
               sent == {a[k] : k \in DOMAIN a}
           IN  /\ a \in Seq(S) /\ Len(a) <= n /\ sent \subseteq S
               /\ \A i, j \in 1 .. Len(a) : a[i] = a[j] => i = j
               /\ \A i \in S : i \in sent \/ (Len(a) = n /\ \A j \in sent : j < i)
               /\ Cardinality(S) \in Nat
               /\ Len(a) = IF n < Cardinality(S) THEN n ELSE Cardinality(S)
<1> DEFINE a == Upto(n, Sorted(S))
           c == Cardinality(S)
           sent == {a[k] : k \in DOMAIN a}
<1>1. S \in SUBSET Nat /\ IsFiniteSet(S)
  BY InputsAssumption, FS_Subset
<1>2. /\ Sorted(S) \in Seq(S)
      /\ Len(Sorted(S)) = c /\ c \in Nat
      /\ \A i, j \in 1 .. c : i < j => Sorted(S)[i] < Sorted(S)[j]
      /\ \A x \in S : \E i \in 1 .. c : Sorted(S)[i] = x
  BY <1>1, SortedInOrder
<1>3. /\ a \in Seq(S)
      /\ Len(a) = IF n < c THEN n ELSE c
      /\ \A k \in 1 .. Len(a) : a[k] = Sorted(S)[k]
  BY <1>2, UptoPrefix
<1> HIDE DEF a, c
<1>4. /\ Len(a) \in Nat /\ Len(a) <= n /\ Len(a) <= c /\ DOMAIN a = 1 .. Len(a)
      /\ \A k \in 1 .. Len(a) : a[k] \in S
  BY <1>2, <1>3
<1>5. ASSUME NEW i \in 1 .. Len(a), NEW j \in 1 .. Len(a), a[i] = a[j] PROVE i = j
  <2>1. i \in 1 .. c /\ j \in 1 .. c
    BY <1>2, <1>4
  <2>2. Sorted(S)[i] = Sorted(S)[j] /\ Sorted(S)[i] \in Nat
    BY <1>1, <1>3, <1>4, <1>5
  <2>3. ~ (i < j)
    BY <1>2, <2>1, <2>2
  <2>4. ~ (j < i)
    BY <1>2, <2>1, <2>2
  <2>. QED
    BY <2>1, <2>3, <2>4
<1>6. ASSUME NEW x \in S, x \notin sent PROVE Len(a) = n /\ \A j \in sent : j < x
  <2>1. PICK i \in 1 .. c : Sorted(S)[i] = x
    BY <1>2
  <2>2. i \notin 1 .. Len(a)
    BY <1>3, <1>4, <1>6, <2>1
  <2>3. Len(a) = n /\ \A k \in 1 .. Len(a) : k \in 1 .. c /\ k < i
    BY <1>2, <1>3, <1>4, <2>2
  <2>4. \A k \in 1 .. Len(a) : a[k] < x
    BY <1>2, <1>3, <2>1, <2>3
  <2>. QED
    BY <1>4, <2>3, <2>4
<1>. QED
  BY <1>2, <1>3, <1>4, <1>5, <1>6 DEF a, c

(* What the inputs at hand are, and when there are any; AnswerFits itself  *)
(* is about the last step only.                                            *)
AtHand == found \union pending \union ({cur} \ {NoInput})

AnswerInv ==
    /\ AtHand \subseteq Inputs
    /\ AtHand # {} => Count # 0
    /\ oracle = "none" => found = {} /\ pc \notin {"build", "hunt"}
    /\ AnswerFits

(* The steps before the last.                                              *)
LEMMA HuntAnswer ==
    ASSUME IInv, AnswerInv, pc' # "done",
           AtHand' \subseteq AtHand \/ (AtHand' \subseteq AtHand \union Inputs /\ Count # 0),
           oracle' = "none" => found' = {} /\ pc' \notin {"build", "hunt"}
    PROVE  AnswerInv'
  BY DEF AnswerInv, AnswerFits

(* The answer of a miner with an oracle that found less than was asked for *)
(* is all of it, then clean probes.                                        *)
LEMMA AnswerFilled ==
    ASSUME IInv, AnswerInv, oracle # "none", Cardinality(found) < Count,
           NEW unclean, NEW known, known = Screened(clean, Probes, unclean),
           answer' = Submission(known), UNCHANGED <<found, oracle, ub, crash>>
    PROVE  AnswerFits'
<1> DEFINE hits == Upto(Count, Sorted(found))
           fill == {i \in Probes : known[i]} \ {hits[k] : k \in DOMAIN hits}
           room == Count - Len(hits)
           more == Upto(room, Sorted(fill))
           sent == {answer'[k] : k \in DOMAIN answer'}
<1>1. found \in SUBSET Inputs
  BY DEF AnswerInv, AtHand
<1>2. /\ hits \in Seq(found) /\ Len(hits) <= Count /\ {hits[k] : k \in DOMAIN hits} \subseteq found
      /\ \A i, j \in 1 .. Len(hits) : hits[i] = hits[j] => i = j
      /\ \A i \in found : i \in {hits[k] : k \in DOMAIN hits}
                          \/ (Len(hits) = Count /\ \A j \in {hits[k] : k \in DOMAIN hits} : j < i)
      /\ Cardinality(found) \in Nat
      /\ Len(hits) = IF Count < Cardinality(found) THEN Count ELSE Cardinality(found)
  BY <1>1, CountAssumption, SmallestFirst
<1>3. Probes \subseteq Inputs
  <2>1. Seeds \in SUBSET Inputs /\ 3 * Count \in Nat
    BY SeedsAssumption, CountAssumption
  <2>2. {Upto(3 * Count, Sorted(Seeds))[k] : k \in DOMAIN Upto(3 * Count, Sorted(Seeds))} \subseteq Seeds
    BY <2>1, SmallestFirst
  <2>. QED
    BY <2>1, <2>2 DEF Probes
<1>4. answer' = hits \o more
  BY DEF Submission
<1>5. fill \in SUBSET Inputs /\ room \in Nat
  BY <1>2, <1>3, CountAssumption
<1>6. \A i \in fill : i \notin found /\ Innocent(i)
  <2>1. \A i \in fill : i \notin found
    BY <1>2, CountAssumption
  <2>2. ASSUME NEW i \in fill PROVE Innocent(i)
    <3>1. i \in DOMAIN known /\ known[i]
      BY DEF Screened
    <3>. QED
      BY <3>1, ScreenedIsTrue DEF IInv
  <2>. QED
    BY <2>1, <2>2
<1> HIDE DEF hits, fill, room
<1>7. /\ more \in Seq(fill) /\ Len(more) <= room
      /\ \A i, j \in 1 .. Len(more) : more[i] = more[j] => i = j
  BY <1>5, SmallestFirst
<1> HIDE DEF more, sent
<1>8. /\ answer' \in Seq(Inputs) /\ Len(answer') = Len(hits) + Len(more)
      /\ \A k \in 1 .. Len(answer') : answer'[k] = IF k <= Len(hits) THEN hits[k] ELSE more[k - Len(hits)]
      /\ Len(hits) \in Nat /\ Len(more) \in Nat
  <2>1. hits \in Seq(Inputs) /\ more \in Seq(Inputs)
    BY <1>1, <1>2, <1>5, <1>7
  <2>. QED
    BY <1>4, <2>1
<1>9. /\ \A k \in 1 .. Len(hits) : hits[k] \in found
      /\ \A k \in 1 .. Len(more) : more[k] \in fill
  BY <1>2, <1>7
<1>10. \A k \in 1 .. Len(answer') :
           /\ k <= Len(hits) => k \in 1 .. Len(hits) /\ answer'[k] \in found
           /\ ~ (k <= Len(hits)) => k - Len(hits) \in 1 .. Len(more) /\ answer'[k] \in fill
  <2>1. ASSUME NEW k \in 1 .. Len(answer'), k <= Len(hits)
        PROVE  k \in 1 .. Len(hits) /\ answer'[k] \in found
    <3>1. k \in 1 .. Len(hits)
      BY <1>8, <2>1
    <3>. QED
      BY <1>8, <1>9, <2>1, <3>1
  <2>2. ASSUME NEW k \in 1 .. Len(answer'), ~ (k <= Len(hits))
        PROVE  k - Len(hits) \in 1 .. Len(more) /\ answer'[k] \in fill
    <3>1. k - Len(hits) \in 1 .. Len(more)
      BY <1>8, <2>2
    <3>2. answer'[k] = more[k - Len(hits)]
      BY <1>8, <2>2
    <3>. QED
      BY <1>9, <3>1, <3>2
  <2>. QED
    BY <2>1, <2>2
<1>11. Len(answer') <= Count
  BY <1>2, <1>7, <1>8, CountAssumption DEF room
<1>12. ASSUME NEW i \in 1 .. Len(answer'), NEW j \in 1 .. Len(answer'), answer'[i] = answer'[j]
       PROVE  i = j
  <2>1. CASE i <= Len(hits) /\ j <= Len(hits)
    BY <1>2, <1>8, <1>12, <1>10, <2>1
  <2>2. CASE ~ (i <= Len(hits)) /\ ~ (j <= Len(hits))
    <3>1. more[i - Len(hits)] = more[j - Len(hits)]
      BY <1>8, <1>12, <2>2
    <3>2. i - Len(hits) = j - Len(hits)
      BY <1>7, <1>10, <2>2, <3>1
    <3>. QED
      BY <1>8, <3>2
  <2>3. CASE (i <= Len(hits)) # (j <= Len(hits))
    BY <1>6, <1>12, <1>10, <2>3
  <2>. QED
    BY <2>1, <2>2, <2>3
<1>13. Cardinality(sent) = Len(answer')
  BY <1>8, <1>12, DistinctElements DEF sent
<1>14. \A i \in found : i \in sent
  <2>1. ASSUME NEW i \in found PROVE i \in {hits[k] : k \in DOMAIN hits}
    BY <1>2, CountAssumption
  <2>2. ASSUME NEW k \in 1 .. Len(hits) PROVE hits[k] \in sent
    <3>1. k \in 1 .. Len(answer') /\ answer'[k] = hits[k]
      BY <1>8
    <3>. QED
      BY <1>8, <3>1 DEF sent
  <2>. QED
    BY <1>2, <2>1, <2>2
<1>15. found # {} => answer'[1] \in found
  <2>1. found # {} => Len(hits) # 0
    <3>1. found # {} => Cardinality(found) # 0
      BY <1>1, InputsAssumption, FS_Subset, FS_EmptySet
    <3>. QED
      BY <1>2, <3>1, CountAssumption
  <2>2. Len(hits) # 0 => 1 \in 1 .. Len(answer') /\ answer'[1] = hits[1] /\ hits[1] \in found
    BY <1>2, <1>8
  <2>. QED
    BY <2>1, <2>2
<1>16. oracle = "sanitized" => \A i \in sent : Valid(i)
  <2>1. \A i \in sent : i \in found \/ i \in fill
    BY <1>8, <1>10 DEF sent
  <2>2. oracle = "sanitized" => \A i \in found : Valid(i)
    BY DEF IInv, HitsAreReal
  <2>. QED
    BY <1>6, <2>1, <2>2 DEF Innocent
<1>. QED
  BY <1>11, <1>13, <1>14, <1>15, <1>16 DEF AnswerFits, sent, Valid

(* Otherwise it is the smallest of what was found, or unscreened probes if *)
(* there was nothing to find out with.                                     *)
LEMMA AnswerCut ==
    ASSUME IInv, AnswerInv, NEW S \in SUBSET Inputs, answer' = Upto(Count, Sorted(S)),
           S = found \/ (found = {} /\ oracle # "sanitized"),
           UNCHANGED <<found, oracle, ub, crash>>
    PROVE  AnswerFits'
<1> DEFINE a == Upto(Count, Sorted(S))
           sent == {a[k] : k \in DOMAIN a}
<1>1. /\ a \in Seq(S) /\ Len(a) <= Count /\ sent \subseteq S
      /\ \A i, j \in 1 .. Len(a) : a[i] = a[j] => i = j
      /\ \A i \in S : i \in sent \/ (Len(a) = Count /\ \A j \in sent : j < i)
      /\ Cardinality(S) \in Nat
      /\ Len(a) = IF Count < Cardinality(S) THEN Count ELSE Cardinality(S)
  BY CountAssumption, SmallestFirst
<1>2. Cardinality(sent) = Len(a)
  <2> HIDE DEF a
  <2>. QED
    BY <1>1, DistinctElements
<1>3. \A i \in found : i \in sent \/ \A j \in sent : j \in found /\ j < i
  BY <1>1
<1>4. found # {} => a[1] \in found
  <2> SUFFICES ASSUME found # {} PROVE a[1] \in found
    OBVIOUS
  <2>1. S = found /\ Cardinality(S) # 0 /\ Count # 0
    BY InputsAssumption, FS_Subset, FS_EmptySet DEF AnswerInv, AtHand
  <2> HIDE DEF a
  <2>. QED
    BY <1>1, <2>1, CountAssumption
<1>5. oracle = "sanitized" => \A i \in sent : Valid(i)
  BY <1>1 DEF IInv, HitsAreReal
<1> HIDE DEF a
<1>6. answer' = a
  BY DEF a
<1>. QED
  BY <1>1, <1>2, <1>3, <1>4, <1>5, <1>6 DEF AnswerFits, Valid

LEMMA InitAnswer == Init => AnswerInv
  BY DEF Init, AnswerInv, AtHand, AnswerFits

LEMMA StepAnswer == IInv /\ AnswerInv /\ [Next]_vars => AnswerInv'
<1> SUFFICES ASSUME IInv, AnswerInv, [Next]_vars PROVE AnswerInv'
  OBVIOUS
<1>1. ASSUME NEW left \in Oracles, Start(left) PROVE AnswerInv'
  <2>1. /\ found' = found /\ found = {} /\ AtHand' = AtHand /\ oracle' = left
        /\ pc' = IF left = "none" THEN "fill" ELSE "build"
    BY <1>1 DEF Start, BuildOracle, AtHand, IInv, NoHitsYet
  <2>. QED
    BY <2>1, HuntAnswer
<1>2. CASE Build
  <2>1. /\ found' = found /\ AtHand' = AtHand /\ oracle' = oracle
        /\ pc = "build" /\ pc' \in {"fill", "hunt"}
    BY <1>2 DEF Build, AtHand
  <2>. QED
    BY <2>1, HuntAnswer DEF AnswerInv
<1>3. ASSUME NEW batch \in Batches, Probe(batch) PROVE AnswerInv'
  <2>1. /\ UNCHANGED <<oracle, pc, cur, found>> /\ pc = "hunt"
        /\ Cardinality(found) < Count
    BY <1>3 DEF Probe
  <2>2. pending' \subseteq Inputs
    BY <1>3 DEF Probe, Absorb, Clear, HitsIn, Batches
  <2>3. Count # 0
    <3>1. Cardinality(found) \in Nat
      BY InputsAssumption, FS_Subset, FS_CardinalityType DEF AnswerInv, AtHand
    <3>. QED
      BY <2>1, <3>1
  <2>4. AtHand' \subseteq AtHand \union Inputs
    BY <2>1, <2>2 DEF AtHand
  <2>. QED
    BY <2>1, <2>3, <2>4, HuntAnswer DEF AnswerInv
<1>4. ASSUME NEW i \in Inputs, KeepHit(i) \/ MinimizeStart(i) \/ Trial(i) \/ MinimizeEnd
      PROVE  AnswerInv'
  <2>1. pc = "hunt" /\ UNCHANGED <<oracle, pc>> /\ AtHand # {}
    BY <1>4 DEF KeepHit, MinimizeStart, Trial, MinimizeEnd, diffVars, IInv, HitsInHunt, AtHand
  <2>2. AtHand' \subseteq AtHand \union Inputs
    BY <1>4 DEF KeepHit, MinimizeStart, Trial, MinimizeEnd, AtHand
  <2>. QED
    BY <2>1, <2>2, HuntAnswer DEF AnswerInv
<1>5. CASE HuntEnd
  <2>1. AtHand' = AtHand /\ found' = found /\ oracle' = oracle /\ pc' = "fill"
    BY <1>5 DEF HuntEnd, AtHand, diffVars
  <2>. QED
    BY <2>1, HuntAnswer DEF AnswerInv
<1>6. CASE FillUp \/ FillUpBlind
  <2>1. /\ UNCHANGED <<oracle, found, pending, cur, ub, crash>>
        /\ pc' = "done" /\ found \in SUBSET Inputs
    BY <1>6 DEF FillUp, FillUpBlind, diffVars, program, AnswerInv, AtHand
  <2>2. AnswerFits'
    <3>1. CASE FillUp
      <4>1. CASE Cardinality(found) < Count
        <5>1. PICK unclean \in Losses(clean, Probes) :
                 /\ clean' = Screened(clean, Probes, unclean)
                 /\ answer' = Submission(clean')
          BY <3>1, <4>1 DEF FillUp
        <5>2. oracle # "none"
          BY <3>1 DEF FillUp
        <5>. QED
          BY <2>1, <4>1, <5>1, <5>2, AnswerFilled
      <4>2. CASE ~ (Cardinality(found) < Count)
        BY <2>1, <3>1, <4>2, AnswerCut DEF FillUp
      <4>. QED
        BY <4>1, <4>2
    <3>2. CASE FillUpBlind
      <4>1. oracle = "none" /\ answer' = Upto(Count, Sorted(Seeds)) /\ found = {}
        BY <3>2 DEF FillUpBlind, AnswerInv
      <4>. QED
        BY <2>1, <4>1, SeedsAssumption, AnswerCut
    <3>. QED
      BY <1>6, <3>1, <3>2
  <2>. QED
    BY <2>1, <2>2 DEF AnswerInv, AtHand
<1>7. CASE UNCHANGED vars
  BY <1>7 DEF vars, diffVars, program, AnswerInv, AtHand, AnswerFits, Valid
<1>8. CASE MinimizeEnd
  <2>1. \E i \in Inputs : TRUE
    BY <1>8 DEF MinimizeEnd, AnswerInv, AtHand
  <2>. QED
    BY <1>4, <1>8, <2>1
<1>. QED
  BY <1>1, <1>2, <1>3, <1>4, <1>5, <1>6, <1>7, <1>8 DEF Next

(* For any inputs, seeds, programs, failed launches and number of inputs   *)
(* asked for, the answer is no longer than that, has no input twice, leads *)
(* with the smallest reproducers and leaves out none it has room for; and  *)
(* where the sanitizers could be built, nothing in it can be charged for.  *)
THEOREM AnswersFit == Spec => []AnswerFits
<1>1. AnswerInv => AnswerFits
  BY DEF AnswerInv
<1>. QED
  BY InitHits, StepHits, InitAnswer, StepAnswer, <1>1, PTL DEF Spec

=============================================================================
