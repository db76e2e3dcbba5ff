-------------------------- MODULE ValidatorProofs --------------------------
(***************************************************************************)
(* Proofs about module Validator, for any metagraph, any lineup and any    *)
(* number of rounds: what the ledger records was weighed, a row of         *)
(* rounds.jsonl names the record of its own round, and the server finds    *)
(* the row of a round of the running process under its id.  Where line-ups *)
(* number the neurons as the metagraph does, the chain pays who earned it  *)
(* and the leaderboard shows what is on chain.                             *)
(***************************************************************************)
EXTENDS Validator, SequenceTheorems, WellFoundedInduction, TLAPS

(* The shapes of what rounds leave behind.                                 *)
RowType == [serial : Nat, round_id : Nat, ledger : Nat, weights : SUBSET Hotkeys]
Line == RowType \union {Torn}

FilesOK ==
    /\ ledger \in Seq([serial : Nat, round_id : Nat])
    /\ rows \in Seq(Line)
    /\ ended \in BOOLEAN
    /\ ended \/ rows # << >>
    /\ chain_entry \in Nat
    /\ serial \in Nat
    /\ round_id \in Nat
    /\ total_rounds \in Nat
    /\ since \in Nat

(* Weights are set two stages before the record is written.                *)
WeighedInTime == stage \in {"put", "commit", "log", "end"} => serial \in weighed

(* The height a round is about to log is that of its own record.           *)
EntryIsOurs ==
    stage = "log" /\ chain_entry # 0 =>
        /\ chain_entry \in DOMAIN ledger
        /\ ledger[chain_entry] = [serial |-> serial, round_id |-> round_id]

(* A process numbers its rounds from 1 on.                                 *)
Numbered ==
    /\ serial = since + total_rounds
    /\ stage # "idle" => round_id = total_rounds

(* The rows that can be read are in the order of their rounds, and those   *)
(* of the running process have the ids it gave.                            *)
RowsInOrder ==
    /\ \A i, j \in Readable : i < j => rows[i].serial < rows[j].serial
    /\ \A i \in Readable :
          /\ rows[i].serial <= serial
          /\ stage \notin {"idle", "end"} => rows[i].serial < serial
          /\ rows[i].serial > since => rows[i].serial = since + rows[i].round_id

IInv ==
    /\ FilesOK
    /\ WeighedInTime
    /\ EntryIsOurs
    /\ Numbered
    /\ RecordsWereWeighed
    /\ RowsNameTheirRecord
    /\ RowsInOrder

(* The steps that neither write the ledger nor rounds.jsonl, nor start a   *)
(* process or a round.                                                     *)
LEMMA OtherStepsKeep ==
    ASSUME IInv, UNCHANGED <<ledger, rows, ended, serial, round_id, total_rounds, since>>,
           weighed \subseteq weighed',
           stage # "idle",
           stage \in {"idle", "end"} => stage' \in {"idle", "end"},
           WeighedInTime', EntryIsOurs', chain_entry' \in Nat
    PROVE  IInv'
<1>1. FilesOK' /\ Numbered'
  BY DEF IInv, FilesOK, Numbered
<1>2. RecordsWereWeighed'
  BY DEF IInv, RecordsWereWeighed
<1>3. RowsNameTheirRecord'
  BY DEF IInv, RowsNameTheirRecord
<1>4. RowsInOrder'
  BY DEF IInv, RowsInOrder, Readable
<1> QED BY <1>1, <1>2, <1>3, <1>4 DEF IInv

LEMMA InitInvariant == Init => IInv
<1> SUFFICES ASSUME Init PROVE IInv
  OBVIOUS
<1>1. FilesOK
  BY DEF Init, FilesOK
<1>2. WeighedInTime /\ EntryIsOurs /\ Numbered
  BY DEF Init, WeighedInTime, EntryIsOurs, Numbered
<1>3. DOMAIN ledger = {} /\ DOMAIN rows = {}
  BY DEF Init
<1> QED
  BY <1>1, <1>2, <1>3
     DEF IInv, RecordsWereWeighed, RowsNameTheirRecord, RowsInOrder, Readable

-----------------------------------------------------------------------------

(* A round gets the next number, of the process and of all.                *)
LEMMA StartInvariant ==
    ASSUME IInv, NEW l \in Lineups, StartRound(l)
    PROVE  IInv'
<1>1. /\ UNCHANGED <<ledger, rows, ended, weighed, since, chain_entry>>
      /\ serial' = serial + 1
      /\ total_rounds' = total_rounds + 1 /\ round_id' = total_rounds + 1
      /\ stage = "idle" /\ stage' = "translate"
  BY DEF StartRound, NextId, outside, history
<1>2. FilesOK' /\ Numbered'
  BY <1>1 DEF IInv, FilesOK, Numbered
<1>3. WeighedInTime' /\ EntryIsOurs'
  BY <1>1 DEF WeighedInTime, EntryIsOurs
<1>4. RecordsWereWeighed' /\ RowsNameTheirRecord'
  BY <1>1 DEF IInv, RecordsWereWeighed, RowsNameTheirRecord
<1>5. RowsInOrder'
  <2>1. \A i \in Readable : rows[i].serial \in Nat
    BY DEF IInv, FilesOK, Line, RowType, Readable
  <2> QED BY <1>1, <2>1 DEF IInv, FilesOK, RowsInOrder, Readable
<1> QED BY <1>2, <1>3, <1>4, <1>5 DEF IInv

(* No row is of the process that has just started.                         *)
LEMMA RestartInvariant ==
    ASSUME IInv, Restart
    PROVE  IInv'
<1>1. /\ UNCHANGED <<ledger, rows, ended, weighed, chain_entry, serial, round_id>>
      /\ total_rounds' = 0 /\ stage' = "idle" /\ since' = serial
  BY DEF Restart, local, outside
<1>2. FilesOK' /\ Numbered'
  BY <1>1 DEF IInv, FilesOK, Numbered
<1>3. WeighedInTime' /\ EntryIsOurs'
  BY <1>1 DEF WeighedInTime, EntryIsOurs
<1>4. RecordsWereWeighed' /\ RowsNameTheirRecord'
  BY <1>1 DEF IInv, RecordsWereWeighed, RowsNameTheirRecord
<1>5. RowsInOrder'
  <2>1. \A i \in Readable : rows[i].serial \in Nat
    BY DEF IInv, FilesOK, Line, RowType, Readable
  <2> QED BY <1>1, <2>1 DEF IInv, FilesOK, RowsInOrder, Readable
<1> QED BY <1>2, <1>3, <1>4, <1>5 DEF IInv

(* A record is appended for the round under way, whose weights are set.    *)
LEMMA CommitInvariant == IInv /\ Commit => IInv'
<1> SUFFICES ASSUME IInv, Commit PROVE IInv'
  OBVIOUS
<1> DEFINE rec == [serial |-> serial, round_id |-> round_id]
<1>1. /\ ledger' = Append(ledger, rec)
      /\ chain_entry' = Len(ledger) + 1
      /\ stage = "commit" /\ stage' = "log"
      /\ UNCHANGED <<serial, round_id, total_rounds, rows, ended, weighed, since>>
  BY DEF Commit, memory, history
<1>2. ledger \in Seq([serial : Nat, round_id : Nat])
  BY DEF IInv, FilesOK
<1>3. rec \in [serial : Nat, round_id : Nat]
  BY DEF IInv, FilesOK
<1>4. /\ ledger' \in Seq([serial : Nat, round_id : Nat])
      /\ Len(ledger) \in Nat
      /\ DOMAIN ledger = 1 .. Len(ledger)
      /\ DOMAIN ledger' = 1 .. Len(ledger) + 1
      /\ \A i \in 1 .. Len(ledger) : ledger'[i] = ledger[i]
      /\ ledger'[Len(ledger) + 1] = rec
  BY <1>1, <1>2, <1>3, AppendProperties, LenProperties
<1>5. serial \in weighed
  BY <1>1 DEF IInv, WeighedInTime
<1>6. FilesOK'
  BY <1>1, <1>4 DEF IInv, FilesOK
<1>7. WeighedInTime' /\ Numbered' /\ RowsInOrder'
  BY <1>1, <1>5 DEF IInv, WeighedInTime, Numbered, RowsInOrder, Readable
<1>8. EntryIsOurs'
  BY <1>1, <1>4 DEF EntryIsOurs
<1>9. RecordsWereWeighed'
  <2> SUFFICES ASSUME NEW i \in DOMAIN ledger'
               PROVE  ledger'[i].serial \in weighed'
    BY DEF RecordsWereWeighed
  <2>1. CASE i \in DOMAIN ledger
    BY <2>1, <1>1, <1>4 DEF IInv, RecordsWereWeighed
  <2>2. CASE i = Len(ledger) + 1
    BY <2>2, <1>1, <1>4, <1>5
  <2> QED BY <2>1, <2>2, <1>4
<1>10. RowsNameTheirRecord'
  <2> SUFFICES ASSUME NEW i \in DOMAIN rows, rows[i] # Torn, rows[i].ledger # 0
               PROVE  /\ rows[i].ledger \in DOMAIN ledger'
                      /\ ledger'[rows[i].ledger] =
                           [serial |-> rows[i].serial, round_id |-> rows[i].round_id]
    BY <1>1 DEF RowsNameTheirRecord
  <2>1. /\ rows[i].ledger \in DOMAIN ledger
        /\ ledger[rows[i].ledger] =
             [serial |-> rows[i].serial, round_id |-> rows[i].round_id]
    BY DEF IInv, RowsNameTheirRecord
  <2> QED BY <2>1, <1>4
<1> QED BY <1>6, <1>7, <1>8, <1>9, <1>10 DEF IInv

(* A row or a part of one is added, or spoils the line before it.          *)
LEMMA WithRowFacts ==
    ASSUME FilesOK, NEW line \in Line
    PROVE  /\ WithRow(line) \in Seq(Line) /\ WithRow(line) # << >>
           /\ \A i \in DOMAIN WithRow(line) :
                 WithRow(line)[i] # Torn =>
                     \/ i \in Readable /\ WithRow(line)[i] = rows[i]
                     \/ /\ WithRow(line)[i] = line
                        /\ \A j \in DOMAIN rows : j < i
           /\ \A i \in DOMAIN WithRow(line) : i \in Nat
<1>1. rows \in Seq(Line) /\ Len(rows) \in Nat /\ DOMAIN rows = 1 .. Len(rows)
  BY LenProperties DEF FilesOK
<1>2. CASE ended
  <2>1. WithRow(line) = Append(rows, line)
    BY <1>2 DEF WithRow
  <2>2. /\ Append(rows, line) \in Seq(Line)
        /\ DOMAIN Append(rows, line) = 1 .. Len(rows) + 1
        /\ \A i \in 1 .. Len(rows) : Append(rows, line)[i] = rows[i]
        /\ Append(rows, line)[Len(rows) + 1] = line
    BY <1>1, AppendProperties, LenProperties
  <2>3. Append(rows, line) # << >>
    BY <1>1, <2>2
  <2> QED BY <1>1, <2>1, <2>2, <2>3 DEF Readable
<1>3. CASE ~ ended
  <2> DEFINE spoilt == [rows EXCEPT ![Len(rows)] = Torn]
  <2>1. WithRow(line) = spoilt
    BY <1>3 DEF WithRow
  <2>2. rows # << >> /\ Len(rows) \in DOMAIN rows
    BY <1>1, <1>3, EmptySeq DEF FilesOK
  <2>3. spoilt \in Seq(Line) /\ DOMAIN spoilt = DOMAIN rows
    BY <1>1, <2>2, ExceptSeq DEF Line
  <2>4. \A i \in DOMAIN rows : spoilt[i] = IF i = Len(rows) THEN Torn ELSE rows[i]
    BY <1>1
  <2>5. spoilt # << >>
    BY <2>2, <2>3
  <2> QED BY <1>1, <2>1, <2>3, <2>4, <2>5 DEF Readable
<1> QED BY <1>2, <1>3 DEF FilesOK

(* What is logged of a round has the height of its own record.             *)
LEMMA LogInvariant ==
    ASSUME IInv, NEW line \in {Row, Torn}, stage = "log", stage' = "end",
           rows' = WithRow(line), ended' \in BOOLEAN,
           UNCHANGED <<ledger, weighed, since, chain_entry, serial, round_id, total_rounds>>
    PROVE  IInv'
<1>1. Row \in RowType /\ Row.serial = serial /\ Row.round_id = round_id
      /\ Row.ledger = chain_entry
  BY DEF Row, RowType, IInv, FilesOK
<1>2. /\ rows' \in Seq(Line) /\ rows' # << >>
      /\ \A i \in Readable' :
            \/ i \in Readable /\ rows'[i] = rows[i]
            \/ rows'[i] = Row /\ \A j \in DOMAIN rows : j < i
      /\ \A i \in Readable' : i \in Nat
  <2>1. line \in Line
    BY <1>1 DEF Line
  <2> QED BY <2>1, WithRowFacts DEF Readable, IInv
<1>3. FilesOK'
  BY <1>2 DEF IInv, FilesOK
<1>4. WeighedInTime' /\ EntryIsOurs' /\ Numbered' /\ RecordsWereWeighed'
  BY DEF IInv, WeighedInTime, EntryIsOurs, Numbered, RecordsWereWeighed
<1>5. RowsNameTheirRecord'
  <2> SUFFICES ASSUME NEW i \in Readable', rows'[i].ledger # 0
               PROVE  /\ rows'[i].ledger \in DOMAIN ledger
                      /\ ledger[rows'[i].ledger] =
                           [serial |-> rows'[i].serial, round_id |-> rows'[i].round_id]
    BY DEF RowsNameTheirRecord, Readable
  <2>1. CASE i \in Readable /\ rows'[i] = rows[i]
    BY <2>1 DEF IInv, RowsNameTheirRecord, Readable
  <2>2. CASE rows'[i] = Row
    BY <2>2, <1>1 DEF IInv, EntryIsOurs
  <2> QED BY <2>1, <2>2, <1>2
<1>6. RowsInOrder'
  <2>1. \A i \in Readable : rows[i].serial < serial
    BY DEF IInv, RowsInOrder
  <2>2. serial > since => serial = since + round_id
    BY DEF IInv, Numbered
  <2>3. ASSUME NEW i \in Readable', NEW j \in Readable', i < j
        PROVE  rows'[i].serial < rows'[j].serial
    <3>1. i \in Readable /\ rows'[i] = rows[i]
      <4>1. CASE j \in Readable
        <5>1. j \in DOMAIN rows /\ i \in Nat /\ j \in Nat
          BY <4>1, <1>2 DEF Readable
        <5> QED BY <5>1, <1>2, <2>3
      <4>2. CASE \A k \in DOMAIN rows : k < j /\ rows'[j] = Row
        <5>1. ~ (\A k \in DOMAIN rows : k < i)
          BY <4>2, <1>2, <2>3, LenProperties DEF Readable, IInv, FilesOK, WithRow
        <5> QED BY <5>1, <1>2
      <4> QED BY <4>1, <4>2, <1>2
    <3>2. CASE j \in Readable /\ rows'[j] = rows[j]
      BY <3>1, <3>2, <2>3 DEF IInv, RowsInOrder
    <3>3. CASE rows'[j] = Row
      BY <3>1, <3>3, <2>1, <1>1
    <3> QED BY <3>2, <3>3, <1>2
  <2>4. ASSUME NEW i \in Readable'
        PROVE  /\ rows'[i].serial <= serial
               /\ rows'[i].serial > since => rows'[i].serial = since + rows'[i].round_id
    <3>1. CASE i \in Readable /\ rows'[i] = rows[i]
      BY <3>1 DEF IInv, RowsInOrder
    <3>2. CASE rows'[i] = Row
      BY <3>2, <1>1, <2>2 DEF IInv, FilesOK
    <3> QED BY <3>1, <3>2, <1>2
  <2> QED BY <2>3, <2>4 DEF RowsInOrder
<1> QED BY <1>3, <1>4, <1>5, <1>6 DEF IInv

-----------------------------------------------------------------------------

LEMMA NextInvariant == IInv /\ [Next]_vars => IInv'
<1> SUFFICES ASSUME IInv, [Next]_vars PROVE IInv'
  OBVIOUS
<1> USE DEF memory, local, outside, history
<1>0. chain_entry \in Nat /\ Len(ledger) \in Nat
  BY LenProperties DEF IInv, FilesOK
<1>1. ASSUME NEW l \in Lineups, StartRound(l)
      PROVE  IInv'
  BY <1>1, StartInvariant
<1>2. ASSUME \/ Evaluate
             \/ Attack
             \/ \E charged \in SUBSET Range(lineup.breakers) : Score(charged)
             \/ RoundRaises
      PROVE  IInv'
  <2>1. /\ UNCHANGED <<ledger, rows, ended, weighed, since, chain_entry, serial, round_id,
                       total_rounds>>
        /\ stage \notin {"idle", "end"}
        /\ stage' \in {"attack", "score", "weights", "idle"}
    BY <1>2 DEF Evaluate, Attack, Score, RoundRaises
  <2>2. WeighedInTime' /\ EntryIsOurs'
    BY <2>1 DEF WeighedInTime, EntryIsOurs
  <2> QED BY <1>0, <2>1, <2>2, OtherStepsKeep
<1>3. CASE SetWeights
  <2>1. /\ UNCHANGED <<ledger, rows, ended, since, chain_entry, serial, round_id, total_rounds>>
        /\ weighed' = weighed \union {serial}
        /\ stage = "weights" /\ stage' = "put"
    BY <1>3 DEF SetWeights
  <2>2. WeighedInTime' /\ EntryIsOurs'
    BY <2>1 DEF WeighedInTime, EntryIsOurs
  <2> QED BY <1>0, <2>1, <2>2, OtherStepsKeep
<1>4. CASE PutArtifacts
  <2>1. /\ UNCHANGED <<ledger, rows, ended, weighed, since, chain_entry, serial, round_id,
                       total_rounds>>
        /\ stage = "put" /\ stage' = "commit"
    BY <1>4 DEF PutArtifacts
  <2>2. WeighedInTime' /\ EntryIsOurs'
    BY <2>1 DEF IInv, WeighedInTime, EntryIsOurs
  <2> QED BY <1>0, <2>1, <2>2, OtherStepsKeep
<1>5. CASE CommitFails
  <2>1. /\ UNCHANGED <<ledger, rows, ended, weighed, since, serial, round_id, total_rounds>>
        /\ chain_entry' = 0
        /\ stage = "commit" /\ stage' = "log"
    BY <1>5 DEF CommitFails
  <2>2. WeighedInTime' /\ EntryIsOurs'
    BY <2>1 DEF IInv, WeighedInTime, EntryIsOurs
  <2> QED BY <1>0, <2>1, <2>2, OtherStepsKeep
<1>6. CASE Commit
  BY <1>6, CommitInvariant
<1>7. CASE LogRound
  BY <1>7, LogInvariant DEF LogRound
<1>8. CASE LogFails
  <2>1. CASE UNCHANGED <<rows, ended>>
    <3>1. /\ UNCHANGED <<ledger, rows, ended, weighed, since, chain_entry, serial, round_id,
                         total_rounds>>
          /\ stage = "log" /\ stage' = "end"
      BY <1>8, <2>1 DEF LogFails
    <3>2. WeighedInTime' /\ EntryIsOurs'
      BY <3>1 DEF IInv, WeighedInTime, EntryIsOurs
    <3> QED BY <1>0, <3>1, <3>2, OtherStepsKeep
  <2>2. CASE rows' \in {WithRow(Torn), WithRow(Row)} /\ ended' = FALSE
    BY <1>8, <2>2, LogInvariant DEF LogFails
  <2> QED BY <1>8, <2>1, <2>2 DEF LogFails
<1>9. CASE RoundEnd
  <2>1. /\ UNCHANGED <<ledger, rows, ended, weighed, since, chain_entry, serial, round_id,
                       total_rounds>>
        /\ stage = "end" /\ stage' = "idle"
    BY <1>9 DEF RoundEnd
  <2>2. WeighedInTime' /\ EntryIsOurs'
    BY <2>1 DEF IInv, WeighedInTime, EntryIsOurs
  <2> QED BY <1>0, <2>1, <2>2, OtherStepsKeep
<1>10. CASE Restart
  BY <1>10, RestartInvariant
<1>11. CASE UNCHANGED vars
  <2>1. /\ UNCHANGED <<ledger, rows, ended, weighed, since, chain_entry, serial, round_id,
                       total_rounds, stage>>
    BY <1>11 DEF vars
  <2> QED
    BY <2>1 DEF IInv, FilesOK, WeighedInTime, EntryIsOurs, Numbered, RecordsWereWeighed,
                RowsNameTheirRecord, RowsInOrder, Readable
<1> QED
  BY <1>1, <1>2, <1>3, <1>4, <1>5, <1>6, <1>7, <1>8, <1>9, <1>10, <1>11
     DEF Next, RoundStep

-----------------------------------------------------------------------------

(* The first of the rows with an id, where there is one.                   *)
LEMMA DetailFacts ==
    ASSUME FilesOK, NEW i \in Readable
    PROVE  \E j \in Readable :
             /\ RoundDetail(rows[i].round_id) = rows[j]
             /\ rows[j].round_id = rows[i].round_id
             /\ j <= i
<1> DEFINE id == rows[i].round_id
           same == {j \in Readable : rows[j].round_id = id}
           first(j) == /\ rows[j].round_id = id
                       /\ \A k \in Readable : rows[k].round_id = id => j <= k
<1>1. Readable \subseteq Nat
  BY LenProperties DEF FilesOK, Readable
<1>2. PICK j \in same : \A k \in same : ~ (<<k, j>> \in OpToRel(<, Nat))
  <2>1. same \subseteq Nat /\ same # {}
    BY <1>1
  <2> HIDE DEF same
  <2> QED BY <2>1, NatLessThanWellFounded, WFMin
<1>3. j \in Readable /\ first(j)
  <2> SUFFICES ASSUME NEW k \in same PROVE j <= k
    OBVIOUS
  <2>1. j \in Nat /\ k \in Nat
    BY <1>1
  <2>2. ~ (k < j)
    BY <1>2, <2>1 DEF OpToRel
  <2> QED BY <2>1, <2>2
<1> DEFINE chosen == CHOOSE k \in Readable : first(k)
<1>4. chosen \in Readable /\ first(chosen)
  BY <1>3
<1>5. RoundDetail(id) = rows[chosen]
  BY DEF RoundDetail
<1> QED BY <1>4, <1>5

(* Asked for a round of the running process by its id, the server answers  *)
(* with that round or with one of an earlier process, whatever was lost of *)
(* the log: within a process ids are given once and in order.              *)
THEOREM DetailsAreTheRounds == Spec => []DetailIsTheRound
<1>1. IInv => DetailIsTheRound
  <2> SUFFICES ASSUME IInv, NEW i \in Readable, rows[i].serial > since,
                      ~ (RoundDetail(rows[i].round_id).serial <= since)
               PROVE  RoundDetail(rows[i].round_id) = rows[i]
    BY DEF DetailIsTheRound
  <2>1. PICK j \in Readable :
          /\ RoundDetail(rows[i].round_id) = rows[j]
          /\ rows[j].round_id = rows[i].round_id
          /\ j <= i
    BY DetailFacts DEF IInv
  <2>2. /\ i \in Nat /\ j \in Nat
        /\ rows[i].serial \in Nat /\ rows[j].serial \in Nat /\ since \in Nat
    BY LenProperties DEF IInv, FilesOK, Readable, Line, RowType
  <2>3. rows[i].serial = rows[j].serial
    BY <2>1, <2>2 DEF IInv, RowsInOrder
  <2>4. ~ (j < i)
    BY <2>2, <2>3 DEF IInv, RowsInOrder
  <2> QED BY <2>1, <2>2, <2>4
<1> QED BY <1>1, InitInvariant, NextInvariant, PTL DEF Spec

(* No record without weights, whatever raises and whenever the process     *)
(* restarts: step 6 comes before step 7.                                   *)
THEOREM RecordsAreWeighed == Spec => []RecordsWereWeighed
<1>1. IInv => RecordsWereWeighed
  BY DEF IInv
<1> QED BY <1>1, InitInvariant, NextInvariant, PTL DEF Spec

(* A row of rounds.jsonl that names a height names its own round's record. *)
THEOREM RowsAreTruthful == Spec => []RowsNameTheirRecord
<1>1. IInv => RowsNameTheirRecord
  BY DEF IInv
<1> QED BY <1>1, InitInvariant, NextInvariant, PTL DEF Spec

-----------------------------------------------------------------------------
(* Who is paid, and what the leaderboard shows of it.                      *)

(* The line-up of the demo, the server and the tests: all neurons of the   *)
(* metagraph, the translators first.                                       *)
LikeMeta == ~ Probing /\ Meta = Translators \o Breakers

LineupKept ==
    stage # "idle" => lineup = [translators |-> Translators, breakers |-> Breakers]

(* A round sets weights once, before it is logged.                         *)
WeighedOnce ==
    /\ \A n \in weighed : n \in Nat /\ n <= serial
    /\ stage \in {"translate", "attack", "score", "weights"} => serial \notin weighed

(* From its weights to its row a round leaves the averages alone.          *)
ChainIsEma ==
    stage \in {"put", "commit", "log"} => \A u \in Uids : u \in onchain <=> Meta[u + 1] \in ema

(* Any row of the last round that set weights, not only the last row.      *)
RowsShowChain ==
    \A i \in Readable :
        (\A n \in weighed : n <= rows[i].serial) =>
            \A u \in Uids : u \in onchain <=> Meta[u + 1] \in rows[i].weights

ChainInv == LineupKept /\ WeighedOnce /\ ChainIsEma /\ RowsShowChain

(* Then the places in the two lists are the uids.                          *)
LEMMA PlacesAreUids ==
    ASSUME LikeMeta, lineup = [translators |-> Translators, breakers |-> Breakers]
    PROVE  /\ DOMAIN UidsByHotkey = Hotkeys
           /\ \A hk \in Hotkeys : UidsByHotkey[hk] \in Uids /\ Meta[UidsByHotkey[hk] + 1] = hk
           /\ \A u \in Uids : Meta[u + 1] \in Hotkeys /\ UidsByHotkey[Meta[u + 1]] = u
<1> DEFINE T == Len(Translators)
           B == Len(Breakers)
<1>1. /\ T \in Nat /\ DOMAIN Translators = 1 .. T /\ B \in Nat /\ DOMAIN Breakers = 1 .. B
      /\ Len(Meta) = T + B /\ DOMAIN Meta = 1 .. (T + B)
      /\ \A i \in 1 .. T : Translators[i] = Meta[i]
      /\ \A i \in 1 .. B : Breakers[i] = Meta[T + i]
  BY LineupAssumption DEF LikeMeta
<1>2. Range(Translators) \union Range(Breakers) = Hotkeys
  <2>1. ASSUME NEW hk \in Hotkeys PROVE hk \in Range(Translators) \union Range(Breakers)
    <3>1. PICK i \in 1 .. (T + B) : Meta[i] = hk
      BY <1>1 DEF Hotkeys, Range
    <3>2. CASE i <= T
      BY <1>1, <3>1, <3>2 DEF Range
    <3>3. CASE ~ (i <= T)
      <4>1. i - T \in 1 .. B /\ Breakers[i - T] = Meta[T + (i - T)] /\ T + (i - T) = i
        BY <1>1, <3>3
      <4>. QED
        BY <1>1, <3>1, <4>1 DEF Range
    <3>. QED
      BY <3>2, <3>3
  <2>2. Range(Translators) \subseteq Hotkeys /\ Range(Breakers) \subseteq Hotkeys
    BY LineupAssumption DEF Range
  <2>. QED
    BY <2>1, <2>2
<1>3. ASSUME NEW hk \in Hotkeys
      PROVE  UidsByHotkey[hk] \in Uids /\ Meta[UidsByHotkey[hk] + 1] = hk
  <2>1. CASE hk \in Range(Breakers)
    <3> DEFINE place == CHOOSE i \in DOMAIN Breakers : Breakers[i] = hk
    <3>1. place \in 1 .. B /\ Breakers[place] = hk
      BY <1>1, <2>1 DEF Range
    <3>2. UidsByHotkey[hk] = T - 1 + place
      BY <1>2, <2>1 DEF UidsByHotkey
    <3> HIDE DEF place
    <3>3. T - 1 + place \in 0 .. (T + B - 1) /\ T - 1 + place + 1 = T + place
      BY <1>1, <3>1
    <3>. QED
      BY <1>1, <3>1, <3>2, <3>3 DEF Uids
  <2>2. CASE hk \notin Range(Breakers)
    <3> DEFINE place == CHOOSE i \in DOMAIN Translators : Translators[i] = hk
    <3>1. place \in 1 .. T /\ Translators[place] = hk
      BY <1>1, <1>2, <2>2 DEF Range
    <3>2. UidsByHotkey[hk] = place - 1
      BY <1>2, <2>2 DEF UidsByHotkey
    <3> HIDE DEF place
    <3>3. place - 1 \in 0 .. (T + B - 1) /\ place - 1 + 1 = place
      BY <1>1, <3>1
    <3>. QED
      BY <1>1, <3>1, <3>2, <3>3 DEF Uids
  <2>. QED
    BY <2>1, <2>2
<1>4. ASSUME NEW u \in Uids
      PROVE  Meta[u + 1] \in Hotkeys /\ UidsByHotkey[Meta[u + 1]] = u
  <2> DEFINE v == UidsByHotkey[Meta[u + 1]]
  <2>1. u + 1 \in DOMAIN Meta /\ Meta[u + 1] \in Hotkeys
    BY <1>1 DEF Uids, Hotkeys, Range
  <2>2. v \in Uids /\ Meta[v + 1] = Meta[u + 1]
    BY <1>3, <2>1
  <2> HIDE DEF v
  <2>3. v + 1 = u + 1 /\ u \in Int /\ v \in Int
    BY <1>1, <2>1, <2>2, MetaAssumption DEF Uids
  <2>4. v = u
    BY <2>3
  <2>. QED
    BY <2>1, <2>4 DEF v
<1>5. DOMAIN UidsByHotkey = Hotkeys
  BY <1>2 DEF UidsByHotkey
<1>. QED
  BY <1>3, <1>4, <1>5

(* The uids that a round weighs are all there are, and those with a weight *)
(* are the earners'.                                                       *)
LEMMA WeightsGoToEma ==
    ASSUME LikeMeta, LineupKept, SetWeights
    PROVE  \A u \in Uids : u \in onchain' <=> Meta[u + 1] \in ema
<1> DEFINE uids == UidsByHotkey
           told == {uids[hk] : hk \in DOMAIN uids}
           positive == {uids[hk] : hk \in DOMAIN uids \cap ema}
<1>1. onchain' = (onchain \ told) \union (positive \cap Uids)
  BY DEF SetWeights, OnChain
<1>2. lineup = [translators |-> Translators, breakers |-> Breakers]
  BY DEF SetWeights, LineupKept
<1>3. ASSUME NEW u \in Uids
      PROVE  u \in told /\ (u \in positive <=> Meta[u + 1] \in ema)
  <2>1. Meta[u + 1] \in DOMAIN uids /\ uids[Meta[u + 1]] = u
    BY <1>2, PlacesAreUids
  <2>2. ASSUME u \in positive PROVE Meta[u + 1] \in ema
    <3>1. PICK hk \in DOMAIN uids \cap ema : uids[hk] = u
      BY <2>2
    <3>2. Meta[u + 1] = hk
      BY <1>2, <3>1, PlacesAreUids
    <3>. QED
      BY <3>1, <3>2
  <2>. QED
    BY <2>1, <2>2
<1> HIDE DEF told, positive
<1>. QED
  BY <1>1, <1>3

(* The row names the earners.                                              *)
LEMMA RowNamesEma ==
    ASSUME LikeMeta, LineupKept, stage = "log"
    PROVE  \A u \in Uids : Meta[u + 1] \in Row.weights <=> Meta[u + 1] \in ema
<1> DEFINE uids == UidsByHotkey
           positive == {uids[hk] : hk \in DOMAIN uids \cap ema}
<1>1. lineup = [translators |-> Translators, breakers |-> Breakers]
  BY DEF LineupKept
<1>2. Row.weights = {hk \in Hotkeys \cap DOMAIN uids : uids[hk] \in positive}
  BY DEF Row
<1>3. ASSUME NEW hk \in Hotkeys PROVE uids[hk] \in positive <=> hk \in ema
  <2>1. hk \in DOMAIN uids /\ Meta[uids[hk] + 1] = hk
    BY <1>1, PlacesAreUids
  <2>2. \A other \in Hotkeys : uids[other] = uids[hk] => other = hk
    BY <1>1, <2>1, PlacesAreUids
  <2>. QED
    BY <1>1, <2>1, <2>2, PlacesAreUids
<1> HIDE DEF positive
<1>. QED
  BY <1>1, <1>2, <1>3, PlacesAreUids

LEMMA InitChain == LikeMeta /\ Init => ChainInv
  BY DEF Init, ChainInv, LineupKept, WeighedOnce, ChainIsEma, RowsShowChain, Readable, NoFunction

(* Steps that neither weigh nor log; the averages change only before the   *)
(* weights are set, or with the process.                                   *)
LEMMA ChainKept ==
    ASSUME IInv, ChainInv, UNCHANGED <<onchain, rows, weighed, lineup>>,
           stage # "idle" \/ stage' = "idle",
           serial' = serial,
           stage' \in {"put", "commit", "log"} =>
               stage \in {"put", "commit", "log"} /\ ema' = ema,
           stage' \in {"translate", "attack", "score", "weights"} =>
               stage \in {"translate", "attack", "score", "weights"}
    PROVE  ChainInv'
<1>1. LineupKept' /\ WeighedOnce' /\ ChainIsEma'
  BY DEF ChainInv, LineupKept, WeighedOnce, ChainIsEma
<1>2. RowsShowChain'
  BY DEF ChainInv, RowsShowChain, Readable
<1>. QED
  BY <1>1, <1>2 DEF ChainInv

(* No row speaks of the round under way before it is logged.               *)
LEMMA WeighChain ==
    ASSUME IInv, ChainInv, LikeMeta, SetWeights
    PROVE  ChainInv'
<1>1. /\ stage = "weights" /\ stage' = "put" /\ weighed' = weighed \union {serial}
      /\ UNCHANGED <<ema, serial, rows, lineup>> /\ serial \in Nat
  BY DEF SetWeights, memory, local, IInv, FilesOK
<1>2. \A u \in Uids : u \in onchain' <=> Meta[u + 1] \in ema
  BY WeightsGoToEma DEF ChainInv
<1>3. LineupKept' /\ WeighedOnce' /\ ChainIsEma'
  BY <1>1, <1>2 DEF ChainInv, LineupKept, WeighedOnce, ChainIsEma
<1>4. \A i \in Readable : rows[i].serial \in Nat /\ rows[i].serial < serial
  BY <1>1 DEF IInv, FilesOK, RowsInOrder, Readable, Line, RowType
<1>5. \A i \in Readable : ~ (\A n \in weighed' : n <= rows[i].serial)
  BY <1>1, <1>4
<1>6. RowsShowChain'
  BY <1>1, <1>5 DEF RowsShowChain, Readable
<1>. QED
  BY <1>3, <1>6 DEF ChainInv

(* The row of the round that has just set weights says which; the rows     *)
(* before it are of rounds before it.                                      *)
LEMMA LogChain ==
    ASSUME IInv, ChainInv, LikeMeta, NEW line \in {Row, Torn}, rows' = WithRow(line),
           stage = "log", stage' = "end",
           UNCHANGED <<onchain, weighed, lineup, serial, ema>>
    PROVE  ChainInv'
<1>1. LineupKept' /\ WeighedOnce' /\ ChainIsEma'
  BY DEF ChainInv, LineupKept, WeighedOnce, ChainIsEma
<1>2. Row \in RowType /\ Row.serial = serial /\ serial \in weighed /\ serial \in Nat
  BY DEF Row, RowType, IInv, FilesOK, WeighedInTime
<1>3. ASSUME NEW i \in Readable', \A n \in weighed : n <= rows'[i].serial,
             NEW u \in Uids
      PROVE  u \in onchain <=> Meta[u + 1] \in rows'[i].weights
  <2>1. CASE i \in Readable /\ rows'[i] = rows[i]
    BY <1>3, <2>1 DEF ChainInv, RowsShowChain
  <2>2. CASE rows'[i] = Row
    <3>1. u \in onchain <=> Meta[u + 1] \in ema
      BY DEF ChainInv, ChainIsEma
    <3>. QED
      BY <2>2, <3>1, RowNamesEma DEF ChainInv
  <2>3. (i \in Readable /\ rows'[i] = rows[i]) \/ rows'[i] = Row
    <3>1. line \in Line
      BY <1>2 DEF Line
    <3>. QED
      BY <3>1, WithRowFacts DEF Readable, IInv
  <2>. QED
    BY <2>1, <2>2, <2>3
<1>4. RowsShowChain'
  BY <1>3 DEF RowsShowChain
<1>. QED
  BY <1>1, <1>4 DEF ChainInv

LEMMA NextChain == IInv /\ ChainInv /\ LikeMeta /\ [Next]_vars => ChainInv'
<1> SUFFICES ASSUME IInv, ChainInv, LikeMeta, [Next]_vars PROVE ChainInv'
  OBVIOUS
<1> USE DEF memory, local, outside, history
<1>1. ASSUME NEW l \in Lineups, StartRound(l) PROVE ChainInv'
  <2>1. /\ lineup' = [translators |-> Translators, breakers |-> Breakers]
        /\ serial' = serial + 1 /\ serial \in Nat /\ stage' = "translate"
        /\ UNCHANGED <<onchain, rows, weighed, ema>>
    BY <1>1 DEF StartRound, Lineups, LikeMeta, IInv, FilesOK
  <2>2. LineupKept' /\ ChainIsEma'
    BY <2>1 DEF LineupKept, ChainIsEma
  <2>3. WeighedOnce'
    BY <2>1 DEF ChainInv, WeighedOnce
  <2>4. RowsShowChain'
    BY <2>1 DEF ChainInv, RowsShowChain, Readable
  <2>. QED
    BY <2>2, <2>3, <2>4 DEF ChainInv
<1>2. CASE SetWeights
  BY <1>2, WeighChain
<1>3. CASE LogRound
  BY <1>3, LogChain DEF LogRound
<1>4. CASE LogFails
  <2>1. CASE UNCHANGED <<rows, ended>>
    BY <1>4, <2>1, ChainKept DEF LogFails
  <2>2. CASE rows' \in {WithRow(Torn), WithRow(Row)}
    BY <1>4, <2>2, LogChain DEF LogFails
  <2>. QED
    BY <1>4, <2>1, <2>2 DEF LogFails
<1>5. ASSUME NEW charged, Score(charged) PROVE ChainInv'
  BY <1>5, ChainKept DEF Score
<1>6. CASE Evaluate \/ Attack \/ PutArtifacts \/ RoundEnd \/ RoundRaises
  BY <1>6, ChainKept DEF Evaluate, Attack, PutArtifacts, RoundEnd, RoundRaises
<1>7. CASE CommitFails \/ Commit
  BY <1>7, ChainKept DEF CommitFails, Commit
<1>8. CASE Restart
  BY <1>8, ChainKept DEF Restart
<1>9. CASE UNCHANGED vars
  BY <1>9 DEF vars, ChainInv, LineupKept, WeighedOnce, ChainIsEma, RowsShowChain, Readable
<1>. QED
  BY <1>1, <1>2, <1>3, <1>4, <1>5, <1>6, <1>7, <1>8, <1>9 DEF Next, RoundStep

(* There is a last row that can be read, if any can.                       *)
LEMMA LatestExists ==
    ASSUME FilesOK, Readable # {}
    PROVE  Latest \in Readable
<1> DEFINE from(n) == \A i \in Readable : i < n
           above == {n \in Nat : from(n)}
<1>1. Len(rows) \in Nat /\ Readable \subseteq 1 .. Len(rows)
  BY LenProperties DEF FilesOK, Readable
<1>2. above \subseteq Nat /\ Len(rows) + 1 \in above
  BY <1>1
<1>3. PICK n \in above : \A m \in above : ~ (<<m, n>> \in OpToRel(<, Nat))
  <2> HIDE DEF above
  <2>. QED
    BY <1>2, NatLessThanWellFounded, WFMin
<1>4. n \in Nat /\ from(n) /\ n # 0
  <2>1. n \in Nat /\ from(n)
    BY <1>3
  <2>2. PICK i : i \in Readable
    OBVIOUS
  <2>3. i \in Nat /\ i < n
    BY <1>1, <2>1, <2>2
  <2>. QED
    BY <2>1, <2>3
<1>5. n - 1 \in Nat /\ n - 1 < n
  BY <1>4
<1>6. n - 1 \notin above
  BY <1>3, <1>4, <1>5 DEF OpToRel
<1>7. PICK i \in Readable : ~ (i < n - 1)
  BY <1>5, <1>6
<1>8. \A j \in Readable : j <= i
  <2>1. i \in Nat /\ i < n /\ \A j \in Readable : j \in Nat /\ j < n
    BY <1>1, <1>4
  <2>. QED
    BY <1>4, <1>7, <2>1
<1>. QED
  BY <1>8 DEF Latest

(* For any metagraph, any split of it into translators and breakers, and   *)
(* whatever is lost of the log: what the page shows of a past round is     *)
(* that round, and while the last row is of the last round that set        *)
(* weights, the leaderboard marks exactly the neurons with one on chain.   *)
THEOREM PageTellsTheTruth == ASSUME LikeMeta PROVE Spec => []PageIsTruthful
<1>1. IInv /\ ChainInv => BoardShowsChain
  <2> SUFFICES ASSUME IInv, ChainInv, Readable # {},
                      \A n \in weighed : n <= rows[Latest].serial, NEW u \in Uids
               PROVE  u \in onchain <=> Meta[u + 1] \in BoardWeights
    BY DEF BoardShowsChain
  <2>. QED
    BY LatestExists DEF IInv, ChainInv, RowsShowChain, BoardWeights
<1>2. DetailIsTheRound /\ BoardShowsChain => PageIsTruthful
  BY DEF PageIsTruthful
<1>. QED
  BY <1>1, <1>2, InitInvariant, NextInvariant, InitChain, NextChain, DetailsAreTheRounds, PTL DEF Spec

(* With such line-ups a weight that changes on chain becomes what the      *)
(* average of that very neuron says.                                       *)
THEOREM EarnersArePaid == ASSUME LikeMeta PROVE Spec => PaidAsEarned
<1> DEFINE Paid == \A u \in Uids :
              (u \in onchain') # (u \in onchain) =>
                  ((u \in onchain') <=> Meta[u + 1] \in ema)
<1>1. ChainInv /\ [Next]_vars => [Paid]_vars
  <2> SUFFICES ASSUME ChainInv, [Next]_vars, ~ UNCHANGED vars PROVE Paid
    OBVIOUS
  <2>1. CASE SetWeights
    BY <2>1, WeightsGoToEma DEF ChainInv
  <2>2. CASE UNCHANGED onchain
    BY <2>2
  <2>. QED
    BY <2>1, <2>2 DEF Next, RoundStep, StartRound, Evaluate, Attack, Score, PutArtifacts,
       CommitFails, Commit, LogRound, LogFails, RoundEnd, RoundRaises, Restart, outside
<1>. QED
  BY <1>1, InitInvariant, NextInvariant, InitChain, NextChain, PTL DEF Spec, PaidAsEarned

=============================================================================
