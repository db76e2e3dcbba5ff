----------------------------- MODULE Validator -----------------------------
(***************************************************************************)
(* One validation round after another: run_validation_round and run() of   *)
(* neurons/validator.py, with what a round leaves outside the process (the *)
(* weights on chain, the ledger, rounds.jsonl) and what dies with it (the  *)
(* round counter and the EMA).  Rounds do not overlap here: one thread     *)
(* runs them (module Server shows when the server breaks that).            *)
(*                                                                         *)
(* A score, an EMA and a weight are only zero or positive (modules Scoring *)
(* and Weights have the numbers); a commit of the ledger is one step       *)
(* (module Ledger has its files).                                          *)
(***************************************************************************)
EXTENDS Naturals, FiniteSets, Sequences, SequencesExt

CONSTANTS
    Meta,         \* hotkeys of the metagraph; Meta[u + 1] has uid u
    Translators,  \* a lineup: the translators' hotkeys, in the order queried
    Breakers,     \* and the breakers'
    Probing,      \* TRUE: the lineups of run(); FALSE: the one above
    MaxRounds,    \* bound: rounds started
    Torn          \* a line of rounds.jsonl that json.loads rejects

Hotkeys == Range(Meta)
Uids == 0 .. Len(Meta) - 1

ASSUME MetaAssumption ==
    /\ Meta \in Seq(Hotkeys)
    /\ \A i, j \in DOMAIN Meta : Meta[i] = Meta[j] => i = j
ASSUME LineupAssumption == Translators \in Seq(Hotkeys) /\ Breakers \in Seq(Hotkeys)
ASSUME ProbingAssumption == Probing \in BOOLEAN
ASSUME RoundsAssumption == MaxRounds \in Nat
ASSUME TornAssumption ==
    Torn \notin [serial : Nat, round_id : Nat, ledger : Nat, weights : SUBSET Hotkeys]

VARIABLES
    total_rounds,  \* self.total_rounds
    ema,           \* hotkeys with a positive self.ema_scores
    stage,         \* where the round is
    serial,        \* rounds started so far, by any process
    round_id,      \* the round's id
    lineup,        \* the axons it was called with
    verdicts,      \* translator_evals: how each translator fared
    breaker_hits,  \* who broke each candidate
    chain_entry,   \* height _commit_ledger returned, 0 for {"error": ...}
    onchain,       \* uids with a positive weight on chain
    ledger,        \* records on the chain of the ledger
    rows,          \* lines of rounds.jsonl
    ended,         \* whether the last of them ends in a newline
    weighed,       \* serials of the rounds that set weights
    since          \* serial of the last round before this process

memory == <<total_rounds, ema>>
local == <<serial, round_id, lineup, verdicts, breaker_hits, chain_entry>>
outside == <<onchain, ledger, rows, ended>>
history == <<weighed, since>>
vars == <<memory, stage, local, outside, history>>

NoFunction == [x \in {} |-> x]

(* run() calls a round with every serving neuron in both roles; the demo,  *)
(* the server and the tests name translators and breakers themselves.      *)
Lineups ==
    IF Probing
    THEN {[translators |-> SelectSeq(Meta, LAMBDA hk : hk \in serving),
           breakers |-> SelectSeq(Meta, LAMBDA hk : hk \in serving)] :
             serving \in (SUBSET Hotkeys) \ {{}}}
    ELSE {[translators |-> Translators, breakers |-> Breakers]}

Init ==
    /\ total_rounds = 0
    /\ ema = {}
    /\ stage = "idle"
    /\ serial = 0
    /\ round_id = 0
    /\ lineup = [translators |-> << >>, breakers |-> << >>]
    /\ verdicts = NoFunction
    /\ breaker_hits = NoFunction
    /\ chain_entry = 0
    /\ onchain = {}
    /\ ledger = << >>
    /\ rows = << >>
    /\ ended = TRUE
    /\ weighed = {}
    /\ since = 0

-----------------------------------------------------------------------------
(* The stages of a round.                                                  *)

(* Faulty: the next height of the ledger, which outlives the process. *)
NextId_Height == Len(ledger) + 1

NextId == total_rounds + 1

StartRound(l) ==
    /\ stage = "idle"
    /\ serial < MaxRounds
    /\ serial' = serial + 1
    /\ total_rounds' = total_rounds + 1
    /\ round_id' = NextId
    /\ lineup' = l
    /\ stage' = "translate"
    /\ UNCHANGED <<ema, verdicts, breaker_hits, chain_entry, outside, history>>

(* "rejected" by the gate (which rejects an empty answer: nobody there, a  *)
(* timeout or an exception); "failed" to compile or every hidden test.     *)
Evaluate ==
    /\ stage = "translate"
    /\ verdicts' \in [Range(lineup.translators) ->
                        {"rejected", "failed", "passed"}]
    /\ stage' = "attack"
    /\ UNCHANGED <<memory, serial, round_id, lineup, breaker_hits, chain_entry,
                   outside, history>>

Candidates == {t \in DOMAIN verdicts : verdicts[t] = "passed"}

(* Each breaker sees each candidate; score_round decides the hits.         *)
Attack ==
    /\ stage = "attack"
    /\ breaker_hits' \in [Candidates -> SUBSET Range(lineup.breakers)]
    /\ stage' = "score"
    /\ UNCHANGED <<memory, serial, round_id, lineup, verdicts, chain_entry,
                   outside, history>>

(* A breaker whose penalties eat its bounty is among the charged.          *)
Earners(charged) ==
    {t \in Candidates : breaker_hits[t] = {}}
    \union ((UNION {breaker_hits[t] : t \in Candidates}) \ charged)

Score(charged) ==
    /\ stage = "score"
    /\ ema' = ema \union Earners(charged)
    /\ stage' = "weights"
    /\ UNCHANGED <<total_rounds, local, outside, history>>

(* Faulty: the breakers are numbered from 0 too. *)
UidsByHotkey_NoOffset ==
    [hk \in Range(lineup.translators) \union Range(lineup.breakers) |->
        IF hk \in Range(lineup.breakers)
        THEN (CHOOSE i \in DOMAIN lineup.breakers : lineup.breakers[i] = hk) - 1
        ELSE (CHOOSE i \in DOMAIN lineup.translators :
                 lineup.translators[i] = hk) - 1]

(* Positions in the lists of the call; the place of a hotkey that has both *)
(* roles is the one it has as a breaker.                                   *)
UidsByHotkey ==
    [hk \in Range(lineup.translators) \union Range(lineup.breakers) |->
        IF hk \in Range(lineup.breakers)
        THEN Len(lineup.translators) - 1
             + (CHOOSE i \in DOMAIN lineup.breakers : lineup.breakers[i] = hk)
        ELSE (CHOOSE i \in DOMAIN lineup.translators :
                 lineup.translators[i] = hk) - 1]

(* Faulty: the ledger gets the round before the chain does. *)
SetWeights_Later ==
    /\ stage = "weights"
    /\ stage' = "put"
    /\ UNCHANGED <<memory, local, outside, history>>

(* The subtensor skips a uid it has no neuron for and keeps the weight of  *)
(* a neuron it is not told of.                                             *)
OnChain(told, positive) == (onchain \ told) \union (positive \cap Uids)

SetWeights ==
    /\ stage = "weights"
    /\ LET uids == UidsByHotkey
       IN  onchain' = OnChain({uids[hk] : hk \in DOMAIN uids},
                              {uids[hk] : hk \in DOMAIN uids \cap ema})
    /\ weighed' = weighed \union {serial}
    /\ stage' = "put"
    /\ UNCHANGED <<memory, local, ledger, rows, ended, since>>

(* The artifacts go to the object store outside of the try.                *)
PutArtifacts ==
    /\ stage = "put"
    /\ stage' = "commit"
    /\ UNCHANGED <<memory, local, outside, history>>

(* Faulty: the entry of a failed commit is the head of the chain. *)
CommitFails_Head ==
    /\ stage = "commit"
    /\ chain_entry' = Len(ledger)
    /\ stage' = "log"
    /\ UNCHANGED <<memory, serial, round_id, lineup, verdicts, breaker_hits,
                   outside, history>>

CommitFails ==
    /\ stage = "commit"
    /\ chain_entry' = 0
    /\ stage' = "log"
    /\ UNCHANGED <<memory, serial, round_id, lineup, verdicts, breaker_hits,
                   outside, history>>

Commit ==
    /\ stage = "commit"
    /\ ledger' = Append(ledger, [serial |-> serial, round_id |-> round_id])
    /\ chain_entry' = Len(ledger) + 1
    /\ stage' = "log"
    /\ UNCHANGED <<memory, serial, round_id, lineup, verdicts, breaker_hits,
                   onchain, rows, ended, history>>

(* Text after a line without a newline spoils that line.                   *)
WithRow(row) == IF ended THEN Append(rows, row) ELSE [rows EXCEPT ![Len(rows)] = Torn]

(* round_log_entry: the hotkeys with a positive weight are those whose uid *)
(* got one.                                                                *)
Row ==
    LET uids == UidsByHotkey
        positive == {uids[hk] : hk \in DOMAIN uids \cap ema}
    IN  [serial |-> serial, round_id |-> round_id, ledger |-> chain_entry,
         weights |-> {hk \in Hotkeys \cap DOMAIN uids : uids[hk] \in positive}]

LogRound ==
    /\ stage = "log"
    /\ rows' = WithRow(Row)
    /\ ended' = TRUE
    /\ stage' = "end"
    /\ UNCHANGED <<memory, local, onchain, ledger, history>>

(* The file cannot be opened, or the disk fills up within the line or just *)
(* before its newline; the error is logged and the round goes on.          *)
LogFails ==
    /\ stage = "log"
    /\ \/ UNCHANGED <<rows, ended>>
       \/ /\ rows' \in {WithRow(Torn), WithRow(Row)}
          /\ ended' = FALSE
    /\ stage' = "end"
    /\ UNCHANGED <<memory, local, onchain, ledger, history>>

RoundEnd ==
    /\ stage = "end"
    /\ stage' = "idle"
    /\ UNCHANGED <<memory, local, outside, history>>

-----------------------------------------------------------------------------
(* Failures.                                                               *)

(* Faulty: only KeyboardInterrupt is caught, and the loop is left. *)
RoundRaises_LoopLeft ==
    /\ stage \in {"translate", "attack", "score", "weights", "put"}
    /\ stage' = "stopped"
    /\ UNCHANGED <<memory, local, outside, history>>

(* An exception of the sandbox, the subtensor or the object store ends the *)
(* round; run() and the server's thread catch it and keep the validator.   *)
RoundRaises ==
    /\ stage \in {"translate", "attack", "score", "weights", "put"}
    /\ stage' = "idle"
    /\ UNCHANGED <<memory, local, outside, history>>

(* The process dies and is started again.                                  *)
Restart ==
    /\ total_rounds # 0
    /\ total_rounds' = 0
    /\ ema' = {}
    /\ since' = serial
    /\ stage' = "idle"
    /\ UNCHANGED <<local, outside, weighed>>

-----------------------------------------------------------------------------
(* What the server makes of the log: load_rounds() skips what it cannot    *)
(* parse.                                                                  *)

Readable == {i \in DOMAIN rows : rows[i] # Torn}

(* GET /api/rounds/{id}, which the page asks for at the end of a round.    *)
RoundDetail(id) ==
    rows[CHOOSE i \in Readable :
            /\ rows[i].round_id = id
            /\ \A j \in Readable : rows[j].round_id = id => i <= j]

(* The weights GET /api/leaderboard shows: those of the last row.          *)
Latest == CHOOSE i \in Readable : \A j \in Readable : j <= i
BoardWeights == IF Readable = {} THEN {} ELSE rows[Latest].weights

-----------------------------------------------------------------------------

RoundStep ==
    \/ Evaluate
    \/ Attack
    \/ \E charged \in SUBSET Range(lineup.breakers) : Score(charged)
    \/ SetWeights
    \/ PutArtifacts
    \/ CommitFails
    \/ Commit
    \/ LogRound
    \/ LogFails
    \/ RoundEnd
    \/ RoundRaises

Next ==
    \/ \E l \in Lineups : StartRound(l)
    \/ RoundStep
    \/ Restart

Spec == Init /\ [][Next]_vars

(* A round under way keeps moving, and run() starts the next one.          *)
FairSpec ==
    /\ Spec
    /\ WF_vars(RoundStep)
    /\ WF_vars(\E l \in Lineups : StartRound(l))

-----------------------------------------------------------------------------
(* Properties.                                                             *)

(* The order of steps 6 and 7: whatever raises and wherever the process    *)
(* dies, the ledger records no round whose weights were not set.           *)
RecordsWereWeighed ==
    \A i \in DOMAIN ledger : ledger[i].serial \in weighed

(* rounds.jsonl never claims a ledger entry it does not have: the height   *)
(* in a row is that of the row's own round, also after failed commits.     *)
RowsNameTheirRecord ==
    \A i \in DOMAIN rows :
        rows[i] # Torn /\ rows[i].ledger # 0 =>
            /\ rows[i].ledger \in DOMAIN ledger
            /\ ledger[rows[i].ledger] =
                 [serial |-> rows[i].serial, round_id |-> rows[i].round_id]

(* "full records": asked for a round of the running process, the server    *)
(* answers with that round, or with one an earlier process gave the id to, *)
(* whatever lines of the log were lost.                                    *)
DetailIsTheRound ==
    \A i \in Readable :
        rows[i].serial > since =>
            RoundDetail(rows[i].round_id) = rows[i]
            \/ RoundDetail(rows[i].round_id).serial <= since

(* The leaderboard's "on-chain weight" is the one on chain whenever the    *)
(* last round that set weights is the last one in the log, for lineups     *)
(* that number the neurons as the metagraph does.                          *)
BoardShowsChain ==
    Readable # {} /\ (\A n \in weighed : n <= rows[Latest].serial) =>
        \A u \in Uids : u \in onchain <=> Meta[u + 1] \in BoardWeights

(* What the page shows of past rounds.                                     *)
PageIsTruthful == DetailIsTheRound /\ BoardShowsChain

(* "Normalized weights [...] map to the correct metagraph UIDs": a weight  *)
(* that changes on chain becomes what the EMA of that neuron's hotkey says.*)
PaidAsEarned ==
    [][\A u \in Uids :
          (u \in onchain') # (u \in onchain) =>
              ((u \in onchain') <=> Meta[u + 1] \in ema)]_vars

(* run() survives every exception of a round: the loop comes back for the  *)
(* next one until the bound.                                               *)
LoopSurvives == <>[](stage = "idle" /\ serial = MaxRounds)

=============================================================================
