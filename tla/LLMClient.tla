----------------------------- MODULE LLMClient ------------------------------
(***************************************************************************)
(* complete() of neurons/llm.py: the model behind a client, and the        *)
(* recordings of dataset/llm_replay that stand in for it.  A recording is  *)
(* filed three times: under the exact provider, model and prompt, under    *)
(* the prompt alone, and under the caller's key (the attempt).  Prompts    *)
(* are told apart by the evidence they carry.                              *)
(***************************************************************************)
EXTENDS Naturals, Sequences, SequencesExt

CONSTANTS
    Clients,      \* the ways in which a miner's process may be started
    Programs,     \* texts a model may answer with
    NoText,       \* complete() returns None
    Unreadable    \* a file whose writing was interrupted

VARIABLES
    client,       \* how the miner's process was started: its provider and the
                  \* switches PROBUS_LLM_RECORD and PROBUS_LLM_REPLAY
    recordings    \* the replay files: what was answered, and by whom

(* One kind of live provider is enough: another one only misses "exact".   *)
Providers == {"none", "live", "stub"}
AnyClient == {c \in [provider : Providers, record : BOOLEAN, replay : BOOLEAN] :
                c.provider = "none" => c.replay}

ASSUME ClientsAssumption == Clients \subseteq AnyClient

Answers == [text : Programs, by : {"live", "stub"}]

Names(evidence, attempt) ==
    <<<<"exact", evidence>>, <<"prompt", evidence>>, <<"key", attempt>>>>

(* Only what a live provider answered is filed under its own name.         *)
Candidates(evidence, attempt) ==
    IF client.provider = "live" THEN Names(evidence, attempt)
    ELSE Tail(Names(evidence, attempt))

(* _load_replay: the first file that exists decides, readable or not.      *)
Replayed(evidence, attempt) ==
    LET names == Candidates(evidence, attempt)
        found == {k \in DOMAIN names : names[k] \in DOMAIN recordings}
        first == CHOOSE k \in found : \A j \in found : k <= j
    IN  IF ~client.replay \/ found = {} THEN NoText
        ELSE IF recordings[names[first]] = Unreadable THEN NoText
             ELSE recordings[names[first]]

With(names, answer) ==
    [n \in DOMAIN recordings \union ToSet(names) |->
        IF n \in ToSet(names) THEN answer ELSE recordings[n]]

(* Faulty: what the test stub answered is recorded as well. *)
Recorded_Stub == client.record

Recorded == client.record /\ client.provider # "stub"

(* _save_replay, when every file could be written.                         *)
Save(evidence, attempt, answer) ==
    recordings' = IF Recorded THEN With(Names(evidence, attempt), answer) ELSE recordings

(* It raises: some of the files were written and the next may be cut off.  *)
SaveFails(evidence, attempt, answer) ==
    /\ Recorded
    /\ \E n \in 0 .. 2, cut \in BOOLEAN :
         LET names == Names(evidence, attempt)
             whole == With(SubSeq(names, 1, n), answer)
         IN  recordings' =
                IF cut THEN [f \in DOMAIN whole \union {names[n + 1]} |->
                                IF f = names[n + 1] THEN Unreadable ELSE whole[f]]
                ELSE whole

(* A provider refuses, fails or answers with anything; there may be none.  *)
Called(result) ==
    \/ result = NoText
    \/ /\ client.provider # "none"
       /\ result # NoText
       /\ result.by = client.provider

(* The result is an answer or NoText; a call that fails is not an error.   *)
Complete(evidence, attempt, result) ==
    LET replayed == Replayed(evidence, attempt)
    IN  IF replayed # NoText
        THEN result = replayed /\ UNCHANGED recordings
        ELSE /\ Called(result)
             /\ IF result = NoText THEN UNCHANGED recordings
                ELSE Save(evidence, attempt, result)

(* The model answered, and recording that raised.                          *)
CompleteRaises(evidence, attempt) ==
    /\ client.provider # "none"
    /\ Replayed(evidence, attempt) = NoText
    /\ \E text \in Programs :
         SaveFails(evidence, attempt, [text |-> text, by |-> client.provider])

=============================================================================
