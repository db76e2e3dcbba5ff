----------------------------- MODULE Translator -----------------------------
(***************************************************************************)
(* A translation request from dendrite to answer: Dendrite.forward() of    *)
(* substrate/__init__.py asks one axon after the other, and the miner of   *)
(* neurons/miner_translator.py behind an axon drafts, tests its draft      *)
(* against the C program and repairs it.  The model it asks is LLMClient,  *)
(* its self-test DiffFuzz.  A program is what the static gate and rustc    *)
(* say of it and, if it compiles, the inputs on which it differs from C.   *)
(***************************************************************************)
EXTENDS DiffFuzz, LLMClient

CONSTANTS
    Axons,        \* who is asked, in order: "llm", "fixture", or "gone"
    FixtureCode,  \* what a fixture answers: it only looks the program up
    MaxRepairs,   \* max_repairs
    CPrograms,    \* [ub, crash] of the C programs a challenge may hold
    MaxRequests   \* bound: requests made

ASSUME InputsAssumption == IsFiniteSet(Inputs)
ASSUME AxonsAssumption == Axons \in Seq({"llm", "fixture", "gone"})
ASSUME MaxRepairsAssumption == MaxRepairs \in Nat
ASSUME ProgramsAssumption ==
    Programs \subseteq [gate : {"banned", "rejected", "compiles"}, differs : SUBSET Inputs]
ASSUME FixtureAssumption == FixtureCode \in Programs
ASSUME CProgramsAssumption == CPrograms \subseteq [ub : SUBSET Inputs, crash : SUBSET Inputs]
ASSUME RequestsAssumption == MaxRequests \in Nat

VARIABLES
    requests,    \* how many were made
    responses,   \* one per axon asked so far, by this request
    pc,          \* the step that comes next
    drafts,      \* last_trace: the drafts of the loop and their verdicts
    best,        \* best_code, as a draft (0: none compiled)
    reply        \* the draft the loop returns (0: none)

llmVars == <<client, recordings>>
vars == <<diffVars, llmVars, requests, responses, pc, drafts, best, reply>>

Evidence(why, hits) == [why |-> why, hits |-> hits]
First == Evidence("first", {})
Untested == Evidence("untested", {})

Draft == drafts[Len(drafts)]
Axon == Axons[Len(responses) + 1]

Init ==
    /\ \E p \in CPrograms : ub = p.ub /\ crash = p.crash
    /\ oracle = "none" /\ built = NoBinary
    /\ clean = Nothing /\ ref = Nothing /\ cand = Nothing
    /\ client \in Clients
    /\ recordings = << >>
    /\ requests = 0 /\ responses = << >>
    /\ pc = "idle"
    /\ drafts = << >> /\ best = 0 /\ reply = 0

(* The miner is started anew, with other credentials or switches.          *)
Restart(c) ==
    /\ pc = "idle"
    /\ client' = c
    /\ drafts' = << >> /\ best' = 0 /\ reply' = 0
    /\ UNCHANGED <<diffVars, recordings, requests, responses, pc>>

(* The loop of forward(), when it has so many responses.                   *)
Turn(count) == IF count = Len(Axons) THEN "idle" ELSE "route"

Request ==
    /\ pc = "idle"
    /\ requests < MaxRequests
    /\ requests' = requests + 1
    /\ responses' = << >>
    /\ pc' = Turn(0)
    /\ UNCHANGED <<diffVars, llmVars, drafts, best, reply>>

(* A response has a status and, when it is 200, the code submitted.        *)
Respond(status, code) ==
    /\ responses' = Append(responses, [status |-> status, code |-> code])
    /\ pc' = Turn(Len(responses) + 1)

(* The axon's handler runs at once, unless there is none.                  *)
Route ==
    /\ pc = "route"
    /\ \/ Axon = "gone" /\ Respond(404, NoText) /\ UNCHANGED <<drafts, best, reply>>
       \/ Axon = "fixture" /\ Respond(200, FixtureCode) /\ UNCHANGED <<drafts, best, reply>>
       \/ /\ Axon = "llm"
          /\ pc' = "first"
          /\ drafts' = << >> /\ best' = 0 /\ reply' = 0
          /\ UNCHANGED responses
    /\ UNCHANGED <<diffVars, llmVars, requests>>

(* extract_rust: what a model answers is taken for a program.              *)
Drafted(answer) ==
    drafts' = Append(drafts, [code |-> answer.text, by |-> answer.by, verdict |-> Untested])

(* Without a first draft the miner submits the empty string.               *)
FirstDraft(result) ==
    /\ pc = "first"
    /\ Complete(First, 1, result)
    /\ IF result = NoText THEN pc' = "return" /\ UNCHANGED drafts
       ELSE pc' = "oracle" /\ Drafted(result)
    /\ UNCHANGED <<diffVars, client, requests, responses, best, reply>>

(* LocalDiff(c_code); without an oracle the draft goes out untested.       *)
Oracle(left) ==
    /\ pc = "oracle"
    /\ BuildOracle(left)
    /\ IF left = "none" THEN pc' = "return" /\ reply' = 1
       ELSE pc' = "judge" /\ UNCHANGED reply
    /\ UNCHANGED <<program, llmVars, requests, responses, drafts, best>>

Judged(verdict) ==
    /\ drafts' = [drafts EXCEPT ![Len(drafts)] =
                    [code |-> Draft.code, by |-> Draft.by, verdict |-> verdict]]
    /\ pc' = "decide"

(* local_static_check, a mirror of the validator's gate.                   *)
Banned == Draft.code.gate = "banned"

(* What the gate bans is not built.                                        *)
Judge ==
    /\ pc = "judge"
    /\ CASE Banned ->
                Judged(Evidence("banned", {})) /\ UNCHANGED <<built, cache>>
         [] Draft.code.gate = "rejected" ->
                Judged(Evidence("rejected", {})) /\ BuildRust(NoBinary)
         [] Draft.code.gate = "compiles" ->
                /\ BuildRust(Draft.code.differs)
                /\ pc' = "test"
                /\ UNCHANGED drafts
    /\ UNCHANGED <<program, oracle, llmVars, requests, responses, best, reply>>

Fewer(hits) == best = 0 \/ Cardinality(hits) < Cardinality(drafts[best].verdict.hits)

(* fuzz() has run `batch`, and what failed or was late is in `mishap` and  *)
(* `unclean`. Shrinking may make one reproducer of several hits, not none. *)
SelfTest(batch, mishap, unclean) ==
    LET hit == HitsIn(RefAfter(batch, mishap), CandAfter(batch, mishap), batch)
        known == Screened(clean, hit, unclean)
        clear == {i \in hit : known[i]}
    IN  /\ pc = "test"
        /\ ref' = RefAfter(batch, mishap)
        /\ cand' = CandAfter(batch, mishap)
        /\ unclean \subseteq hit
        /\ clean' = known
        /\ \E hits \in SUBSET clear :
             /\ hits = {} <=> clear = {}
             /\ best' = IF Fewer(hits) THEN Len(drafts) ELSE best
             /\ Judged(Evidence(IF hits = {} THEN "clean" ELSE "diverges", hits))
        /\ UNCHANGED <<program, oracle, built, llmVars, requests, responses, reply>>

Return(draft) ==
    /\ pc' = "return"
    /\ reply' = draft
    /\ UNCHANGED <<diffVars, client, requests, responses, best>>

Accept ==
    /\ pc = "decide"
    /\ Draft.verdict.why = "clean"
    /\ Return(Len(drafts))
    /\ UNCHANGED <<recordings, drafts>>

(* Faulty: the draft of the last repair goes out, however it tested. *)
Salvaged_Last == Len(drafts)

(* Out of repairs: the best draft that compiled, or else the last one.     *)
Salvaged == IF best = 0 THEN Len(drafts) ELSE best

(* Faulty: one repair too many. *)
MayRepair_Extra == Len(drafts) <= MaxRepairs + 1

MayRepair == Len(drafts) <= MaxRepairs

GiveUp ==
    /\ pc = "decide"
    /\ Draft.verdict.why # "clean"
    /\ ~MayRepair
    /\ Return(Salvaged)
    /\ UNCHANGED <<recordings, drafts>>

(* No answer to the repair prompt keeps the best draft so far.             *)
Repair(result) ==
    /\ pc = "decide"
    /\ Draft.verdict.why # "clean"
    /\ MayRepair
    /\ Complete(Draft.verdict, Len(drafts) + 1, result)
    /\ IF result = NoText THEN Return(Salvaged) /\ UNCHANGED drafts
       ELSE /\ pc' = "judge"
            /\ Drafted(result)
            /\ UNCHANGED <<diffVars, client, requests, responses, best, reply>>

(* close(): the programs built and all that was remembered are gone.       *)
Close ==
    /\ oracle' = "none" /\ built' = NoBinary
    /\ clean' = Nothing /\ ref' = Nothing /\ cand' = Nothing

(* forward() returns to the dendrite.                                      *)
Answer ==
    /\ pc = "return"
    /\ Close
    /\ Respond(200, IF reply = 0 THEN NoText ELSE drafts[reply].code)
    /\ UNCHANGED <<program, llmVars, requests, drafts, best, reply>>

(* Faulty: the error is logged and the next axon asked. *)
Fails_Silently ==
    /\ Close
    /\ pc' = Turn(Len(responses) + 1)
    /\ UNCHANGED responses

(* An exception anywhere in the handler ends it, drafts and all.           *)
Fails ==
    /\ Close
    /\ Respond(500, NoText)

(* A directory or a file of the self-test could not be made.               *)
MinerRaises ==
    /\ pc \in {"oracle", "judge", "test"}
    /\ Fails
    /\ UNCHANGED <<program, llmVars, requests, drafts, best, reply>>

RecordingRaises ==
    /\ \/ pc = "first" /\ CompleteRaises(First, 1)
       \/ /\ pc = "decide"
          /\ Draft.verdict.why # "clean"
          /\ MayRepair
          /\ CompleteRaises(Draft.verdict, Len(drafts) + 1)
    /\ Fails
    /\ UNCHANGED <<program, client, requests, drafts, best, reply>>

Work ==
    \/ Route
    \/ \E result \in Answers \union {NoText} : FirstDraft(result) \/ Repair(result)
    \/ \E left \in Oracles : Oracle(left)
    \/ Judge
    \/ /\ pc = "test"
       /\ \E batch \in SUBSET Inputs :
            \E mishap \in Mishaps(batch), unclean \in Losses(clean, batch) :
                SelfTest(batch, mishap, unclean)
    \/ Accept \/ GiveUp \/ Answer
    \/ MinerRaises \/ RecordingRaises

Next == Request \/ (\E c \in Clients : Restart(c)) \/ Work

(* A handler that runs goes on running: every wait in it is bounded.       *)
Spec == Init /\ [][Next]_vars /\ WF_vars(Work)

-----------------------------------------------------------------------------
(* Properties.                                                             *)

Verdicts == {"banned", "rejected", "diverges", "clean"}

(* The loop is bounded: one draft and max_repairs repairs of it.           *)
TypeOK ==
    /\ DiffTypeOK
    /\ client \in Clients
    /\ \A n \in DOMAIN recordings : recordings[n] \in Answers \union {Unreadable}
    /\ requests \in 0 .. MaxRequests
    /\ Len(responses) <= Len(Axons)
    /\ pc \in {"idle", "route", "first", "oracle", "judge", "test", "decide", "return"}
    /\ Len(drafts) <= MaxRepairs + 1
    /\ \A k \in DOMAIN drafts :
        /\ [text |-> drafts[k].code, by |-> drafts[k].by] \in Answers
        /\ drafts[k].verdict \in [why : Verdicts \union {"untested"}, hits : SUBSET Inputs]
    /\ best \in 0 .. Len(drafts) /\ reply \in 0 .. Len(drafts)

(* "Out of repairs: submit the best compiling candidate we saw": whichever *)
(* way the loop ends, no draft that compiled had fewer divergences than    *)
(* the one submitted; one that does not compile goes out only if none did, *)
(* and then the last.                                                      *)
BestOfDrafts ==
    pc = "return" /\ oracle # "none" =>
        LET compiled == {k \in DOMAIN drafts : drafts[k].verdict.why \in {"clean", "diverges"}}
            divergences(k) == Cardinality(drafts[k].verdict.hits)
        IN  IF compiled = {} THEN reply = Len(drafts)
            ELSE /\ reply \in compiled
                 /\ \A k \in compiled : /\ divergences(reply) <= divergences(k)
                                        /\ k < reply => divergences(reply) < divergences(k)

(* A draft is judged by runs of that very draft, never by what is still    *)
(* known of the draft before: the divergences that go into the repair      *)
(* prompt are its own. Only where a program was late are they not, and     *)
(* what was late of the C program is held against every later draft. None  *)
(* is on an input that makes the C program crash or hang, and with a       *)
(* sanitizer build none on which its behaviour is undefined: the screen is *)
(* passed by none of these, and its cache holds over all drafts.           *)
EvidenceIsOwn ==
    pc = "decide" =>
        /\ Draft.verdict.hits \subseteq Draft.code.differs \union Late
        /\ Draft.verdict.hits \intersect crash = {}
        /\ oracle = "sanitized" => \A i \in Draft.verdict.hits : Valid(i)

(* Without credentials the miner drafts with "*real* recorded model        *)
(* output": never with what the test stub answered, in whatever order runs *)
(* with and without it share the recordings, and never a half of one.      *)
GenuineReplay ==
    client.provider = "none" => \A k \in DOMAIN drafts : drafts[k].by = "live"

(* Every request comes back with one response for each axon, in the order  *)
(* asked (the validator pairs them up by position): missing handlers,      *)
(* failed calls and exceptions included.                                   *)
QueryAnswered ==
    (pc = "route") ~>
        /\ pc = "idle"
        /\ Len(responses) = Len(Axons)
        /\ \A k \in DOMAIN Axons : responses[k].status = 404 <=> Axons[k] = "gone"

=============================================================================
