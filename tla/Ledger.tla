------------------------------- MODULE Ledger -------------------------------
(***************************************************************************)
(* The verified translation ledger, neurons/ledger.py: the object store,   *)
(* the round records and the chain file, as the files stand between any    *)
(* two system calls.  Committers are the threads or processes that run     *)
(* _commit_ledger of neurons/validator.py; a verifier walks the same files *)
(* while they work (GET /api/ledger/verify, scripts/verify_ledger.py).     *)
(*                                                                         *)
(* A digest is the blob itself: SHA-256 is taken to be injective.  Root is *)
(* any function of the hashed fields (module Merkle has the code's).       *)
(* I/O errors and the death of the process look alike from the disk: the   *)
(* committer stops where it is.  Loss of power is not modelled (the code   *)
(* never calls fsync, and the order of writes would then be lost).         *)
(***************************************************************************)
EXTENDS Naturals, Sequences

CONSTANTS
    Committers,   \* threads or processes that commit rounds
    Blobs,        \* artifact contents: C source, Rust sources, reproducers
    HashedFields, \* values of the record's fields that leaves cover
    Metas,        \* values of the record's fields that no leaf covers
    Root(_),      \* the root of hashed fields
    Artifacts(_), \* the digests that hashed fields name
    Contents,     \* the rounds that can be committed
    MaxHeight,    \* bound: lines the chain may reach
    Faults,       \* TRUE: writes may fail and processes may die
    NoFile,       \* no file under that name
    Cut,          \* a file, or a line, whose text stops short
    Genesis       \* "0" * 64

ContentType == [hashed : HashedFields, meta : Metas]

ASSUME ContentsAssumption == Contents \subseteq ContentType
ASSUME ArtifactsAssumption == \A h \in HashedFields : Artifacts(h) \subseteq Blobs
ASSUME HeightAssumption == MaxHeight \in Nat
ASSUME FaultsAssumption == Faults \in BOOLEAN

VARIABLES
    objects,   \* ledger/objects: the state of the file of each digest
    rounds,    \* ledger/rounds: the file of each height
    chain,     \* ledger/chain.jsonl: its lines
    ended,     \* whether the last of them ends in a newline
    pc,        \* where each committer is
    round,     \* the round each committer is committing
    todo,      \* artifacts each committer has still to put
    blob,      \* the artifact each committer is writing
    height,    \* each committer's next_height()
    prev,      \* each committer's last_root()
    vpc,       \* where the verifier is
    vsnap,     \* the chain lines the verifier read
    vpos,      \* the line it is at
    vprev,     \* the root it expects that line to name
    vobjs,     \* digests of the record it has loaded
    vbad,      \* whether it has noted a problem
    verdict    \* what the last verification returned

disk == <<objects, rounds, chain, ended>>
committer == <<pc, round, todo, blob, height, prev>>
verifier == <<vpc, vsnap, vpos, vprev, vobjs, vbad, verdict>>
vars == <<disk, committer, verifier>>

-----------------------------------------------------------------------------
(* Records, roots and chain lines.                                         *)

(* The lines nothing can happen to any more: whole, and ended by a newline.*)
Complete == IF chain # << >> /\ (~ ended \/ chain[Len(chain)] = Cut)
            THEN Len(chain) - 1
            ELSE Len(chain)

(* The records the chain vouches for.                                      *)
CommittedLog == [i \in 1 .. Complete |-> rounds[i]]

Log == INSTANCE AuditLog WITH log <- CommittedLog

RecordOf(content, h, p) == Log!RecordOf(content, h, p)
EntryOf(rec) == [height |-> rec.height, root |-> rec.root, prev |-> rec.prev]

Roots == {Root(content.hashed) : content \in Contents}
Heights == 1 .. MaxHeight
Records == {RecordOf(content, h, p) :
              content \in Contents, h \in Heights, p \in Roots \union {Genesis}}
Entries == {EntryOf(rec) : rec \in Records}

ASSUME SentinelAssumption ==
    /\ NoFile # Cut
    /\ NoFile \notin Records /\ Cut \notin Records /\ Cut \notin Entries
    /\ NoFile \notin Contents

(* A line that json.loads rejects, anywhere in the file.                   *)
Readable(lines) == \A i \in 1 .. Len(lines) : lines[i] # Cut

LastRoot(lines) ==
    IF lines = << >> THEN Genesis ELSE lines[Len(lines)].root

(* Text that follows a line without a newline belongs to that line, which  *)
(* then holds no JSON value or two, and does not parse either way.         *)
WithLine(line) ==
    IF ended THEN Append(chain, line) ELSE [chain EXCEPT ![Len(chain)] = Cut]

Init ==
    /\ objects = [b \in Blobs |-> "absent"]
    /\ rounds = [h \in Heights |-> NoFile]
    /\ chain = << >>
    /\ ended = TRUE
    /\ pc = [c \in Committers |-> "idle"]
    /\ round = [c \in Committers |-> NoFile]
    /\ todo = [c \in Committers |-> {}]
    /\ blob = [c \in Committers |-> NoFile]
    /\ height = [c \in Committers |-> 0]
    /\ prev = [c \in Committers |-> Genesis]
    /\ vpc = "idle"
    /\ vsnap = << >>
    /\ vpos = 1
    /\ vprev = Genesis
    /\ vobjs = {}
    /\ vbad = FALSE
    /\ verdict = "none"

-----------------------------------------------------------------------------
(* Putting the artifacts of a round.                                       *)

StartRound(c, content) ==
    /\ pc[c] = "idle"
    /\ Len(chain) < MaxHeight
    /\ pc' = [pc EXCEPT ![c] = "put"]
    /\ round' = [round EXCEPT ![c] = content]
    /\ todo' = [todo EXCEPT ![c] = Artifacts(content.hashed)]
    /\ UNCHANGED <<disk, blob, height, prev, verifier>>

(* put() finds a file under the digest and trusts it.                      *)
PutSkip(c, b) ==
    /\ pc[c] = "put"
    /\ b \in todo[c]
    /\ objects[b] # "absent"
    /\ todo' = [todo EXCEPT ![c] = @ \ {b}]
    /\ UNCHANGED <<disk, pc, round, blob, height, prev, verifier>>

PutMiss(c, b) ==
    /\ pc[c] = "put"
    /\ b \in todo[c]
    /\ objects[b] = "absent"
    /\ blob' = [blob EXCEPT ![c] = b]
    /\ pc' = [pc EXCEPT ![c] = "open"]
    /\ UNCHANGED <<disk, round, todo, height, prev, verifier>>

(* open(path, "wb") creates the file, or empties the one that is there.    *)
PutOpen(c) ==
    /\ pc[c] = "open"
    /\ objects' = [objects EXCEPT ![blob[c]] = "partial"]
    /\ pc' = [pc EXCEPT ![c] = "write"]
    /\ UNCHANGED <<rounds, chain, ended, round, todo, blob, height, prev, verifier>>

PutWrite(c) ==
    /\ pc[c] = "write"
    /\ objects' = [objects EXCEPT ![blob[c]] = "whole"]
    /\ todo' = [todo EXCEPT ![c] = @ \ {blob[c]}]
    /\ pc' = [pc EXCEPT ![c] = "put"]
    /\ UNCHANGED <<rounds, chain, ended, round, blob, height, prev, verifier>>

-----------------------------------------------------------------------------
(* commit(record).                                                         *)

(* Faulty: commits without waiting for the puts. *)
PutsDone_Never(c) == TRUE

PutsDone(c) == todo[c] = {}

(* Faulty: the count of lines itself, or 1 for an empty chain. *)
NextHeight_Count == IF chain = << >> THEN 1 ELSE Len(chain)

(* next_height() counts every line, readable or not.                       *)
NextHeight == Len(chain) + 1

ReadHeight(c) ==
    /\ pc[c] = "put"
    /\ PutsDone(c)
    /\ Len(chain) < MaxHeight
    /\ height' = [height EXCEPT ![c] = NextHeight]
    /\ pc' = [pc EXCEPT ![c] = "prev"]
    /\ UNCHANGED <<disk, round, todo, blob, prev, verifier>>

(* Faulty: no case for the empty chain. *)
ReadPrev_NoGenesis(c) ==
    /\ pc[c] = "prev"
    /\ chain # << >> /\ Readable(chain)
    /\ prev' = [prev EXCEPT ![c] = LastRoot(chain)]
    /\ pc' = [pc EXCEPT ![c] = "record"]
    /\ UNCHANGED <<disk, round, todo, blob, height, verifier>>

ReadPrev(c) ==
    /\ pc[c] = "prev"
    /\ Readable(chain)
    /\ prev' = [prev EXCEPT ![c] = LastRoot(chain)]
    /\ pc' = [pc EXCEPT ![c] = "record"]
    /\ UNCHANGED <<disk, round, todo, blob, height, verifier>>

(* last_root() raises; _commit_ledger logs the error and the round goes on *)
(* without a ledger entry.                                                 *)
ReadPrevFails(c) ==
    /\ pc[c] = "prev"
    /\ ~ Readable(chain)
    /\ pc' = [pc EXCEPT ![c] = "idle"]
    /\ UNCHANGED <<disk, round, todo, blob, height, prev, verifier>>

(* Faulty: a record that exists is kept, as put() keeps an object. *)
RecordOpen_KeepExisting(c) ==
    /\ pc[c] = "record"
    /\ IF rounds[height[c]] = NoFile
       THEN /\ rounds' = [rounds EXCEPT ![height[c]] = Cut]
            /\ pc' = [pc EXCEPT ![c] = "dump"]
       ELSE /\ UNCHANGED rounds
            /\ pc' = [pc EXCEPT ![c] = "append"]
    /\ UNCHANGED <<objects, chain, ended, round, todo, blob, height, prev, verifier>>

(* open(rounds/<height>.json, "w") empties a record left by a round that   *)
(* never reached the chain.                                                *)
RecordOpen(c) ==
    /\ pc[c] = "record"
    /\ rounds' = [rounds EXCEPT ![height[c]] = Cut]
    /\ pc' = [pc EXCEPT ![c] = "dump"]
    /\ UNCHANGED <<objects, chain, ended, round, todo, blob, height, prev, verifier>>

RecordWrite(c) ==
    /\ pc[c] = "dump"
    /\ rounds' = [rounds EXCEPT ![height[c]] =
                    RecordOf(round[c], height[c], prev[c])]
    /\ pc' = [pc EXCEPT ![c] = "append"]
    /\ UNCHANGED <<objects, chain, ended, round, todo, blob, height, prev, verifier>>

ChainAppend(c) ==
    /\ pc[c] = "append"
    /\ chain' = WithLine(EntryOf(RecordOf(round[c], height[c], prev[c])))
    /\ ended' = TRUE
    /\ pc' = [pc EXCEPT ![c] = "idle"]
    /\ UNCHANGED <<objects, rounds, round, todo, blob, height, prev, verifier>>

(* The disk fills up within the line, or just before its newline: commit() *)
(* raises, and the line is read all the same if it is whole.               *)
ChainAppendCut(c) ==
    /\ Faults
    /\ pc[c] = "append"
    /\ \E line \in {Cut, EntryOf(RecordOf(round[c], height[c], prev[c]))} :
          chain' = WithLine(line)
    /\ ended' = FALSE
    /\ pc' = [pc EXCEPT ![c] = "idle"]
    /\ UNCHANGED <<objects, rounds, round, todo, blob, height, prev, verifier>>

(* A call fails, or the process dies, between any two of the steps above:  *)
(* the files stay as they are and the next round starts from them.         *)
Abort(c) ==
    /\ Faults
    /\ pc[c] # "idle"
    /\ pc' = [pc EXCEPT ![c] = "idle"]
    /\ UNCHANGED <<disk, round, todo, blob, height, prev, verifier>>

CommitStep(c) ==
    \/ \E b \in Blobs : PutSkip(c, b) \/ PutMiss(c, b)
    \/ PutOpen(c)
    \/ PutWrite(c)
    \/ ReadHeight(c)
    \/ ReadPrev(c)
    \/ ReadPrevFails(c)
    \/ RecordOpen(c)
    \/ RecordWrite(c)
    \/ ChainAppend(c)

-----------------------------------------------------------------------------
(* verify().                                                               *)

(* Faulty: a line that does not parse is kept as it stands. *)
VerifyStart_AnyLine ==
    /\ vpc = "idle"
    /\ vsnap' = chain
    /\ vpos' = 1
    /\ vprev' = Genesis
    /\ vbad' = FALSE
    /\ vpc' = "record"
    /\ verdict' = "none"
    /\ UNCHANGED <<disk, committer, vobjs>>

VerifyStart ==
    /\ vpc = "idle"
    /\ Readable(chain)
    /\ vsnap' = chain
    /\ vpos' = 1
    /\ vprev' = Genesis
    /\ vbad' = FALSE
    /\ vpc' = "record"
    /\ verdict' = "none"
    /\ UNCHANGED <<disk, committer, vobjs>>

(* json.loads raises on a line that was cut.                               *)
VerifyChainRaises ==
    /\ vpc = "idle"
    /\ ~ Readable(chain)
    /\ verdict' = "error"
    /\ UNCHANGED <<disk, committer, vpc, vsnap, vpos, vprev, vobjs, vbad>>

Entry == vsnap[vpos]
Filed == rounds[Entry.height]

(* `continue`: prev is not advanced past a missing record.                 *)
VerifyRecordMissing ==
    /\ Filed = NoFile
    /\ vbad' = TRUE
    /\ vpos' = vpos + 1
    /\ UNCHANGED <<disk, committer, vpc, vsnap, vprev, vobjs, verdict>>

VerifyRecordRaises ==
    /\ Filed = Cut
    /\ vpc' = "idle"
    /\ verdict' = "error"
    /\ UNCHANGED <<disk, committer, vsnap, vpos, vprev, vobjs, vbad>>

(* Faulty: the recomputed root is compared with the record's only. *)
RootMismatch_RecordOnly == Root(Filed.content.hashed) # Filed.root

RootMismatch ==
    \/ Root(Filed.content.hashed) # Filed.root
    \/ Root(Filed.content.hashed) # Entry.root

VerifyRecord ==
    /\ Filed \notin {NoFile, Cut}
    /\ vbad' = (vbad \/ Filed.prev # vprev \/ Entry.prev # vprev \/ RootMismatch)
    /\ vobjs' = Artifacts(Filed.content.hashed)
    /\ vpc' = "objects"
    /\ UNCHANGED <<disk, committer, vsnap, vpos, vprev, verdict>>

LoadRecord ==
    /\ vpc = "record"
    /\ vpos <= Len(vsnap)
    /\ VerifyRecordMissing \/ VerifyRecordRaises \/ VerifyRecord

(* Faulty: an artifact passes if its file is there. *)
Failing_Missing == {b \in vobjs : objects[b] = "absent"}

(* Artifacts that are missing, or whose file does not hash to its name.    *)
Failing == {b \in vobjs : objects[b] # "whole"}

VerifyObjects ==
    /\ vpc = "objects"
    /\ vbad' = (vbad \/ Failing # {})
    /\ vprev' = Entry.root
    /\ vpos' = vpos + 1
    /\ vpc' = "record"
    /\ UNCHANGED <<disk, committer, vsnap, vobjs, verdict>>

VerifyReport ==
    /\ vpc = "record"
    /\ vpos > Len(vsnap)
    /\ verdict' = IF vbad THEN "bad" ELSE "ok"
    /\ vpc' = "idle"
    /\ UNCHANGED <<disk, committer, vsnap, vpos, vprev, vobjs, vbad>>

VerifyStep ==
    \/ LoadRecord
    \/ VerifyObjects
    \/ VerifyReport

-----------------------------------------------------------------------------

Next ==
    \/ \E c \in Committers, content \in Contents : StartRound(c, content)
    \/ \E c \in Committers : CommitStep(c) \/ ChainAppendCut(c) \/ Abort(c)
    \/ VerifyStart
    \/ VerifyChainRaises
    \/ VerifyStep

Spec == Init /\ [][Next]_vars

-----------------------------------------------------------------------------
(* Properties.                                                             *)

TypeOK ==
    /\ objects \in [Blobs -> {"absent", "partial", "whole"}]
    /\ rounds \in [Heights -> Records \union {NoFile, Cut}]
    /\ chain \in Seq(Entries \union {Cut})
    /\ ended \in BOOLEAN
    /\ pc \in [Committers -> {"idle", "put", "open", "write", "prev", "record",
                              "dump", "append"}]
    /\ round \in [Committers -> Contents \union {NoFile}]
    /\ todo \in [Committers -> SUBSET Blobs]
    /\ blob \in [Committers -> Blobs \union {NoFile}]
    /\ height \in [Committers -> 0 .. MaxHeight]
    /\ prev \in [Committers -> Roots \union {Genesis}]
    /\ vpc \in {"idle", "record", "objects"}
    /\ vsnap \in Seq(Entries)
    /\ vpos \in Nat \ {0}
    /\ vprev \in Roots \union {Genesis}
    /\ vobjs \in SUBSET Blobs
    /\ vbad \in BOOLEAN
    /\ verdict \in {"none", "ok", "bad", "error"}

(* The order of rounds is what commit() promises to fix: line i carries    *)
(* height i and names the root of line i - 1 (next_height and last_root    *)
(* are read from the same chain the line is appended to).                  *)
ChainLinked ==
    \A i \in 1 .. Len(chain) :
        chain[i] # Cut =>
            /\ chain[i].height = i
            /\ chain[i].prev = IF i = 1 THEN Genesis ELSE chain[i - 1].root

(* Record before chain: whatever fails and wherever the process dies, a    *)
(* line of the chain is backed by a complete record of its own round.      *)
RecordBacked ==
    \A i \in 1 .. Len(chain) :
        chain[i] # Cut =>
            /\ rounds[i] \notin {NoFile, Cut}
            /\ EntryOf(rounds[i]) = chain[i]
            /\ rounds[i].root = Root(rounds[i].content.hashed)

(* Objects before record: a record on the chain names no artifact without  *)
(* a file (the puts of _commit_ledger come before commit).                 *)
ObjectsBacked ==
    \A i \in 1 .. Len(chain) :
        chain[i] # Cut =>
            \A b \in Artifacts(rounds[i].content.hashed) : objects[b] # "absent"

(* A record that reached the chain is never rewritten, although commit()   *)
(* opens its file for writing, and the lines of the chain stay as they     *)
(* are, except that a last line without a newline is lost to the next one. *)
CommittedForGood ==
    [][\A i \in 1 .. Len(chain) :
          /\ i <= Len(chain')
          /\ chain'[i] = chain[i] \/ (i = Len(chain) /\ ~ ended)
          /\ chain[i] # Cut => rounds'[i] = rounds[i]]_vars

(* A line that was cut is the last one for good: every later commit fails  *)
(* in last_root(), so the chain stops rather than continue past a gap.     *)
CutIsLast ==
    \A i \in 1 .. Len(chain) : chain[i] = Cut => i = Len(chain)

(* verify() runs while rounds are committed (a request thread of server.py *)
(* beside the round's worker) and still reports exactly the damage that is *)
(* there: "bad" only for an artifact whose write was interrupted, "ok"     *)
(* only if every artifact of the lines it read is whole.                   *)
VerifyExact ==
    LET damaged == \E i \in 1 .. Len(vsnap) :
                      \E b \in Artifacts(rounds[i].content.hashed) : objects[b] # "whole"
    IN  /\ verdict = "bad" => damaged
        /\ verdict = "ok" => ~ damaged

(* verify() fails on an unreadable chain and never on anything else a      *)
(* running committer does: it meets no half-written record.                *)
VerifyErrorMeansCut == verdict = "error" => ~ Readable(chain)

(* The ledger is an append-only log of linked records.                     *)
RefinesAuditLog == Log!Spec

=============================================================================
