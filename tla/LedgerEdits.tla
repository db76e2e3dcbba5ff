---------------------------- MODULE LedgerEdits ----------------------------
(***************************************************************************)
(* The ledger with one change made to its files by hand, by a disk fault   *)
(* or by a program other than the validator, and what verify() of          *)
(* neurons/ledger.py makes of it.  tests/test_ledger.py edits a score and  *)
(* an artifact; here every field of every file is edited, in every state   *)
(* the ledger can be in between two rounds, before or while verify() runs. *)
(***************************************************************************)
EXTENDS Ledger

VARIABLE edited   \* what was edited: "nothing" until the one edit

editVars == <<vars, edited>>

EditInit == Init /\ edited = "nothing"

(* Edits fall between two rounds and between two verifications, and a      *)
(* verification that ended earlier says nothing of them.                   *)
Edit(what) ==
    /\ edited = "nothing"
    /\ edited' = what
    /\ vpc = "idle"
    /\ \A c \in Committers : pc[c] = "idle"
    /\ verdict' = "none"
    /\ UNCHANGED <<committer, vpc, vsnap, vpos, vprev, vobjs, vbad>>

(* The lines that can be read.                                             *)
Committed == {i \in 1 .. Len(chain) : chain[i] # Cut}

EditHashedField(i, hashed) ==
    /\ Edit("hashed")
    /\ rounds[i].content.hashed # hashed
    /\ rounds' = [rounds EXCEPT ![i].content.hashed = hashed]
    /\ UNCHANGED <<objects, chain, ended>>

(* breakers, validator, timestamp and round_id are in no leaf; neither is  *)
(* the record's own height, which verify() does not read.                  *)
EditUnhashedField(i, meta) ==
    /\ Edit("unhashed")
    /\ rounds[i].content.meta # meta
    /\ rounds' = [rounds EXCEPT ![i].content.meta = meta]
    /\ UNCHANGED <<objects, chain, ended>>

EditRecordPrev(i, p) ==
    /\ Edit("record_prev")
    /\ rounds[i].prev # p
    /\ rounds' = [rounds EXCEPT ![i].prev = p]
    /\ UNCHANGED <<objects, chain, ended>>

EditRecordRoot(i, r) ==
    /\ Edit("record_root")
    /\ rounds[i].root # r
    /\ rounds' = [rounds EXCEPT ![i].root = r]
    /\ UNCHANGED <<objects, chain, ended>>

EditLinePrev(i, p) ==
    /\ Edit("line_prev")
    /\ chain[i].prev # p
    /\ chain' = [chain EXCEPT ![i].prev = p]
    /\ UNCHANGED <<objects, rounds, ended>>

EditLineRoot(i, r) ==
    /\ Edit("line_root")
    /\ chain[i].root # r
    /\ chain' = [chain EXCEPT ![i].root = r]
    /\ UNCHANGED <<objects, rounds, ended>>

(* The line leads verify() to the record of another height.                *)
EditLineHeight(i, h) ==
    /\ Edit(IF \/ rounds[h] \in {NoFile, Cut}
               \/ rounds[h].prev # chain[i].prev
               \/ rounds[h].root # chain[i].root
            THEN "line_height" ELSE "line_height_alike")
    /\ chain[i].height # h
    /\ chain' = [chain EXCEPT ![i].height = h]
    /\ UNCHANGED <<objects, rounds, ended>>

CutLine(i) ==
    /\ Edit("line_cut")
    /\ chain' = [chain EXCEPT ![i] = Cut]
    /\ UNCHANGED <<objects, rounds, ended>>

(* A line from the middle, whose successor then names a root that is no    *)
(* longer before it, unless two rounds with the same root met there.       *)
RemoveLine(i) ==
    /\ Edit(IF i < Len(chain) /\ chain[i].root # chain[i].prev
            THEN "inner_line" ELSE "last_line")
    /\ chain' = [k \in 1 .. (Len(chain) - 1) |->
                    IF k < i THEN chain[k] ELSE chain[k + 1]]
    /\ UNCHANGED <<objects, rounds, ended>>

ReplaceRecord(i, file) ==
    /\ Edit("record_file")
    /\ rounds' = [rounds EXCEPT ![i] = file]
    /\ UNCHANGED <<objects, chain, ended>>

ReplaceObject(i, b, file) ==
    /\ Edit("artifact")
    /\ b \in Artifacts(rounds[i].content.hashed)
    /\ objects' = [objects EXCEPT ![b] = file]
    /\ UNCHANGED <<rounds, chain, ended>>

EditStep ==
    \E i \in Committed :
        \/ \E hashed \in HashedFields : EditHashedField(i, hashed)
        \/ \E meta \in Metas : EditUnhashedField(i, meta)
        \/ \E p \in Roots \union {Genesis} : EditRecordPrev(i, p) \/ EditLinePrev(i, p)
        \/ \E r \in Roots : EditRecordRoot(i, r) \/ EditLineRoot(i, r)
        \/ \E h \in Heights : EditLineHeight(i, h)
        \/ CutLine(i)
        \/ RemoveLine(i)
        \/ \E file \in {NoFile, Cut} : ReplaceRecord(i, file)
        \/ \E b \in Blobs, file \in {"absent", "partial"} : ReplaceObject(i, b, file)

(* After the edit only verification goes on.                               *)
EditNext ==
    \/ edited = "nothing" /\ Next /\ UNCHANGED edited
    \/ EditStep
    \/ /\ edited # "nothing"
       /\ VerifyStart \/ VerifyChainRaises \/ VerifyStep
       /\ UNCHANGED edited

EditSpec == EditInit /\ [][EditNext]_editVars

(* A thread inside _commit_ledger is runnable: it waits for no lock and    *)
(* for no peer.                                                            *)
EditFairSpec ==
    /\ EditSpec
    /\ \A c \in Committers : WF_editVars(CommitStep(c) /\ UNCHANGED edited)

-----------------------------------------------------------------------------

Covered == {"hashed", "record_prev", "record_root",
            "line_prev", "line_root", "line_height", "line_cut", "inner_line",
            "record_file", "artifact"}

(* What the merkle root, the links and the digests do cover: verify()      *)
(* never passes a ledger with one such edit. Not covered, beside the last  *)
(* line: the fields no leaf holds ("unhashed"), and a height between       *)
(* two rounds with one root and one predecessor.                           *)
EditDetected == edited \in Covered => verdict # "ok"

(* A round that meets no fault is on the chain in the end: no step of      *)
(* _commit_ledger waits for anything, and none finds the artifacts or the  *)
(* record of another round in its way.                                     *)
CommitLands ==
    \A c \in Committers, content \in Contents :
        (pc[c] = "put" /\ round[c] = content)
            ~> (\E i \in 1 .. Len(chain) :
                   /\ chain[i] # Cut /\ rounds[i] \notin {NoFile, Cut}
                   /\ rounds[i].content = content)

=============================================================================
