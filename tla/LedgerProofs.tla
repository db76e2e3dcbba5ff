---------------------------- MODULE LedgerProofs ----------------------------
(***************************************************************************)
(* Proofs about Ledger: with rounds committed one at a time the chain      *)
(* stays linked and backed by whole records whatever fails, the ledger     *)
(* implements the append-only AuditLog, and a verification that runs       *)
(* beside the committer reports exactly the damage that is there. With     *)
(* rounds that overlap, types and the detection of forks are left. About   *)
(* LedgerEdits: no edit that the roots, links and digests cover passes.    *)
(***************************************************************************)
EXTENDS LedgerEdits, TLAPS

(* Rounds are committed one after the other, as Validator.run and          *)
(* scripts/run_demo.py do; server.py means to (see module Server).         *)
Serial == \A c, d \in Committers : c = d

(* What a committer has in hand describes the chain as it is.              *)
CommitterInv(c) ==
    /\ pc[c] # "idle" => round[c] \in Contents
    /\ pc[c] \in {"open", "write"} => blob[c] \in Blobs
    /\ pc[c] \in {"prev", "record", "dump", "append"} =>
           height[c] = Len(chain) + 1 /\ height[c] \in Heights
    /\ pc[c] \in {"record", "dump", "append"} =>
           Readable(chain) /\ prev[c] = LastRoot(chain)
    /\ pc[c] = "append" =>
           rounds[height[c]] = RecordOf(round[c], height[c], prev[c])

(* The verifier only looks at lines it has read.                           *)
VerifierInv == vpc = "objects" => vpos <= Len(vsnap)

(* Only a line can lack its newline.                                       *)
NewlineInv == ended \/ chain # << >>

IInv ==
    /\ TypeOK
    /\ NewlineInv
    /\ CutIsLast
    /\ ChainLinked
    /\ RecordBacked
    /\ \A c \in Committers : CommitterInv(c)
    /\ VerifierInv

-----------------------------------------------------------------------------
(* Records and the lines they give.                                        *)

LEMMA RecordFacts ==
    ASSUME NEW content \in Contents, NEW h \in Heights,
           NEW p \in Roots \union {Genesis}
    PROVE  /\ RecordOf(content, h, p) \in Records
           /\ EntryOf(RecordOf(content, h, p)) \in Entries
           /\ EntryOf(RecordOf(content, h, p)) =
                 [height |-> h, root |-> Root(content.hashed), prev |-> p]
           /\ RecordOf(content, h, p).root = Root(content.hashed)
           /\ RecordOf(content, h, p).content = content
  BY DEF Records, Entries, RecordOf, Log!RecordOf, EntryOf

LEMMA RecordFields ==
    ASSUME NEW rec \in Records
    PROVE  /\ rec.content \in Contents
           /\ rec.height \in Heights
           /\ rec.prev \in Roots \union {Genesis}
           /\ rec.root = Root(rec.content.hashed)
           /\ rec.root \in Roots
           /\ EntryOf(rec) \in Entries
           /\ rec = RecordOf(rec.content, rec.height, rec.prev)
  BY DEF Records, Roots, Entries, RecordOf, Log!RecordOf

LEMMA EntryFields ==
    ASSUME NEW line \in Entries
    PROVE  /\ line.height \in Heights
           /\ line.root \in Roots
           /\ line.prev \in Roots \union {Genesis}
  BY RecordFields DEF Entries, EntryOf

LEMMA LastRootType ==
    ASSUME TypeOK, Readable(chain)
    PROVE  LastRoot(chain) \in Roots \union {Genesis}
<1>1. CASE chain = << >>
  BY <1>1 DEF LastRoot
<1>2. CASE chain # << >>
  <2>1. Len(chain) \in 1 .. Len(chain)
    BY <1>2 DEF TypeOK
  <2>2. chain[Len(chain)] \in Entries
    BY <2>1 DEF TypeOK, Readable
  <2>. QED
    BY <1>2, <2>2, EntryFields DEF LastRoot
<1>. QED
  BY <1>1, <1>2

-----------------------------------------------------------------------------
(* The chain.                                                              *)

LEMMA InitIInv == Init => IInv
<1>. SUFFICES ASSUME Init PROVE IInv
  OBVIOUS
<1>1. /\ chain \in Seq(Entries \union {Cut}) /\ vsnap \in Seq(Entries)
      /\ Len(chain) = 0 /\ ended = TRUE
  BY DEF Init
<1>2. height \in [Committers -> 0 .. MaxHeight]
  BY HeightAssumption DEF Init
<1>3. TypeOK
  <2>1. /\ rounds \in [Heights -> Records \union {NoFile, Cut}]
        /\ objects \in [Blobs -> {"absent", "partial", "whole"}]
        /\ pc \in [Committers -> {"idle", "put", "open", "write", "prev", "record",
                                  "dump", "append"}]
    BY DEF Init
  <2>2. /\ round \in [Committers -> Contents \union {NoFile}]
        /\ todo \in [Committers -> SUBSET Blobs]
        /\ blob \in [Committers -> Blobs \union {NoFile}]
        /\ prev \in [Committers -> Roots \union {Genesis}]
    BY DEF Init
  <2>3. vpos \in Nat \ {0} /\ vprev \in Roots \union {Genesis} /\ vobjs \in SUBSET Blobs
    BY DEF Init
  <2>4. /\ vpc \in {"idle", "record", "objects"} /\ vbad \in BOOLEAN
        /\ verdict \in {"none", "ok", "bad", "error"}
    BY DEF Init
  <2>. QED
    BY <1>1, <1>2, <2>1, <2>2, <2>3, <2>4 DEF TypeOK
<1>4. NewlineInv /\ CutIsLast /\ ChainLinked /\ RecordBacked
  BY <1>1 DEF NewlineInv, CutIsLast, ChainLinked, RecordBacked
<1>. QED
  BY <1>3, <1>4 DEF Init, IInv, CommitterInv, VerifierInv

(* A step that leaves the disk alone and moves committers between states   *)
(* that promise nothing about it only has to keep its own types.           *)
LEMMA QuietStep ==
    ASSUME IInv, TypeOK', UNCHANGED disk,
           \A c \in Committers : CommitterInv(c)',
           VerifierInv'
    PROVE  IInv'
  BY DEF IInv, disk, NewlineInv, CutIsLast, ChainLinked, RecordBacked, Readable

LEMMA StartRoundStep ==
    ASSUME IInv, NEW c \in Committers, NEW content \in Contents,
           StartRound(c, content)
    PROVE  IInv'
<1>1. TypeOK'
  BY ContentsAssumption, ArtifactsAssumption
  DEF IInv, TypeOK, StartRound, disk, verifier, ContentType
<1>2. \A d \in Committers : CommitterInv(d)'
  BY DEF IInv, TypeOK, StartRound, disk, verifier, CommitterInv, Readable, LastRoot
<1>. QED
  BY <1>1, <1>2, QuietStep DEF StartRound, verifier, IInv, VerifierInv

LEMMA PutSkipStep ==
    ASSUME IInv, NEW c \in Committers, NEW b \in Blobs, PutSkip(c, b)
    PROVE  IInv'
<1>1. TypeOK'
  BY DEF IInv, TypeOK, PutSkip, disk, verifier
<1>2. \A d \in Committers : CommitterInv(d)'
  BY DEF IInv, TypeOK, PutSkip, disk, verifier, CommitterInv, Readable, LastRoot
<1>. QED
  BY <1>1, <1>2, QuietStep DEF PutSkip, verifier, IInv, VerifierInv

LEMMA PutMissStep ==
    ASSUME IInv, NEW c \in Committers, NEW b \in Blobs, PutMiss(c, b)
    PROVE  IInv'
<1>1. TypeOK'
  BY DEF IInv, TypeOK, PutMiss, disk, verifier
<1>2. \A d \in Committers : CommitterInv(d)'
  BY DEF IInv, TypeOK, PutMiss, disk, verifier, CommitterInv, Readable, LastRoot
<1>. QED
  BY <1>1, <1>2, QuietStep DEF PutMiss, verifier, IInv, VerifierInv

(* Writing an artifact touches neither records nor chain.                  *)
LEMMA PutOpenStep ==
    ASSUME IInv, NEW c \in Committers, PutOpen(c)
    PROVE  IInv'
<1>1. TypeOK'
  BY DEF IInv, TypeOK, PutOpen, verifier, CommitterInv
<1>2. \A d \in Committers : CommitterInv(d)'
  BY DEF IInv, TypeOK, PutOpen, verifier, CommitterInv, Readable, LastRoot
<1>3. NewlineInv' /\ CutIsLast' /\ ChainLinked' /\ RecordBacked'
  BY DEF IInv, PutOpen, NewlineInv, CutIsLast, ChainLinked, RecordBacked
<1>. QED
  BY <1>1, <1>2, <1>3 DEF PutOpen, verifier, IInv, VerifierInv

LEMMA PutWriteStep ==
    ASSUME IInv, NEW c \in Committers, PutWrite(c)
    PROVE  IInv'
<1>1. TypeOK'
  BY DEF IInv, TypeOK, PutWrite, verifier, CommitterInv
<1>2. \A d \in Committers : CommitterInv(d)'
  BY DEF IInv, TypeOK, PutWrite, verifier, CommitterInv, Readable, LastRoot
<1>3. NewlineInv' /\ CutIsLast' /\ ChainLinked' /\ RecordBacked'
  BY DEF IInv, PutWrite, NewlineInv, CutIsLast, ChainLinked, RecordBacked
<1>. QED
  BY <1>1, <1>2, <1>3 DEF PutWrite, verifier, IInv, VerifierInv

LEMMA ReadHeightStep ==
    ASSUME IInv, NEW c \in Committers, ReadHeight(c)
    PROVE  IInv'
<1>1. Len(chain) \in Nat /\ Len(chain) + 1 \in Heights
  BY HeightAssumption DEF IInv, TypeOK, ReadHeight, Heights
<1>2. TypeOK'
  BY <1>1 DEF IInv, TypeOK, ReadHeight, NextHeight, disk, verifier, Heights
<1>3. \A d \in Committers : CommitterInv(d)'
  BY <1>1 DEF IInv, TypeOK, ReadHeight, NextHeight, disk, verifier, CommitterInv, Readable, LastRoot
<1>. QED
  BY <1>2, <1>3, QuietStep DEF ReadHeight, verifier, IInv, VerifierInv

LEMMA ReadPrevStep ==
    ASSUME IInv, NEW c \in Committers, ReadPrev(c)
    PROVE  IInv'
<1>1. LastRoot(chain) \in Roots \union {Genesis}
  BY LastRootType DEF IInv, ReadPrev
<1>2. TypeOK'
  BY <1>1 DEF IInv, TypeOK, ReadPrev, disk, verifier
<1>3. \A d \in Committers : CommitterInv(d)'
  BY DEF IInv, TypeOK, ReadPrev, disk, verifier, CommitterInv, Readable, LastRoot
<1>. QED
  BY <1>2, <1>3, QuietStep DEF ReadPrev, verifier, IInv, VerifierInv

LEMMA ReadPrevFailsStep ==
    ASSUME IInv, NEW c \in Committers, ReadPrevFails(c)
    PROVE  IInv'
<1>1. TypeOK'
  BY DEF IInv, TypeOK, ReadPrevFails, disk, verifier
<1>2. \A d \in Committers : CommitterInv(d)'
  BY DEF IInv, TypeOK, ReadPrevFails, disk, verifier, CommitterInv, Readable, LastRoot
<1>. QED
  BY <1>1, <1>2, QuietStep DEF ReadPrevFails, verifier, IInv, VerifierInv

LEMMA AbortStep ==
    ASSUME IInv, NEW c \in Committers, Abort(c)
    PROVE  IInv'
<1>1. TypeOK'
  BY DEF IInv, TypeOK, Abort, disk, verifier
<1>2. \A d \in Committers : CommitterInv(d)'
  BY DEF IInv, TypeOK, Abort, disk, verifier, CommitterInv, Readable, LastRoot
<1>. QED
  BY <1>1, <1>2, QuietStep DEF Abort, verifier, IInv, VerifierInv

(* The record of a height above the chain may be emptied and rewritten.    *)
LEMMA RecordOpenStep ==
    ASSUME Serial, IInv, NEW c \in Committers, RecordOpen(c)
    PROVE  IInv'
<1>1. height[c] = Len(chain) + 1 /\ height[c] \in Heights /\ Len(chain) \in Nat
  BY DEF IInv, TypeOK, RecordOpen, CommitterInv
<1>2. TypeOK'
  BY <1>1 DEF IInv, TypeOK, RecordOpen, verifier
<1>3. \A d \in Committers : CommitterInv(d)'
  BY <1>1 DEF Serial, IInv, TypeOK, RecordOpen, verifier, CommitterInv, Readable, LastRoot
<1>4. \A i \in 1 .. Len(chain) : rounds'[i] = rounds[i]
  BY <1>1 DEF IInv, TypeOK, RecordOpen
<1>5. NewlineInv' /\ CutIsLast' /\ ChainLinked'
  BY DEF IInv, RecordOpen, NewlineInv, CutIsLast, ChainLinked
<1>6. RecordBacked'
  BY <1>4 DEF IInv, RecordOpen, RecordBacked
<1>. QED
  BY <1>2, <1>3, <1>5, <1>6 DEF RecordOpen, verifier, IInv, VerifierInv

LEMMA RecordWriteStep ==
    ASSUME Serial, IInv, NEW c \in Committers, RecordWrite(c)
    PROVE  IInv'
<1>1. height[c] = Len(chain) + 1 /\ height[c] \in Heights /\ Len(chain) \in Nat
  BY DEF IInv, TypeOK, RecordWrite, CommitterInv
<1>2. round[c] \in Contents /\ prev[c] \in Roots \union {Genesis}
  BY DEF IInv, TypeOK, RecordWrite, CommitterInv
<1>3. RecordOf(round[c], height[c], prev[c]) \in Records
  BY <1>1, <1>2, RecordFacts
<1>4. TypeOK'
  BY <1>1, <1>3 DEF IInv, TypeOK, RecordWrite, verifier
<1>5. \A d \in Committers : CommitterInv(d)'
  BY <1>1 DEF Serial, IInv, TypeOK, RecordWrite, verifier, CommitterInv, Readable,
              LastRoot, RecordOf, Log!RecordOf
<1>6. \A i \in 1 .. Len(chain) : rounds'[i] = rounds[i]
  BY <1>1 DEF IInv, TypeOK, RecordWrite
<1>7. NewlineInv' /\ CutIsLast' /\ ChainLinked'
  BY DEF IInv, RecordWrite, NewlineInv, CutIsLast, ChainLinked
<1>8. RecordBacked'
  BY <1>6 DEF IInv, RecordWrite, RecordBacked
<1>. QED
  BY <1>4, <1>5, <1>7, <1>8 DEF RecordWrite, verifier, IInv, VerifierInv

(* Writing a line, whole or cut, with its newline or without, to a chain   *)
(* that can be read: the lines before stay as they are, or one that had no *)
(* newline is lost.                                                        *)
LEMMA WriteLine ==
    ASSUME IInv, Readable(chain), NEW line \in Entries \union {Cut},
           chain' = WithLine(line), rounds' = rounds, ended' \in BOOLEAN,
           line # Cut =>
              /\ line.height = Len(chain) + 1 /\ line.prev = LastRoot(chain)
              /\ rounds[Len(chain) + 1] \notin {NoFile, Cut}
              /\ EntryOf(rounds[Len(chain) + 1]) = line
              /\ rounds[Len(chain) + 1].root = Root(rounds[Len(chain) + 1].content.hashed)
    PROVE  /\ chain' \in Seq(Entries \union {Cut})
           /\ Len(chain) \in Nat /\ Len(chain') >= Len(chain)
           /\ \A i \in 1 .. Len(chain) :
                 chain'[i] = chain[i] \/ (i = Len(chain) /\ ~ ended)
           /\ ~ ended => /\ Len(chain') = Len(chain) /\ Len(chain) # 0
                         /\ chain'[Len(chain)] = Cut
           /\ ended => /\ Len(chain') = Len(chain) + 1
                       /\ chain'[Len(chain) + 1] = line
           /\ NewlineInv' /\ CutIsLast' /\ ChainLinked' /\ RecordBacked'
<1>1. /\ chain \in Seq(Entries \union {Cut}) /\ Len(chain) \in Nat
      /\ \A i \in 1 .. Len(chain) : chain[i] # Cut
  <2>1. chain \in Seq(Entries \union {Cut})
    BY DEF IInv, TypeOK
  <2>. QED
    BY <2>1 DEF Readable
<1>2. CASE ended
  <2>1. chain' = Append(chain, line)
    BY <1>2 DEF WithLine
  <2>2. /\ chain' \in Seq(Entries \union {Cut})
        /\ Len(chain') = Len(chain) + 1 /\ chain'[Len(chain) + 1] = line
        /\ \A i \in 1 .. Len(chain) : chain'[i] = chain[i]
    BY <1>1, <2>1
  <2>3. NewlineInv' /\ CutIsLast'
    BY <1>1, <2>1, <2>2 DEF NewlineInv, CutIsLast
  <2>4. ChainLinked'
    <3> SUFFICES ASSUME NEW i \in 1 .. Len(chain'), chain'[i] # Cut
                 PROVE  /\ chain'[i].height = i
                        /\ chain'[i].prev = IF i = 1 THEN Genesis ELSE chain'[i - 1].root
      BY DEF ChainLinked
    <3>1. CASE i \in 1 .. Len(chain)
      <4>1. i # 1 => i - 1 \in 1 .. Len(chain)
        BY <1>1, <3>1
      <4>. QED
        BY <2>2, <3>1, <4>1 DEF IInv, ChainLinked
    <3>2. CASE i = Len(chain) + 1
      <4>1. LastRoot(chain) = IF i = 1 THEN Genesis ELSE chain[i - 1].root
        BY <1>1, <3>2 DEF LastRoot
      <4>2. i # 1 => chain'[i - 1] = chain[i - 1]
        BY <1>1, <2>2, <3>2
      <4>. QED
        BY <2>2, <3>2, <4>1, <4>2
    <3>. QED
      BY <1>1, <2>2, <3>1, <3>2
  <2>5. RecordBacked'
    <3> SUFFICES ASSUME NEW i \in 1 .. Len(chain'), chain'[i] # Cut
                 PROVE  /\ rounds[i] \notin {NoFile, Cut}
                        /\ EntryOf(rounds[i]) = chain'[i]
                        /\ rounds[i].root = Root(rounds[i].content.hashed)
      BY DEF RecordBacked, EntryOf
    <3>1. CASE i \in 1 .. Len(chain)
      BY <2>2, <3>1 DEF IInv, RecordBacked
    <3>2. CASE i = Len(chain) + 1
      BY <2>2, <3>2
    <3>. QED
      BY <1>1, <2>2, <3>1, <3>2
  <2>. QED
    BY <1>1, <1>2, <2>2, <2>3, <2>4, <2>5
<1>3. CASE ~ ended
  <2>1. chain' = [chain EXCEPT ![Len(chain)] = Cut] /\ Len(chain) # 0
    BY <1>1, <1>3 DEF WithLine, IInv, NewlineInv
  <2>2. /\ chain' \in Seq(Entries \union {Cut})
        /\ Len(chain') = Len(chain) /\ chain'[Len(chain)] = Cut
        /\ \A i \in 1 .. Len(chain) : i # Len(chain) => chain'[i] = chain[i]
    BY <1>1, <2>1
  <2>3. NewlineInv' /\ CutIsLast'
    BY <1>1, <2>1, <2>2 DEF NewlineInv, CutIsLast
  <2>4. \A i \in 1 .. Len(chain') : chain'[i] # Cut =>
           /\ i \in 1 .. Len(chain) /\ chain'[i] = chain[i]
           /\ i # 1 => chain'[i - 1] = chain[i - 1]
    BY <1>1, <2>2
  <2>5. ChainLinked'
    BY <1>1, <2>4 DEF IInv, ChainLinked
  <2>6. RecordBacked'
    BY <1>1, <2>4 DEF IInv, RecordBacked, EntryOf
  <2>7. /\ Len(chain') >= Len(chain)
        /\ \A i \in 1 .. Len(chain) :
              chain'[i] = chain[i] \/ (i = Len(chain) /\ ~ ended)
    BY <1>1, <1>3, <2>2
  <2>. QED
    BY <1>1, <1>3, <2>1, <2>2, <2>3, <2>5, <2>6, <2>7, Zenon
<1>. QED
  BY <1>2, <1>3

(* What a committer about to append has in hand.                           *)
LEMMA ToAppend ==
    ASSUME IInv, NEW c \in Committers, pc[c] = "append",
           NEW line \in {Cut, EntryOf(RecordOf(round[c], height[c], prev[c]))}
    PROVE  /\ Readable(chain)
           /\ line \in Entries \union {Cut}
           /\ line # Cut =>
                 /\ line.height = Len(chain) + 1 /\ line.prev = LastRoot(chain)
                 /\ rounds[Len(chain) + 1] \notin {NoFile, Cut}
                 /\ EntryOf(rounds[Len(chain) + 1]) = line
                 /\ rounds[Len(chain) + 1].root = Root(rounds[Len(chain) + 1].content.hashed)
<1> DEFINE rec == RecordOf(round[c], height[c], prev[c])
<1>1. /\ height[c] = Len(chain) + 1 /\ height[c] \in Heights
      /\ Readable(chain) /\ prev[c] = LastRoot(chain)
      /\ rounds[height[c]] = rec
      /\ round[c] \in Contents /\ prev[c] \in Roots \union {Genesis}
  BY DEF IInv, TypeOK, CommitterInv
<1>2. /\ rec \in Records
      /\ EntryOf(rec) \in Entries
      /\ EntryOf(rec) = [height |-> height[c], root |-> Root(round[c].hashed), prev |-> prev[c]]
      /\ rec.root = Root(rec.content.hashed)
  BY <1>1, RecordFacts
<1>. QED
  BY <1>1, <1>2, SentinelAssumption

LEMMA ChainAppendStep ==
    ASSUME Serial, IInv, NEW c \in Committers, ChainAppend(c) \/ ChainAppendCut(c)
    PROVE  IInv'
<1>1. PICK line \in {Cut, EntryOf(RecordOf(round[c], height[c], prev[c]))} :
           chain' = WithLine(line)
  BY DEF ChainAppend, ChainAppendCut
<1>2. /\ pc[c] = "append" /\ pc' = [pc EXCEPT ![c] = "idle"]
      /\ rounds' = rounds /\ ended' \in BOOLEAN
      /\ UNCHANGED <<objects, round, todo, blob, height, prev, verifier>>
  BY DEF ChainAppend, ChainAppendCut
<1>3. /\ chain' \in Seq(Entries \union {Cut})
      /\ NewlineInv' /\ CutIsLast' /\ ChainLinked' /\ RecordBacked'
  BY <1>1, <1>2, ToAppend, WriteLine
<1>4. TypeOK'
  BY <1>2, <1>3 DEF IInv, TypeOK, verifier
<1>5. \A d \in Committers : CommitterInv(d)'
  BY <1>2 DEF Serial, IInv, TypeOK, CommitterInv
<1>. QED
  BY <1>2, <1>3, <1>4, <1>5 DEF verifier, IInv, VerifierInv

-----------------------------------------------------------------------------
(* The verifier writes nothing.                                            *)

LEMMA VerifierStepKeeps ==
    ASSUME IInv, UNCHANGED <<disk, committer>>, VerifierInv',
           vpc' \in {"idle", "record", "objects"}, vsnap' \in Seq(Entries),
           vpos' \in Nat \ {0}, vprev' \in Roots \union {Genesis},
           vobjs' \in SUBSET Blobs, vbad' \in BOOLEAN,
           verdict' \in {"none", "ok", "bad", "error"}
    PROVE  IInv'
<1>1. TypeOK'
  BY DEF IInv, TypeOK, disk, committer
<1>2. \A c \in Committers : CommitterInv(c)'
  BY DEF IInv, disk, committer, CommitterInv, Readable, LastRoot, RecordOf, Log!RecordOf
<1>. QED
  BY <1>1, <1>2, QuietStep DEF disk

LEMMA VerifyStartStep == ASSUME IInv, VerifyStart PROVE IInv'
<1>1. chain \in Seq(Entries)
  <2>1. \A i \in 1 .. Len(chain) : chain[i] \in Entries
    BY DEF VerifyStart, Readable, IInv, TypeOK
  <2>2. Len(chain) \in Nat /\ chain = [i \in 1 .. Len(chain) |-> chain[i]]
    BY DEF IInv, TypeOK
  <2>. QED
    BY <2>1, <2>2
<1>2. /\ UNCHANGED <<disk, committer>>
      /\ vpc' = "record" /\ vsnap' = chain /\ vpos' = 1 /\ vprev' = Genesis
      /\ vbad' = FALSE /\ verdict' = "none" /\ vobjs' = vobjs
  BY DEF VerifyStart
<1>3. VerifierInv'
  BY <1>2 DEF VerifierInv
<1>4. /\ vpc' \in {"idle", "record", "objects"} /\ vbad' \in BOOLEAN
      /\ verdict' \in {"none", "ok", "bad", "error"}
  BY <1>2
<1>5. vpos' \in Nat \ {0} /\ vprev' \in Roots \union {Genesis} /\ vobjs' \in SUBSET Blobs
  BY <1>2 DEF IInv, TypeOK
<1>6. vsnap' \in Seq(Entries)
  BY <1>1, <1>2
<1>. QED
  BY <1>2, <1>3, <1>4, <1>5, <1>6, VerifierStepKeeps

LEMMA VerifyChainRaisesStep == ASSUME IInv, VerifyChainRaises PROVE IInv'
  BY VerifierStepKeeps DEF VerifyChainRaises, VerifierInv, IInv, TypeOK

LEMMA VerifyRecordMissingStep ==
    ASSUME IInv, vpc = "record", VerifyRecordMissing PROVE IInv'
  BY VerifierStepKeeps DEF VerifyRecordMissing, VerifierInv, IInv, TypeOK

LEMMA VerifyRecordRaisesStep ==
    ASSUME IInv, VerifyRecordRaises PROVE IInv'
  BY VerifierStepKeeps DEF VerifyRecordRaises, VerifierInv, IInv, TypeOK

LEMMA VerifyReportStep == ASSUME IInv, VerifyReport PROVE IInv'
  BY VerifierStepKeeps DEF VerifyReport, VerifierInv, IInv, TypeOK

LEMMA VerifyRecordStep ==
    ASSUME IInv, vpos <= Len(vsnap), VerifyRecord PROVE IInv'
<1>1. Entry \in Entries
  BY DEF VerifyRecord, Entry, IInv, TypeOK
<1>2. Filed \in Records
  BY <1>1, EntryFields DEF VerifyRecord, Filed, IInv, TypeOK
<1>3. Artifacts(Filed.content.hashed) \in SUBSET Blobs
  BY <1>2, RecordFields, ContentsAssumption, ArtifactsAssumption DEF ContentType
<1>4. vbad' \in BOOLEAN
  BY DEF VerifyRecord, IInv, TypeOK
<1>5. VerifierInv'
  BY DEF VerifyRecord, VerifierInv
<1>6. /\ UNCHANGED <<disk, committer>>
      /\ vpc' = "objects" /\ vobjs' = Artifacts(Filed.content.hashed)
      /\ UNCHANGED <<vsnap, vpos, vprev, verdict>>
  BY DEF VerifyRecord
<1>7. /\ vsnap \in Seq(Entries) /\ vpos \in Nat \ {0}
      /\ vprev \in Roots \union {Genesis}
      /\ verdict \in {"none", "ok", "bad", "error"}
  BY DEF IInv, TypeOK
<1>. QED
  BY <1>3, <1>4, <1>5, <1>6, <1>7, VerifierStepKeeps

LEMMA VerifyObjectsStep == ASSUME IInv, VerifyObjects PROVE IInv'
<1>1. Entry \in Entries
  BY DEF VerifyObjects, Entry, IInv, TypeOK, VerifierInv
<1>2. Entry.root \in Roots
  BY <1>1, EntryFields
<1>3. vbad' \in BOOLEAN
  BY DEF VerifyObjects, IInv, TypeOK
<1>. QED
  BY <1>2, <1>3, VerifierStepKeeps DEF VerifyObjects, VerifierInv, IInv, TypeOK

-----------------------------------------------------------------------------

LEMMA NextIInv == ASSUME Serial, IInv, [Next]_vars PROVE IInv'
<1>1. ASSUME NEW c \in Committers, NEW content \in Contents, StartRound(c, content)
      PROVE  IInv'
  BY <1>1, StartRoundStep
<1>2. ASSUME NEW c \in Committers, CommitStep(c) PROVE IInv'
  BY <1>2, PutSkipStep, PutMissStep, PutOpenStep, PutWriteStep, ReadHeightStep,
     ReadPrevStep, ReadPrevFailsStep, RecordOpenStep, RecordWriteStep,
     ChainAppendStep
  DEF CommitStep
<1>3. ASSUME NEW c \in Committers, ChainAppendCut(c) \/ Abort(c) PROVE IInv'
  BY <1>3, ChainAppendStep, AbortStep
<1>4. CASE VerifyStart \/ VerifyChainRaises
  BY <1>4, VerifyStartStep, VerifyChainRaisesStep
<1>5. CASE VerifyStep
  BY <1>5, VerifyRecordMissingStep, VerifyRecordRaisesStep, VerifyRecordStep,
     VerifyObjectsStep, VerifyReportStep
  DEF VerifyStep, LoadRecord
<1>6. CASE UNCHANGED vars
  <2>1. UNCHANGED <<disk, committer>> /\ UNCHANGED verifier
    BY <1>6 DEF vars
  <2>. QED
    BY <2>1, VerifierStepKeeps DEF verifier, VerifierInv, IInv, TypeOK
<1>. QED
  BY <1>1, <1>2, <1>3, <1>4, <1>5, <1>6 DEF Next

(* The inductive invariant holds of every behaviour.                       *)
LEMMA Invariance == ASSUME Serial PROVE Spec => []IInv
<1>1. Init => IInv
  BY InitIInv
<1>2. IInv /\ [Next]_vars => IInv'
  BY NextIInv
<1>. QED
  BY <1>1, <1>2, PTL DEF Spec

(* With rounds committed one at a time, the lines commit() appended carry  *)
(* consecutive heights and each names the root of the line before it.      *)
THEOREM ChainStaysLinked == ASSUME Serial PROVE Spec => []ChainLinked
<1>1. IInv => ChainLinked
  BY DEF IInv
<1>. QED
  BY <1>1, Invariance, PTL

(* With rounds committed one at a time, no line of the chain is ever       *)
(* without the complete record of its own round: commit() writes the       *)
(* record before the line.                                                 *)
THEOREM RecordsStayBacked == ASSUME Serial PROVE Spec => []RecordBacked
<1>1. IInv => RecordBacked
  BY DEF IInv
<1>. QED
  BY <1>1, Invariance, PTL

-----------------------------------------------------------------------------
(* What is on the chain stays there.                                       *)

LEMMA CommittedStep ==
    ASSUME Serial, IInv, [Next]_vars
    PROVE  \A i \in 1 .. Len(chain) :
              /\ i <= Len(chain')
              /\ chain'[i] = chain[i] \/ (i = Len(chain) /\ ~ ended)
              /\ rounds'[i] = rounds[i]
<1>1. Len(chain) \in Nat
  BY DEF IInv, TypeOK
<1>2. ASSUME NEW c \in Committers, RecordOpen(c) \/ RecordWrite(c)
      PROVE  chain' = chain /\ \A i \in 1 .. Len(chain) : rounds'[i] = rounds[i]
  <2>1. height[c] = Len(chain) + 1 /\ chain' = chain
    BY <1>2 DEF IInv, CommitterInv, RecordOpen, RecordWrite
  <2>2. rounds \in [Heights -> Records \union {NoFile, Cut}]
    BY DEF IInv, TypeOK
  <2>3. \E file : rounds' = [rounds EXCEPT ![height[c]] = file]
    BY <1>2 DEF RecordOpen, RecordWrite
  <2>. QED
    BY <1>1, <2>1, <2>2, <2>3
<1>3. ASSUME NEW c \in Committers, ChainAppend(c) \/ ChainAppendCut(c)
      PROVE  /\ rounds' = rounds
             /\ Len(chain') \in Nat /\ Len(chain') >= Len(chain)
             /\ \A i \in 1 .. Len(chain) :
                   chain'[i] = chain[i] \/ (i = Len(chain) /\ ~ ended)
  <2>1. PICK line \in {Cut, EntryOf(RecordOf(round[c], height[c], prev[c]))} :
             chain' = WithLine(line)
    BY <1>3 DEF ChainAppend, ChainAppendCut
  <2>2. pc[c] = "append" /\ rounds' = rounds /\ ended' \in BOOLEAN
    BY <1>3 DEF ChainAppend, ChainAppendCut
  <2>. QED
    BY <2>1, <2>2, ToAppend, WriteLine
<1>4. CASE \E c \in Committers : RecordOpen(c) \/ RecordWrite(c)
  BY <1>1, <1>2, <1>4
<1>5. CASE \E c \in Committers : ChainAppend(c) \/ ChainAppendCut(c)
  BY <1>1, <1>3, <1>5
<1>6. CASE UNCHANGED <<rounds, chain>>
  BY <1>1, <1>6
<1>. QED
  BY <1>4, <1>5, <1>6
  DEF Next, vars, disk, CommitStep, StartRound, PutSkip, PutMiss, PutOpen,
      PutWrite, ReadHeight, ReadPrev, ReadPrevFails, Abort, VerifyStart,
      VerifyChainRaises, VerifyStep, LoadRecord, VerifyRecordMissing,
      VerifyRecordRaises, VerifyRecord, VerifyObjects, VerifyReport

(* With rounds committed one at a time, no step rewrites a record that is  *)
(* on the chain or touches a line that ends in a newline, although         *)
(* commit() opens rounds/<height>.json for writing and a dead round may    *)
(* have left a file there.                                                 *)
THEOREM CommittedStays == ASSUME Serial PROVE Spec => CommittedForGood
<1>1. IInv /\ [Next]_vars =>
        [\A i \in 1 .. Len(chain) :
            /\ i <= Len(chain')
            /\ chain'[i] = chain[i] \/ (i = Len(chain) /\ ~ ended)
            /\ chain[i] # Cut => rounds'[i] = rounds[i]]_vars
  BY CommittedStep
<1>. QED
  BY <1>1, Invariance, PTL DEF Spec, CommittedForGood

-----------------------------------------------------------------------------
(* The ledger implements AuditLog.                                         *)

LEMMA CommittedLogFacts ==
    ASSUME IInv
    PROVE  /\ Complete \in Nat /\ Complete <= Len(chain)
           /\ CommittedLog = [i \in 1 .. Complete |-> rounds[i]]
           /\ \A i \in 1 .. Complete : chain[i] # Cut /\ rounds[i] \in Records
           /\ CommittedLog \in Seq(Records)
           /\ Len(CommittedLog) = Complete
<1>1. Len(chain) \in Nat /\ (chain # << >> => Len(chain) > 0)
  BY DEF IInv, TypeOK
<1>2. Complete \in Nat /\ Complete <= Len(chain)
  BY <1>1 DEF Complete
<1>3. CommittedLog = [i \in 1 .. Complete |-> rounds[i]]
  BY DEF CommittedLog
<1>4. ASSUME NEW i \in 1 .. Complete PROVE chain[i] # Cut /\ rounds[i] \in Records
  <2>1. i \in 1 .. Len(chain) /\ (chain[i] = Cut => i = Len(chain))
    BY <1>1, <1>2 DEF IInv, CutIsLast
  <2>2. chain[i] # Cut
    BY <1>1, <2>1 DEF Complete
  <2>3. chain[i] \in Entries /\ chain[i].height = i /\ rounds[i] \notin {NoFile, Cut}
    BY <2>1, <2>2 DEF IInv, TypeOK, ChainLinked, RecordBacked
  <2>4. i \in Heights
    BY <2>3, EntryFields
  <2>. QED
    BY <2>2, <2>3, <2>4 DEF IInv, TypeOK
<1>. QED
  BY <1>2, <1>3, <1>4

(* A step that leaves the complete lines alone leaves the log alone.       *)
LEMMA LogUnchanged ==
    ASSUME Serial, IInv, [Next]_vars, Complete' = Complete
    PROVE  CommittedLog' = CommittedLog
<1>1. \A i \in 1 .. Complete : rounds'[i] = rounds[i]
  <2>1. \A i \in 1 .. Complete : i \in 1 .. Len(chain)
    BY CommittedLogFacts DEF IInv, TypeOK
  <2>. QED
    BY <2>1, CommittedStep
<1>. QED
  BY <1>1 DEF CommittedLog

LEMMA AppendIsCommit ==
    ASSUME Serial, IInv, NEW c \in Committers, ChainAppend(c), ended
    PROVE  Log!Next
<1> DEFINE rec == RecordOf(round[c], height[c], prev[c])
<1>1. /\ height[c] = Len(chain) + 1 /\ height[c] \in Heights
      /\ Len(chain) \in Nat /\ chain \in Seq(Entries \union {Cut})
      /\ Readable(chain) /\ prev[c] = LastRoot(chain)
      /\ rounds[height[c]] = rec /\ rounds' = rounds
      /\ round[c] \in Contents /\ prev[c] \in Roots \union {Genesis}
  BY DEF IInv, TypeOK, ChainAppend, CommitterInv
<1>2. rec \in Records /\ EntryOf(rec) \in Entries
  BY <1>1, RecordFacts
<1>3. ~ (chain # << >> /\ chain[Len(chain)] = Cut)
  BY <1>1 DEF Readable
<1>4. chain' = Append(chain, EntryOf(rec)) /\ ended'
  BY DEF ChainAppend, WithLine
<1>5. Len(chain') = Len(chain) + 1 /\ chain'[Len(chain) + 1] = EntryOf(rec)
  BY <1>1, <1>2, <1>4
<1>6. Complete = Len(chain) /\ Complete' = Len(chain) + 1
  BY <1>1, <1>2, <1>3, <1>4, <1>5, SentinelAssumption DEF Complete
<1>7. CommittedLog' = [i \in 1 .. (Len(chain) + 1) |-> rounds[i]]
  BY <1>1, <1>6 DEF CommittedLog
<1>8. CommittedLog' = Append(CommittedLog, rec)
  BY <1>1, <1>2, <1>6, <1>7, CommittedLogFacts
<1>9. Log!LogHead(CommittedLog) = LastRoot(chain)
  <2>1. CASE chain = << >>
    BY <1>6, <2>1, CommittedLogFacts DEF Log!LogHead, LastRoot, IInv, TypeOK
  <2>2. CASE chain # << >>
    <3>1. Len(chain) \in 1 .. Len(chain) /\ CommittedLog # << >>
      BY <1>1, <1>6, <2>2, CommittedLogFacts DEF IInv, TypeOK
    <3>2. chain[Len(chain)] # Cut
      BY <1>3, <2>2
    <3>3. EntryOf(rounds[Len(chain)]) = chain[Len(chain)]
      BY <3>1, <3>2 DEF IInv, RecordBacked
    <3>4. chain[Len(chain)].root = rounds[Len(chain)].root
      BY <3>3 DEF EntryOf
    <3>. QED
      BY <1>6, <2>2, <3>1, <3>4, CommittedLogFacts DEF Log!LogHead, LastRoot
  <2>. QED
    BY <2>1, <2>2
<1>. QED
  BY <1>1, <1>6, <1>8, <1>9, CommittedLogFacts
  DEF Log!Next, Log!Commit, RecordOf

(* A line that is cut, has no newline yet, or is written after one that    *)
(* had none, is not in the log, and neither is the one it was merged with. *)
LEMMA LostIsStutter ==
    ASSUME Serial, IInv, NEW c \in Committers,
           ChainAppendCut(c) \/ (ChainAppend(c) /\ ~ ended)
    PROVE  Complete' = Complete
<1>1. PICK line \in {Cut, EntryOf(RecordOf(round[c], height[c], prev[c]))} :
           chain' = WithLine(line)
  BY DEF ChainAppend, ChainAppendCut
<1>2. pc[c] = "append" /\ rounds' = rounds /\ ended' \in BOOLEAN
  BY DEF ChainAppend, ChainAppendCut
<1>3. /\ Readable(chain) /\ Len(chain) \in Nat
      /\ chain' \in Seq(Entries \union {Cut})
      /\ ~ ended => /\ Len(chain') = Len(chain) /\ Len(chain) # 0
                    /\ chain'[Len(chain)] = Cut
      /\ ended => Len(chain') = Len(chain) + 1
  BY <1>1, <1>2, ToAppend, WriteLine
<1>4. chain' # << >> /\ (chain # << >> => chain[Len(chain)] # Cut)
  BY <1>3 DEF Readable, IInv, TypeOK
<1>5. CASE ended
  <2>1. ~ ended'
    BY <1>5 DEF ChainAppendCut
  <2>. QED
    BY <1>3, <1>4, <1>5, <2>1 DEF Complete
<1>6. CASE ~ ended
  <2>1. chain # << >>
    BY <1>6 DEF IInv, NewlineInv
  <2>. QED
    BY <1>3, <1>4, <1>6, <2>1 DEF Complete
<1>. QED
  BY <1>5, <1>6

(* With rounds committed one at a time, whatever fails, the files of the   *)
(* ledger implement an append-only log of linked records: ending the chain *)
(* line is the commit, and every other step leaves the log as it is.       *)
THEOREM ImplementsAuditLog == ASSUME Serial PROVE Spec => RefinesAuditLog
<1>1. Init => Log!Init
  BY DEF Init, Log!Init, CommittedLog, Complete
<1>2. ASSUME IInv, [Next]_vars PROVE [Log!Next]_CommittedLog
  <2>1. CASE \E c \in Committers : ChainAppend(c) /\ ended
    BY <1>2, <2>1, AppendIsCommit
  <2>2. CASE \E c \in Committers : ChainAppendCut(c) \/ (ChainAppend(c) /\ ~ ended)
    BY <1>2, <2>2, LostIsStutter, LogUnchanged
  <2>3. CASE UNCHANGED <<chain, ended>>
    <3>1. Complete' = Complete
      BY <2>3 DEF Complete
    <3>. QED
      BY <1>2, <3>1, LogUnchanged
  <2>. QED
    BY <1>2, <2>1, <2>2, <2>3
    DEF Next, vars, disk, CommitStep, StartRound, PutSkip, PutMiss, PutOpen,
        PutWrite, ReadHeight, ReadPrev, ReadPrevFails, RecordOpen, RecordWrite,
        Abort, VerifyStart, VerifyChainRaises, VerifyStep, LoadRecord,
        VerifyRecordMissing, VerifyRecordRaises, VerifyRecord, VerifyObjects,
        VerifyReport
<1>. QED
  BY <1>1, <1>2, Invariance, PTL DEF Spec, RefinesAuditLog, Log!Spec
-----------------------------------------------------------------------------
(* Artifacts and the audit of a chain that grows.                          *)

Named(i) == Artifacts(rounds[i].content.hashed)
Damaged(i) == \E b \in Named(i) : objects[b] # "whole"

(* Positions that the chain vouches for, or the lines the verifier holds.  *)
Vouched == {i \in 1 .. Len(chain) : chain[i] # Cut} \union (1 .. Len(vsnap))

(* A committer has put what it does not have still to put; what it writes  *)
(* is no artifact of an earlier round.                                     *)
ArtifactInv(c) ==
    /\ pc[c] \in {"put", "open", "write"} =>
          \A b \in Artifacts(round[c].hashed) \ todo[c] : objects[b] # "absent"
    /\ pc[c] \in {"prev", "record", "dump", "append"} =>
          \A b \in Artifacts(round[c].hashed) : objects[b] # "absent"
    /\ pc[c] = "open" => objects[blob[c]] = "absent"
    /\ pc[c] = "write" => objects[blob[c]] = "partial"
    /\ pc[c] \in {"open", "write"} => \A i \in Vouched : blob[c] \notin Named(i)

VouchedInv == \A i \in Vouched : \A b \in Named(i) : objects[b] # "absent"

(* The lines the verifier holds are still those of the records, although   *)
(* the last of them may have been lost from the chain since.               *)
SnapInv ==
    /\ Len(vsnap) <= Len(chain)
    /\ \A i \in 1 .. Len(vsnap) :
          /\ rounds[i] \in Records
          /\ EntryOf(rounds[i]) = vsnap[i]
          /\ vsnap[i].height = i
          /\ vsnap[i].prev = IF i = 1 THEN Genesis ELSE vsnap[i - 1].root

(* So far the verifier has found what there is to find.                    *)
ProgressInv ==
    /\ vpc # "idle" =>
          /\ vpos <= Len(vsnap) + 1
          /\ vprev = IF vpos = 1 THEN Genesis ELSE vsnap[vpos - 1].root
          /\ vbad <=> \E i \in 1 .. (vpos - 1) : Damaged(i)
    /\ vpc = "objects" => vobjs = Named(vpos)

AuditInv ==
    /\ \A c \in Committers : ArtifactInv(c)
    /\ VouchedInv
    /\ SnapInv
    /\ ProgressInv
    /\ VerifyExact
    /\ VerifyErrorMeansCut

LEMMA InitAuditInv == Init => AuditInv
<1> SUFFICES ASSUME Init PROVE AuditInv
  OBVIOUS
<1>1. chain = << >> /\ vsnap = << >> /\ Len(chain) = 0 /\ Len(vsnap) = 0
  BY DEF Init
<1>2. Vouched = {}
  BY <1>1 DEF Vouched
<1> QED
  BY <1>1, <1>2
  DEF Init, AuditInv, ArtifactInv, VouchedInv, SnapInv, ProgressInv, VerifyExact,
      VerifyErrorMeansCut

(* The records of these positions are as good as immutable.                *)
LEMMA PositionsKept ==
    ASSUME Serial, IInv, SnapInv, [Next]_vars
    PROVE  \A i \in Vouched : /\ i \in 1 .. Len(chain)
                              /\ rounds'[i] = rounds[i]
                              /\ Named(i)' = Named(i)
<1>1. Len(chain) \in Nat /\ Len(vsnap) \in Nat /\ Len(vsnap) <= Len(chain)
  BY DEF IInv, TypeOK, SnapInv
<1>2. \A i \in Vouched : i \in 1 .. Len(chain)
  BY <1>1 DEF Vouched
<1> QED BY <1>2, CommittedStep DEF Named

(* What each step does to the artifacts.                                   *)
LEMMA ObjectsStep ==
    ASSUME [Next]_vars
    PROVE  \/ \E c \in Committers : PutOpen(c) \/ PutWrite(c)
           \/ objects' = objects
  BY DEF Next, vars, disk, CommitStep, StartRound, PutSkip, PutMiss, ReadHeight,
         ReadPrev, ReadPrevFails, RecordOpen, RecordWrite, ChainAppend,
         ChainAppendCut, Abort, VerifyStart, VerifyChainRaises, VerifyStep,
         LoadRecord, VerifyRecordMissing, VerifyRecordRaises, VerifyRecord,
         VerifyObjects, VerifyReport

(* No file disappears, and none that an earlier round names changes.       *)
LEMMA FilesKept ==
    ASSUME Serial, IInv, AuditInv, [Next]_vars
    PROVE  /\ \A b \in Blobs : objects[b] # "absent" => objects'[b] # "absent"
           /\ \A i \in Vouched : /\ \A b \in Named(i) : b \in Blobs /\ objects'[b] = objects[b]
                                 /\ Damaged(i)' <=> Damaged(i)
<1>1. \A i \in Vouched : Named(i) \subseteq Blobs /\ Named(i)' = Named(i)
  <2>1. \A i \in Vouched : rounds[i] \in Records
    <3> SUFFICES ASSUME NEW i \in Vouched PROVE rounds[i] \in Records
      OBVIOUS
    <3>1. CASE i \in 1 .. Len(vsnap)
      BY <3>1 DEF AuditInv, SnapInv
    <3>2. CASE i \in 1 .. Len(chain) /\ chain[i] # Cut
      <4>1. /\ rounds[i] \notin {NoFile, Cut}
            /\ chain[i] \in Entries /\ chain[i].height = i
        BY <3>2 DEF IInv, RecordBacked, ChainLinked, TypeOK
      <4>2. i \in Heights
        BY <4>1, EntryFields
      <4> QED BY <4>1, <4>2 DEF IInv, TypeOK
    <3> QED BY <3>1, <3>2 DEF Vouched
  <2>2. \A i \in Vouched : Artifacts(rounds[i].content.hashed) \subseteq Blobs
    BY <2>1, RecordFields, ContentsAssumption, ArtifactsAssumption DEF ContentType
  <2> QED BY <2>2, PositionsKept DEF AuditInv, Named
<1>2. objects \in [Blobs -> {"absent", "partial", "whole"}]
  BY DEF IInv, TypeOK
<1>3. CASE objects' = objects
  BY <1>1, <1>3 DEF Damaged
<1>4. CASE \E c \in Committers : PutOpen(c) \/ PutWrite(c)
  <2>1. PICK c \in Committers : PutOpen(c) \/ PutWrite(c)
    BY <1>4
  <2>2. /\ blob[c] \in Blobs
        /\ \A i \in Vouched : blob[c] \notin Named(i)
    BY <2>1 DEF PutOpen, PutWrite, IInv, CommitterInv, AuditInv, ArtifactInv
  <2>3. \E file \in {"partial", "whole"} : objects' = [objects EXCEPT ![blob[c]] = file]
    BY <2>1 DEF PutOpen, PutWrite
  <2>4. \A b \in Blobs : b # blob[c] => objects'[b] = objects[b]
    BY <1>2, <2>2, <2>3
  <2>5. \A b \in Blobs : objects[b] # "absent" => objects'[b] # "absent"
    BY <1>2, <2>2, <2>3
  <2>6. \A i \in Vouched : \A b \in Named(i) : b \in Blobs /\ objects'[b] = objects[b]
    BY <1>1, <2>2, <2>4
  <2> QED BY <1>1, <2>5, <2>6 DEF Damaged
<1> QED BY <1>3, <1>4, ObjectsStep

(* A line that was lost stays lost.                                        *)
LEMMA CutStays ==
    ASSUME Serial, IInv, [Next]_vars, ~ Readable(chain)
    PROVE  ~ Readable(chain')
<1>1. CASE chain' = chain
  BY <1>1
<1>2. CASE \E c \in Committers : ChainAppend(c) \/ ChainAppendCut(c)
  BY <1>2 DEF ChainAppend, ChainAppendCut, IInv, CommitterInv
<1> QED
  BY <1>1, <1>2
  DEF Next, vars, disk, CommitStep, StartRound, PutSkip, PutMiss, PutOpen,
      PutWrite, ReadHeight, ReadPrev, ReadPrevFails, RecordOpen, RecordWrite,
      Abort, VerifyStart, VerifyChainRaises, VerifyStep, LoadRecord,
      VerifyRecordMissing, VerifyRecordRaises, VerifyRecord, VerifyObjects,
      VerifyReport

(* A committer disturbs nothing the verifier has found.                    *)
LEMMA AuditUndisturbed ==
    ASSUME Serial, IInv, AuditInv, [Next]_vars, UNCHANGED verifier
    PROVE  SnapInv' /\ ProgressInv' /\ VerifyExact' /\ VerifyErrorMeansCut'
<1>1. /\ Len(chain) \in Nat /\ Len(vsnap) \in Nat /\ vpos \in Nat \ {0}
      /\ Len(vsnap) <= Len(chain) /\ Len(chain) <= Len(chain')
      /\ UNCHANGED <<vpc, vsnap, vpos, vprev, vobjs, vbad, verdict>>
  <2>1. Len(chain) \in Nat /\ Len(vsnap) \in Nat /\ vpos \in Nat \ {0}
        /\ Len(vsnap) <= Len(chain)
    BY DEF IInv, TypeOK, AuditInv, SnapInv
  <2>2. Len(chain') \in Nat
    BY NextIInv DEF IInv, TypeOK
  <2>3. Len(chain) # 0 => Len(chain) <= Len(chain')
    BY <2>1, CommittedStep
  <2> QED BY <2>1, <2>2, <2>3 DEF verifier
<1>2. /\ \A i \in 1 .. Len(vsnap) :
            /\ i \in Vouched
            /\ rounds'[i] = rounds[i]
            /\ Named(i)' = Named(i)
            /\ Damaged(i)' <=> Damaged(i)
  BY PositionsKept, FilesKept DEF AuditInv, Vouched
<1>3. SnapInv'
  BY <1>1, <1>2 DEF AuditInv, SnapInv
<1>4. ProgressInv'
  <2>1. vpc = "objects" => vpos \in 1 .. Len(vsnap)
    BY <1>1 DEF IInv, VerifierInv
  <2>2. vpc # "idle" => \A i \in 1 .. (vpos - 1) : i \in 1 .. Len(vsnap)
    BY <1>1 DEF AuditInv, ProgressInv
  <2>3. vpc # "idle" =>
          ((\E i \in 1 .. (vpos - 1) : Damaged(i)') <=> \E i \in 1 .. (vpos - 1) : Damaged(i))
    BY <1>2, <2>2
  <2> QED BY <1>1, <1>2, <2>1, <2>3 DEF AuditInv, ProgressInv
<1>5. VerifyExact'
  <2>1. VerifyExact <=>
          /\ verdict = "bad" => \E i \in 1 .. Len(vsnap) : Damaged(i)
          /\ verdict = "ok" => ~ \E i \in 1 .. Len(vsnap) : Damaged(i)
    BY DEF VerifyExact, Damaged, Named
  <2>2. VerifyExact' <=>
          /\ verdict' = "bad" => \E i \in 1 .. Len(vsnap') : Damaged(i)'
          /\ verdict' = "ok" => ~ \E i \in 1 .. Len(vsnap') : Damaged(i)'
    BY DEF VerifyExact, Damaged, Named
  <2> QED BY <1>1, <1>2, <2>1, <2>2 DEF AuditInv
<1>6. VerifyErrorMeansCut'
  BY <1>1, CutStays DEF AuditInv, VerifyErrorMeansCut
<1> QED BY <1>3, <1>4, <1>5, <1>6

(* The only position that is ever added is that of the line appended.      *)
LEMMA VouchedStep ==
    ASSUME Serial, IInv, [Next]_vars
    PROVE  \A i \in Vouched' :
              \/ i \in Vouched
              \/ /\ objects' = objects /\ rounds' = rounds
                 /\ \E c \in Committers : pc[c] = "append" /\ i = height[c]
<1>1. Len(chain) \in Nat
  BY DEF IInv, TypeOK
<1>2. CASE chain' = chain /\ vsnap' = vsnap
  BY <1>2 DEF Vouched
<1>3. CASE VerifyStart
  <2>1. chain' = chain /\ vsnap' = chain
    BY <1>3 DEF VerifyStart, disk
  <2>2. \A i \in 1 .. Len(chain) : i \in Vouched
    BY <1>3 DEF VerifyStart, Readable, Vouched
  <2> QED BY <2>1, <2>2 DEF Vouched
<1>4. CASE \E c \in Committers : ChainAppend(c) \/ ChainAppendCut(c)
  <2>1. PICK c \in Committers : ChainAppend(c) \/ ChainAppendCut(c)
    BY <1>4
  <2>2. PICK line \in {Cut, EntryOf(RecordOf(round[c], height[c], prev[c]))} :
             chain' = WithLine(line)
    BY <2>1 DEF ChainAppend, ChainAppendCut
  <2>3. /\ pc[c] = "append" /\ rounds' = rounds /\ objects' = objects
        /\ ended' \in BOOLEAN /\ vsnap' = vsnap
    BY <2>1 DEF ChainAppend, ChainAppendCut, verifier
  <2>4. /\ \A i \in 1 .. Len(chain) :
              chain'[i] = chain[i] \/ (i = Len(chain) /\ ~ ended)
        /\ ~ ended => Len(chain') = Len(chain) /\ chain'[Len(chain)] = Cut
        /\ ended => Len(chain') = Len(chain) + 1
    BY <2>2, <2>3, ToAppend, WriteLine
  <2>5. height[c] = Len(chain) + 1
    BY <2>3 DEF IInv, CommitterInv
  <2>6. ASSUME NEW i \in 1 .. Len(chain'), chain'[i] # Cut
        PROVE  i = height[c] \/ (i \in 1 .. Len(chain) /\ chain[i] # Cut)
    BY <1>1, <2>4, <2>5, <2>6
  <2> QED BY <2>3, <2>6 DEF Vouched
<1> QED
  BY <1>2, <1>3, <1>4
  DEF Next, vars, disk, verifier, CommitStep, StartRound, PutSkip, PutMiss, PutOpen,
      PutWrite, ReadHeight, ReadPrev, ReadPrevFails, RecordOpen, RecordWrite,
      Abort, VerifyChainRaises, VerifyStep, LoadRecord, VerifyRecordMissing,
      VerifyRecordRaises, VerifyRecord, VerifyObjects, VerifyReport

(* Every artifact of a record is put before the record's line is written.  *)
LEMMA VouchedInvStep ==
    ASSUME Serial, IInv, AuditInv, [Next]_vars
    PROVE  VouchedInv'
<1> SUFFICES ASSUME NEW i \in Vouched' PROVE \A b \in Named(i)' : objects'[b] # "absent"
  BY DEF VouchedInv
<1>1. CASE i \in Vouched
  BY <1>1, PositionsKept, FilesKept DEF AuditInv, VouchedInv
<1>2. CASE /\ objects' = objects /\ rounds' = rounds
           /\ \E c \in Committers : pc[c] = "append" /\ i = height[c]
  <2>1. PICK c \in Committers : pc[c] = "append" /\ i = height[c]
    BY <1>2
  <2>2. rounds[i] = RecordOf(round[c], height[c], prev[c])
    BY <2>1 DEF IInv, CommitterInv
  <2>3. rounds[i].content = round[c]
    BY <2>2 DEF RecordOf, Log!RecordOf
  <2>4. \A b \in Artifacts(round[c].hashed) : objects[b] # "absent"
    BY <2>1 DEF AuditInv, ArtifactInv
  <2> QED BY <1>2, <2>3, <2>4 DEF Named
<1> QED BY <1>1, <1>2, VouchedStep

(* Each step of a committer.                                               *)
LEMMA CommitterAudit ==
    ASSUME Serial, IInv, AuditInv, NEW c \in Committers,
           CommitStep(c) \/ ChainAppendCut(c) \/ Abort(c)
             \/ \E content \in Contents : StartRound(c, content)
    PROVE  AuditInv'
<1>1. [Next]_vars
  BY DEF Next
<1>2. UNCHANGED verifier
  BY DEF CommitStep, StartRound, PutSkip, PutMiss, PutOpen, PutWrite, ReadHeight,
         ReadPrev, ReadPrevFails, RecordOpen, RecordWrite, ChainAppend,
         ChainAppendCut, Abort
<1>3. VouchedInv'
  BY <1>1, VouchedInvStep
<1>4. IInv'
  BY <1>1, NextIInv
<1>5. /\ objects \in [Blobs -> {"absent", "partial", "whole"}]
      /\ pc \in [Committers -> {"idle", "put", "open", "write", "prev", "record",
                                "dump", "append"}]
      /\ todo \in [Committers -> SUBSET Blobs]
      /\ round \in [Committers -> Contents \union {NoFile}]
      /\ blob \in [Committers -> Blobs \union {NoFile}]
      /\ ArtifactInv(c)
      /\ pc[c] \in {"open", "write"} => blob[c] \in Blobs
      /\ pc[c] # "idle" => round[c] \in Contents
  BY DEF IInv, TypeOK, AuditInv, CommitterInv
<1>6. /\ pc[c] # "idle" => Artifacts(round[c].hashed) \subseteq Blobs
      /\ \A content \in Contents : Artifacts(content.hashed) \subseteq Blobs
  BY <1>5, ContentsAssumption, ArtifactsAssumption DEF ContentType
<1>7. ArtifactInv(c)'
  <2>1. ASSUME NEW content \in Contents, StartRound(c, content)
        PROVE  ArtifactInv(c)'
    BY <1>5, <1>6, <2>1 DEF StartRound, disk, ArtifactInv
  <2>2. ASSUME NEW b \in Blobs, PutSkip(c, b)
        PROVE  ArtifactInv(c)'
    BY <1>5, <2>2 DEF PutSkip, disk, ArtifactInv
  <2>3. ASSUME NEW b \in Blobs, PutMiss(c, b)
        PROVE  ArtifactInv(c)'
    <3>1. \A i \in Vouched : b \notin Named(i)
      BY <2>3 DEF PutMiss, AuditInv, VouchedInv
    <3>2. Vouched' = Vouched /\ \A i : Named(i)' = Named(i)
      BY <2>3 DEF PutMiss, disk, verifier, Vouched, Named
    <3>3. /\ pc' = [pc EXCEPT ![c] = "open"] /\ blob' = [blob EXCEPT ![c] = b]
          /\ pc[c] = "put" /\ objects[b] = "absent"
          /\ UNCHANGED <<objects, round, todo>>
      BY <2>3 DEF PutMiss, disk
    <3> QED BY <1>5, <3>1, <3>2, <3>3 DEF ArtifactInv
  <2>4. CASE PutOpen(c)
    <3>1. Vouched' = Vouched /\ \A i : Named(i)' = Named(i)
      BY <2>4 DEF PutOpen, verifier, Vouched, Named
    <3>2. /\ pc' = [pc EXCEPT ![c] = "write"] /\ pc[c] = "open"
          /\ objects' = [objects EXCEPT ![blob[c]] = "partial"]
          /\ UNCHANGED <<round, todo, blob>>
      BY <2>4 DEF PutOpen
    <3> QED BY <1>5, <1>6, <3>1, <3>2 DEF ArtifactInv
  <2>5. CASE PutWrite(c)
    <3>1. /\ pc' = [pc EXCEPT ![c] = "put"] /\ pc[c] = "write"
          /\ objects' = [objects EXCEPT ![blob[c]] = "whole"]
          /\ todo' = [todo EXCEPT ![c] = @ \ {blob[c]}]
          /\ UNCHANGED <<round, blob>>
      BY <2>5 DEF PutWrite
    <3> QED BY <1>5, <1>6, <3>1 DEF ArtifactInv
  <2>6. CASE ReadHeight(c)
    BY <1>5, <2>6 DEF ReadHeight, PutsDone, disk, ArtifactInv
  <2>7. CASE ReadPrev(c) \/ ReadPrevFails(c)
    BY <1>5, <2>7 DEF ReadPrev, ReadPrevFails, disk, ArtifactInv
  <2>8. CASE RecordOpen(c) \/ RecordWrite(c)
    BY <1>5, <2>8 DEF RecordOpen, RecordWrite, ArtifactInv
  <2>9. CASE ChainAppend(c) \/ ChainAppendCut(c) \/ Abort(c)
    BY <1>5, <2>9 DEF ChainAppend, ChainAppendCut, Abort, ArtifactInv
  <2> QED
    BY <2>1, <2>2, <2>3, <2>4, <2>5, <2>6, <2>7, <2>8, <2>9 DEF CommitStep
<1>8. \A d \in Committers : ArtifactInv(d)'
  BY <1>7 DEF Serial
<1> QED BY <1>1, <1>2, <1>3, <1>8, AuditUndisturbed DEF AuditInv

(* The verifier touches no file and no committer.                          *)
LEMMA ArtifactsUndisturbed ==
    ASSUME Serial, IInv, AuditInv, [Next]_vars, UNCHANGED <<disk, committer>>
    PROVE  \A c \in Committers : ArtifactInv(c)'
<1>1. /\ UNCHANGED <<objects, rounds, chain, pc, round, todo, blob>>
      /\ \A i : Named(i)' = Named(i)
  BY DEF disk, committer, Named
<1>2. \A i \in Vouched' : i \in Vouched
  <2>1. CASE vsnap' = vsnap
    BY <1>1, <2>1 DEF Vouched
  <2>2. CASE VerifyStart
    BY <2>2 DEF VerifyStart, disk, Readable, Vouched
  <2>3. vsnap' = vsnap \/ VerifyStart
    BY DEF Next, vars, disk, verifier, CommitStep, StartRound, PutSkip, PutMiss, PutOpen,
           PutWrite, ReadHeight, ReadPrev, ReadPrevFails, RecordOpen, RecordWrite,
           ChainAppend, ChainAppendCut, Abort, VerifyChainRaises, VerifyStep,
           LoadRecord, VerifyRecordMissing, VerifyRecordRaises, VerifyRecord,
           VerifyObjects, VerifyReport
  <2> QED BY <2>1, <2>2, <2>3
<1> QED BY <1>1, <1>2 DEF AuditInv, ArtifactInv

LEMMA VerifyStartAudit ==
    ASSUME Serial, IInv, AuditInv, VerifyStart PROVE AuditInv'
<1>1. /\ UNCHANGED <<disk, committer, vobjs>> /\ Readable(chain)
      /\ vsnap' = chain /\ vpos' = 1 /\ vprev' = Genesis /\ vbad' = FALSE
      /\ vpc' = "record" /\ verdict' = "none"
      /\ UNCHANGED <<objects, rounds, chain>>
  BY DEF VerifyStart, disk
<1>2. [Next]_vars
  BY DEF Next
<1>3. VouchedInv' /\ \A c \in Committers : ArtifactInv(c)'
  BY <1>1, <1>2, VouchedInvStep, ArtifactsUndisturbed
<1>4. SnapInv'
  <2>1. Len(chain) \in Nat /\ \A i \in 1 .. Len(chain) : chain[i] # Cut
    BY <1>1 DEF IInv, TypeOK, Readable
  <2>2. ASSUME NEW i \in 1 .. Len(chain)
        PROVE  /\ rounds[i] \in Records
               /\ EntryOf(rounds[i]) = chain[i]
               /\ chain[i].height = i
               /\ chain[i].prev = IF i = 1 THEN Genesis ELSE chain[i - 1].root
    <3>1. /\ chain[i] \in Entries /\ rounds[i] \notin {NoFile, Cut}
          /\ EntryOf(rounds[i]) = chain[i] /\ chain[i].height = i
          /\ chain[i].prev = IF i = 1 THEN Genesis ELSE chain[i - 1].root
      BY <2>1 DEF IInv, TypeOK, ChainLinked, RecordBacked
    <3>2. i \in Heights
      BY <3>1, EntryFields
    <3> QED BY <3>1, <3>2 DEF IInv, TypeOK
  <2> QED BY <1>1, <2>1, <2>2 DEF SnapInv
<1>5. ProgressInv'
  BY <1>1 DEF ProgressInv, IInv, TypeOK
<1>6. VerifyExact' /\ VerifyErrorMeansCut'
  BY <1>1 DEF VerifyExact, VerifyErrorMeansCut
<1> QED BY <1>3, <1>4, <1>5, <1>6 DEF AuditInv

(* A step of the verifier over the lines it has read.                      *)
LEMMA WalkAudit ==
    ASSUME Serial, IInv, AuditInv, VerifyStep \/ VerifyChainRaises PROVE AuditInv'
<1>1. /\ UNCHANGED <<disk, committer, vsnap>> /\ UNCHANGED <<objects, rounds, chain>>
      /\ [Next]_vars
      /\ \A i : Named(i)' = Named(i) /\ (Damaged(i)' <=> Damaged(i))
  BY DEF VerifyStep, VerifyChainRaises, LoadRecord, VerifyRecordMissing,
         VerifyRecordRaises, VerifyRecord, VerifyObjects, VerifyReport, disk, Next,
         Named, Damaged
<1>2. VouchedInv' /\ \A c \in Committers : ArtifactInv(c)'
  BY <1>1, VouchedInvStep, ArtifactsUndisturbed
<1>3. SnapInv'
  BY <1>1 DEF AuditInv, SnapInv
<1>4. /\ Len(vsnap) \in Nat /\ vpos \in Nat \ {0}
      /\ vpc = "objects" => vpos <= Len(vsnap)
      /\ VerifyExact <=>
            /\ verdict = "bad" => \E i \in 1 .. Len(vsnap) : Damaged(i)
            /\ verdict = "ok" => ~ \E i \in 1 .. Len(vsnap) : Damaged(i)
      /\ VerifyExact' <=>
            /\ verdict' = "bad" => \E i \in 1 .. Len(vsnap) : Damaged(i)
            /\ verdict' = "ok" => ~ \E i \in 1 .. Len(vsnap) : Damaged(i)
  BY <1>1 DEF IInv, TypeOK, VerifierInv, VerifyExact, Damaged, Named
<1>5. CASE VerifyChainRaises
  BY <1>1, <1>2, <1>3, <1>4, <1>5
  DEF VerifyChainRaises, AuditInv, ProgressInv, VerifyErrorMeansCut
<1>6. CASE LoadRecord
  <2>1. /\ vpc = "record" /\ vpos \in 1 .. Len(vsnap)
        /\ rounds[vpos] \in Records /\ EntryOf(rounds[vpos]) = vsnap[vpos]
        /\ vsnap[vpos].height = vpos
        /\ vsnap[vpos].prev = IF vpos = 1 THEN Genesis ELSE vsnap[vpos - 1].root
        /\ vprev = IF vpos = 1 THEN Genesis ELSE vsnap[vpos - 1].root
    BY <1>4, <1>6 DEF LoadRecord, AuditInv, SnapInv, ProgressInv
  <2>2. Filed = rounds[vpos] /\ Filed \notin {NoFile, Cut}
    BY <2>1, SentinelAssumption DEF Filed, Entry
  <2>3. VerifyRecord
    BY <1>6, <2>2 DEF LoadRecord, VerifyRecordMissing, VerifyRecordRaises
  <2>4. ~ RootMismatch /\ Filed.prev = vprev /\ Entry.prev = vprev
    <3>1. Filed.root = Root(Filed.content.hashed)
      BY <2>1, <2>2, RecordFields
    <3>2. Entry.root = Filed.root /\ Entry.prev = Filed.prev
      BY <2>1, <2>2 DEF Entry, EntryOf
    <3> QED BY <2>1, <3>1, <3>2 DEF RootMismatch, Entry
  <2>5. /\ vbad' = vbad /\ vobjs' = Named(vpos) /\ vpc' = "objects"
        /\ UNCHANGED <<vpos, vprev, verdict>>
    <3>1. vbad \in BOOLEAN
      BY DEF IInv, TypeOK
    <3> QED BY <2>2, <2>3, <2>4, <3>1 DEF VerifyRecord, Named
  <2>6. ProgressInv'
    BY <1>1, <2>1, <2>5 DEF AuditInv, ProgressInv
  <2> QED BY <1>1, <1>2, <1>3, <1>4, <2>5, <2>6 DEF AuditInv, VerifyErrorMeansCut
<1>7. CASE VerifyObjects
  <2>1. /\ vpc = "objects" /\ vpos \in 1 .. Len(vsnap) /\ vobjs = Named(vpos)
        /\ vbad <=> \E i \in 1 .. (vpos - 1) : Damaged(i)
        /\ vbad \in BOOLEAN
        /\ vbad' = (vbad \/ Failing # {}) /\ vprev' = vsnap[vpos].root
        /\ vpos' = vpos + 1 /\ vpc' = "record" /\ verdict' = verdict
    BY <1>4, <1>7 DEF VerifyObjects, Entry, AuditInv, ProgressInv, IInv, TypeOK
  <2>2. Failing # {} <=> Damaged(vpos)
    BY <2>1 DEF Failing, Damaged
  <2>3. \A i : i \in 1 .. (vpos' - 1) <=> i \in 1 .. (vpos - 1) \/ i = vpos
    BY <2>1
  <2>4. vbad' <=> \E i \in 1 .. (vpos' - 1) : Damaged(i)
    BY <2>1, <2>2, <2>3
  <2>5. ProgressInv'
    BY <1>1, <1>4, <2>1, <2>4 DEF ProgressInv
  <2> QED BY <1>1, <1>2, <1>3, <1>4, <2>1, <2>5 DEF AuditInv, VerifyErrorMeansCut
<1>8. CASE VerifyReport
  <2>1. /\ vpc = "record" /\ vpos = Len(vsnap) + 1
        /\ vbad <=> \E i \in 1 .. Len(vsnap) : Damaged(i)
        /\ verdict' = (IF vbad THEN "bad" ELSE "ok") /\ vpc' = "idle"
    BY <1>4, <1>8 DEF VerifyReport, AuditInv, ProgressInv
  <2> QED BY <1>1, <1>2, <1>3, <1>4, <2>1 DEF AuditInv, ProgressInv, VerifyErrorMeansCut
<1> QED BY <1>5, <1>6, <1>7, <1>8 DEF VerifyStep

LEMMA AuditInvariance == ASSUME Serial PROVE Spec => []AuditInv
<1>1. Init => AuditInv
  BY InitAuditInv
<1>2. IInv /\ AuditInv /\ [Next]_vars => AuditInv'
  <2> SUFFICES ASSUME IInv, AuditInv, [Next]_vars PROVE AuditInv'
    OBVIOUS
  <2>1. CASE UNCHANGED vars
    <3>1. UNCHANGED <<disk, committer>> /\ UNCHANGED verifier
      BY <2>1 DEF vars
    <3> QED
      BY <3>1, VouchedInvStep, ArtifactsUndisturbed, AuditUndisturbed DEF AuditInv
  <2> QED
    BY <2>1, CommitterAudit, VerifyStartAudit, WalkAudit DEF Next
<1> QED BY <1>1, <1>2, Invariance, PTL DEF Spec

(* With rounds committed one at a time, a line of the chain names no       *)
(* artifact without a file, wherever rounds before it failed or died.      *)
THEOREM ArtifactsAreThere == ASSUME Serial PROVE Spec => []ObjectsBacked
<1>1. VouchedInv => ObjectsBacked
  BY DEF VouchedInv, ObjectsBacked, Vouched, Named
<1> QED BY <1>1, AuditInvariance, PTL DEF AuditInv

(* With rounds committed one at a time, a verification that runs beside    *)
(* them, at whatever speed, reports the damage there is in the lines it    *)
(* read and no other, at its end and as long as it is not run again.       *)
THEOREM AuditIsExact == ASSUME Serial PROVE Spec => []VerifyExact
<1>1. AuditInv => VerifyExact
  BY DEF AuditInv
<1> QED BY <1>1, AuditInvariance, PTL

(* With rounds committed one at a time, a verification fails only on a     *)
(* chain that has lost a line: it never meets a record that is missing or  *)
(* half written.                                                           *)
THEOREM ErrorsMeanLostLines == ASSUME Serial PROVE Spec => []VerifyErrorMeansCut
<1>1. AuditInv => VerifyErrorMeansCut
  BY DEF AuditInv
<1> QED BY <1>1, AuditInvariance, PTL

-----------------------------------------------------------------------------
(* Committers that overlap: what holds however many there are.             *)

(* What a committer has in hand, whatever the others do to the chain.      *)
InHand(c) ==
    /\ pc[c] # "idle" => round[c] \in Contents
    /\ pc[c] \in {"open", "write"} => blob[c] \in Blobs
    /\ pc[c] \in {"prev", "record", "dump", "append"} => height[c] \in Heights

OverlapInv ==
    /\ TypeOK
    /\ NewlineInv
    /\ VerifierInv
    /\ \A c \in Committers : InHand(c)

LEMMA OverlapQuiet ==
    ASSUME OverlapInv, UNCHANGED <<disk, verifier>>, TypeOK',
           \A c \in Committers : InHand(c)'
    PROVE  OverlapInv'
  BY DEF OverlapInv, disk, verifier, NewlineInv, VerifierInv

(* Until it writes, a committer has a round, an artifact, a height and a   *)
(* root of the right type in hand, wherever it read them.                  *)
LEMMA OverlapReads ==
    ASSUME OverlapInv, NEW c \in Committers,
           \/ \E content \in Contents : StartRound(c, content)
           \/ \E b \in Blobs : PutSkip(c, b) \/ PutMiss(c, b)
           \/ ReadHeight(c) \/ ReadPrev(c) \/ ReadPrevFails(c) \/ Abort(c)
    PROVE  OverlapInv'
<1>1. ASSUME NEW content \in Contents, StartRound(c, content) PROVE OverlapInv'
  <2>1. TypeOK'
    BY <1>1, ContentsAssumption, ArtifactsAssumption
    DEF OverlapInv, TypeOK, StartRound, disk, verifier, ContentType
  <2>2. \A d \in Committers : InHand(d)'
    BY <1>1 DEF OverlapInv, TypeOK, StartRound, InHand
  <2>. QED
    BY <1>1, <2>1, <2>2, OverlapQuiet DEF StartRound
<1>2. ASSUME NEW b \in Blobs, PutSkip(c, b) \/ PutMiss(c, b) PROVE OverlapInv'
  <2>1. TypeOK'
    <3>1. CASE PutSkip(c, b)
      BY <3>1 DEF OverlapInv, TypeOK, PutSkip, disk, verifier
    <3>2. CASE PutMiss(c, b)
      BY <3>2 DEF OverlapInv, TypeOK, PutMiss, disk, verifier
    <3>. QED
      BY <1>2, <3>1, <3>2
  <2>2. \A d \in Committers : InHand(d)'
    BY <1>2 DEF OverlapInv, TypeOK, PutSkip, PutMiss, InHand
  <2>. QED
    BY <1>2, <2>1, <2>2, OverlapQuiet DEF PutSkip, PutMiss
<1>3. CASE ReadHeight(c)
  <2>1. Len(chain) \in Nat /\ Len(chain) + 1 \in Heights
    BY <1>3, HeightAssumption DEF OverlapInv, TypeOK, ReadHeight, Heights
  <2>2. TypeOK'
    BY <1>3, <2>1 DEF OverlapInv, TypeOK, ReadHeight, NextHeight, disk, verifier, Heights
  <2>3. \A d \in Committers : InHand(d)'
    BY <1>3, <2>1 DEF OverlapInv, TypeOK, ReadHeight, NextHeight, InHand
  <2>. QED
    BY <1>3, <2>2, <2>3, OverlapQuiet DEF ReadHeight
<1>4. CASE ReadPrev(c)
  <2>1. LastRoot(chain) \in Roots \union {Genesis}
    BY <1>4, LastRootType DEF OverlapInv, ReadPrev
  <2>2. TypeOK'
    BY <1>4, <2>1 DEF OverlapInv, TypeOK, ReadPrev, disk, verifier
  <2>3. \A d \in Committers : InHand(d)'
    BY <1>4 DEF OverlapInv, TypeOK, ReadPrev, InHand
  <2>. QED
    BY <1>4, <2>2, <2>3, OverlapQuiet DEF ReadPrev
<1>5. CASE ReadPrevFails(c) \/ Abort(c)
  <2>1. TypeOK'
    BY <1>5 DEF OverlapInv, TypeOK, ReadPrevFails, Abort, disk, verifier
  <2>2. \A d \in Committers : InHand(d)'
    BY <1>5 DEF OverlapInv, TypeOK, ReadPrevFails, Abort, InHand
  <2>. QED
    BY <1>5, <2>1, <2>2, OverlapQuiet DEF ReadPrevFails, Abort
<1>. QED
  BY <1>1, <1>2, <1>3, <1>4, <1>5

(* What it writes is of the right type, over whatever is there.            *)
LEMMA OverlapWrites ==
    ASSUME OverlapInv, NEW c \in Committers,
           \/ PutOpen(c) \/ PutWrite(c) \/ RecordOpen(c) \/ RecordWrite(c)
           \/ ChainAppend(c) \/ ChainAppendCut(c)
    PROVE  OverlapInv'
<1>1. CASE PutOpen(c) \/ PutWrite(c)
  <2>1. TypeOK'
    <3>1. CASE PutOpen(c)
      BY <3>1 DEF OverlapInv, TypeOK, PutOpen, verifier, InHand
    <3>2. CASE PutWrite(c)
      BY <3>2 DEF OverlapInv, TypeOK, PutWrite, verifier, InHand
    <3>. QED
      BY <1>1, <3>1, <3>2
  <2>2. \A d \in Committers : InHand(d)'
    BY <1>1 DEF OverlapInv, TypeOK, PutOpen, PutWrite, InHand
  <2>. QED
    BY <1>1, <2>1, <2>2
    DEF OverlapInv, PutOpen, PutWrite, verifier, NewlineInv, VerifierInv
<1>2. CASE RecordOpen(c)
  <2>1. TypeOK'
    BY <1>2 DEF OverlapInv, TypeOK, RecordOpen, verifier, InHand
  <2>2. \A d \in Committers : InHand(d)'
    BY <1>2 DEF OverlapInv, TypeOK, RecordOpen, InHand
  <2>. QED
    BY <1>2, <2>1, <2>2 DEF OverlapInv, RecordOpen, verifier, NewlineInv, VerifierInv
<1>3. CASE RecordWrite(c)
  <2>1. RecordOf(round[c], height[c], prev[c]) \in Records /\ height[c] \in Heights
    BY <1>3, RecordFacts DEF OverlapInv, TypeOK, RecordWrite, InHand
  <2>2. TypeOK'
    BY <1>3, <2>1 DEF OverlapInv, TypeOK, RecordWrite, verifier
  <2>3. \A d \in Committers : InHand(d)'
    BY <1>3 DEF OverlapInv, TypeOK, RecordWrite, InHand
  <2>. QED
    BY <1>3, <2>2, <2>3 DEF OverlapInv, RecordWrite, verifier, NewlineInv, VerifierInv
<1>4. CASE ChainAppend(c) \/ ChainAppendCut(c)
  <2>1. /\ chain \in Seq(Entries \union {Cut}) /\ Len(chain) \in Nat
        /\ ended \in BOOLEAN /\ (ended \/ Len(chain) \in 1 .. Len(chain))
    BY DEF OverlapInv, TypeOK, NewlineInv
  <2>2. PICK line \in {Cut, EntryOf(RecordOf(round[c], height[c], prev[c]))} :
             chain' = WithLine(line)
    BY <1>4 DEF ChainAppend, ChainAppendCut
  <2>3. /\ pc[c] = "append" /\ pc' = [pc EXCEPT ![c] = "idle"]
        /\ ended' \in BOOLEAN
        /\ UNCHANGED <<objects, rounds, round, todo, blob, height, prev, verifier>>
    BY <1>4 DEF ChainAppend, ChainAppendCut
  <2>4. line \in Entries \union {Cut}
    <3>1. round[c] \in Contents /\ height[c] \in Heights /\ prev[c] \in Roots \union {Genesis}
      BY <2>3 DEF OverlapInv, TypeOK, InHand
    <3>2. EntryOf(RecordOf(round[c], height[c], prev[c])) \in Entries
      BY <3>1, RecordFacts
    <3>. QED
      BY <2>2, <3>2
  <2>5. chain' \in Seq(Entries \union {Cut}) /\ chain' # << >>
    <3>1. CASE ended
      BY <2>1, <2>2, <2>4, <3>1 DEF WithLine
    <3>2. CASE ~ ended
      <4>1. chain' = [chain EXCEPT ![Len(chain)] = Cut]
        BY <2>2, <3>2 DEF WithLine
      <4>2. Len(chain) \in 1 .. Len(chain) /\ Cut \in Entries \union {Cut}
        BY <2>1, <3>2
      <4>3. Len(chain') = Len(chain) /\ chain' \in Seq(Entries \union {Cut})
        BY <2>1, <4>1, <4>2
      <4>. QED
        BY <4>2, <4>3
    <3>. QED
      BY <3>1, <3>2
  <2>6. TypeOK'
    BY <2>3, <2>5 DEF OverlapInv, TypeOK, verifier
  <2>7. \A d \in Committers : InHand(d)'
    BY <2>3 DEF OverlapInv, TypeOK, InHand
  <2>. QED
    BY <2>3, <2>5, <2>6, <2>7 DEF OverlapInv, verifier, NewlineInv, VerifierInv
<1>. QED
  BY <1>1, <1>2, <1>3, <1>4

LEMMA OverlapVerifies ==
    ASSUME OverlapInv, VerifyStart \/ VerifyChainRaises \/ VerifyStep
    PROVE  OverlapInv'
<1>1. UNCHANGED <<disk, committer>>
  BY DEF VerifyStart, VerifyChainRaises, VerifyStep, LoadRecord, VerifyRecordMissing,
     VerifyRecordRaises, VerifyRecord, VerifyObjects, VerifyReport
<1>2. ASSUME VerifierInv', vpc' \in {"idle", "record", "objects"}, vsnap' \in Seq(Entries),
             vpos' \in Nat \ {0}, vprev' \in Roots \union {Genesis},
             vobjs' \in SUBSET Blobs, vbad' \in BOOLEAN,
             verdict' \in {"none", "ok", "bad", "error"}
      PROVE  OverlapInv'
  <2>1. TypeOK'
    BY <1>1, <1>2 DEF OverlapInv, TypeOK, disk, committer
  <2>. QED
    BY <1>1, <1>2, <2>1 DEF OverlapInv, disk, committer, NewlineInv, InHand
<1>3. CASE VerifyStart
  <2>1. chain \in Seq(Entries)
    <3>1. \A i \in 1 .. Len(chain) : chain[i] \in Entries
      BY <1>3 DEF VerifyStart, Readable, OverlapInv, TypeOK
    <3>2. Len(chain) \in Nat /\ chain = [i \in 1 .. Len(chain) |-> chain[i]]
      BY DEF OverlapInv, TypeOK
    <3>. QED
      BY <3>1, <3>2
  <2>2. /\ vpc' = "record" /\ vsnap' = chain /\ vpos' = 1 /\ vprev' = Genesis
        /\ vbad' = FALSE /\ verdict' = "none" /\ vobjs' = vobjs
    BY <1>3 DEF VerifyStart
  <2>3. VerifierInv' /\ vbad' \in BOOLEAN
    <3>1. vbad' \in BOOLEAN
      BY <2>2, Zenon
    <3>. QED
      BY <2>2, <3>1 DEF VerifierInv
  <2>. QED
    BY <1>2, <2>1, <2>2, <2>3 DEF OverlapInv, TypeOK
<1>4. CASE VerifyChainRaises
  BY <1>2, <1>4 DEF VerifyChainRaises, VerifierInv, OverlapInv, TypeOK
<1>5. CASE LoadRecord
  <2>1. CASE VerifyRecordMissing
    BY <1>2, <1>5, <2>1 DEF LoadRecord, VerifyRecordMissing, VerifierInv, OverlapInv, TypeOK
  <2>2. CASE VerifyRecordRaises
    BY <1>2, <2>2 DEF VerifyRecordRaises, VerifierInv, OverlapInv, TypeOK
  <2>3. CASE VerifyRecord
    <3>1. Entry \in Entries
      BY <1>5 DEF LoadRecord, Entry, OverlapInv, TypeOK
    <3>2. Filed \in Records
      BY <2>3, <3>1, EntryFields DEF VerifyRecord, Filed, OverlapInv, TypeOK
    <3>3. Artifacts(Filed.content.hashed) \in SUBSET Blobs
      BY <3>2, RecordFields, ContentsAssumption, ArtifactsAssumption DEF ContentType
    <3>4. vbad' \in BOOLEAN
      BY <2>3 DEF VerifyRecord, OverlapInv, TypeOK
    <3>5. /\ vpos <= Len(vsnap) /\ vpc' = "objects"
          /\ vobjs' = Artifacts(Filed.content.hashed)
          /\ UNCHANGED <<vsnap, vpos, vprev, verdict>>
      BY <1>5, <2>3 DEF LoadRecord, VerifyRecord
    <3>. QED
      BY <1>2, <3>3, <3>4, <3>5 DEF VerifierInv, OverlapInv, TypeOK
  <2>. QED
    BY <1>5, <2>1, <2>2, <2>3 DEF LoadRecord
<1>6. CASE VerifyObjects
  <2>1. Entry \in Entries
    BY <1>6 DEF VerifyObjects, Entry, OverlapInv, TypeOK, VerifierInv
  <2>2. Entry.root \in Roots
    BY <2>1, EntryFields
  <2>3. vbad' \in BOOLEAN
    BY <1>6 DEF VerifyObjects, OverlapInv, TypeOK
  <2>. QED
    BY <1>2, <1>6, <2>2, <2>3 DEF VerifyObjects, VerifierInv, OverlapInv, TypeOK
<1>7. CASE VerifyReport
  BY <1>2, <1>7 DEF VerifyReport, VerifierInv, OverlapInv, TypeOK
<1>. QED
  BY <1>3, <1>4, <1>5, <1>6, <1>7 DEF VerifyStep

LEMMA InitOverlap == Init => OverlapInv
<1>1. Init => IInv
  BY InitIInv
<1>. QED
  BY <1>1 DEF IInv, OverlapInv, CommitterInv, InHand

LEMMA NextOverlap == ASSUME OverlapInv, [Next]_vars PROVE OverlapInv'
<1>1. CASE UNCHANGED vars
  <2>1. UNCHANGED <<disk, verifier>> /\ UNCHANGED committer
    BY <1>1 DEF vars
  <2>2. TypeOK'
    BY <2>1 DEF OverlapInv, TypeOK, disk, committer, verifier
  <2>3. \A c \in Committers : InHand(c)'
    BY <2>1 DEF OverlapInv, InHand, committer
  <2>. QED
    BY <2>1, <2>2, <2>3, OverlapQuiet
<1>2. ASSUME NEW c \in Committers, CommitStep(c) \/ ChainAppendCut(c) \/ Abort(c)
      PROVE  OverlapInv'
  BY <1>2, OverlapReads, OverlapWrites DEF CommitStep
<1>. QED
  BY <1>1, <1>2, OverlapReads, OverlapVerifies DEF Next

(* However many committers overlap, whatever writes fail and whenever a    *)
(* process dies, every variable keeps its type: a committer that lost a    *)
(* race writes a record and a line of the right shape in the wrong place.  *)
THEOREM TypeCorrect == Spec => []TypeOK
<1>1. OverlapInv => TypeOK
  BY DEF OverlapInv
<1>. QED
  BY <1>1, InitOverlap, NextOverlap, PTL DEF Spec

-----------------------------------------------------------------------------
(* What a verification makes of the links, whatever happens to the files.  *)

(* The root a line of lines is to name.                                    *)
Before(lines, i) == IF i = 1 THEN Genesis ELSE lines[i - 1].root

Linked(lines) == \A i \in 1 .. Len(lines) : lines[i].prev = Before(lines, i)

(* verify() does not pass lines of which one does not name the root of the *)
(* line before: a fork that overlapping rounds left in the chain is seen.  *)
ForksAreSeen == verdict = "ok" => Linked(vsnap)

(* The lines before vpos are linked, or a problem has been noted.          *)
LinksNoted ==
    /\ vpos \in Nat \ {0}
    /\ vbad \in BOOLEAN
    /\ \/ vbad
       \/ /\ vprev = Before(vsnap, vpos)
          /\ \A i \in 1 .. (vpos - 1) : vsnap[i].prev = Before(vsnap, i)
          /\ vpc = "objects" => Entry.prev = vprev

LinkInv ==
    /\ vpc \in {"idle", "record", "objects"}
    /\ vpc # "idle" => LinksNoted /\ verdict = "none"
    /\ Len(vsnap) \in Nat
    /\ ForksAreSeen

LEMMA LinkUndisturbed ==
    ASSUME LinkInv, UNCHANGED verifier
    PROVE  LinkInv'
  BY DEF LinkInv, LinksNoted, ForksAreSeen, Linked, Before, Entry, verifier

LEMMA LinkStep ==
    ASSUME LinkInv, Len(chain) \in Nat, VerifyStart \/ VerifyChainRaises \/ VerifyStep
    PROVE  LinkInv'
<1>1. CASE VerifyStart
  <2>1. /\ vpc' = "record" /\ vsnap' = chain /\ vpos' = 1 /\ vprev' = Genesis
        /\ vbad' = FALSE /\ verdict' = "none"
    BY <1>1 DEF VerifyStart
  <2>2. vbad' \in BOOLEAN
    BY <2>1, Zenon
  <2>3. LinksNoted'
    BY <2>1, <2>2 DEF LinksNoted, Before
  <2>. QED
    BY <2>1, <2>3 DEF LinkInv, ForksAreSeen
<1>2. CASE VerifyChainRaises
  BY <1>2 DEF VerifyChainRaises, LinkInv, ForksAreSeen
<1>3. CASE LoadRecord
  <2>1. vpc = "record" /\ LinksNoted /\ verdict = "none"
    BY <1>3 DEF LoadRecord, LinkInv
  <2>2. CASE VerifyRecordMissing
    BY <2>1, <2>2 DEF VerifyRecordMissing, LinkInv, LinksNoted, ForksAreSeen
  <2>3. CASE VerifyRecordRaises
    BY <2>3 DEF VerifyRecordRaises, LinkInv, ForksAreSeen
  <2>4. CASE VerifyRecord
    <3>1. /\ vbad' = (vbad \/ Filed.prev # vprev \/ Entry.prev # vprev \/ RootMismatch)
          /\ vpc' = "objects" /\ UNCHANGED <<vsnap, vpos, vprev, verdict>>
      BY <2>4 DEF VerifyRecord
    <3>2. vbad' \in BOOLEAN /\ (~ vbad' => ~ vbad /\ Entry.prev = vprev)
      BY <2>1, <3>1 DEF LinksNoted
    <3>3. Entry' = Entry
      BY <3>1 DEF Entry
    <3>4. LinksNoted'
      BY <2>1, <3>1, <3>2, <3>3 DEF LinksNoted, Before
    <3>. QED
      BY <2>1, <3>1, <3>4 DEF LinkInv, ForksAreSeen
  <2>. QED
    BY <1>3, <2>2, <2>3, <2>4 DEF LoadRecord
<1>4. CASE VerifyObjects
  <2>1. /\ vpc = "objects" /\ LinksNoted /\ verdict = "none"
        /\ vbad' = (vbad \/ Failing # {}) /\ vprev' = Entry.root
        /\ vpos' = vpos + 1 /\ vpc' = "record" /\ UNCHANGED <<vsnap, verdict>>
    BY <1>4 DEF VerifyObjects, LinkInv
  <2>2. vbad' \in BOOLEAN /\ (~ vbad' => ~ vbad)
    BY <2>1 DEF LinksNoted
  <2>3. /\ vpos' \in Nat \ {0} /\ vpos' # 1 /\ vpos' - 1 = vpos /\ vpos \in Nat \ {0}
    BY <2>1 DEF LinksNoted
  <2>4. vprev' = Before(vsnap, vpos)'
    BY <2>1, <2>3 DEF Before, Entry
  <2>5. ASSUME ~ vbad', NEW i \in 1 .. vpos PROVE vsnap[i].prev = Before(vsnap, i)
    <3>1. i = vpos \/ i \in 1 .. (vpos - 1)
      BY <2>3
    <3>. QED
      BY <2>1, <2>2, <2>5, <3>1 DEF LinksNoted, Entry
  <2>6. LinksNoted'
    BY <2>1, <2>2, <2>3, <2>4, <2>5 DEF LinksNoted, Before
  <2>. QED
    BY <2>1, <2>6 DEF LinkInv, ForksAreSeen
<1>5. CASE VerifyReport
  <2>1. /\ vpc' = "idle" /\ vpos > Len(vsnap) /\ LinksNoted /\ Len(vsnap) \in Nat
        /\ verdict' = (IF vbad THEN "bad" ELSE "ok") /\ UNCHANGED vsnap
    BY <1>5 DEF VerifyReport, LinkInv
  <2>2. verdict' = "ok" => Linked(vsnap)
    <3>1. 1 .. Len(vsnap) \subseteq 1 .. (vpos - 1)
      BY <2>1 DEF LinksNoted
    <3>. QED
      BY <2>1, <3>1 DEF LinksNoted, Linked
  <2>. QED
    BY <2>1, <2>2 DEF LinkInv, ForksAreSeen, Linked, Before
<1>. QED
  BY <1>1, <1>2, <1>3, <1>4, <1>5 DEF VerifyStep

(* An edit leaves a chain of so many lines.                                *)
LEMMA EditLeavesLines ==
    ASSUME OverlapInv, EditStep
    PROVE  Len(chain') \in Nat
<1>1. chain \in Seq(Entries \union {Cut}) /\ Len(chain) \in Nat
  BY DEF OverlapInv, TypeOK
<1>2. ASSUME NEW i \in 1 .. Len(chain), NEW line, chain' = [chain EXCEPT ![i] = line]
      PROVE  Len(chain') \in Nat
  BY <1>1, <1>2
<1>3. PICK i \in Committed :
        \/ UNCHANGED chain
        \/ \E p : chain' = [chain EXCEPT ![i].prev = p]
        \/ \E r : chain' = [chain EXCEPT ![i].root = r]
        \/ \E h : chain' = [chain EXCEPT ![i].height = h]
        \/ chain' = [chain EXCEPT ![i] = Cut]
        \/ chain' = [k \in 1 .. (Len(chain) - 1) |-> IF k < i THEN chain[k] ELSE chain[k + 1]]
  BY DEF EditStep, EditHashedField, EditUnhashedField, EditRecordPrev, EditRecordRoot,
     EditLinePrev, EditLineRoot, EditLineHeight, CutLine, RemoveLine, ReplaceRecord,
     ReplaceObject
<1>4. i \in 1 .. Len(chain) /\ Len(chain) - 1 \in Nat
  BY <1>1 DEF Committed
<1>5. CASE chain' = [k \in 1 .. (Len(chain) - 1) |-> IF k < i THEN chain[k] ELSE chain[k + 1]]
  <2> DEFINE n == Len(chain) - 1
  <2>1. n \in Nat /\ chain' = [k \in 1 .. n |-> IF k < i THEN chain[k] ELSE chain[k + 1]]
    BY <1>4, <1>5
  <2> HIDE DEF n
  <2>. QED
    BY <2>1
<1>. QED
  BY <1>1, <1>2, <1>3, <1>4, <1>5

(* However many committers overlap and whatever they overwrite, and        *)
(* whatever is edited by hand, verify() passes no chain that forks.        *)
THEOREM ForksAreDetected == (Spec => []ForksAreSeen) /\ (EditSpec => []ForksAreSeen)
<1> DEFINE EInv == LinkInv /\ Len(chain) \in Nat /\ (edited = "nothing" => OverlapInv)
<1>1. Init => LinkInv
  BY DEF Init, LinkInv, ForksAreSeen
<1>2. OverlapInv => Len(chain) \in Nat
  BY DEF OverlapInv, TypeOK
<1>3. ASSUME OverlapInv, LinkInv, [Next]_vars PROVE LinkInv'
  <2>1. CASE UNCHANGED verifier
    BY <1>3, <2>1, LinkUndisturbed
  <2>2. CASE VerifyStart \/ VerifyChainRaises \/ VerifyStep
    BY <1>2, <1>3, <2>2, LinkStep
  <2>3. ASSUME NEW c \in Committers,
               \/ \E content \in Contents : StartRound(c, content)
               \/ CommitStep(c) \/ ChainAppendCut(c) \/ Abort(c)
        PROVE  UNCHANGED verifier
    BY <2>3 DEF StartRound, CommitStep, PutSkip, PutMiss, PutOpen, PutWrite, ReadHeight,
       ReadPrev, ReadPrevFails, RecordOpen, RecordWrite, ChainAppend, ChainAppendCut, Abort
  <2>4. UNCHANGED vars => UNCHANGED verifier
    BY DEF vars
  <2>. QED
    BY <1>3, <2>1, <2>2, <2>3, <2>4 DEF Next
<1>4. Spec => []ForksAreSeen
  <2>1. OverlapInv /\ LinkInv /\ [Next]_vars => (OverlapInv /\ LinkInv)'
    BY <1>3, NextOverlap
  <2>2. OverlapInv /\ LinkInv => ForksAreSeen
    BY DEF LinkInv
  <2>. QED
    BY <1>1, <2>1, <2>2, InitOverlap, PTL DEF Spec
<1>5. EditInit => EInv
  BY <1>1, <1>2, InitOverlap DEF EditInit
<1>6. ASSUME EInv, [EditNext]_editVars PROVE EInv'
  <2>1. CASE edited = "nothing" /\ Next /\ UNCHANGED edited
    BY <1>2, <1>3, <1>6, <2>1, NextOverlap
  <2>2. CASE EditStep
    <3>1. /\ edited = "nothing" /\ edited' # "nothing" /\ vpc = "idle" /\ verdict' = "none"
          /\ UNCHANGED <<vpc, vsnap>>
      BY <2>2 DEF EditStep, EditHashedField, EditUnhashedField, EditRecordPrev,
         EditRecordRoot, EditLinePrev, EditLineRoot, EditLineHeight, CutLine, RemoveLine,
         ReplaceRecord, ReplaceObject, Edit
    <3>2. LinkInv'
      BY <1>6, <3>1 DEF LinkInv, ForksAreSeen
    <3>. QED
      BY <1>6, <2>2, <3>1, <3>2, EditLeavesLines
  <2>3. CASE /\ edited # "nothing"
             /\ VerifyStart \/ VerifyChainRaises \/ VerifyStep
             /\ UNCHANGED edited
    <3>1. UNCHANGED chain
      BY <2>3 DEF VerifyStart, VerifyChainRaises, VerifyStep, LoadRecord, disk,
         VerifyRecordMissing, VerifyRecordRaises, VerifyRecord, VerifyObjects, VerifyReport
    <3>. QED
      BY <1>6, <2>3, <3>1, LinkStep
  <2>4. CASE UNCHANGED editVars
    <3>1. UNCHANGED vars /\ UNCHANGED <<chain, verifier, edited>>
      BY <2>4 DEF editVars, vars, disk
    <3>. QED
      BY <1>6, <3>1, LinkUndisturbed, NextOverlap
  <2>. QED
    BY <1>6, <2>1, <2>2, <2>3, <2>4 DEF EditNext
<1>7. EditSpec => []ForksAreSeen
  <2>1. EInv => ForksAreSeen
    BY DEF LinkInv
  <2>2. EInv /\ [EditNext]_editVars => EInv'
    BY <1>6
  <2> HIDE DEF EInv
  <2>. QED
    BY <1>5, <2>1, <2>2, PTL DEF EditSpec
<1>. QED
  BY <1>4, <1>7

-----------------------------------------------------------------------------
(* Edits of the files, and what a verification makes of them.              *)

(* No two records have one root: SHA-256 has no collisions, and the leaf   *)
(* that an odd level doubles is the one of the scores, of which a record   *)
(* has one (module Merkle; the instance of MCLedgerEdits is collision      *)
(* free).                                                                  *)
CollisionFree == \A f, g \in HashedFields : Root(f) = Root(g) => f = g

(* The root that line i should name, and the record it leads to.           *)
Expected(i) == IF i = 1 THEN Genesis ELSE chain[i - 1].root
RecordAt(i) == rounds[chain[i].height]

(* What is wrong with a line, its links, its record or its artifacts.      *)
Unlinked(i) == RecordAt(i).prev # chain[i].prev \/ chain[i].prev # Expected(i)
Misrooted(i) ==
    \/ Root(RecordAt(i).content.hashed) # RecordAt(i).root
    \/ RecordAt(i).root # chain[i].root
Gutted(i) == \E b \in Artifacts(RecordAt(i).content.hashed) : objects[b] # "whole"
Flawed(i) == RecordAt(i) \in {NoFile, Cut} \/ Unlinked(i) \/ Misrooted(i) \/ Gutted(i)

FlawLeft ==
    /\ Len(chain) \in Nat
    /\ Readable(chain) => \E i \in 1 .. Len(chain) : Flawed(i)

(* The verifier has noted every flaw of the lines it is through with; a    *)
(* flaw in the artifacts is noted in the second of its two steps.          *)
FlawsNoted ==
    /\ vsnap = chain /\ Readable(chain)
    /\ vpos \in Nat \ {0}
    /\ vbad \in BOOLEAN
    /\ vbad \/ vprev = Expected(vpos)
    /\ \A i \in 1 .. (vpos - 1) : Flawed(i) => vbad
    /\ vpc = "objects" => vpos <= Len(vsnap) /\ (Flawed(vpos) => vbad \/ Failing # {})

EditInv ==
    /\ edited = "nothing" => IInv
    /\ edited \in Covered =>
          /\ FlawLeft
          /\ vpc \in {"idle", "record", "objects"}
          /\ vpc # "idle" => FlawsNoted
          /\ verdict # "ok"

(* Before the edit the line of a round leads to the round's own record.    *)
LEMMA CommittedFacts ==
    ASSUME IInv, NEW i \in Committed
    PROVE  /\ i \in 1 .. Len(chain) /\ Len(chain) \in Nat /\ chain[i] \in Entries
           /\ DOMAIN rounds = Heights /\ i \in Heights
           /\ chain[i].height = i /\ RecordAt(i) = rounds[i]
           /\ rounds[i] \in Records /\ EntryOf(rounds[i]) = chain[i]
           /\ chain[i].prev = Expected(i)
           /\ rounds[i].content.hashed \in HashedFields
           /\ Artifacts(rounds[i].content.hashed) \subseteq Blobs
<1>1. /\ i \in 1 .. Len(chain) /\ Len(chain) \in Nat /\ chain[i] \in Entries
      /\ DOMAIN rounds = Heights
      /\ chain[i].height = i /\ rounds[i] \notin {NoFile, Cut}
      /\ EntryOf(rounds[i]) = chain[i] /\ chain[i].prev = Expected(i)
  BY DEF Committed, IInv, TypeOK, ChainLinked, RecordBacked, Expected
<1>2. i \in Heights
  BY <1>1, EntryFields
<1>3. rounds[i] \in Records
  BY <1>1, <1>2 DEF IInv, TypeOK
<1>. QED
  BY <1>1, <1>2, <1>3, RecordFields, ContentsAssumption, ArtifactsAssumption
  DEF ContentType, RecordAt

(* The edit of a record, or of a line, leaves a flaw at its height.        *)
LEMMA RecordEditFlaws ==
    ASSUME IInv, CollisionFree, NEW i \in Committed,
           \/ \E hashed \in HashedFields : EditHashedField(i, hashed)
           \/ \E p \in Roots \union {Genesis} : EditRecordPrev(i, p)
           \/ \E r \in Roots : EditRecordRoot(i, r)
           \/ \E file \in {NoFile, Cut} : ReplaceRecord(i, file)
    PROVE  FlawLeft'
<1>1. /\ i \in 1 .. Len(chain) /\ Len(chain) \in Nat /\ chain[i].height = i /\ chain' = chain
      /\ DOMAIN rounds = Heights /\ i \in Heights
      /\ RecordAt(i)' = rounds'[i]
  BY CommittedFacts DEF EditHashedField, EditRecordPrev, EditRecordRoot, ReplaceRecord, RecordAt
<1>2. /\ rounds[i].content.hashed \in HashedFields
      /\ rounds[i].root = Root(rounds[i].content.hashed)
      /\ rounds[i].root = chain[i].root /\ rounds[i].prev = chain[i].prev
  <2>1. rounds[i] \in Records /\ EntryOf(rounds[i]) = chain[i]
        /\ rounds[i].content.hashed \in HashedFields
    BY CommittedFacts
  <2>2. rounds[i].root = Root(rounds[i].content.hashed)
    BY <2>1, RecordFields
  <2>. QED
    BY <2>1, <2>2 DEF EntryOf
<1>3. ASSUME NEW hashed \in HashedFields, EditHashedField(i, hashed) PROVE Misrooted(i)'
  <2>1. /\ rounds' = [rounds EXCEPT ![i].content.hashed = hashed]
        /\ rounds[i].content.hashed # hashed
    BY <1>3 DEF EditHashedField
  <2>2. rounds'[i].content.hashed = hashed /\ rounds'[i].root = rounds[i].root
    BY <1>1, <2>1, CommittedFacts DEF Records, RecordOf, Log!RecordOf
  <2>3. Root(hashed) # Root(rounds[i].content.hashed)
    BY <1>2, <2>1 DEF CollisionFree
  <2>. QED
    BY <1>1, <1>2, <2>2, <2>3 DEF Misrooted
<1>4. ASSUME NEW p, EditRecordPrev(i, p) PROVE Unlinked(i)'
  <2>1. rounds' = [rounds EXCEPT ![i].prev = p] /\ rounds[i].prev # p
    BY <1>4 DEF EditRecordPrev
  <2>2. rounds'[i].prev = p
    BY <1>1, <2>1, CommittedFacts DEF Records, RecordOf, Log!RecordOf
  <2>. QED
    BY <1>1, <1>2, <2>1, <2>2 DEF Unlinked
<1>5. ASSUME NEW r, EditRecordRoot(i, r) PROVE Misrooted(i)'
  <2>1. rounds' = [rounds EXCEPT ![i].root = r] /\ rounds[i].root # r
    BY <1>5 DEF EditRecordRoot
  <2>2. rounds'[i].root = r
    BY <1>1, <2>1, CommittedFacts DEF Records, RecordOf, Log!RecordOf
  <2>. QED
    BY <1>1, <1>2, <2>1, <2>2 DEF Misrooted
<1>6. ASSUME NEW file \in {NoFile, Cut}, ReplaceRecord(i, file) PROVE RecordAt(i)' \in {NoFile, Cut}
  <2>1. rounds' = [rounds EXCEPT ![i] = file]
    BY <1>6 DEF ReplaceRecord
  <2>. QED
    BY <1>1, <2>1
<1>7. Flawed(i)'
  BY <1>3, <1>4, <1>5, <1>6 DEF Flawed
<1>. QED
  BY <1>1, <1>7 DEF FlawLeft

LEMMA LineEditFlaws ==
    ASSUME IInv, NEW i \in Committed,
           \/ \E p \in Roots \union {Genesis} : EditLinePrev(i, p)
           \/ \E r \in Roots : EditLineRoot(i, r)
           \/ edited' = "line_height" /\ \E h \in Heights : EditLineHeight(i, h)
           \/ CutLine(i)
    PROVE  FlawLeft'
<1>1. /\ i \in 1 .. Len(chain) /\ Len(chain) \in Nat /\ chain[i].height = i
      /\ EntryOf(rounds[i]) = chain[i]
  BY CommittedFacts
<1>2. /\ rounds[i].root = chain[i].root /\ rounds[i].prev = chain[i].prev
      /\ chain[i] = [height |-> i, root |-> chain[i].root, prev |-> chain[i].prev]
  BY <1>1 DEF EntryOf
<1>3. rounds' = rounds
  BY DEF EditLinePrev, EditLineRoot, EditLineHeight, CutLine
<1>4. ASSUME NEW line, chain' = [chain EXCEPT ![i] = line]
      PROVE  Len(chain') = Len(chain) /\ chain'[i] = line
  <2>1. chain \in Seq(Entries \union {Cut})
    BY DEF IInv, TypeOK
  <2>. QED
    BY <1>1, <1>4, <2>1
<1>5. ASSUME NEW p, EditLinePrev(i, p) PROVE FlawLeft'
  <2> DEFINE line == [chain[i] EXCEPT !.prev = p]
  <2>1. chain' = [chain EXCEPT ![i] = line] /\ chain[i].prev # p
    BY <1>5 DEF EditLinePrev
  <2>2. line.height = i /\ line.prev = p
    BY <1>2
  <2> HIDE DEF line
  <2>3. RecordAt(i)' = rounds[i] /\ chain'[i].prev = p
    BY <1>1, <1>3, <1>4, <2>1, <2>2 DEF RecordAt
  <2>4. Unlinked(i)'
    BY <1>2, <2>1, <2>3 DEF Unlinked
  <2>. QED
    BY <1>1, <1>4, <2>1, <2>4 DEF FlawLeft, Flawed
<1>6. ASSUME NEW r, EditLineRoot(i, r) PROVE FlawLeft'
  <2> DEFINE line == [chain[i] EXCEPT !.root = r]
  <2>1. chain' = [chain EXCEPT ![i] = line] /\ chain[i].root # r
    BY <1>6 DEF EditLineRoot
  <2>2. line.height = i /\ line.root = r
    BY <1>2
  <2> HIDE DEF line
  <2>3. RecordAt(i)' = rounds[i] /\ chain'[i].root = r
    BY <1>1, <1>3, <1>4, <2>1, <2>2 DEF RecordAt
  <2>4. Misrooted(i)'
    BY <1>2, <2>1, <2>3 DEF Misrooted
  <2>. QED
    BY <1>1, <1>4, <2>1, <2>4 DEF FlawLeft, Flawed
<1>7. ASSUME NEW h \in Heights, EditLineHeight(i, h), edited' = "line_height" PROVE FlawLeft'
  <2> DEFINE line == [chain[i] EXCEPT !.height = h]
  <2>1. chain' = [chain EXCEPT ![i] = line]
    BY <1>7 DEF EditLineHeight
  <2>2. rounds[h] \in {NoFile, Cut} \/ rounds[h].prev # chain[i].prev \/ rounds[h].root # chain[i].root
    BY <1>7 DEF EditLineHeight, Edit
  <2>3. line.height = h /\ line.root = chain[i].root /\ line.prev = chain[i].prev
    BY <1>2
  <2> HIDE DEF line
  <2>4. RecordAt(i)' = rounds[h] /\ chain'[i].root = chain[i].root /\ chain'[i].prev = chain[i].prev
    BY <1>1, <1>3, <1>4, <2>1, <2>3 DEF RecordAt
  <2>5. Flawed(i)'
    BY <2>2, <2>4 DEF Flawed, Unlinked, Misrooted
  <2>. QED
    BY <1>1, <1>4, <2>1, <2>5 DEF FlawLeft
<1>8. CASE CutLine(i)
  <2>1. chain' = [chain EXCEPT ![i] = Cut]
    BY <1>8 DEF CutLine
  <2>2. ~ Readable(chain')
    BY <1>1, <1>4, <2>1 DEF Readable
  <2>. QED
    BY <2>2 DEF FlawLeft
<1>. QED
  BY <1>5, <1>6, <1>7, <1>8

(* The line after the one removed names a root that is not before it.      *)
LEMMA RemoveLineFlaws ==
    ASSUME IInv, NEW i \in Committed, RemoveLine(i), edited' = "inner_line"
    PROVE  FlawLeft'
<1> DEFINE n == Len(chain) - 1
<1>1. /\ i \in 1 .. Len(chain) /\ Len(chain) \in Nat
      /\ i < Len(chain) /\ chain[i].root # chain[i].prev /\ chain[i].prev = Expected(i)
  BY CommittedFacts DEF RemoveLine, Edit
<1>2. /\ Len(chain') = n /\ n \in Nat /\ i \in 1 .. n
      /\ chain'[i] = chain[i + 1]
      /\ i # 1 => chain'[i - 1] = chain[i - 1]
  <2>0. Len(chain) \in Nat /\ i \in 1 .. Len(chain) /\ i < Len(chain)
    BY <1>1
  <2>1. n \in Nat /\ i \in 1 .. n /\ (i # 1 => i - 1 \in 1 .. n)
    BY <2>0
  <2>2. chain' = [k \in 1 .. n |-> IF k < i THEN chain[k] ELSE chain[k + 1]]
    BY DEF RemoveLine
  <2> HIDE DEF n
  <2>3. Len(chain') = n
    BY <2>1, <2>2
  <2>4. i # 1 => i - 1 < i
    BY <1>1
  <2>. QED
    BY <1>1, <2>1, <2>2, <2>3, <2>4
<1>3. CASE chain[i + 1] = Cut
  BY <1>2, <1>3 DEF FlawLeft, Readable
<1>4. CASE chain[i + 1] # Cut
  <2>1. i + 1 \in 1 .. Len(chain) /\ i + 1 # 1 /\ i + 1 - 1 = i
    BY <1>1
  <2>2. chain[i + 1].prev = chain[i].root
    <3>1. i + 1 \in Committed
      BY <1>4, <2>1 DEF Committed
    <3>. QED
      BY <2>1, <3>1, CommittedFacts DEF Expected
  <2>3. Expected(i)' = Expected(i)
    BY <1>2 DEF Expected
  <2>4. Unlinked(i)'
    BY <1>1, <1>2, <2>2, <2>3 DEF Unlinked
  <2>. QED
    BY <1>2, <2>4 DEF FlawLeft, Flawed
<1>. QED
  BY <1>3, <1>4

LEMMA ArtifactFlaws ==
    ASSUME IInv, NEW i \in Committed, NEW b, NEW file \in {"absent", "partial"},
           ReplaceObject(i, b, file)
    PROVE  FlawLeft'
<1>1. /\ i \in 1 .. Len(chain) /\ Len(chain) \in Nat
      /\ chain[i].height = i /\ UNCHANGED <<rounds, chain>>
      /\ b \in Artifacts(rounds[i].content.hashed) /\ b \in Blobs
      /\ objects' = [objects EXCEPT ![b] = file]
  BY CommittedFacts DEF ReplaceObject
<1>2. objects'[b] # "whole"
  BY <1>1 DEF IInv, TypeOK
<1>3. Gutted(i)'
  BY <1>1, <1>2 DEF Gutted, RecordAt
<1>. QED
  BY <1>1, <1>3 DEF FlawLeft, Flawed

LEMMA EditStepFlaws ==
    ASSUME IInv, CollisionFree, EditStep
    PROVE  EditInv'
<1>1. edited' # "nothing" /\ vpc' = "idle" /\ verdict' = "none"
  BY DEF EditStep, EditHashedField, EditUnhashedField, EditRecordPrev, EditRecordRoot,
     EditLinePrev, EditLineRoot, EditLineHeight, CutLine, RemoveLine, ReplaceRecord,
     ReplaceObject, Edit
<1>2. ASSUME edited' \in Covered PROVE FlawLeft'
  <2>1. PICK i \in Committed :
          \/ \E hashed \in HashedFields : EditHashedField(i, hashed)
          \/ \E meta \in Metas : EditUnhashedField(i, meta)
          \/ \E p \in Roots \union {Genesis} : EditRecordPrev(i, p) \/ EditLinePrev(i, p)
          \/ \E r \in Roots : EditRecordRoot(i, r) \/ EditLineRoot(i, r)
          \/ \E h \in Heights : EditLineHeight(i, h)
          \/ CutLine(i)
          \/ RemoveLine(i)
          \/ \E file \in {NoFile, Cut} : ReplaceRecord(i, file)
          \/ \E b \in Blobs, file \in {"absent", "partial"} : ReplaceObject(i, b, file)
    BY DEF EditStep
  <2>2. ASSUME NEW meta, EditUnhashedField(i, meta) PROVE FALSE
    BY <1>2, <2>2 DEF EditUnhashedField, Edit, Covered
  <2>3. ASSUME NEW h, EditLineHeight(i, h) PROVE edited' = "line_height"
    BY <1>2, <2>3 DEF EditLineHeight, Edit, Covered
  <2>4. RemoveLine(i) => edited' = "inner_line"
    BY <1>2 DEF RemoveLine, Edit, Covered
  <2>. QED
    BY <2>1, <2>2, <2>3, <2>4, RecordEditFlaws, LineEditFlaws, RemoveLineFlaws, ArtifactFlaws
<1>. QED
  BY <1>1, <1>2 DEF EditInv

(* The files are left alone after the edit, and so are the flaws.          *)
LEMMA FlawsStay ==
    ASSUME UNCHANGED disk
    PROVE  /\ FlawLeft' <=> FlawLeft
           /\ Readable(chain)' <=> Readable(chain)
           /\ \A i : /\ Expected(i)' = Expected(i) /\ RecordAt(i)' = RecordAt(i)
                     /\ Flawed(i)' <=> Flawed(i)
  BY DEF disk, FlawLeft, Readable, Expected, RecordAt, Flawed, Unlinked, Misrooted, Gutted

(* No verification ends well that has a flaw to pass.                      *)
LEMMA WalkFlaws ==
    ASSUME edited \in Covered, EditInv, UNCHANGED edited, UNCHANGED disk,
           VerifyStart \/ VerifyChainRaises \/ VerifyStep \/ UNCHANGED verifier
    PROVE  EditInv'
<1>1. /\ FlawLeft /\ FlawLeft' /\ verdict # "ok"
      /\ vpc \in {"idle", "record", "objects"}
      /\ vpc # "idle" => FlawsNoted
      /\ edited' \in Covered /\ edited # "nothing"
      /\ UNCHANGED <<objects, rounds, chain>>
  BY FlawsStay DEF EditInv, Covered, disk
<1>2. CASE UNCHANGED verifier
  <2>1. UNCHANGED <<vpc, vsnap, vpos, vprev, vobjs, vbad, verdict>>
    BY <1>2 DEF verifier
  <2>2. Failing' = Failing
    BY <1>1, <2>1 DEF Failing
  <2>. QED
    BY <1>1, <2>1, <2>2, FlawsStay DEF EditInv, FlawsNoted
<1>3. CASE VerifyStart
  <2>1. /\ vsnap' = chain /\ vpos' = 1 /\ vprev' = Genesis /\ vbad' = FALSE
        /\ vpc' = "record" /\ verdict' = "none" /\ Readable(chain)
    BY <1>3 DEF VerifyStart
  <2>2. Expected(vpos)' = Genesis /\ \A i \in 1 .. (vpos' - 1) : FALSE
    BY <2>1 DEF Expected
  <2>3. vsnap' = chain' /\ Readable(chain)'
    BY <1>1, <2>1 DEF Readable
  <2>4. vpos' \in Nat \ {0} /\ vpc' # "objects"
    BY <2>1
  <2>5. vbad' \in BOOLEAN
    BY <2>1, Zenon
  <2>6. FlawsNoted'
    BY <2>1, <2>2, <2>3, <2>4, <2>5 DEF FlawsNoted
  <2>. QED
    BY <1>1, <2>1, <2>6 DEF EditInv
<1>4. CASE VerifyChainRaises
  BY <1>1, <1>4 DEF VerifyChainRaises, EditInv
<1>5. CASE LoadRecord
  <2>1. /\ vpc = "record" /\ FlawsNoted /\ vpos \in 1 .. Len(chain)
        /\ Filed = RecordAt(vpos) /\ Entry = chain[vpos]
    BY <1>1, <1>5 DEF LoadRecord, FlawsNoted, FlawLeft, Filed, Entry, RecordAt
  <2>2. CASE VerifyRecordMissing
    <3>1. /\ vbad' = TRUE /\ vpos' = vpos + 1 /\ UNCHANGED <<vpc, vsnap, vprev, vobjs, verdict>>
      BY <2>2 DEF VerifyRecordMissing
    <3>2. FlawsNoted'
      BY <1>1, <2>1, <3>1, FlawsStay DEF FlawsNoted
    <3>. QED
      BY <1>1, <3>1, <3>2 DEF EditInv
  <2>3. CASE VerifyRecordRaises
    BY <1>1, <2>3 DEF VerifyRecordRaises, EditInv
  <2>4. CASE VerifyRecord
    <3>1. /\ RecordAt(vpos) \notin {NoFile, Cut}
          /\ vbad' = (vbad \/ RecordAt(vpos).prev # vprev \/ chain[vpos].prev # vprev \/ RootMismatch)
          /\ vobjs' = Artifacts(RecordAt(vpos).content.hashed)
          /\ vpc' = "objects" /\ UNCHANGED <<vsnap, vpos, vprev, verdict>>
      BY <2>1, <2>4 DEF VerifyRecord
    <3>2. RootMismatch <=> Misrooted(vpos)
      BY <2>1 DEF RootMismatch, Misrooted
    <3>3. vbad \in BOOLEAN /\ (vbad \/ vprev = Expected(vpos))
      BY <2>1 DEF FlawsNoted
    <3>4. vbad' \in BOOLEAN /\ (vbad => vbad') /\ (Unlinked(vpos) \/ Misrooted(vpos) => vbad')
      BY <3>1, <3>2, <3>3 DEF Unlinked
    <3>5. Gutted(vpos) => Failing' # {}
      BY <1>1, <3>1 DEF Gutted, Failing
    <3>6. Flawed(vpos) => vbad' \/ Failing' # {}
      BY <3>1, <3>4, <3>5 DEF Flawed
    <3>7. FlawsNoted'
      BY <1>1, <2>1, <3>1, <3>3, <3>4, <3>6, FlawsStay DEF FlawsNoted
    <3>. QED
      BY <1>1, <3>1, <3>7 DEF EditInv
  <2>. QED
    BY <1>5, <2>2, <2>3, <2>4 DEF LoadRecord
<1>6. CASE VerifyObjects
  <2>1. /\ vpc = "objects" /\ FlawsNoted /\ vpos \in 1 .. Len(chain) /\ Len(chain) \in Nat
        /\ Entry = chain[vpos]
        /\ vbad' = (vbad \/ Failing # {}) /\ vprev' = Entry.root
        /\ vpos' = vpos + 1 /\ vpc' = "record" /\ UNCHANGED <<vsnap, vobjs, verdict>>
    BY <1>1, <1>6 DEF VerifyObjects, FlawsNoted, FlawLeft, Entry
  <2>2. /\ vbad' \in BOOLEAN /\ (vbad => vbad') /\ (Flawed(vpos) => vbad')
    BY <2>1 DEF FlawsNoted
  <2>3. vpos' # 1 /\ vpos' - 1 = vpos /\ vpos' \in Nat \ {0}
    BY <2>1
  <2>4. vprev' = Expected(vpos)'
    BY <1>1, <2>1, <2>3 DEF Expected
  <2>5. \A i \in 1 .. (vpos' - 1) : Flawed(i) => vbad'
    BY <2>1, <2>2, <2>3 DEF FlawsNoted
  <2>6. FlawsNoted'
    BY <1>1, <2>1, <2>2, <2>3, <2>4, <2>5, FlawsStay DEF FlawsNoted
  <2>. QED
    BY <1>1, <2>1, <2>6 DEF EditInv
<1>7. CASE VerifyReport
  <2>1. PICK i \in 1 .. Len(chain) : Flawed(i)
    BY <1>1, <1>7 DEF VerifyReport, FlawLeft, FlawsNoted
  <2>2. i \in 1 .. (vpos - 1)
    BY <1>1, <1>7, <2>1 DEF VerifyReport, FlawLeft, FlawsNoted
  <2>3. vbad
    BY <1>1, <1>7, <2>1, <2>2 DEF VerifyReport, FlawsNoted
  <2>. QED
    BY <1>1, <1>7, <2>3 DEF VerifyReport, EditInv
<1>. QED
  BY <1>2, <1>3, <1>4, <1>5, <1>6, <1>7 DEF VerifyStep

LEMMA EditInvStep ==
    ASSUME Serial, CollisionFree, EditInv, [EditNext]_editVars
    PROVE  EditInv'
<1>1. CASE edited = "nothing" /\ Next /\ UNCHANGED edited
  <2>1. IInv'
    BY <1>1, NextIInv DEF EditInv
  <2>. QED
    BY <1>1, <2>1 DEF EditInv, Covered
<1>2. CASE EditStep
  <2>1. edited = "nothing"
    BY <1>2 DEF EditStep, EditHashedField, EditUnhashedField, EditRecordPrev,
       EditRecordRoot, EditLinePrev, EditLineRoot, EditLineHeight, CutLine, RemoveLine,
       ReplaceRecord, ReplaceObject, Edit
  <2>. QED
    BY <1>2, <2>1, EditStepFlaws DEF EditInv
<1>3. CASE /\ edited # "nothing"
           /\ VerifyStart \/ VerifyChainRaises \/ VerifyStep
           /\ UNCHANGED edited
  <2>1. UNCHANGED disk
    BY <1>3 DEF VerifyStart, VerifyChainRaises, VerifyStep, LoadRecord, VerifyRecordMissing,
       VerifyRecordRaises, VerifyRecord, VerifyObjects, VerifyReport
  <2>2. CASE edited \in Covered
    BY <1>3, <2>1, <2>2, WalkFlaws
  <2>3. CASE edited \notin Covered
    BY <1>3, <2>3 DEF EditInv
  <2>. QED
    BY <2>2, <2>3
<1>4. CASE UNCHANGED editVars
  <2>1. UNCHANGED vars /\ UNCHANGED disk /\ UNCHANGED verifier /\ UNCHANGED edited
    BY <1>4 DEF editVars, vars
  <2>2. CASE edited \in Covered
    BY <2>1, <2>2, WalkFlaws
  <2>3. CASE edited \notin Covered
    BY <2>1, <2>3, NextIInv DEF EditInv
  <2>. QED
    BY <2>2, <2>3
<1>. QED
  BY <1>1, <1>2, <1>3, <1>4 DEF EditNext

(* However many rounds the chain holds and wherever they failed, verify()  *)
(* does not pass a ledger in which one field, line, record or artifact     *)
(* that the roots, the links or the digests cover was changed by hand.     *)
THEOREM EditsAreDetected ==
    ASSUME Serial, CollisionFree
    PROVE  EditSpec => []EditDetected
<1>1. EditInit => EditInv
  BY InitIInv DEF EditInit, EditInv, Covered
<1>2. EditInv /\ [EditNext]_editVars => EditInv'
  BY EditInvStep
<1>3. EditInv => EditDetected
  BY DEF EditInv, EditDetected
<1>. QED
  BY <1>1, <1>2, <1>3, PTL DEF EditSpec

=============================================================================
