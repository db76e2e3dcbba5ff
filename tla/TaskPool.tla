------------------------------ MODULE TaskPool ------------------------------
(***************************************************************************)
(* The programs of dataset/tasks.py and dataset/tasks_extended.py: each C  *)
(* program as a function from its input to what it prints and its exit     *)
(* code, and the weak translation that ships with it.  The reference       *)
(* translations are the C programs loop by loop; that of reverse_bytes,    *)
(* which is not, is here too.                                              *)
(*                                                                         *)
(* A byte is a number, or a name where a program only tells kinds of bytes *)
(* apart.  Sizes of the round and widths of words are parameters.          *)
(***************************************************************************)
EXTENDS Pieces, FiniteSets

CONSTANTS
    ByteBits,     \* bits of a byte (8)
    WordBits,     \* bits of a hash or a checksum (32)
    Payload,      \* bits of a varint in a byte (7)
    BufSize,      \* bytes the weak crc32 keeps (4096)
    Basis,        \* OFFSET_BASIS of a round
    Prime,        \* FNV_PRIME
    Polys,        \* values of POLY
    ChunkSizes,   \* of CHUNK_SIZE
    MaxRuns,      \* of MAX_RUN
    WrapColumns,  \* of WRAP_COLS
    MaxLines,     \* of MAX_LINE
    MaxBits,      \* of MAX_BITS
    MaxPoints,    \* of MAX_POINTS
    Samples       \* the inputs of each program

Word == Pow2[WordBits]

ASSUME BitsAssumption ==
    ByteBits \in Nat /\ WordBits \in Nat \ {0} /\ ByteBits <= WordBits /\ Payload \in Nat \ {0}
ASSUME RunsAssumption == MaxRuns \subseteq 1 .. Pow2[ByteBits] - 1
ASSUME WordAssumption ==
    Basis \in 0 .. Word - 1 /\ Prime \in 0 .. Word - 1 /\ Polys \subseteq 0 .. Word - 1
ASSUME SizesAssumption ==
    /\ ChunkSizes \subseteq Nat \ {0} /\ WrapColumns \subseteq Nat \ {0}
    /\ BufSize \in Nat /\ MaxLines \subseteq Nat \ {0, 1} /\ MaxBits \subseteq Nat /\ MaxPoints \subseteq Nat
ASSUME SamplesAssumption ==
    /\ \A in \in Samples.reverse_bytes \union Samples.kv_normalize : in \in Seq(Range(in))
    /\ Samples.rle_encode \union Samples.fnv1a_lines \union Samples.crc32
          \subseteq Seq(0 .. Pow2[ByteBits] - 1)
    /\ Samples.base64_encode \union Samples.utf8_validate \subseteq Seq(0 .. 255)
    /\ Samples.leb128_decode \subseteq Seq(Nat)

-----------------------------------------------------------------------------
(* reverse_bytes.                                                          *)

SwapEnds(buffer, left, right) ==
    [i \in DOMAIN buffer |->
        IF i \in left .. right THEN buffer[left + right - i] ELSE buffer[i]]

Reversed(csz, in, offsets) ==
    FoldLeft(LAMBDA buffer, offset :
                SwapEnds(buffer, offset, Min({offset + csz - 1, Len(in)})),
             in, offsets)

ReverseBytes(csz, in) ==
    Reversed(csz, in, [k \in 1 .. (Len(in) + csz - 1) \div csz |-> (k - 1) * csz + 1])

ReverseReference(csz, in) == FlattenSeq(Mapped(Reverse, Chunks(in, csz)))

Without(in, b) ==
    FlattenSeq([k \in DOMAIN in |-> IF in[k] = b THEN << >> ELSE <<in[k]>>])

(* "lead" and "tail" make a character of two bytes, and no text otherwise. *)
IsText(in) ==
    \A i \in DOMAIN in :
        /\ in[i] = "lead" => i < Len(in) /\ in[i + 1] = "tail"
        /\ in[i] = "tail" => i > 1 /\ in[i - 1] = "lead"

Chars(in) ==
    Mapped(LAMBDA b : IF b = "lead" THEN <<"lead", "tail">> ELSE <<b>>,
           Without(in, "tail"))

ReverseWeak(csz, in) ==
    IF IsText(in)
    THEN FlattenSeq(ReverseReference(csz, Chars(in)))
    ELSE ReverseReference(csz, Without(in, "nul"))

-----------------------------------------------------------------------------
(* rle_encode.                                                             *)

Pair(s) == s.out \o <<s.count % Pow2[ByteBits], s.current>>

RleStep(max_run, s, b) ==
    IF b = s.current /\ s.count < max_run
    THEN [s EXCEPT !.count = @ + 1]
    ELSE [out |-> Pair(s), current |-> b, count |-> 1]

RleRead(max_run, first, rest) ==
    FoldLeft(LAMBDA s, b : RleStep(max_run, s, b),
             [out |-> << >>, current |-> first, count |-> 1], rest)

RleEncode(max_run, in) ==
    IF in = << >> THEN << >> ELSE Pair(RleRead(max_run, in[1], Tail(in)))

(* Counts without a limit. *)
RleWeak(in) == RleEncode(Len(in), in)

-----------------------------------------------------------------------------
(* fnv1a_lines and crc32.                                                  *)

(* Whatever byte ends a line.                                              *)
Newline == Pow2[ByteBits] - 1

(* Exclusive or, from the highest bit down.                                *)
Xor(a, b) ==
    FoldLeft(LAMBDA x, k :
                2 * x + ((a \div Pow2[WordBits - k] + b \div Pow2[WordBits - k]) % 2),
             0, [k \in 1 .. WordBits |-> k])

FnvMix(hash, byte) == (Xor(hash, byte) * Prime) % Word

FnvStep(s, ch) ==
    IF ch = Newline
    THEN [out |-> Append(s.out, s.hash), hash |-> Basis]
    ELSE [s EXCEPT !.hash = FnvMix(s.hash, ch)]

FnvRead(in) == FoldLeft(FnvStep, [out |-> << >>, hash |-> Basis], in)

FnvLines(in) ==
    LET end == FnvRead(in)
    IN  IF in # << >> /\ end.hash # Basis THEN Append(end.out, end.hash) ELSE end.out

(* Forgets a last line that has no newline. *)
FnvWeak(in) == FnvRead(in).out

CrcShift(poly, crc) == IF crc % 2 = 1 THEN Xor(crc \div 2, poly) ELSE crc \div 2

CrcByte(poly, crc, byte) ==
    FoldLeft(LAMBDA x, i : CrcShift(poly, x), Xor(crc, byte), [i \in 1 .. ByteBits |-> i])

Crc32(poly, in) ==
    Xor(FoldLeft(LAMBDA crc, byte : CrcByte(poly, crc, byte), Word - 1, in), Word - 1)

(* Faulty: the buffer grows after all. *)
CrcWeak_Whole(poly, in) == Crc32(poly, in)

CrcWeak(poly, in) == Crc32(poly, SubSeq(in, 1, Min({BufSize, Len(in)})))

-----------------------------------------------------------------------------
(* base64_encode: characters are positions in the alphabet.                *)

Pad == 64
Eol == 65

Emit(wrap, s, ch) ==
    IF s.col + 1 = wrap
    THEN [out |-> s.out \o <<ch, Eol>>, col |-> 0]
    ELSE [out |-> Append(s.out, ch), col |-> s.col + 1]

Sextets(group) ==
    LET bits == [k \in 1 .. 3 |-> IF k <= Len(group) THEN group[k] ELSE 0]
        v == bits[1] * Pow2[16] + bits[2] * Pow2[8] + bits[3]
    IN  [k \in 1 .. 4 |-> IF k <= Len(group) + 1 THEN (v \div Pow2[24 - 6 * k]) % 64 ELSE Pad]

Emitted(wrap, chars) ==
    FoldLeft(LAMBDA s, ch : Emit(wrap, s, ch), [out |-> << >>, col |-> 0], chars)

Base64(wrap, always, in) ==
    LET end == Emitted(wrap, FlattenSeq(Mapped(Sextets, Chunks(in, 3))))
    IN  IF in # << >> /\ (always \/ end.col # 0) THEN Append(end.out, Eol) ELSE end.out

Base64Encode(wrap, in) == Base64(wrap, FALSE, in)

(* Ends every text with a newline. *)
Base64Weak(wrap, in) == Base64(wrap, TRUE, in)

-----------------------------------------------------------------------------
(* kv_normalize.  A tab is "sp", ";" is "#".                               *)

Trim(space, s) ==
    LET kept == {i \in DOMAIN s : s[i] \notin space}
    IN  IF kept = {} THEN << >> ELSE SubSeq(s, Min(kept), Max(kept))

(* process: a section header, a key with its value, or neither.            *)
Process(space, s, line) ==
    LET t == Trim(space, line)
        close == SelectInSeq(t, LAMBDA b : b = "]")
        eq == SelectInSeq(t, LAMBDA b : b = "=")
        key == Trim(space, SubSeq(t, 1, eq - 1))
        value == Trim(space, SubSeq(t, eq + 1, Len(t)))
        prefix == IF s.section = << >> THEN << >> ELSE Append(s.section, ".")
    IN  IF t = << >> THEN s
        ELSE CASE t[1] = "#" -> s
               [] t[1] = "[" /\ close = 0 -> [s EXCEPT !.exit = 3]
               [] t[1] = "[" /\ close # 0 ->
                    [s EXCEPT !.section = Trim(space, SubSeq(t, 2, close - 1))]
               [] t[1] \notin {"#", "["} /\ (eq = 0 \/ key = << >>) -> s
               [] OTHER ->
                    [s EXCEPT !.out = @ \o prefix \o key \o <<"=">> \o value \o <<"nl">>]

Flush(space, s) ==
    IF s.exit # 0 THEN s ELSE [Process(space, s, s.line) EXCEPT !.line = << >>]

(* The loop of main: a line that fills the buffer is flushed as it is.     *)
KvStep(space, limit, s, ch) ==
    IF s.exit # 0 THEN s
    ELSE IF ch = "nl" THEN Flush(space, s)
    ELSE LET with == [s EXCEPT !.line = Append(@, ch)]
         IN  IF Len(with.line) = limit THEN Flush(space, with) ELSE with

KvRead(space, limit, in) ==
    FoldLeft(LAMBDA s, ch : KvStep(space, limit, s, ch),
             [out |-> << >>, section |-> << >>, line |-> << >>, exit |-> 0], in)

Kv(space, limit, in) ==
    LET end == Flush(space, KvRead(space, limit, in))
    IN  [out |-> end.out, exit |-> end.exit]

(* Faulty: the line may fill the whole buffer. *)
KvNormalize_Full(max_line, in) == Kv({"sp", "cr"}, max_line, in)

KvNormalize(max_line, in) == Kv({"sp", "cr"}, max_line - 1, in)

(* Keeps "\r" and reads lines of any length. *)
KvWeak(in) == Kv({"sp"}, Len(in) + 1, in)

-----------------------------------------------------------------------------
(* leb128_decode.                                                          *)

Err == -1
Trunc == -2

LebStep(bits, strict, s, b) ==
    LET part == b % Pow2[Payload]
        value == s.value + part * Pow2[s.shift]
    IN  CASE s.exit # 0 -> s
          [] s.exit = 0 /\ (s.shift >= bits \/ /\ strict /\ s.shift + Payload > bits
                                               /\ part \div Pow2[bits - s.shift] # 0) ->
               [s EXCEPT !.out = Append(@, Err), !.exit = 1]
          [] OTHER ->
               IF b < Pow2[Payload]
               THEN [s EXCEPT !.out = Append(@, value), !.value = 0, !.shift = 0]
               ELSE [s EXCEPT !.value = value, !.shift = @ + Payload]

LebRead(bits, strict, in) ==
    FoldLeft(LAMBDA s, b : LebStep(bits, strict, s, b),
             [out |-> << >>, value |-> 0, shift |-> 0, exit |-> 0], in)

Leb(bits, strict, in) ==
    LET end == LebRead(bits, strict, in)
    IN  IF end.exit = 0 /\ end.shift # 0
        THEN [out |-> Append(end.out, Trunc), exit |-> 2]
        ELSE [out |-> end.out, exit |-> end.exit]

Leb128Decode(bits, in) == Leb(bits, TRUE, in)

(* Accepts overflow bits in the last byte. *)
Leb128Weak(bits, in) == Leb(bits, FALSE, in)

-----------------------------------------------------------------------------
(* utf8_validate, with the bytes and code points of the code.              *)

Need(b) ==
    CASE b < 128 -> 0
      [] b \in 192 .. 223 -> 1
      [] b \in 224 .. 239 -> 2
      [] b \in 240 .. 247 -> 3
      [] OTHER -> -1

Lowest == [need \in 0 .. 3 |-> <<0, 128, 2048, 65536>>[need + 1]]
LeadMask == [need \in 0 .. 3 |-> <<128, 32, 16, 8>>[need + 1]]

CodePoint(lead, tail) == FoldLeft(LAMBDA cp, b : cp * 64 + (b % 64), lead, tail)

Rejected(excluded, in, i) ==
    LET need == Need(in[i])
    IN  \/ need = -1
        \/ need > Len(in) - i
        \/ \E k \in 1 .. need : in[i + k] \notin 128 .. 191
        \/ LET cp == CodePoint(in[i] % LeadMask[need], SubSeq(in, i + 1, i + need))
           IN  cp < Lowest[need] \/ cp \in excluded \/ cp > 1114111

(* Each byte in turn; those behind the first of a character are skipped.   *)
Utf8Step(max_points, excluded, in, s, i) ==
    CASE s.exit # 0 \/ i # s.next -> s
      [] s.exit = 0 /\ i = s.next /\ Rejected(excluded, in, i) -> [s EXCEPT !.exit = 1]
      [] OTHER -> IF s.count + 1 > max_points
                  THEN [s EXCEPT !.exit = 4]
                  ELSE [next |-> i + Need(in[i]) + 1, count |-> s.count + 1, exit |-> 0]

Utf8Scan(max_points, excluded, in, positions) ==
    FoldLeft(LAMBDA s, i : Utf8Step(max_points, excluded, in, s, i),
             [next |-> 1, count |-> 0, exit |-> 0], positions)

Utf8(max_points, excluded, in) ==
    LET end == Utf8Scan(max_points, excluded, in, [i \in DOMAIN in |-> i])
    IN  [out |-> CASE end.exit = 0 -> <<"OK", end.count>>
                   [] end.exit = 1 -> <<"BAD", end.next - 1>>
                   [] OTHER -> <<"LIMIT">>,
         exit |-> end.exit]

Utf8Validate(max_points, in) == Utf8(max_points, 55296 .. 57343, in)

(* Accepts surrogates. *)
Utf8Weak(max_points, in) == Utf8(max_points, {}, in)

-----------------------------------------------------------------------------
(* What the programs are for, said without their loops.                    *)

(* Every pair is a run of the input, and only a full one is followed by    *)
(* another of the same byte.                                               *)
RunOf(p) == [i \in 1 .. p[1] |-> p[2]]

RleIsRight(max_run, in) ==
    LET pairs == Chunks(RleEncode(max_run, in), 2)
    IN  /\ FlattenSeq(Mapped(RunOf, pairs)) = in
        /\ \A k \in DOMAIN pairs :
              /\ pairs[k][1] \in 1 .. max_run
              /\ k > 1 /\ pairs[k - 1][2] = pairs[k][2] => pairs[k - 1][1] = max_run

(* One hash for each line; a last one without newline may collide.         *)
FnvHash(line) == FoldLeft(FnvMix, Basis, line)

FnvIsRight(in) ==
    LET rest == FnvHash(Rest({Newline}, in))
    IN  FnvLines(in) = Mapped(FnvHash, Complete({Newline}, in))
                       \o IF rest = Basis THEN << >> ELSE <<rest>>

(* The register shifts once for every bit of the input, low bits first.    *)
Bits(byte) == [k \in 1 .. ByteBits |-> (byte \div Pow2[k - 1]) % 2]

CrcClock(poly, crc, bit) == Xor(crc \div 2, IF (crc + bit) % 2 = 1 THEN poly ELSE 0)

CrcIsRight(poly, in) ==
    Crc32(poly, in) =
        Xor(FoldLeft(LAMBDA crc, bit : CrcClock(poly, crc, bit), Word - 1,
                     FlattenSeq(Mapped(Bits, in))),
            Word - 1)

(* Every line is full but the last, which is not empty; without its lines  *)
(* the text decodes to the input.                                          *)
Decoded(q) ==
    LET ch == [k \in 1 .. 4 |-> q[k] % Pad]
        v == ch[1] * Pow2[18] + ch[2] * Pow2[12] + ch[3] * Pow2[6] + ch[4]
        kept == Cardinality({k \in 1 .. 4 : q[k] # Pad})
    IN  [k \in 1 .. kept - 1 |-> (v \div Pow2[24 - 8 * k]) % 256]

Base64IsRight(wrap, in) ==
    LET out == Base64Encode(wrap, in)
        lines == Complete({Eol}, out)
    IN  /\ Rest({Eol}, out) = << >>
        /\ \A k \in DOMAIN lines :
              IF k < Len(lines) THEN Len(lines[k]) = wrap ELSE Len(lines[k]) \in 1 .. wrap
        /\ FlattenSeq(Mapped(Decoded, Chunks(FlattenSeq(lines), 4))) = in

(* What a line means does not depend on the blanks around its parts.       *)
KvLinesAreRight ==
    LET blanks == {<< >>, <<"sp">>, <<"cr">>, <<"cr", "sp">>}
        names == {<<"k">>, <<"k", "sp", "k">>, <<"k", "[">>}
        values == names \union {<< >>, <<"=">>, <<"]">>, <<"#", "k">>}
    IN  \A pre, mid, sep, post \in blanks, name \in names, value \in values,
           start \in {[out |-> <<"k">>, section |-> s, exit |-> 0] : s \in {<< >>, <<"k">>}} :
           LET Does(line) == Process({"sp", "cr"}, start, line)
               prefix == start.section \o IF start.section = << >> THEN << >> ELSE <<".">>
           IN  /\ Does(pre \o name \o mid \o <<"=">> \o sep \o value \o post) =
                     [start EXCEPT !.out = @ \o prefix \o name \o <<"=">> \o value \o <<"nl">>]
               /\ Does(pre \o <<"[">> \o mid \o name \o sep \o <<"]">> \o post \o value) =
                     [start EXCEPT !.section = name]
               /\ Does(pre \o <<"[">> \o mid \o <<"]">> \o sep) = [start EXCEPT !.section = << >>]
               /\ Does(pre \o <<"[">> \o mid \o name \o sep) = [start EXCEPT !.exit = 3]
               /\ \A idle \in {pre, pre \o name \o mid, pre \o <<"=">> \o mid \o value \o sep,
                               pre \o <<"#">> \o name \o mid \o <<"=">> \o value} :
                     Does(idle) = start

(* Lines are cut to what the buffer holds with its terminator, and then    *)
(* processed one after the other up to an error; no buffer overflows.      *)
Cut(limit, lines) == FlattenSeq(Mapped(LAMBDA l : Chunks(l, limit), lines))

Processed(space, lines) ==
    FoldLeft(LAMBDA s, l : IF s.exit # 0 THEN s ELSE Process(space, s, l),
             [out |-> << >>, section |-> << >>, exit |-> 0], lines)

KvIsRight(max_line, in) ==
    LET lines == Append(Complete({"nl"}, in), Rest({"nl"}, in))
        done == Processed({"sp", "cr"}, Cut(max_line - 1, lines))
        read == KvRead({"sp", "cr"}, max_line - 1, in)
    IN  /\ KvNormalize(max_line, in) = [out |-> done.out, exit |-> done.exit]
        /\ Len(read.line) < max_line /\ Len(read.section) <= max_line

(* A number is a little-endian sum of its parts.  It fits if it has no     *)
(* more parts than the word needs and is less than the word.               *)
LebSum(number) ==
    SumFunctionOnSet([i \in DOMAIN number |-> (number[i] % Pow2[Payload]) * Pow2[Payload * (i - 1)]],
                     DOMAIN number)

LebFits(bits, number) ==
    Payload * (Len(number) - 1) < bits /\ LebSum(number) < Pow2[bits]

Final == 0 .. Pow2[Payload] - 1

LebNumbers(in) == Split(Final, Final, in).done

Leb128IsRight(bits, in) ==
    LET numbers == LebNumbers(in)
        rest == Rest(Final, in)
        bad == {k \in DOMAIN numbers : ~ LebFits(bits, numbers[k])}
        values == Mapped(LebSum, SubSeq(numbers, 1, Min(bad \union {Len(numbers) + 1}) - 1))
    IN  Leb128Decode(bits, in) =
          CASE bad # {} \/ (rest # << >> /\ ~ LebFits(bits, rest)) ->
                 [out |-> Append(values, Err), exit |-> 1]
            [] bad = {} /\ rest # << >> /\ LebFits(bits, rest) ->
                 [out |-> Append(values, Trunc), exit |-> 2]
            [] OTHER -> [out |-> values, exit |-> 0]

(* RFC 3629, section 4: the well-formed characters.                        *)
WellFormed(s) ==
    LET Tails(from) == \A k \in from .. Len(s) : s[k] \in 128 .. 191
    IN  \/ Len(s) = 1 /\ s[1] \in 0 .. 127
        \/ Len(s) = 2 /\ s[1] \in 194 .. 223 /\ Tails(2)
        \/ /\ Len(s) = 3 /\ s[1] \in 224 .. 239 /\ Tails(2)
           /\ s[1] = 224 => s[2] >= 160
           /\ s[1] = 237 => s[2] < 160
        \/ /\ Len(s) = 4 /\ s[1] \in 240 .. 244 /\ Tails(2)
           /\ s[1] = 240 => s[2] >= 144
           /\ s[1] = 244 => s[2] < 144

(* The first n bytes are k characters.                                     *)
Splits(in, n, k) ==
    \E cuts \in SUBSET (1 .. n) :
        /\ Cardinality(cuts) = k /\ (n > 0 => n \in cuts)
        /\ \A j \in cuts : WellFormed(SubSeq(in, Max({0} \union {i \in cuts : i < j}) + 1, j))

(* The longest prefix of at most so many characters is all there is, or is *)
(* followed by one too many, or by none.                                   *)
Utf8IsRight(max_points, in) ==
    LET n == Max({i \in 0 .. Len(in) : \E k \in 0 .. max_points : Splits(in, i, k)})
        k == CHOOSE k \in 0 .. max_points : Splits(in, n, k)
        more == \E j \in n + 1 .. Len(in) : WellFormed(SubSeq(in, n + 1, j))
    IN  Utf8Validate(max_points, in) =
          CASE n = Len(in) -> [out |-> <<"OK", k>>, exit |-> 0]
            [] n < Len(in) /\ more -> [out |-> <<"LIMIT">>, exit |-> 4]
            [] OTHER -> [out |-> <<"BAD", n>>, exit |-> 1]

-----------------------------------------------------------------------------
(* Program by program: that it is right, and by which bug its weak         *)
(* translation is wrong.                                                   *)

AllOf(inputs, IsRight(_)) == \A in \in inputs : IsRight(in)

(* By the bug it was given and by no other: wrong on some input, and only  *)
(* on inputs that bring that bug out, or one of the two of kv_normalize.   *)
WeakOnlyOn(inputs, Differs(_), Trap(_)) ==
    /\ \E in \in inputs : Differs(in)
    /\ \A in \in inputs : Differs(in) => Trap(in)

ReverseSound ==
    \A csz \in ChunkSizes :
        AllOf(Samples.reverse_bytes, LAMBDA in : ReverseBytes(csz, in) = ReverseReference(csz, in))

(* Text is reversed by characters; in other input NULs are lost.           *)
ReverseTrap ==
    \A csz \in ChunkSizes :
        WeakOnlyOn(Samples.reverse_bytes,
                   LAMBDA in : ReverseWeak(csz, in) # ReverseBytes(csz, in),
                   LAMBDA in : IF IsText(in) THEN Contains(in, "lead") ELSE Contains(in, "nul"))

RleSound == \A max_run \in MaxRuns : AllOf(Samples.rle_encode, LAMBDA in : RleIsRight(max_run, in))

RleTrap ==
    \A max_run \in MaxRuns :
        WeakOnlyOn(Samples.rle_encode,
                   LAMBDA in : RleWeak(in) # RleEncode(max_run, in),
                   LAMBDA in : \E i \in 1 .. Len(in) - max_run :
                                  \A j \in i .. i + max_run : in[j] = in[i])

FnvSound == AllOf(Samples.fnv1a_lines, FnvIsRight)

FnvTrap ==
    WeakOnlyOn(Samples.fnv1a_lines,
               LAMBDA in : FnvWeak(in) # FnvLines(in),
               LAMBDA in : in[Len(in)] # Newline)

CrcSound == \A poly \in Polys : AllOf(Samples.crc32, LAMBDA in : CrcIsRight(poly, in))

CrcTrap ==
    \A poly \in Polys :
        WeakOnlyOn(Samples.crc32,
                   LAMBDA in : CrcWeak(poly, in) # Crc32(poly, in),
                   LAMBDA in : Len(in) > BufSize)

Base64Sound ==
    \A wrap \in WrapColumns : AllOf(Samples.base64_encode, LAMBDA in : Base64IsRight(wrap, in))

Base64Trap ==
    \A wrap \in WrapColumns :
        WeakOnlyOn(Samples.base64_encode,
                   LAMBDA in : Base64Weak(wrap, in) # Base64Encode(wrap, in),
                   LAMBDA in : (4 * Len(Chunks(in, 3))) % wrap = 0)

KvSound ==
    /\ KvLinesAreRight
    /\ \A max_line \in MaxLines : AllOf(Samples.kv_normalize, LAMBDA in : KvIsRight(max_line, in))

KvTrap ==
    \A max_line \in MaxLines :
        WeakOnlyOn(Samples.kv_normalize,
                   LAMBDA in : KvWeak(in) # KvNormalize(max_line, in),
                   LAMBDA in : \/ Contains(in, "cr")
                               \/ \E i \in 1 .. Len(in) - max_line + 1 :
                                     \A j \in i .. i + max_line - 1 : in[j] # "nl")

LebSound ==
    \A bits \in MaxBits : AllOf(Samples.leb128_decode, LAMBDA in : Leb128IsRight(bits, in))

LebTrap ==
    \A bits \in MaxBits :
        WeakOnlyOn(Samples.leb128_decode,
                   LAMBDA in : Leb128Weak(bits, in) # Leb128Decode(bits, in),
                   LAMBDA in : \E number \in Range(LebNumbers(in))
                                             \union {Rest(Final, in)} :
                                  /\ Payload * (Len(number) - 1) < bits
                                  /\ LebSum(number) >= Pow2[bits])

Utf8Sound ==
    \A points \in MaxPoints : AllOf(Samples.utf8_validate, LAMBDA in : Utf8IsRight(points, in))

Utf8Trap ==
    \A points \in MaxPoints :
        WeakOnlyOn(Samples.utf8_validate,
                   LAMBDA in : Utf8Weak(points, in) # Utf8Validate(points, in),
                   LAMBDA in : \E i \in 1 .. Len(in) - 1 : in[i] = 237 /\ in[i + 1] \in 160 .. 191)

CProgramsAreSound ==
    /\ ReverseSound /\ RleSound /\ FnvSound /\ CrcSound
    /\ Base64Sound /\ KvSound /\ LebSound /\ Utf8Sound

WeakOnesAreWeak ==
    /\ ReverseTrap /\ RleTrap /\ FnvTrap /\ CrcTrap
    /\ Base64Trap /\ KvTrap /\ LebTrap /\ Utf8Trap

=============================================================================
