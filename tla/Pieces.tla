------------------------------- MODULE Pieces -------------------------------
(***************************************************************************)
(* What the programs of module TaskPool have in common: powers of two, and *)
(* sequences in pieces.                                                    *)
(***************************************************************************)
EXTENDS Integers, SequencesExt

Pow2[n \in Nat] == IF n = 0 THEN 1 ELSE 2 * Pow2[n - 1]

(* The pieces of n elements that a sequence falls into; the last is shorter*)
(* if it must.                                                             *)
Chunks(s, n) ==
    [k \in 1 .. (Len(s) + n - 1) \div n |->
        SubSeq(s, (k - 1) * n + 1, Min({k * n, Len(s)}))]

Mapped(Op(_), s) == [k \in DOMAIN s |-> Op(s[k])]

(* The lines, numbers, ... of an input, which end with an element of E:    *)
(* the complete ones, with the ends that are kept, and what is left.       *)
SplitStep(E, kept, s, b) ==
    IF b \in E
    THEN [done |-> Append(s.done, IF b \in kept THEN Append(s.rest, b) ELSE s.rest), rest |-> << >>]
    ELSE [s EXCEPT !.rest = Append(@, b)]

Split(E, kept, in) ==
    FoldLeft(LAMBDA s, b : SplitStep(E, kept, s, b), [done |-> << >>, rest |-> << >>], in)

Complete(E, in) == Split(E, {}, in).done

Rest(E, in) == Split(E, {}, in).rest

=============================================================================
