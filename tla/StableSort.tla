----------------------------- MODULE StableSort -----------------------------
(***************************************************************************)
(* Python's sorted(items, key=..., reverse=True), as the bcc summary       *)
(* scripts call it: a stable sort into non-increasing key order.  With     *)
(* reverse=True Python still keeps items of equal key in their input      *)
(* order.  Gt(a, b) is "key(a) > key(b)".                                  *)
(***************************************************************************)
EXTENDS Integers, Sequences, SequencesExt

CONSTANT Gt(_, _)

(* Insert x before the first element whose key it exceeds, after every    *)
(* element of equal key.                                                   *)
InsertDesc(x, s) ==
    LET p == SelectInSeq(s, LAMBDA e : Gt(x, e))
    IN  IF p = 0 THEN Append(s, x) ELSE InsertAt(s, p, x)

SortDesc(s) == FoldLeft(LAMBDA acc, x : InsertDesc(x, acc), << >>, s)

(* Reference definition: out holds the elements of in (distinct), no      *)
(* element has a larger key than one before it, and elements of equal key *)
(* keep the order they had in in.                                          *)
IsStableSortDesc(in, out) ==
    LET pos(e) == SelectInSeq(in, LAMBDA x : x = e)
    IN  /\ Len(out) = Len(in)
        /\ Range(out) = Range(in)
        /\ \A i, j \in 1 .. Len(out) :
              i < j => /\ ~Gt(out[j], out[i])
                       /\ ~Gt(out[i], out[j]) => pos(out[i]) < pos(out[j])

=============================================================================
