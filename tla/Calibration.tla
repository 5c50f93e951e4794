----------------------------- MODULE Calibration -----------------------------
(***************************************************************************)
(* The numeric half of the confidence pipeline, over exact fractions: the  *)
(* isotonic fit of labelled scores (internal/calibrate, FitIsotonic and    *)
(* Predict) and the log-odds fusion of agreeing observations               *)
(* (internal/engine, fuseAgreeing).  Points arrive in the order of the     *)
(* stable sort; observations in any order.  Rounding is not modelled.      *)
(***************************************************************************)
EXTENDS Integers, SequencesExt, FiniteSetsExt

CONSTANTS
    MaxScore,       \* raw scores are 1 .. MaxScore
    MaxWeight,      \* a point's weight; 0 stands for "not given"
    MaxPoints,      \* bound: points of one fit
    Unit,           \* confidences are multiples of 1/Unit
    MaxObservations \* bound: agreeing observations of one value

VARIABLES
    points,         \* the labelled points consumed so far
    blocks,         \* FitIsotonic's blocks: start score, weighted sum, weight
    seen,           \* the observations of one value, as numerators over Unit
    fused           \* its fused confidence, a fraction

vars == <<points, blocks, seen, fused>>

-----------------------------------------------------------------------------
(* Fractions, with a positive denominator *)

Less(a, b) == a.n * b.d < b.n * a.d
Equal(a, b) == a.n * b.d = b.n * a.d
LessEq(a, b) == a.n * b.d <= b.n * a.d

(* FitIsotonic *)

Value(b) == [n |-> b.sum, d |-> b.w]

Weight(p) == IF p.w <= 0 THEN 1 ELSE p.w
BlockOf(p) == [x |-> p.x, sum |-> p.y * Weight(p), w |-> Weight(p)]

(* Two blocks pooled into their weighted mean keep the left score.           *)
Merged(b1, b2) == [x |-> b1.x, sum |-> b1.sum + b2.sum, w |-> b1.w + b2.w]

WrongPool(bs, b) ==
    IF bs # <<>> /\ Less(Value(b), Value(Last(bs)))
    THEN Append(Front(bs), Merged(Last(bs), b))
    ELSE Append(bs, b)

(* The while loop: pool the new block with its predecessors as long as it    *)
(* lies below the last of them.                                              *)
RECURSIVE Pool(_, _)
Pool(bs, b) ==
    IF bs # <<>> /\ Less(Value(b), Value(Last(bs)))
    THEN Pool(Front(bs), Merged(Last(bs), b))
    ELSE Append(bs, b)

(* Predict: the value of the rightmost block that starts at or below x; the  *)
(* first block below its start.                                              *)
Predict(bs, x) ==
    IF x <= bs[1].x THEN Value(bs[1])
    ELSE LET under == {i \in 1 .. Len(bs) : bs[i].x <= x} IN
         Value(bs[Max(under)])

-----------------------------------------------------------------------------
(* fuseAgreeing: adding log-odds multiplies odds.  logit(0) = -inf keeps the *)
(* other argument; logit(1) = +inf wins over everything else.                *)
Conf(n) == [n |-> n, d |-> Unit]

WrongFuseMean(p, o) ==
    IF p.n = 0 THEN o
    ELSE IF o.n = 0 THEN p
    ELSE [n |-> p.n * o.d + o.n * p.d, d |-> 2 * p.d * o.d]

FuseAgreeing(p, o) ==
    LET yes == p.n * o.n
        no == (p.d - p.n) * (o.d - o.n) IN
    IF p.n = 0 THEN o
    ELSE IF o.n = 0 THEN p
    ELSE [n |-> yes, d |-> yes + no]

-----------------------------------------------------------------------------
Init ==
    /\ points = <<>> /\ blocks = <<>>
    /\ seen = <<>> /\ fused = [n |-> 0, d |-> 1]

AddPoint(p) ==
    /\ Len(points) < MaxPoints
    /\ points # <<>> => points[Len(points)].x <= p.x
    /\ points' = Append(points, p)
    /\ blocks' = Pool(blocks, BlockOf(p))
    /\ UNCHANGED <<seen, fused>>

Observe(o) ==
    /\ Len(seen) < MaxObservations
    /\ seen' = Append(seen, o)
    /\ fused' = FuseAgreeing(fused, Conf(o))
    /\ UNCHANGED <<points, blocks>>

Fit == \E x \in 1 .. MaxScore, y \in {0, 1}, w \in 0 .. MaxWeight : AddPoint([x |-> x, y |-> y, w |-> w])

Fuse == \E o \in 0 .. Unit : Observe(o)

Next == Fit \/ Fuse

Spec == Init /\ [][Next]_vars

-----------------------------------------------------------------------------
(* Properties *)

(* Blocks and the fused confidence are fractions between 0 and 1.            *)
TypeOK ==
    /\ \A i \in 1 .. Len(blocks) : blocks[i].w > 0 /\ blocks[i].sum \in 0 .. blocks[i].w
    /\ fused.d > 0 /\ fused.n \in 0 .. fused.d

(* The weighted mean of points a .. b.                                       *)
Mean(a, b) ==
    [n |-> MapThenSumSet(LAMBDA i : points[i].y * Weight(points[i]), a .. b),
     d |-> MapThenSumSet(LAMBDA i : Weight(points[i]), a .. b)]

LeastOf(F) == CHOOSE f \in F : \A g \in F : LessEq(f, g)
GreatestOf(F) == CHOOSE f \in F : \A g \in F : LessEq(g, f)

(* The least-squares isotonic regression at point i, by the min-max formula. *)
Isotonic(i) ==
    GreatestOf({LeastOf({Mean(a, b) : b \in i .. Len(points)}) : a \in 1 .. i})

(* The block that holds point i, found by the weights before it.             *)
WeightBefore(i) == MapThenSumSet(LAMBDA j : Weight(points[j]), 1 .. i - 1)
BlockWeightBefore(k) == MapThenSumSet(LAMBDA j : blocks[j].w, 1 .. k - 1)
BlockAt(i) == Max({k \in 1 .. Len(blocks) : BlockWeightBefore(k) <= WeightBefore(i)})

(* FitIsotonic is the least-squares monotone fit: the block that holds a     *)
(* point has the value of the isotonic regression there.                     *)
FitIsIsotonic == \A i \in 1 .. Len(points) : Equal(Value(blocks[BlockAt(i)]), Isotonic(i))

(* Predict is monotone in the raw score, also between and outside the        *)
(* fitted scores.                                                            *)
PredictMonotone ==
    blocks # <<>> => \A x \in 0 .. MaxScore : LessEq(Predict(blocks, x), Predict(blocks, x + 1))

Informative == {i \in 1 .. Len(seen) : seen[i] > 0}
Product(f(_)) == FoldSet(LAMBDA i, acc : f(i) * acc, 1, Informative)

(* The fused confidence depends on the set of observations only, not on the  *)
(* order in which providers answered: its odds are the product of theirs.    *)
FusionIsOrderFree ==
    LET yes == Product(LAMBDA i : seen[i])
        no == Product(LAMBDA i : Unit - seen[i]) IN
    IF Informative = {} THEN fused.n = 0
    ELSE fused.n * (yes + no) = yes * fused.d

=============================================================================
