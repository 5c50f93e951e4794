----------------------------- MODULE AliasTable -----------------------------
(***************************************************************************)
(* The alias table of the "weighted" strategy (internal/dash/rotation,     *)
(* alias.go, newAliasTable and sample): one action per turn of the pairing *)
(* loop.  Probabilities are exact and scaled by the sum of the weights, so *)
(* a full column is total and key i's share of all columns is w[i] * n.    *)
(***************************************************************************)
EXTENDS Integers, Sequences, SequencesExt, FiniteSetsExt

CONSTANTS
    MaxKeys,        \* bound: keys in the pool
    MaxWeight       \* bound: weights

VARIABLES
    weights, scaled, small, large,
    prob, alias,
    pc              \* "nil" when there is no table, "pair", "rest" or "built"

vars == <<weights, scaled, small, large, prob, alias, pc>>

n == Len(weights)
Column == 1 .. n

Clamped(w) == IF w < 0 THEN 0 ELSE w

total == MapThenSumSet(LAMBDA i : Clamped(weights[i]), Column)

Picked(test(_)) == SelectSeq([i \in Column |-> i], test)

(* s < 1                                                                     *)
IsSmall(s, t) == s < t

Init ==
    /\ weights \in UNION {[1 .. k -> -1 .. MaxWeight] : k \in 1 .. MaxKeys}
    /\ scaled = [i \in Column |-> Clamped(weights[i]) * n]
    /\ small = Picked(LAMBDA i : IsSmall(scaled[i], total))
    /\ large = Picked(LAMBDA i : ~IsSmall(scaled[i], total))
    /\ prob = [i \in Column |-> 0]
    /\ alias = [i \in Column |-> 1]
    /\ pc = IF total = 0 THEN "nil" ELSE "pair"

(* The large column gives what the small one lacks.                          *)
Given(l, g) == scaled[g] + scaled[l] - total

Pair ==
    /\ pc = "pair"
    /\ small # <<>> /\ large # <<>>
    /\ LET l == Last(small)
           g == Last(large)
           left == Given(l, g)
       IN /\ prob' = [prob EXCEPT ![l] = scaled[l]]
          /\ alias' = [alias EXCEPT ![l] = g]
          /\ scaled' = [scaled EXCEPT ![g] = left]
          /\ small' = IF IsSmall(left, total) THEN Append(Front(small), g) ELSE Front(small)
          /\ large' = IF IsSmall(left, total) THEN Front(large) ELSE large
    /\ UNCHANGED <<weights, pc>>

WrongFull == 0

Full == total

(* Whatever is left in either list keeps its whole column.                   *)
Rest ==
    /\ pc = "pair"
    /\ small = <<>> \/ large = <<>>
    /\ prob' = [i \in Column |-> IF i \in ToSet(small) \cup ToSet(large) THEN Full ELSE prob[i]]
    /\ pc' = "built"
    /\ UNCHANGED <<weights, scaled, small, large, alias>>

Done == pc \in {"nil", "built"} /\ UNCHANGED vars

Next == Pair \/ Rest \/ Done

Spec == Init /\ [][Next]_vars

-----------------------------------------------------------------------------
TypeOK ==
    /\ scaled \in [Column -> 0 .. MaxKeys * MaxKeys * MaxWeight]
    /\ small \in Seq(Column) /\ large \in Seq(Column)
    /\ prob \in [Column -> 0 .. total]
    /\ alias \in [Column -> Column]

(* sample: the share of all columns that a draw resolves to key i.           *)
Share(i) == prob[i] + MapThenSumSet(LAMBDA j : IF alias[j] = i THEN total - prob[j] ELSE 0, Column)

(* A built table draws every key exactly in proportion to its weight: the    *)
(* two-probe draw of sample agrees with the weights it was built from.      *)
DrawsByWeight == pc = "built" => \A i \in Column : Share(i) = Clamped(weights[i]) * n

(* With exact arithmetic no small column is left over, as the comment "only  *)
(* from floating-point residue" says.                                       *)
NoResidue == pc = "built" => small = <<>>
=============================================================================
