-------------------------------- MODULE Aggregates --------------------------------
(***************************************************************************)
(* GONumeric (gonumeric.h) and what is computed from a vector of them: GOSum, *)
(* GOMean, GOMin, GOMax, GOVariance, GOStdDev.  An aggregate is told of every *)
(* change by callbacks and updates itself from what they report.             *)
(*                                                                         *)
(* The templates want a vector that calls back after an insertion and before  *)
(* an erasure, with current() at the element; the library has none.  Means,   *)
(* variances and the squares of standard deviations are kept as fractions.   *)
(***************************************************************************)
EXTENDS Integers, Sequences, SequencesExt, CIntegers

CONSTANTS
  Numbers,     \* the values of elements, by which they change, too
  MaxElements  \* bound

ASSUME AggregatesAssumption == Numbers \subseteq Int /\ MaxElements \in Nat

VARIABLES
  elts,      \* the vector
  agg,       \* the aggregates that are hooked up to it
  quirks     \* observer: what happened that some aggregates get wrong

aggVars == <<elts, agg, quirks>>

(* quirks: "reported": *= told a wrong value; "min", "max": since they were hooked up
   the extreme was 0 once while no element was, what it starts from when there is
   nothing to start from; "erased": the variance counts an element too many until it
   is next computed. *)

Total(s) == FoldLeft(LAMBDA sum, x : sum + x, 0, s)
IndexesOf(s) == [i \in 1 .. Len(s) |-> i]

-------------------------------------------------------------------------------
(* GOSum *)
SumAdded(sum, x) == sum + x
SumErased(sum, x) == sum - x
SumChanged(sum, new, old) == sum - old + new
SumHooked(s) == FoldLeft(SumAdded, 0, s)

(* GOMean *)
MeanOf(sum, n) == [sum |-> sum, n |-> n]
MeanAdded(m, x, size) == MeanOf(m.sum + x, size)
(* Mistake: the element that goes is still counted. *)
MeanErasedLate(m, x, size) == MeanOf(m.sum - x, size)
MeanErased(m, x, size) == MeanOf(m.sum - x, size - 1)
MeanChanged(m, new, old, size) == MeanOf(m.sum - old + new, size)
MeanHooked(s) == FoldLeft(LAMBDA m, x : MeanAdded(m, x, Len(s)), MeanOf(0, 0), s)

(* GOMin and GOMax: check_all() leaves one element out, and starts from 0 if that
   is the first. *)
CheckAll(s, skip, Before(_, _)) ==
  FoldLeft(LAMBDA m, i : IF i = skip \/ (i # 1 /\ ~Before(s[i], m)) THEN m ELSE s[i],
           0, IndexesOf(s))

Less(x, y) == x < y
More(x, y) == x > y

MinAdded(m, x, size) == IF m > x \/ size = 1 THEN x ELSE m
(* Mistake: the minimum is not looked for again. *)
MinErasedKept(m, s, i) == m
MinErased(m, s, i) == IF m = s[i] THEN CheckAll(s, i, Less) ELSE m
MinChanged(m, s, new, old) ==
  IF m = old THEN CheckAll(s, 0, Less) ELSE IF m > new THEN new ELSE m
MinHooked(s) == FoldLeft(LAMBDA m, x : MinAdded(m, x, Len(s)), 0, s)

MaxAdded(m, x) == IF m < x THEN x ELSE m
MaxErased(m, s, i) == IF m = s[i] THEN CheckAll(s, i, More) ELSE m
MaxChanged(m, s, new, old) ==
  IF m = old THEN CheckAll(s, 0, More) ELSE IF m < new THEN new ELSE m
MaxHooked(s) == FoldLeft(MaxAdded, 0, s)

(* GOVariance, and GOStdDev before the root: the mean over n elements, the squares
   of all but one, divided by the size less one. *)
Variance(s, skip, sum, n) ==
  [sum |-> sum,
   num |-> FoldLeft(LAMBDA v, i : IF i = skip THEN v ELSE v + (n * s[i] - sum) * (n * s[i] - sum),
                    0, IndexesOf(s)),
   den |-> IF Len(s) <= 1 THEN 0 ELSE n * n * (Len(s) - 1)]
VarianceAdded(v, s, x) == Variance(s, 0, v.sum + x, Len(s))
VarianceErased(v, s, i) == Variance(s, i, v.sum - s[i], Len(s) - 1)
VarianceChanged(v, s, new, old) == Variance(s, 0, v.sum - old + new, Len(s))
VarianceHooked(s) == Variance(s, 0, Total(s), Len(s))

StdDevAdded(v, s, x) == VarianceAdded(v, s, x)
StdDevErased(v, s, i) == VarianceErased(v, s, i)
StdDevChanged(v, s, new, old) == VarianceChanged(v, s, new, old)
StdDevHooked(s) == VarianceHooked(s)

Hooked(s) ==
  [sum |-> SumHooked(s), mean |-> MeanHooked(s), min |-> MinHooked(s), max |-> MaxHooked(s),
   variance |-> VarianceHooked(s), stddev |-> StdDevHooked(s)]

Unfounded(s, a) ==
  {k \in {"min", "max"} : a[k] = 0 /\ s # <<>> /\ 0 \notin Range(s)}

-------------------------------------------------------------------------------
AggInit == elts = <<>> /\ agg = Hooked(<<>>) /\ quirks = {}

(* Constructed, or set_data(): of GOMin and GOMax, with a new object. *)
Hook(s) ==
  /\ elts' = s /\ agg' = Hooked(s)
  /\ quirks' = Unfounded(s, agg')

(* postInsertCB() of the vector, preEraseCB(). *)
Insert(x) ==
  /\ Len(elts) < MaxElements
  /\ elts' = Append(elts, x)
  /\ agg' = [sum |-> SumAdded(agg.sum, x), mean |-> MeanAdded(agg.mean, x, Len(elts')),
             min |-> MinAdded(agg.min, x, Len(elts')), max |-> MaxAdded(agg.max, x),
             variance |-> VarianceAdded(agg.variance, elts', x),
             stddev |-> StdDevAdded(agg.stddev, elts', x)]
  /\ quirks' = (quirks \ {"erased"}) \cup Unfounded(elts', agg')

Erase(i) ==
  /\ i \in DOMAIN elts
  /\ elts' = RemoveAt(elts, i)
  /\ agg' = [sum |-> SumErased(agg.sum, elts[i]),
             mean |-> MeanErased(agg.mean, elts[i], Len(elts)),
             min |-> MinErased(agg.min, elts, i), max |-> MaxErased(agg.max, elts, i),
             variance |-> VarianceErased(agg.variance, elts, i),
             stddev |-> StdDevErased(agg.stddev, elts, i)]
  /\ quirks' = quirks \cup {"erased"} \cup Unfounded(elts', agg')

(* A watched GONumeric: _x changes first, then the callbacks run with the new value
   and the old one, as they are reported. *)
Changed(i, new, reported) ==
  LET old == elts[i]
  IN /\ elts' = [elts EXCEPT ![i] = new]
     /\ agg' = [sum |-> SumChanged(agg.sum, reported, old),
                mean |-> MeanChanged(agg.mean, reported, old, Len(elts)),
                min |-> MinChanged(agg.min, elts', reported, old),
                max |-> MaxChanged(agg.max, elts', reported, old),
                variance |-> VarianceChanged(agg.variance, elts', reported, old),
                stddev |-> StdDevChanged(agg.stddev, elts', reported, old)]
     /\ quirks' = (quirks \ {"erased"}) \cup (IF reported = new THEN {} ELSE {"reported"})
                    \cup Unfounded(elts', agg')

(* Bound: values stay in Numbers. *)
Assign(i, x) == i \in DOMAIN elts /\ x # elts[i] /\ Changed(i, x, x)
Plus(i, x) == i \in DOMAIN elts /\ x # 0 /\ elts[i] + x \in Numbers /\ Changed(i, elts[i] + x, elts[i] + x)
Minus(i, x) == i \in DOMAIN elts /\ x # 0 /\ elts[i] - x \in Numbers /\ Changed(i, elts[i] - x, elts[i] - x)

(* *= reports the difference. *)
Times(i, x) == i \in DOMAIN elts /\ x # 1 /\ elts[i] * x \in Numbers /\ Changed(i, elts[i] * x, elts[i] - x)

(* /= throws before anything changes if x is 0. *)
Over(i, x) ==
  /\ i \in DOMAIN elts /\ x \notin {0, 1}
  /\ Changed(i, Quotient(elts[i], x), Quotient(elts[i], x))

(* Bound: after a wrong report, whose error grows without limit, the aggregates are
   hooked up anew. *)
AggNext ==
  \/ \E x, y \in Numbers : Hook(<<x>>) \/ Hook(<<x, y>>)
  \/ /\ "reported" \notin quirks
     /\ \/ \E x \in Numbers : Insert(x)
        \/ \E i \in 1 .. MaxElements :
             \/ Erase(i)
             \/ \E x \in Numbers : Assign(i, x) \/ Plus(i, x) \/ Minus(i, x) \/ Times(i, x) \/ Over(i, x)

-------------------------------------------------------------------------------
Extreme(m, Before(_, _)) ==
  /\ m \in Range(elts)
  /\ \A i \in DOMAIN elts : ~Before(elts[i], m)

SameVariance(v) ==
  LET n == Len(elts)
      exact == VarianceHooked(elts)
  IN n > 1 => v.num * exact.den = exact.num * v.den /\ v.den # 0

(***************************************************************************)
(* After any history the aggregates are those of the vector as it is: sum and *)
(* mean unless an element was multiplied (its callbacks are told a wrong new  *)
(* value), each extreme unless it was 0 while no element was, the variances  *)
(* but for the moment after an erasure.                                     *)
(***************************************************************************)
AggregatesExact ==
  "reported" \notin quirks =>
    /\ agg.sum = Total(elts)
    /\ agg.mean = MeanOf(Total(elts), Len(elts)) \/ elts = <<>>
    /\ "min" \notin quirks /\ elts # <<>> => Extreme(agg.min, Less)
    /\ "max" \notin quirks /\ elts # <<>> => Extreme(agg.max, More)
    /\ "erased" \notin quirks => SameVariance(agg.variance) /\ SameVariance(agg.stddev)
===============================================================================
