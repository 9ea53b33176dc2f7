------------------------------- MODULE PointsInTime -------------------------------
(***************************************************************************)
(* PointInTime (pointintime.cpp): seconds, milliseconds, and the minutes its  *)
(* time zone is west of Greenwich.  A program computes with one, pt.         *)
(*                                                                         *)
(* Not modelled: the clock, the calendar and how a time is printed.          *)
(***************************************************************************)
EXTENDS Integers, CIntegers

CONSTANTS
  Zones,       \* in minutes
  Shifts,      \* milliseconds, added and subtracted
  MaxInstant   \* bound

ASSUME TimesAssumption == Zones \subseteq Int /\ Shifts \subseteq Nat /\ MaxInstant \in Nat

VARIABLES
  pt,     \* _pt
  exact,  \* observer: the milliseconds since 1970 that it should be
  ptOdd   \* observer: what was done that it gets wrong

ptVars == <<pt, exact, ptOdd>>

Point == [time : Int, milli : Nat, zone : Int, dst : {0, 1}]
Normal(p) == p.milli < 1000

(* The constructor, unless for TSNOW and TSNULL. *)
New(time, milli, zone, dst) ==
  [time |-> time - zone * 60 - dst * 3600, milli |-> milli, zone |-> zone, dst |-> dst]

(* GMT() does not know of the hour that the constructor has taken off for dst. *)
Gmt(p) == New(p.time + p.zone * 60, p.milli, 0, 0)
Instant(p) == Gmt(p).time * 1000 + p.milli

-------------------------------------------------------------------------------
(* operator<, and <=; the other comparisons are these turned round. *)
Before(p, q) ==
  Gmt(p).time < Gmt(q).time \/ (Gmt(p).time = Gmt(q).time /\ p.milli < q.milli)
NotAfter(p, q) ==
  Gmt(p).time < Gmt(q).time \/ (Gmt(p).time = Gmt(q).time /\ p.milli <= q.milli)
Same(p, q) == Gmt(p).time = Gmt(q).time /\ p.milli = q.milli

(* _pt.millitm is an unsigned short. *)
Became(p, time, milli) ==
  [time |-> time, milli |-> milli % 65536, zone |-> p.zone, dst |-> p.dst]

(* operator+= of seconds, and operator+; of a negative number operator-=. *)
AddSeconds(p, t) == Became(p, p.time + t, p.milli)

(* operator+= and operator+ of milliseconds. *)
PlusMilli(p, ms) ==
  Became(p, p.time + Quotient(ms + p.milli, 1000), Remainder(ms + p.milli, 1000))

(* operator-= and operator- of milliseconds borrow one second at most. *)
MinusMilli(p, ms) ==
  IF ms > p.milli
  THEN Became(p, p.time - 1, p.milli + 1000 - ms)
  ELSE Became(p, p.time, p.milli - ms)

(* operator+= of another: of the seconds in their zones. *)
PlusPoint(p, q) ==
  Became(p, p.time + q.time + ((p.milli + q.milli) \div 1000), (p.milli + q.milli) % 1000)

(* Mistake: nothing is borrowed from the seconds. *)
DistanceOwing(p, q) ==
  LET m == p.milli - q.milli
  IN New(Magnitude(Gmt(p).time - Gmt(q).time), IF m >= 0 THEN m ELSE 1000 + m, 0, 0)

(* The distance of two, operator-: seconds and milliseconds. *)
Distance(p, q) ==
  LET t == Magnitude(Gmt(p).time - Gmt(q).time)
      m == p.milli - q.milli
  IN IF m >= 0 THEN New(t, m, 0, 0)
     ELSE IF t > 0 THEN New(t - 1, 1000 + m, 0, 0)
     ELSE New(0, -m, 0, 0)
DiffMilli(p, q) == Distance(p, q).time * 1000 + Distance(p, q).milli

(* within() *)
Within(p, q, sec, ms) ==
  Distance(p, q).time < sec \/ (Distance(p, q).time = sec /\ Distance(p, q).milli <= ms)

(* operator-= of another takes off the distance. *)
MinusPoint(p, q) ==
  LET d == Distance(p, q)
  IN IF d.milli > p.milli
     THEN Became(p, p.time - d.time - 1, 1000 - (d.milli - p.milli))
     ELSE Became(p, p.time - d.time, p.milli - d.milli)

(* operator* constructs the product in the zone once more. *)
Scaled(p, k) ==
  New(p.time * k + Quotient(p.milli * k, 1000), Remainder(p.milli * k, 1000) % 65536, p.zone, p.dst)

AddMS(p, ms) == Became(p, p.time + ((ms + p.milli) \div 1000), (ms + p.milli) % 1000)

(* The second that is borrowed is given back. *)
SubtractMS(p, ms) ==
  LET borrows == (ms % 1000) > p.milli
  IN Became(p, p.time - ((ms \div 1000) - IF borrows THEN 1 ELSE 0),
            p.milli + (IF borrows THEN 1000 ELSE 0) - (ms % 1000))

SetTz(p, zone, dst) ==
  [time |-> p.time + (p.zone - zone) * 60, milli |-> p.milli, zone |-> zone, dst |-> dst]

-------------------------------------------------------------------------------
TimesInit == pt = New(0, 0, 0, 0) /\ exact = 0 /\ ptOdd = {}

Computes(p, instant, right, odd) ==
  /\ instant \in 0 .. MaxInstant
  /\ pt' = p /\ exact' = instant /\ ptOdd' = IF right THEN {} ELSE {odd}

Construct(sec, ms, zone, dst) ==
  Computes(New(sec, ms, zone, dst), sec * 1000 + ms, dst = 0, "dst")

AddTime(sec) == Computes(AddSeconds(pt, sec), exact + sec * 1000, TRUE, "")
AddMilli(ms) == Computes(PlusMilli(pt, ms), exact + ms, ms + pt.milli >= 0, "negative")
TakeMilli(ms) ==
  Computes(MinusMilli(pt, ms), exact - ms, ms \in pt.milli - 999 .. pt.milli + 1000, "borrow")
AddUnsigned(ms) == Computes(AddMS(pt, ms), exact + ms, TRUE, "")
TakeUnsigned(ms) == Computes(SubtractMS(pt, ms), exact - ms, (ms % 1000) <= pt.milli, "borrow")
AddPoint(q) == Computes(PlusPoint(pt, q), exact + Instant(q), q.zone = 0, "zone")
TakePoint(q) == Computes(MinusPoint(pt, q), Instant(q), ~Before(pt, q), "earlier")
Multiply(k) == Computes(Scaled(pt, k), exact * k, pt.zone = 0 /\ pt.dst = 0, "zone")
Rezone(zone, dst) == Computes(SetTz(pt, zone, dst), exact, TRUE, "")

Points == {New(ms \div 1000, ms % 1000, zone, 0) : ms \in Shifts, zone \in Zones}

(* Bound: what is wrong is computed with no more. *)
TimesNext ==
  \/ \E ms \in Shifts, zone \in Zones, dst \in {0, 1} : Construct(ms \div 1000, ms % 1000, zone, dst)
  \/ /\ ptOdd = {}
     /\ \/ \E sec \in {-1, 1} : AddTime(sec)
        \/ \E ms \in Shifts :
             \/ \E n \in {-ms, ms} : AddMilli(n) \/ TakeMilli(n)
             \/ AddUnsigned(ms) \/ TakeUnsigned(ms)
        \/ \E q \in Points : AddPoint(q) \/ TakePoint(q)
        \/ \E k \in {0, 2} : Multiply(k)
        \/ \E zone \in Zones, dst \in {0, 1} : Rezone(zone, dst)

TimesSpec == TimesInit /\ [][TimesNext]_ptVars

-------------------------------------------------------------------------------
(* Any other time is before this one, after it, or the same; and the distance from
   an earlier time to a later one is how much later it is. *)
Compares(p, q) ==
  /\ Before(p, q) <=> Instant(p) < Instant(q)
  /\ NotAfter(p, q) <=> Instant(p) <= Instant(q)
  /\ Same(p, q) <=> Instant(p) = Instant(q)
Measures(p, q) ==
  ~Before(p, q) =>
    /\ Normal(Distance(p, q)) /\ DiffMilli(p, q) = Instant(p) - Instant(q)
    /\ \A ms \in {0, 500, 999} : Within(p, q, 1, ms) <=> Instant(p) - Instant(q) <= 1000 + ms

(***************************************************************************)
(* However a time was computed, in whatever zones, it is the one that the     *)
(* numbers say, and it is compared with others as they are; unless it was      *)
(* computed in one of the ways that ptOdd tells apart, which the code gets     *)
(* wrong: daylight saving time, a negative number of milliseconds, a borrow   *)
(* from the seconds that subtractMS() adds or that is more than one, a sum or  *)
(* a product outside of GMT, and an earlier time less a later one.            *)
(***************************************************************************)
TimesRight ==
  ptOdd = {} =>
    /\ Normal(pt) /\ Instant(pt) = exact
    /\ \A q \in Points : Compares(pt, q) /\ Measures(pt, q)
===============================================================================
