------------------------------ MODULE LibraryProofs ------------------------------
(***************************************************************************)
(* FiguresRight, EveryoneTold and ContentsRight of the library, for all values *)
(* of its constants, from what each part keeps true; of those that store      *)
(* something ContentsProofs has shown what.  The parts share no state: a step of *)
(* one leaves the invariants of the others alone.                            *)
(***************************************************************************)
EXTENDS Library, ContentsProofs

-------------------------------------------------------------------------------
(***************************************************************************)
(* Points in time.  The invariant says what an instant is; that times are     *)
(* compared and measured by it is true of any two of them.                    *)
(***************************************************************************)
Right(p, instant) == p \in Point /\ Normal(p) /\ Instant(p) = instant

TimesInv == pt \in Point /\ exact \in Int /\ (ptOdd = {} => Right(pt, exact))

-------------------------------------------------------------------------------
(***************************************************************************)
(* What an instant is, of a time that is not in daylight saving time.        *)
(***************************************************************************)
LEMMA InstantValue ==
  ASSUME NEW p \in Point
  PROVE  /\ Gmt(p).time = p.time + p.zone * 60
         /\ Instant(p) = (p.time + p.zone * 60) * 1000 + p.milli
         /\ Instant(p) \in Int
BY DEF Instant, Gmt, New, Point

LEMMA Fields ==
  ASSUME NEW p \in Point
  PROVE  p.time \in Int /\ p.milli \in Nat /\ p.zone \in Int
BY DEF Point

(* Two points in one zone are as far apart as their seconds and milliseconds. *)
LEMMA Moved ==
  ASSUME NEW p \in Point, NEW q \in Point, NEW n \in Int,
         q.zone = p.zone, q.milli < 1000,
         q.time * 1000 + q.milli = p.time * 1000 + p.milli + n
  PROVE  Right(q, Instant(p) + n)
<1>1. /\ p.time \in Int /\ p.milli \in Int /\ p.zone \in Int
      /\ q.time \in Int /\ q.milli \in Int
  BY Fields
<1>2. Instant(p) = (p.time + p.zone * 60) * 1000 + p.milli
  BY InstantValue
<1>3. Instant(q) = (q.time + p.zone * 60) * 1000 + q.milli
  BY InstantValue
<1>4. Instant(q) = Instant(p) + n
  BY <1>1, <1>2, <1>3
<1> QED
  BY <1>4 DEF Right, Normal

-------------------------------------------------------------------------------
(***************************************************************************)
(* Each operation, on any point in time.                                    *)
(***************************************************************************)
LEMMA AddSecondsRight ==
  ASSUME NEW p \in Point, NEW t \in Int
  PROVE  /\ AddSeconds(p, t) \in Point
         /\ Normal(p) => Right(AddSeconds(p, t), Instant(p) + t * 1000)
<1> DEFINE q == AddSeconds(p, t)
<1>1. p.time \in Int /\ p.milli \in Nat /\ (p.milli % 65536) \in Nat
  BY Fields
<1>2. /\ q \in Point
      /\ q.time = p.time + t /\ q.milli = p.milli % 65536 /\ q.zone = p.zone
  BY <1>1 DEF AddSeconds, Became, Point
<1> HIDE DEF q
<1>3. Normal(p) => q.milli = p.milli /\ q.milli < 1000
  BY <1>1, <1>2 DEF Normal
<1>4. t * 1000 \in Int
  OBVIOUS
<1>5. Normal(p) => q.time * 1000 + q.milli = p.time * 1000 + p.milli + t * 1000
  BY <1>1, <1>2, <1>3
<1>6. Normal(p) => Right(q, Instant(p) + t * 1000)
  BY <1>2, <1>3, <1>4, <1>5, Moved
<1> QED
  BY <1>2, <1>6 DEF q

LEMMA PlusMilliRight ==
  ASSUME NEW p \in Point, NEW ms \in Int
  PROVE  /\ PlusMilli(p, ms) \in Point
         /\ ms + p.milli >= 0 => Right(PlusMilli(p, ms), Instant(p) + ms)
<1> DEFINE q == PlusMilli(p, ms)
           n == ms + p.milli
           sec == Quotient(n, 1000)
           rest == Remainder(n, 1000)
<1>1. p.time \in Int /\ p.milli \in Nat
  BY Fields
<1>2. n \in Int /\ n = ms + p.milli
  BY <1>1
<1>3. /\ q.time = p.time + sec /\ q.milli = rest % 65536 /\ q.zone = p.zone
      /\ q = [time |-> p.time + sec, milli |-> rest % 65536, zone |-> p.zone, dst |-> p.dst]
  BY DEF PlusMilli, Became
<1> HIDE DEF q, n
<1>4. /\ sec \in Int /\ rest \in Int
      /\ n >= 0 => sec * 1000 + rest = n /\ 0 <= rest /\ rest < 1000
  BY <1>2 DEF Quotient, Remainder, Magnitude
<1> HIDE DEF sec, rest
<1>5. (rest % 65536) \in Nat /\ (0 <= rest /\ rest < 1000 => rest % 65536 = rest)
  BY <1>4
<1>6. q \in Point
  BY <1>1, <1>3, <1>4, <1>5 DEF Point
<1>7. ASSUME n >= 0
      PROVE  Right(q, Instant(p) + ms)
  <2>1. q.milli = rest /\ q.milli < 1000
    BY <1>3, <1>4, <1>5, <1>7
  <2>2. sec * 1000 + rest = ms + p.milli
    BY <1>2, <1>4, <1>7
  <2>3. (p.time + sec) * 1000 + rest = p.time * 1000 + p.milli + ms
    BY <1>1, <1>4, <2>2
  <2>4. q.time * 1000 + q.milli = p.time * 1000 + p.milli + ms
    BY <1>3, <2>1, <2>3
  <2> QED
    BY <1>3, <1>6, <2>1, <2>4, Moved
<1> QED
  BY <1>2, <1>6, <1>7 DEF q

LEMMA MinusMilliRight ==
  ASSUME NEW p \in Point, NEW ms \in Int
  PROVE  /\ MinusMilli(p, ms) \in Point
         /\ ms \in p.milli - 999 .. p.milli + 1000 =>
              Right(MinusMilli(p, ms), Instant(p) - ms)
<1> DEFINE q == MinusMilli(p, ms)
           sec == IF ms > p.milli THEN -1 ELSE 0
           rest == IF ms > p.milli THEN p.milli + 1000 - ms ELSE p.milli - ms
<1>1. p.time \in Int /\ p.milli \in Nat
  BY Fields
<1>2. /\ q.time = p.time + sec /\ q.milli = rest % 65536 /\ q.zone = p.zone
      /\ q = [time |-> p.time + sec, milli |-> rest % 65536, zone |-> p.zone, dst |-> p.dst]
  BY <1>1 DEF MinusMilli, Became
<1> HIDE DEF q
<1>3. /\ sec \in Int /\ rest \in Int /\ sec * 1000 + rest = p.milli - ms
      /\ ms \in p.milli - 999 .. p.milli + 1000 => 0 <= rest /\ rest < 1000
  BY <1>1
<1> HIDE DEF sec, rest
<1>4. (rest % 65536) \in Nat /\ (0 <= rest /\ rest < 1000 => rest % 65536 = rest)
  BY <1>3
<1>5. q \in Point
  BY <1>1, <1>2, <1>3, <1>4 DEF Point
<1>6. ASSUME ms \in p.milli - 999 .. p.milli + 1000
      PROVE  Right(q, Instant(p) - ms)
  <2>1. q.milli = rest /\ q.milli < 1000
    BY <1>2, <1>3, <1>4, <1>6
  <2>2. (p.time + sec) * 1000 + rest = p.time * 1000 + p.milli + (-ms)
    BY <1>1, <1>3
  <2>3. q.time * 1000 + q.milli = p.time * 1000 + p.milli + (-ms)
    BY <1>2, <2>1, <2>2
  <2>4. -ms \in Int /\ Instant(p) + (-ms) = Instant(p) - ms
    BY InstantValue
  <2> QED
    BY <1>2, <1>5, <2>1, <2>3, <2>4, Moved
<1> QED
  BY <1>5, <1>6 DEF q

LEMMA AddMSRight ==
  ASSUME NEW p \in Point, NEW ms \in Nat
  PROVE  AddMS(p, ms) \in Point /\ Right(AddMS(p, ms), Instant(p) + ms)
<1> DEFINE q == AddMS(p, ms)
           n == ms + p.milli
           sec == n \div 1000
           rest == n % 1000
<1>1. p.time \in Int /\ p.milli \in Nat /\ n \in Nat /\ n = ms + p.milli
  BY Fields
<1>2. /\ q.time = p.time + sec /\ q.milli = rest % 65536 /\ q.zone = p.zone
      /\ q = [time |-> p.time + sec, milli |-> rest % 65536, zone |-> p.zone, dst |-> p.dst]
  BY DEF AddMS, Became
<1> HIDE DEF q, n
<1>3. /\ sec \in Int /\ rest \in Int /\ sec * 1000 + rest = n
      /\ 0 <= rest /\ rest < 1000
  BY <1>1
<1> HIDE DEF sec, rest
<1>4. rest \in Nat /\ rest % 65536 = rest
  BY <1>3
<1>5. q \in Point /\ q.milli = rest /\ q.milli < 1000
  BY <1>1, <1>2, <1>3, <1>4 DEF Point
<1>6. (p.time + sec) * 1000 + rest = p.time * 1000 + p.milli + ms
  BY <1>1, <1>3
<1>7. q.time * 1000 + q.milli = p.time * 1000 + p.milli + ms
  BY <1>2, <1>5, <1>6
<1>8. Right(q, Instant(p) + ms)
  BY <1>2, <1>5, <1>7, Moved
<1> QED
  BY <1>5, <1>8 DEF q

LEMMA SubtractMSRight ==
  ASSUME NEW p \in Point, NEW ms \in Nat
  PROVE  /\ SubtractMS(p, ms) \in Point
         /\ Normal(p) /\ (ms % 1000) <= p.milli => Right(SubtractMS(p, ms), Instant(p) - ms)
<1> DEFINE q == SubtractMS(p, ms)
           borrows == (ms % 1000) > p.milli
           sec == -((ms \div 1000) - IF borrows THEN 1 ELSE 0)
           rest == p.milli + (IF borrows THEN 1000 ELSE 0) - (ms % 1000)
<1>1. p.time \in Int /\ p.milli \in Nat
  BY Fields
<1>2. /\ (ms % 1000) \in Int /\ (ms \div 1000) \in Int
      /\ (ms \div 1000) * 1000 + (ms % 1000) = ms /\ 0 <= ms % 1000
  OBVIOUS
<1>3. sec \in Int /\ rest \in Int
  BY <1>1, <1>2
<1>4. p.time - ((ms \div 1000) - IF borrows THEN 1 ELSE 0) = p.time + sec
  BY <1>1, <1>2
<1>5. /\ q.time = p.time + sec /\ q.milli = rest % 65536 /\ q.zone = p.zone
      /\ q = [time |-> p.time + sec, milli |-> rest % 65536, zone |-> p.zone, dst |-> p.dst]
  BY <1>4 DEF SubtractMS, Became
<1>6. ASSUME Normal(p), (ms % 1000) <= p.milli
      PROVE  sec * 1000 + rest = p.milli - ms /\ 0 <= rest /\ rest < 1000
  BY <1>1, <1>2, <1>6 DEF Normal
<1> HIDE DEF q, sec, rest
<1>7. (rest % 65536) \in Nat /\ (0 <= rest /\ rest < 1000 => rest % 65536 = rest)
  BY <1>3
<1>8. q \in Point
  BY <1>1, <1>3, <1>5, <1>7 DEF Point
<1>9. ASSUME Normal(p), (ms % 1000) <= p.milli
      PROVE  Right(q, Instant(p) - ms)
  <2>1. sec * 1000 + rest = p.milli - ms /\ 0 <= rest /\ rest < 1000
    BY <1>6, <1>9
  <2>2. q.milli = rest /\ q.milli < 1000
    BY <1>3, <1>5, <1>7, <2>1
  <2>3. (p.time + sec) * 1000 + rest = p.time * 1000 + p.milli + (-ms)
    BY <1>1, <1>3, <2>1
  <2>4. q.time * 1000 + q.milli = p.time * 1000 + p.milli + (-ms)
    BY <1>5, <2>2, <2>3
  <2>5. -ms \in Int /\ Instant(p) + (-ms) = Instant(p) - ms
    BY InstantValue
  <2> QED
    BY <1>5, <1>8, <2>2, <2>4, <2>5, Moved
<1> QED
  BY <1>8, <1>9 DEF q

LEMMA NewRight ==
  ASSUME NEW t \in Int, NEW m \in Nat, NEW zone \in Int, NEW dst \in {0, 1}
  PROVE  /\ New(t, m, zone, dst) \in Point
         /\ m < 1000 /\ dst = 0 => Right(New(t, m, zone, dst), t * 1000 + m)
<1> DEFINE q == New(t, m, zone, dst)
<1>1. /\ q \in Point /\ q.milli = m /\ q.zone = zone
      /\ q.time = t - zone * 60 - dst * 3600
  BY DEF New, Point
<1> HIDE DEF q
<1>2. Instant(q) = (q.time + q.zone * 60) * 1000 + q.milli
  BY <1>1, InstantValue
<1>3. dst = 0 => (q.time + q.zone * 60) * 1000 + q.milli = t * 1000 + m
  BY <1>1
<1>4. m < 1000 /\ dst = 0 => Right(q, t * 1000 + m)
  BY <1>1, <1>2, <1>3 DEF Right, Normal
<1> QED
  BY <1>1, <1>4 DEF q

LEMMA SetTzRight ==
  ASSUME NEW p \in Point, NEW zone \in Int, NEW dst \in {0, 1}
  PROVE  /\ SetTz(p, zone, dst) \in Point
         /\ Normal(p) => Right(SetTz(p, zone, dst), Instant(p))
<1> DEFINE q == SetTz(p, zone, dst)
<1>1. p.time \in Int /\ p.milli \in Nat /\ p.zone \in Int
  BY Fields
<1>2. /\ q \in Point /\ q.milli = p.milli /\ q.zone = zone
      /\ q.time = p.time + (p.zone - zone) * 60
  BY <1>1 DEF SetTz, Point
<1> HIDE DEF q
<1>3. Instant(q) = (q.time + q.zone * 60) * 1000 + q.milli
  BY <1>2, InstantValue
<1>4. Instant(p) = (p.time + p.zone * 60) * 1000 + p.milli
  BY InstantValue
<1>5. Instant(q) = Instant(p)
  BY <1>1, <1>2, <1>3, <1>4
<1> QED
  BY <1>2, <1>5 DEF q, Right, Normal

LEMMA PlusPointRight ==
  ASSUME NEW p \in Point, NEW r \in Point
  PROVE  /\ PlusPoint(p, r) \in Point
         /\ r.zone = 0 => Right(PlusPoint(p, r), Instant(p) + Instant(r))
<1> DEFINE q == PlusPoint(p, r)
           sec == (p.milli + r.milli) \div 1000
           rest == (p.milli + r.milli) % 1000
<1>1. p.time \in Int /\ p.milli \in Nat /\ r.time \in Int /\ r.milli \in Nat
  BY Fields
<1>2. /\ q.time = p.time + r.time + sec /\ q.milli = rest % 65536 /\ q.zone = p.zone
      /\ q = [time |-> p.time + r.time + sec, milli |-> rest % 65536, zone |-> p.zone, dst |-> p.dst]
  BY DEF PlusPoint, Became
<1> HIDE DEF q
<1>3. /\ sec \in Int /\ rest \in Int /\ sec * 1000 + rest = p.milli + r.milli
      /\ 0 <= rest /\ rest < 1000
  BY <1>1
<1> HIDE DEF sec, rest
<1>4. rest \in Nat /\ rest % 65536 = rest
  BY <1>3
<1>5. q \in Point /\ q.milli = rest /\ q.milli < 1000
  BY <1>1, <1>2, <1>3, <1>4 DEF Point
<1>6. (p.time + r.time + sec) * 1000 + rest
        = p.time * 1000 + p.milli + (r.time * 1000 + r.milli)
  BY <1>1, <1>3
<1>7. q.time * 1000 + q.milli = p.time * 1000 + p.milli + (r.time * 1000 + r.milli)
  BY <1>2, <1>5, <1>6
<1>8. ASSUME r.zone = 0
      PROVE  Right(q, Instant(p) + Instant(r))
  <2>1. Instant(r) \in Int /\ Instant(r) = (r.time + r.zone * 60) * 1000 + r.milli
    BY InstantValue
  <2>2. r.time * 1000 + r.milli = Instant(r)
    BY <1>1, <1>8, <2>1
  <2>3. q.time * 1000 + q.milli = p.time * 1000 + p.milli + Instant(r)
    BY <1>7, <2>2
  <2> QED
    BY <1>2, <1>5, <2>1, <2>3, Moved
<1> QED
  BY <1>5, <1>8 DEF q

LEMMA ScaledRight ==
  ASSUME NEW p \in Point, NEW k \in {0, 2}
  PROVE  /\ Scaled(p, k) \in Point
         /\ Normal(p) /\ p.zone = 0 /\ p.dst = 0 => Right(Scaled(p, k), Instant(p) * k)
<1> DEFINE q == Scaled(p, k)
           n == p.milli * k
           sec == Quotient(n, 1000)
           rest == Remainder(n, 1000)
<1>1. /\ p.time \in Int /\ p.milli \in Nat /\ p.zone \in Int /\ p.dst \in {0, 1}
      /\ p.time * k \in Int
  BY DEF Point
<1>2. n \in Nat /\ n = p.milli * k
  BY <1>1
<1>3. q = New(p.time * k + sec, rest % 65536, p.zone, p.dst)
  BY DEF Scaled
<1> HIDE DEF q, n
<1>4. /\ sec \in Int /\ rest \in Nat /\ sec * 1000 + rest = n /\ rest < 1000
  BY <1>2 DEF Quotient, Remainder, Magnitude
<1> HIDE DEF sec, rest
<1>5. /\ q = [time |-> p.time * k + sec - p.zone * 60 - p.dst * 3600, milli |-> rest,
              zone |-> p.zone, dst |-> p.dst]
      /\ p.time * k + sec - p.zone * 60 - p.dst * 3600 \in Int
  <2>1. rest % 65536 = rest
    BY <1>4
  <2>2. q = New(p.time * k + sec, rest, p.zone, p.dst)
    BY <1>3, <2>1
  <2> QED
    BY <1>1, <1>4, <2>2 DEF New
<1>6. q \in Point
  BY <1>1, <1>4, <1>5 DEF Point
<1>7. /\ q.time = p.time * k + sec - p.zone * 60 - p.dst * 3600
      /\ q.milli = rest /\ q.zone = p.zone
  BY <1>5
<1>8. ASSUME p.zone = 0, p.dst = 0
      PROVE  Instant(q) = Instant(p) * k
  <2>1. Instant(p) = (p.time + p.zone * 60) * 1000 + p.milli
    BY InstantValue
  <2>2. Instant(q) = (q.time + q.zone * 60) * 1000 + q.milli
    BY <1>6, InstantValue
  <2>3. q.time = p.time * k + sec
    BY <1>1, <1>7, <1>4, <1>8
  <2>4. Instant(q) = (p.time * k + sec) * 1000 + rest
    BY <1>1, <1>7, <1>4, <1>8, <2>2, <2>3
  <2>5. (p.time * k + sec) * 1000 + rest = (p.time * k) * 1000 + p.milli * k
    BY <1>1, <1>2, <1>4
  <2>6. Instant(p) = p.time * 1000 + p.milli
    BY <1>1, <1>8, <2>1
  <2>7. (p.time * k) * 1000 + p.milli * k = (p.time * 1000 + p.milli) * k
    <3>1. CASE k = 0
      BY <1>1, <3>1
    <3>2. CASE k = 2
      BY <1>1, <3>2
    <3> QED
      BY <3>1, <3>2
  <2> QED
    BY <2>4, <2>5, <2>6, <2>7
<1> QED
  BY <1>4, <1>6, <1>7, <1>8 DEF q, Right, Normal

LEMMA DistanceRight ==
  ASSUME NEW p \in Point, NEW r \in Point, Normal(p), Normal(r)
  PROVE  /\ Distance(p, r) \in Point /\ Distance(p, r).milli < 1000
         /\ ~Before(p, r) =>
              Distance(p, r).time * 1000 + Distance(p, r).milli = Instant(p) - Instant(r)
<1> DEFINE gp == Gmt(p).time
           gr == Gmt(r).time
           t == Magnitude(gp - gr)
           m == p.milli - r.milli
           sec == IF m >= 0 THEN t ELSE IF t > 0 THEN t - 1 ELSE 0
           rest == IF m >= 0 THEN m ELSE IF t > 0 THEN 1000 + m ELSE -m
           d == Distance(p, r)
<1>1. /\ p.time \in Int /\ p.milli \in Nat /\ p.zone \in Int
      /\ r.time \in Int /\ r.milli \in Nat /\ r.zone \in Int
      /\ p.milli < 1000 /\ r.milli < 1000
  BY Fields DEF Normal
<1>2. gp \in Int /\ gr \in Int
  BY <1>1, InstantValue
<1>3. Before(p, r) <=> gp < gr \/ (gp = gr /\ p.milli < r.milli)
  BY DEF Before
<1>4. Instant(p) = gp * 1000 + p.milli /\ Instant(r) = gr * 1000 + r.milli
  BY DEF Instant
<1>5. d = New(sec, rest, 0, 0)
  BY DEF Distance
<1> HIDE DEF gp, gr, d
<1>6. t \in Nat /\ (gp >= gr => t = gp - gr)
  BY <1>2 DEF Magnitude
<1> HIDE DEF t
<1>7. sec \in Int /\ rest \in Nat /\ rest < 1000
  BY <1>1, <1>6
<1>8. ~Before(p, r) => sec * 1000 + rest = (gp * 1000 + p.milli) - (gr * 1000 + r.milli)
  BY <1>1, <1>2, <1>3, <1>6
<1> HIDE DEF sec, rest, m
<1>9. d = [time |-> sec, milli |-> rest, zone |-> 0, dst |-> 0]
  BY <1>5, <1>7 DEF New
<1>10. d \in Point /\ d.time = sec /\ d.milli = rest
  BY <1>7, <1>9 DEF Point
<1> QED
  BY <1>4, <1>7, <1>8, <1>10 DEF d

LEMMA MinusPointRight ==
  ASSUME NEW p \in Point, NEW r \in Point, Normal(p), Normal(r)
  PROVE  /\ MinusPoint(p, r) \in Point
         /\ ~Before(p, r) => Right(MinusPoint(p, r), Instant(r))
<1> DEFINE d == Distance(p, r)
           q == MinusPoint(p, r)
           sec == IF d.milli > p.milli THEN p.time - d.time - 1 ELSE p.time - d.time
           rest == IF d.milli > p.milli THEN 1000 - (d.milli - p.milli) ELSE p.milli - d.milli
<1>1. /\ p.time \in Int /\ p.milli \in Nat /\ p.milli < 1000
      /\ d.time \in Int /\ d.milli \in Nat /\ d.milli < 1000
  BY Fields, DistanceRight DEF Normal
<1>2. ~Before(p, r) => d.time * 1000 + d.milli = Instant(p) - Instant(r)
  BY DistanceRight
<1>3. q = Became(p, sec, rest)
  BY DEF MinusPoint
<1> HIDE DEF d, q
<1>4. /\ sec \in Int /\ rest \in Nat /\ rest < 1000
      /\ sec * 1000 + rest = p.time * 1000 + p.milli + (-(d.time * 1000 + d.milli))
  BY <1>1
<1> HIDE DEF sec, rest
<1>5. rest % 65536 = rest
  BY <1>4
<1>6. q = [time |-> sec, milli |-> rest, zone |-> p.zone, dst |-> p.dst]
  BY <1>3, <1>5 DEF Became
<1>7. q \in Point /\ q.time = sec /\ q.milli = rest /\ q.zone = p.zone
  BY <1>4, <1>6 DEF Point
<1>8. Instant(p) \in Int /\ Instant(r) \in Int
  BY InstantValue
<1>9. ASSUME ~Before(p, r)
      PROVE  Right(q, Instant(r))
  <2>1. /\ -(d.time * 1000 + d.milli) \in Int
        /\ Instant(p) + (-(d.time * 1000 + d.milli)) = Instant(r)
    BY <1>1, <1>2, <1>8, <1>9
  <2>2. q.time * 1000 + q.milli = p.time * 1000 + p.milli + (-(d.time * 1000 + d.milli))
    BY <1>4, <1>7
  <2>3. q.milli < 1000
    BY <1>4, <1>7
  <2>4. Right(q, Instant(p) + (-(d.time * 1000 + d.milli)))
    BY <1>7, <2>1, <2>2, <2>3, Moved
  <2> QED
    BY <2>1, <2>4
<1> QED
  BY <1>7, <1>9 DEF q

-------------------------------------------------------------------------------
(***************************************************************************)
(* Any two times that are right are compared and measured as they are.        *)
(***************************************************************************)
LEMMA ComparesRight ==
  ASSUME NEW p \in Point, NEW r \in Point, Normal(p), Normal(r)
  PROVE  Compares(p, r)
<1> DEFINE gp == Gmt(p).time
           gr == Gmt(r).time
<1>1. p.milli \in Nat /\ r.milli \in Nat /\ p.milli < 1000 /\ r.milli < 1000
  BY Fields DEF Normal
<1>2. gp \in Int /\ gr \in Int
  <2>1. /\ p.time \in Int /\ p.zone \in Int
        /\ r.time \in Int /\ r.zone \in Int
    BY Fields
  <2> QED
    BY <2>1, InstantValue
<1>3. Instant(p) = gp * 1000 + p.milli /\ Instant(r) = gr * 1000 + r.milli
  BY DEF Instant
<1>4. /\ Before(p, r) <=> gp < gr \/ (gp = gr /\ p.milli < r.milli)
      /\ NotAfter(p, r) <=> gp < gr \/ (gp = gr /\ p.milli <= r.milli)
      /\ Same(p, r) <=> gp = gr /\ p.milli = r.milli
  BY DEF Before, NotAfter, Same
<1> HIDE DEF gp, gr
<1>5. /\ (gp < gr \/ (gp = gr /\ p.milli < r.milli))
           <=> gp * 1000 + p.milli < gr * 1000 + r.milli
      /\ (gp < gr \/ (gp = gr /\ p.milli <= r.milli))
           <=> gp * 1000 + p.milli <= gr * 1000 + r.milli
      /\ (gp = gr /\ p.milli = r.milli) <=> gp * 1000 + p.milli = gr * 1000 + r.milli
  BY <1>1, <1>2
<1> QED
  BY <1>3, <1>4, <1>5 DEF Compares

LEMMA MeasuresRight ==
  ASSUME NEW p \in Point, NEW r \in Point, Normal(p), Normal(r)
  PROVE  Measures(p, r)
<1> DEFINE d == Distance(p, r)
           n == Instant(p) - Instant(r)
<1>1. d \in Point /\ d.milli < 1000 /\ (~Before(p, r) => d.time * 1000 + d.milli = n)
  BY DistanceRight
<1>2. d.time \in Int /\ d.milli \in Nat /\ n \in Int
  BY <1>1, Fields, InstantValue
<1>3. DiffMilli(p, r) = d.time * 1000 + d.milli
  BY DEF DiffMilli
<1>4. \A ms \in {0, 500, 999} :
        Within(p, r, 1, ms) <=> d.time < 1 \/ (d.time = 1 /\ d.milli <= ms)
  BY DEF Within
<1>5. Normal(d)
  BY <1>1 DEF Normal
<1> HIDE DEF d
<1>6. \A ms \in {0, 500, 999} :
        (d.time < 1 \/ (d.time = 1 /\ d.milli <= ms)) <=> d.time * 1000 + d.milli <= 1000 + ms
  BY <1>1, <1>2
<1>7. ASSUME ~Before(p, r)
      PROVE  /\ Normal(d) /\ DiffMilli(p, r) = n
             /\ \A ms \in {0, 500, 999} : Within(p, r, 1, ms) <=> n <= 1000 + ms
  BY <1>1, <1>3, <1>4, <1>5, <1>6, <1>7
<1> QED
  BY <1>7 DEF Measures, d

-------------------------------------------------------------------------------
LEMMA GivenPoints ==
  ASSUME NEW q \in Points
  PROVE  q \in Point /\ Normal(q)
<1>1. PICK ms \in Shifts, zone \in Zones : q = New(ms \div 1000, ms % 1000, zone, 0)
  BY DEF Points
<1>2. ms \in Nat /\ zone \in Int
  BY TimesAssumption
<1>3. (ms \div 1000) \in Int /\ (ms % 1000) \in Nat /\ ms % 1000 < 1000
  BY <1>2
<1> QED
  BY <1>1, <1>2, <1>3 DEF New, Point, Normal

LEMMA TimesInvInit == TimesInit => TimesInv
<1>1. ASSUME TimesInit
      PROVE  Right(pt, 0)
  BY <1>1 DEF TimesInit, New, Point, Right, Normal, Instant, Gmt
<1> QED
  BY <1>1 DEF TimesInit, TimesInv, Right

(* A step keeps the invariant if it gives a point, and the right one or an odd one. *)
LEMMA Given ==
  ASSUME pt' \in Point, exact' \in Int, ptOdd' = {} => Right(pt', exact')
  PROVE  TimesInv'
<1>1. Right(pt, exact)' <=> Right(pt', exact')
  BY DEF Right, Normal, Instant, Gmt, New
<1> QED
  BY <1>1 DEF TimesInv

LEMMA TimesInvStep == TimesInv /\ [TimesNext]_ptVars => TimesInv'
<1> SUFFICES ASSUME TimesInv, [TimesNext]_ptVars
             PROVE  TimesInv'
  OBVIOUS
<1>1. CASE UNCHANGED ptVars
  BY <1>1 DEF ptVars, TimesInv, Right, Normal, Instant, Gmt, New, Point
<1>2. ASSUME NEW ms \in Shifts, NEW zone \in Zones, NEW dst \in {0, 1},
             Construct(ms \div 1000, ms % 1000, zone, dst)
      PROVE  TimesInv'
  <2>1. ms \in Nat /\ zone \in Int
    BY TimesAssumption
  <2>2. (ms \div 1000) \in Int /\ (ms % 1000) \in Nat /\ ms % 1000 < 1000
    BY <2>1
  <2>3. PICK sec \in Int, rest \in Nat : rest < 1000 /\ Construct(sec, rest, zone, dst)
    BY <1>2, <2>2
  <2>4. /\ pt' = New(sec, rest, zone, dst) /\ exact' = sec * 1000 + rest /\ exact' \in Int
        /\ ptOdd' = {} => dst = 0
    BY <2>3, TimesAssumption DEF Construct, Computes
  <2>5. /\ New(sec, rest, zone, dst) \in Point
        /\ rest < 1000 /\ dst = 0 => Right(New(sec, rest, zone, dst), sec * 1000 + rest)
    BY <2>1, NewRight
  <2> QED
    BY <2>3, <2>4, <2>5, Given
<1>3. ASSUME ptOdd = {}
      PROVE  /\ pt \in Point /\ Normal(pt) /\ pt.milli \in Nat /\ pt.milli < 1000
             /\ exact = Instant(pt) /\ Right(pt, exact)
  BY <1>3, Fields DEF TimesInv, Right, Normal
<1>4. ASSUME ptOdd = {}, NEW sec \in {-1, 1}, AddTime(sec)
      PROVE  TimesInv'
  <2>1. /\ pt' = AddSeconds(pt, sec) /\ exact' = exact + sec * 1000 /\ exact' \in Int
    BY <1>4, TimesAssumption DEF AddTime, Computes
  <2>2. /\ AddSeconds(pt, sec) \in Point
        /\ Right(AddSeconds(pt, sec), exact + sec * 1000)
    BY <1>3, <1>4, AddSecondsRight
  <2> QED
    BY <2>1, <2>2, Given
<1>5. ASSUME ptOdd = {}, NEW n \in Int, AddMilli(n)
      PROVE  TimesInv'
  <2>1. /\ pt' = PlusMilli(pt, n) /\ exact' = exact + n /\ exact' \in Int
        /\ ptOdd' = {} => (n + pt.milli >= 0)
    BY <1>5, TimesAssumption DEF AddMilli, Computes
  <2>2. /\ PlusMilli(pt, n) \in Point
        /\ (n + pt.milli >= 0) => Right(PlusMilli(pt, n), exact + n)
    BY <1>3, <1>5, PlusMilliRight
  <2> QED
    BY <2>1, <2>2, Given
<1>6. ASSUME ptOdd = {}, NEW n \in Int, TakeMilli(n)
      PROVE  TimesInv'
  <2>1. /\ pt' = MinusMilli(pt, n) /\ exact' = exact - n /\ exact' \in Int
        /\ ptOdd' = {} => (n \in pt.milli - 999 .. pt.milli + 1000)
    BY <1>6, TimesAssumption DEF TakeMilli, Computes
  <2>2. /\ MinusMilli(pt, n) \in Point
        /\ (n \in pt.milli - 999 .. pt.milli + 1000) => Right(MinusMilli(pt, n), exact - n)
    BY <1>3, <1>6, MinusMilliRight
  <2> QED
    BY <2>1, <2>2, Given
<1>7. ASSUME ptOdd = {}, NEW ms \in Nat, AddUnsigned(ms)
      PROVE  TimesInv'
  <2>1. /\ pt' = AddMS(pt, ms) /\ exact' = exact + ms /\ exact' \in Int
    BY <1>7, TimesAssumption DEF AddUnsigned, Computes
  <2>2. /\ AddMS(pt, ms) \in Point
        /\ Right(AddMS(pt, ms), exact + ms)
    BY <1>3, <1>7, AddMSRight
  <2> QED
    BY <2>1, <2>2, Given
<1>8. ASSUME ptOdd = {}, NEW ms \in Nat, TakeUnsigned(ms)
      PROVE  TimesInv'
  <2>1. /\ pt' = SubtractMS(pt, ms) /\ exact' = exact - ms /\ exact' \in Int
        /\ ptOdd' = {} => ((ms % 1000) <= pt.milli)
    BY <1>8, TimesAssumption DEF TakeUnsigned, Computes
  <2>2. /\ SubtractMS(pt, ms) \in Point
        /\ ((ms % 1000) <= pt.milli) => Right(SubtractMS(pt, ms), exact - ms)
    BY <1>3, <1>8, SubtractMSRight
  <2> QED
    BY <2>1, <2>2, Given
<1>9. ASSUME ptOdd = {}, NEW q \in Points, AddPoint(q)
      PROVE  TimesInv'
  <2>1. /\ pt' = PlusPoint(pt, q) /\ exact' = exact + Instant(q) /\ exact' \in Int
        /\ ptOdd' = {} => (q.zone = 0)
    BY <1>9, TimesAssumption DEF AddPoint, Computes
  <2>2. /\ PlusPoint(pt, q) \in Point
        /\ (q.zone = 0) => Right(PlusPoint(pt, q), exact + Instant(q))
    BY <1>3, <1>9, GivenPoints, PlusPointRight
  <2> QED
    BY <2>1, <2>2, Given
<1>10. ASSUME ptOdd = {}, NEW q \in Points, TakePoint(q)
       PROVE  TimesInv'
  <2>1. /\ pt' = MinusPoint(pt, q) /\ exact' = Instant(q) /\ exact' \in Int
        /\ ptOdd' = {} => (~Before(pt, q))
    BY <1>10, TimesAssumption DEF TakePoint, Computes
  <2>2. /\ MinusPoint(pt, q) \in Point
        /\ (~Before(pt, q)) => Right(MinusPoint(pt, q), Instant(q))
    BY <1>3, <1>10, GivenPoints, MinusPointRight
  <2> QED
    BY <2>1, <2>2, Given
<1>11. ASSUME ptOdd = {}, NEW k \in {0, 2}, Multiply(k)
       PROVE  TimesInv'
  <2>1. /\ pt' = Scaled(pt, k) /\ exact' = exact * k /\ exact' \in Int
        /\ ptOdd' = {} => (pt.zone = 0 /\ pt.dst = 0)
    BY <1>11, TimesAssumption DEF Multiply, Computes
  <2>2. /\ Scaled(pt, k) \in Point
        /\ (pt.zone = 0 /\ pt.dst = 0) => Right(Scaled(pt, k), exact * k)
    BY <1>3, <1>11, ScaledRight
  <2> QED
    BY <2>1, <2>2, Given
<1>12. ASSUME ptOdd = {}, NEW zone \in Zones, NEW dst \in {0, 1}, Rezone(zone, dst)
       PROVE  TimesInv'
  <2>1. /\ pt' = SetTz(pt, zone, dst) /\ exact' = exact /\ exact' \in Int
    BY <1>12, TimesAssumption DEF Rezone, Computes
  <2>2. /\ SetTz(pt, zone, dst) \in Point
        /\ Right(SetTz(pt, zone, dst), exact)
    BY <1>3, <1>12, TimesAssumption, SetTzRight
  <2> QED
    BY <2>1, <2>2, Given
<1>13. \A ms \in Shifts : ms \in Nat /\ ms \in Int /\ -ms \in Int
  BY TimesAssumption
<1> QED
  BY <1>1, <1>2, <1>4, <1>5, <1>6, <1>7, <1>8, <1>9, <1>10, <1>11, <1>12, <1>13 DEF TimesNext

-------------------------------------------------------------------------------
(***************************************************************************)
(* Sets of one size.                                                        *)
(***************************************************************************)
LEMMA SameSize ==
  ASSUME NEW S, NEW T, IsFiniteSet(S), NEW f \in [S -> T],
         \A x, y \in S : f[x] = f[y] => x = y,
         \A y \in T : \E x \in S : f[x] = y
  PROVE  IsFiniteSet(T) /\ Cardinality(T) = Cardinality(S)
<1>1. f \in Bijection(S, T)
  BY Fun_IsBij
<1>2. ExistsBijection(S, T)
  BY <1>1 DEF ExistsBijection
<1> QED
  BY <1>2, FS_Bijection

-------------------------------------------------------------------------------
(***************************************************************************)
(* Vectors.  How often a value is in a vector is how often it is in its       *)
(* parts, and each operation puts parts together.                            *)
(***************************************************************************)
Where(s, v) == {i \in DOMAIN s : s[i] = v}

(* The innermost, and those around it. *)
LEMMA LastFront ==
  ASSUME NEW S, NEW s \in Seq(S), s # <<>>
  PROVE  /\ Len(s) \in Nat \ {0} /\ Last(s) = s[Len(s)] /\ Last(s) \in S
         /\ Front(s) \in Seq(S) /\ Len(Front(s)) = Len(s) - 1
         /\ \A i \in 1 .. Len(s) - 1 : Front(s)[i] = s[i]
<1>1. Len(s) \in Nat \ {0}
  BY LenProperties, EmptySeq
<1>2. PICK n : n \in Nat /\ n = Len(s) - 1 /\ n <= Len(s) /\ 1 <= n + 1
  <2>1. Len(s) - 1 \in Nat /\ Len(s) - 1 <= Len(s) /\ 1 <= (Len(s) - 1) + 1
    BY <1>1
  <2> QED
    BY <2>1
<1>3. Last(s) = s[Len(s)] /\ Last(s) \in S
  BY <1>1, ElementOfSeq DEF Last
<1>4. Front(s) = SubSeq(s, 1, n)
  BY <1>2 DEF Front
<1>5. SubSeq(s, 1, n) \in Seq(S) /\ Len(SubSeq(s, 1, n)) = n
  BY <1>2, Subsequence
<1>6. \A i \in 1 .. n : SubSeq(s, 1, n)[i] = s[i]
  <2>1. \A i \in 1 .. n : s[i] \in S
    <3>1. \A i \in 1 .. n : i \in 1 .. Len(s)
      BY <1>1, <1>2
    <3> QED
      BY <3>1, ElementOfSeq
  <2>2. \A i \in 1 .. n - 1 + 1 : SubSeq(s, 1, n)[i] = s[1 + i - 1]
    BY <1>2, <2>1, SubSeqProperties
  <2>3. n - 1 + 1 = n /\ \A i \in 1 .. n : 1 + i - 1 = i
    BY <1>2
  <2> QED
    BY <2>2, <2>3
<1> QED
  BY <1>1, <1>2, <1>3, <1>4, <1>5, <1>6

LEMMA SequenceOf ==
  ASSUME NEW S, NEW T, NEW s \in Seq(S), \A i \in 1 .. Len(s) : s[i] \in T
  PROVE  s \in Seq(T)
<1>1. s = [i \in 1 .. Len(s) |-> s[i]] /\ Len(s) \in Nat
  BY LenProperties
<1>2. s \in [1 .. Len(s) -> T]
  BY <1>1
<1> QED
  BY <1>1, <1>2

LEMMA CountIs ==
  ASSUME NEW s \in Seq(Values), NEW v \in Values
  PROVE  /\ IsFiniteSet(Where(s, v))
         /\ Count(s)[v] = Cardinality(Where(s, v)) /\ Count(s)[v] \in Nat
<1>1. DOMAIN s = 1 .. Len(s) /\ Len(s) \in Nat
  BY LenProperties
<1>2. IsFiniteSet(1 .. Len(s))
  BY <1>1, FS_Interval
<1>3. Where(s, v) \in SUBSET (1 .. Len(s))
  BY <1>1 DEF Where
<1>4. IsFiniteSet(Where(s, v))
  BY <1>2, <1>3, FS_Subset
<1>5. Cardinality(Where(s, v)) \in Nat
  BY <1>4, FS_CardinalityType
<1>6. Count(s)[v] = Cardinality(Where(s, v))
  BY DEF Count, Where
<1> QED
  BY <1>4, <1>5, <1>6

LEMMA CountConcat ==
  ASSUME NEW s \in Seq(Values), NEW t \in Seq(Values), NEW v \in Values
  PROVE  s \o t \in Seq(Values) /\ Count(s \o t)[v] = Count(s)[v] + Count(t)[v]
<1> DEFINE n == Len(s)
           m == Len(t)
           u == s \o t
           A == Where(s, v)
           B == Where(t, v)
           C == {i \in Where(u, v) : i > n}
<1>1. /\ u \in Seq(Values) /\ Len(u) = n + m
      /\ \A i \in 1 .. n + m : u[i] = IF i <= n THEN s[i] ELSE t[i - n]
  BY ConcatProperties
<1>2. /\ n \in Nat /\ m \in Nat
      /\ DOMAIN s = 1 .. n /\ DOMAIN t = 1 .. m /\ DOMAIN u = 1 .. n + m
  BY <1>1, LenProperties
<1>3. IsFiniteSet(A) /\ IsFiniteSet(B)
  BY CountIs
<1> HIDE DEF u, n, m
<1>4. Where(u, v) = A \cup C
  BY <1>1, <1>2 DEF Where
<1>5. A \cap C = {}
  BY <1>2 DEF Where
<1>6. PICK f : f = [i \in B |-> i + n]
  OBVIOUS
<1>7. f \in [B -> C] /\ \A i, j \in B : f[i] = f[j] => i = j
  <2>1. \A i \in B : f[i] = i + n /\ i \in 1 .. m /\ t[i] = v
    BY <1>2, <1>6 DEF Where
  <2>2. ASSUME NEW i \in B PROVE f[i] \in C
    <3>1. i \in Nat /\ i + n \in 1 .. n + m /\ ~(i + n <= n) /\ (i + n) - n = i /\ i + n > n
      BY <1>2, <2>1
    <3>2. u[i + n] = v
      BY <1>1, <2>1, <3>1
    <3> QED
      BY <1>2, <2>1, <3>1, <3>2 DEF Where
  <2> QED
    BY <1>2, <1>6, <2>1, <2>2
<1>8. \A k \in C : \E i \in B : f[i] = k
  <2> SUFFICES ASSUME NEW k \in C
               PROVE  \E i \in B : f[i] = k
    OBVIOUS
  <2>1. k \in 1 .. n + m /\ k > n /\ u[k] = v
    BY <1>2 DEF Where
  <2>2. k - n \in 1 .. m /\ t[k - n] = v
    BY <1>1, <1>2, <2>1
  <2>3. k - n \in B /\ f[k - n] = k
    BY <1>2, <1>6, <2>1, <2>2 DEF Where
  <2> QED
    BY <2>3
<1>9. IsFiniteSet(C) /\ Cardinality(C) = Cardinality(B)
  <2> HIDE DEF B, C
  <2> QED
    BY <1>3, <1>7, <1>8, SameSize
<1>10. Cardinality(A \cup C) = Cardinality(A) + Cardinality(C) - Cardinality(A \cap C)
  BY <1>3, <1>9, FS_Union
<1>11. Cardinality(A \cap C) = 0
  BY <1>5, FS_EmptySet
<1>12. /\ Count(s)[v] = Cardinality(A) /\ Count(t)[v] = Cardinality(B)
       /\ Count(s)[v] \in Nat /\ Count(t)[v] \in Nat
  BY CountIs
<1>13. Count(u)[v] = Cardinality(Where(u, v))
  BY <1>1, CountIs
<1>14. Count(u)[v] = Count(s)[v] + Count(t)[v]
  <2> HIDE DEF A, B, C
  <2> QED
    BY <1>4, <1>9, <1>10, <1>11, <1>12, <1>13
<1> QED
  BY <1>1, <1>14 DEF u

LEMMA CountOne ==
  ASSUME NEW x \in Values, NEW v \in Values
  PROVE  <<x>> \in Seq(Values) /\ Count(<<x>>)[v] = IF v = x THEN 1 ELSE 0
<1>1. <<x>> \in Seq(Values)
  OBVIOUS
<1>2. Count(<<x>>)[v] = Cardinality(Where(<<x>>, v))
  BY <1>1, CountIs
<1>3. v = x => Where(<<x>>, v) = {1}
  BY DEF Where
<1>4. v # x => Where(<<x>>, v) = {}
  BY DEF Where
<1> QED
  BY <1>1, <1>2, <1>3, <1>4, FS_EmptySet, FS_Singleton

LEMMA CountNone ==
  ASSUME NEW v \in Values
  PROVE  <<>> \in Seq(Values) /\ Count(<<>>)[v] = 0
<1>1. <<>> \in Seq(Values)
  OBVIOUS
<1>2. Count(<<>>)[v] = Cardinality(Where(<<>>, v))
  BY <1>1, CountIs
<1>3. Where(<<>>, v) = {}
  BY DEF Where
<1> QED
  BY <1>1, <1>2, <1>3, FS_EmptySet

(* A vector is what is before a place and what is behind. *)
LEMMA Cut ==
  ASSUME NEW s \in Seq(Values), NEW p \in 1 .. Len(s) + 1
  PROVE  /\ SubSeq(s, 1, p - 1) \in Seq(Values) /\ SubSeq(s, p, Len(s)) \in Seq(Values)
         /\ Len(SubSeq(s, 1, p - 1)) = p - 1 /\ Len(SubSeq(s, p, Len(s))) = Len(s) - p + 1
         /\ SubSeq(s, 1, p - 1) \o SubSeq(s, p, Len(s)) = s
<1>1. Len(s) \in Nat /\ p \in Nat /\ 1 <= p /\ p <= Len(s) + 1 /\ p - 1 \in Nat
  BY LenProperties
<1>2. /\ SubSeq(s, 1, p - 1) \in Seq(Values)
      /\ Len(SubSeq(s, 1, p - 1)) = p - 1
  <2>1. PICK k \in Nat : k = p - 1
    BY <1>1
  <2>2. 1 <= k + 1 /\ k <= Len(s) /\ k - 1 + 1 = k
    BY <1>1, <2>1
  <2>3. /\ SubSeq(s, 1, k) \in Seq(Values)
        /\ Len(SubSeq(s, 1, k)) = k - 1 + 1
    BY <2>2, Subsequence
  <2> QED
    BY <2>1, <2>2, <2>3
<1>3. /\ SubSeq(s, p, Len(s)) \in Seq(Values)
      /\ Len(SubSeq(s, p, Len(s))) = Len(s) - p + 1
  BY <1>1, Subsequence
<1>4. SubSeq(s, 1, p - 1) \o SubSeq(s, p, Len(s)) = s
  <2>1. PICK k \in Nat : k = p - 1
    BY <1>1
  <2>2. 1 \in 1 .. Len(s) + 1 /\ k \in 1 - 1 .. Len(s) /\ Len(s) \in k .. Len(s) /\ k + 1 = p
    BY <1>1, <2>1
  <2>3. SubSeq(s, 1, k) \o SubSeq(s, k + 1, Len(s)) = SubSeq(s, 1, Len(s))
    BY <2>2, ConcatAdjacentSubSeq
  <2>4. SubSeq(s, 1, Len(s)) = s
    BY SubSeqFull
  <2> QED
    BY <2>1, <2>2, <2>3, <2>4
<1> QED
  BY <1>1, <1>2, <1>3, <1>4

(* What a vector will be without, and the watcher was told of, as the erasures under way
   have it: c[i][v] is how often the first i of them have told of v. *)
Pending == [how : {"pop", "erase", "range", "clear", "copy"}, f : Nat, l : Nat,
            told : Seq(Values), pushes : Seq(Values)]
Told(es, c) ==
  \A v \in Values :
    /\ c[0][v] = 0 /\ \A i \in 0 .. Len(es) : c[i][v] \in Int
    /\ \A i \in 1 .. Len(es) : c[i][v] = c[i - 1][v] + Count(es[i].told)[v]

(* What was told is at the place of the erasure, which is one. *)
StandsAt(e, s) ==
  /\ Iterates(e) => /\ 1 <= e.f /\ e.f + Len(e.told) <= Len(s) + 1
                    /\ \A i \in 1 .. Len(e.told) : e.told[i] = s[e.f + i - 1]
  /\ e.how = "range" => e.f < e.l /\ e.l <= Len(s) + 1 /\ e.f + Len(e.told) <= e.l
  /\ e.how = "erase" => e.l = e.f + 1 /\ e.l <= Len(s) + 1 /\ Len(e.told) <= 1
  /\ e.how = "clear" => e.f = 1
  /\ e.how = "pop" => e.l = e.f + 1 /\ Len(e.told) <= 1 /\ (e.told = <<>> => e.f \in 1 .. Len(s))
  /\ e.how = "copy" => e.told = <<>> /\ e.pushes # <<>>
Waits(e) == e.told # <<>> \/ e.how = "copy"

(* The erasures es in whose callbacks something goes on that has told of r. *)
Outside(s, es, tally, r) ==
  /\ s \in Seq(Values) /\ es \in Seq(Pending)
  /\ \A i \in 1 .. Len(es) : StandsAt(es[i], s) /\ Waits(es[i])
  /\ tally = [v \in Values |-> tally[v]]
  /\ \E c : /\ Told(es, c)
            /\ \A v \in Values : /\ tally[v] \in Int
                                 /\ tally[v] + c[Len(es)][v] + Count(r)[v] = Count(s)[v]

VecFits(s, es, tally) ==
  /\ es = <<>> => Outside(s, es, tally, <<>>)
  /\ es # <<>> => /\ es \in Seq(Pending) /\ StandsAt(Last(es), s)
                  /\ Outside(s, Front(es), tally, Last(es).told)

VecInv ==
  /\ vecOdd = {"untold"} => vec \in Seq(Values)
  /\ vecOdd = {} => VecFits(vec, vecErasing, vecSeen)

LEMMA FrontAndLast ==
  ASSUME NEW S, NEW s \in Seq(S), s # <<>>
  PROVE  s = Append(Front(s), Last(s))
<1>1. /\ Len(s) \in Nat \ {0} /\ Last(s) = s[Len(s)] /\ Last(s) \in S
      /\ Front(s) \in Seq(S) /\ Len(Front(s)) = Len(s) - 1
      /\ \A i \in 1 .. Len(s) - 1 : Front(s)[i] = s[i]
  BY LastFront
<1>2. PICK t : t = Append(Front(s), Last(s))
  OBVIOUS
<1>3. /\ t \in Seq(S) /\ Len(t) = Len(s) /\ t[Len(s)] = s[Len(s)]
      /\ \A i \in 1 .. Len(s) - 1 : t[i] = Front(s)[i]
  <2>1. /\ Append(Front(s), Last(s)) \in Seq(S)
        /\ Len(Append(Front(s), Last(s))) = Len(Front(s)) + 1
        /\ \A i \in 1 .. Len(Front(s)) : Append(Front(s), Last(s))[i] = Front(s)[i]
        /\ Append(Front(s), Last(s))[Len(Front(s)) + 1] = Last(s)
    BY <1>1, AppendProperties
  <2>2. Len(Front(s)) + 1 = Len(s)
    BY <1>1
  <2> QED
    BY <1>1, <1>2, <2>1, <2>2
<1>4. \A i \in 1 .. Len(s) : t[i] = s[i]
  BY <1>1, <1>3
<1> QED
  BY <1>2, <1>3, <1>4, SeqEqual

LEMMA OfAppended ==
  ASSUME NEW S, NEW s \in Seq(S), NEW e \in S
  PROVE  /\ Append(s, e) \in Seq(S) /\ Append(s, e) # <<>>
         /\ Last(Append(s, e)) = e /\ Front(Append(s, e)) = s
<1>1. PICK t : t = Append(s, e)
  OBVIOUS
<1>2. /\ t \in Seq(S) /\ t # <<>> /\ Len(t) = Len(s) + 1 /\ t[Len(s) + 1] = e
      /\ \A i \in 1 .. Len(s) : t[i] = s[i]
  BY <1>1, AppendProperties
<1>3. Len(s) \in Nat
  BY LenProperties
<1>4. /\ Last(t) = t[Len(t)] /\ Front(t) \in Seq(S) /\ Len(Front(t)) = Len(t) - 1
      /\ \A i \in 1 .. Len(t) - 1 : Front(t)[i] = t[i]
  BY <1>2, LastFront
<1>5. Len(Front(t)) = Len(s) /\ \A i \in 1 .. Len(s) : Front(t)[i] = s[i]
  BY <1>2, <1>3, <1>4
<1>6. Front(t) = s
  BY <1>4, <1>5, SeqEqual
<1> QED
  BY <1>1, <1>2, <1>4, <1>6

(* From inside an erasure to what is around it, and back. *)
LEMMA GoesOutside ==
  ASSUME NEW s, NEW tally, NEW es \in Seq(Pending), es # <<>>, Outside(s, es, tally, <<>>)
  PROVE  StandsAt(Last(es), s) /\ Outside(s, Front(es), tally, Last(es).told)
<1>1. /\ Len(es) \in Nat \ {0} /\ Last(es) = es[Len(es)] /\ Last(es) \in Pending
      /\ Front(es) \in Seq(Pending) /\ Len(Front(es)) = Len(es) - 1
      /\ \A i \in 1 .. Len(es) - 1 : Front(es)[i] = es[i]
  BY LastFront
<1>2. PICK n \in Nat : n + 1 = Len(es)
  BY <1>1
<1>3. PICK c : /\ Told(es, c)
               /\ \A v \in Values : /\ tally[v] \in Int
                                    /\ tally[v] + c[Len(es)][v] + Count(<<>>)[v] = Count(s)[v]
  BY DEF Outside
<1>4. Told(Front(es), c)
  <2>1. \A i \in 1 .. n : i - 1 \in 0 .. n /\ i \in 1 .. n + 1
    BY <1>2
  <2>2. Len(Front(es)) = n
    BY <1>1, <1>2
  <2>3. \A v \in Values : /\ c[0][v] = 0 /\ \A i \in 0 .. n : c[i][v] \in Int
                          /\ \A i \in 1 .. n : c[i][v] = c[i - 1][v] + Count(es[i].told)[v]
    BY <1>2, <1>3 DEF Told
  <2>4. \A i \in 1 .. n : Front(es)[i] = es[i]
    BY <1>1, <1>2
  <2> QED
    BY <2>2, <2>3, <2>4 DEF Told
<1>5. Last(es).told \in Seq(Values)
  BY <1>1 DEF Pending
<1>6. ASSUME NEW v \in Values
      PROVE  tally[v] + c[Len(Front(es))][v] + Count(Last(es).told)[v] = Count(s)[v]
  <2>1. c[n + 1][v] = c[n][v] + Count(Last(es).told)[v] /\ c[n][v] \in Int
    <3>1. n + 1 \in 1 .. Len(es) /\ (n + 1) - 1 = n /\ n \in 0 .. Len(es)
      BY <1>1, <1>2
    <3> QED
      BY <1>1, <1>2, <1>3, <3>1 DEF Told
  <2>2. Count(<<>>)[v] = 0 /\ Count(Last(es).told)[v] \in Nat
    BY <1>5, CountNone, CountIs
  <2>3. tally[v] \in Int /\ tally[v] + c[n + 1][v] + Count(<<>>)[v] = Count(s)[v]
    BY <1>2, <1>3
  <2>4. Len(Front(es)) = n
    BY <1>1, <1>2
  <2> QED
    BY <2>1, <2>2, <2>3, <2>4
<1>7. /\ s \in Seq(Values) /\ tally = [v \in Values |-> tally[v]]
      /\ \A i \in 1 .. Len(es) : StandsAt(es[i], s) /\ Waits(es[i])
  BY DEF Outside
<1>8. StandsAt(Last(es), s) /\ \A i \in 1 .. Len(Front(es)) : StandsAt(Front(es)[i], s) /\ Waits(Front(es)[i])
  BY <1>1, <1>7
<1> QED
  BY <1>1, <1>3, <1>4, <1>6, <1>7, <1>8 DEF Outside

LEMMA GoesInside ==
  ASSUME NEW s, NEW tally, NEW es \in Seq(Pending), NEW e \in Pending,
         StandsAt(e, s), Waits(e), Outside(s, es, tally, e.told)
  PROVE  Outside(s, Append(es, e), tally, <<>>)
<1>1. PICK all, n : all = Append(es, e) /\ n = Len(es)
  OBVIOUS
<1>2. /\ all \in Seq(Pending) /\ n \in Nat /\ Len(all) = n + 1 /\ all[n + 1] = e
      /\ \A i \in 1 .. n : all[i] = es[i]
  BY <1>1, AppendProperties, LenProperties
<1>3. PICK c : /\ Told(es, c)
               /\ \A v \in Values : /\ tally[v] \in Int
                                    /\ tally[v] + c[n][v] + Count(e.told)[v] = Count(s)[v]
  BY <1>1 DEF Outside
<1>4. PICK d : d = [i \in 0 .. n + 1 |-> IF i <= n THEN c[i]
                                         ELSE [v \in Values |-> c[n][v] + Count(e.told)[v]]]
  OBVIOUS
<1>5. /\ \A i \in 0 .. n : d[i] = c[i]
      /\ \A v \in Values : d[n + 1][v] = c[n][v] + Count(e.told)[v]
  BY <1>2, <1>4
<1>6. \A v \in Values : Count(e.told)[v] \in Nat /\ Count(<<>>)[v] = 0
  <2>1. e.told \in Seq(Values)
    BY DEF Pending
  <2> QED
    BY <2>1, CountIs, CountNone
<1>7. \A v \in Values : /\ c[0][v] = 0 /\ \A i \in 0 .. n : c[i][v] \in Int
                        /\ \A i \in 1 .. n : c[i][v] = c[i - 1][v] + Count(es[i].told)[v]
  BY <1>1, <1>3 DEF Told
<1>8. Told(all, d)
  <2> SUFFICES ASSUME NEW v \in Values
               PROVE  /\ d[0][v] = 0 /\ \A i \in 0 .. n + 1 : d[i][v] \in Int
                      /\ \A i \in 1 .. n + 1 : d[i][v] = d[i - 1][v] + Count(all[i].told)[v]
    BY <1>2 DEF Told
  <2>1. d[0][v] = 0
    BY <1>2, <1>5, <1>7
  <2>2. ASSUME NEW i \in 0 .. n + 1
        PROVE  d[i][v] \in Int
    <3>1. CASE i \in 0 .. n
      BY <1>5, <1>7, <3>1
    <3>2. CASE i = n + 1
      <4>1. c[n][v] \in Int
        BY <1>2, <1>7
      <4> QED
        BY <1>5, <1>6, <3>2, <4>1
    <3> QED
      BY <1>2, <3>1, <3>2
  <2>3. ASSUME NEW i \in 1 .. n + 1
        PROVE  d[i][v] = d[i - 1][v] + Count(all[i].told)[v]
    <3>1. CASE i \in 1 .. n
      <4>1. i \in 0 .. n /\ i - 1 \in 0 .. n
        BY <1>2, <3>1
      <4> QED
        BY <1>2, <1>5, <1>7, <3>1, <4>1
    <3>2. CASE i = n + 1
      <4>1. i - 1 = n /\ n \in 0 .. n
        BY <1>2, <3>2
      <4> QED
        BY <1>2, <1>5, <3>2, <4>1
    <3> QED
      BY <1>2, <3>1, <3>2
  <2> QED
    BY <2>1, <2>2, <2>3
<1>9. ASSUME NEW v \in Values
      PROVE  tally[v] \in Int /\ tally[v] + d[Len(all)][v] + Count(<<>>)[v] = Count(s)[v]
  <2>1. d[Len(all)][v] = c[n][v] + Count(e.told)[v] /\ c[n][v] \in Int
    BY <1>2, <1>5, <1>7
  <2> QED
    BY <1>3, <1>6, <2>1
<1>10. \A i \in 1 .. Len(all) : StandsAt(all[i], s) /\ Waits(all[i])
  <2>1. \A i \in 1 .. n : StandsAt(es[i], s) /\ Waits(es[i])
    BY <1>1 DEF Outside
  <2> QED
    BY <1>2, <2>1
<1>11. s \in Seq(Values) /\ tally = [v \in Values |-> tally[v]]
  BY DEF Outside
<1> QED
  BY <1>1, <1>2, <1>8, <1>9, <1>10, <1>11 DEF Outside

(* An erasure is left, begun, or goes on. *)
LEMMA FitsOutside ==
  ASSUME NEW s, NEW tally, NEW es, Outside(s, es, tally, <<>>)
  PROVE  VecFits(s, es, tally)
<1>1. es \in Seq(Pending)
  BY DEF Outside
<1> QED
  BY <1>1, GoesOutside DEF VecFits

LEMMA FitsInside ==
  ASSUME NEW s, NEW tally, NEW es, NEW e \in Pending, StandsAt(e, s), Outside(s, es, tally, e.told)
  PROVE  VecFits(s, Append(es, e), tally)
<1>1. es \in Seq(Pending)
  BY DEF Outside
<1>2. /\ Append(es, e) \in Seq(Pending) /\ Append(es, e) # <<>>
      /\ Last(Append(es, e)) = e /\ Front(Append(es, e)) = es
  BY <1>1, OfAppended
<1> QED
  BY <1>2 DEF VecFits

LEMMA OneLong ==
  ASSUME NEW S, NEW s \in Seq(S), s # <<>>, Len(s) <= 1
  PROVE  Len(s) = 1
<1>1. Len(s) \in Nat /\ Len(s) # 0
  BY LenProperties, EmptySeq
<1> QED
  BY <1>1

(* A vector that is changed at p, and not where an erasure has told, or stands. *)
LEMMA StandsStill ==
  ASSUME NEW s \in Seq(Values), NEW t \in Seq(Values), NEW e \in Pending, StandsAt(e, s), Waits(e),
         NEW p \in Nat \ {0}, p <= Len(t) + 1, \A j \in 1 .. p - 1 : t[j] = s[j],
         Iterates(e) => ~(p <= Held(e))
  PROVE  StandsAt(e, t)
<1>1. Len(s) \in Nat /\ Len(t) \in Nat /\ e.told \in Seq(Values) /\ e.f \in Nat /\ e.l \in Nat
  BY LenProperties DEF Pending
<1>2. Len(e.told) \in Nat /\ (e.told # <<>> => Len(e.told) # 0)
  BY <1>1, LenProperties, EmptySeq
<1>3. CASE e.how = "range"
  <2>1. e.l < p
    BY <1>1, <1>3 DEF Held, Iterates
  <2>2. /\ 1 <= e.f /\ e.f < e.l /\ e.f + Len(e.told) <= e.l
        /\ \A i \in 1 .. Len(e.told) : e.told[i] = s[e.f + i - 1]
    BY <1>3 DEF StandsAt, Iterates
  <2>3. \A i \in 1 .. Len(e.told) : e.f + i - 1 \in 1 .. p - 1
    BY <1>1, <1>2, <2>1, <2>2
  <2>4. e.f + Len(e.told) <= Len(t) + 1 /\ e.l <= Len(t) + 1
    BY <1>1, <1>2, <2>1, <2>2
  <2>5. \A i \in 1 .. Len(e.told) : e.told[i] = t[e.f + i - 1]
    BY <2>2, <2>3
  <2> QED
    BY <1>3, <2>2, <2>4, <2>5 DEF StandsAt, Iterates
<1>4. CASE e.how = "erase"
  <2>1. e.told # <<>> /\ e.l = e.f + 1 /\ Len(e.told) <= 1 /\ 1 <= e.f
        /\ \A i \in 1 .. Len(e.told) : e.told[i] = s[e.f + i - 1]
    BY <1>4 DEF StandsAt, Waits, Iterates
  <2>2. Len(e.told) = 1
    <3>1. e.told # <<>> /\ Len(e.told) <= 1
      BY <2>1
    <3> QED
      BY <1>1, <3>1, OneLong
  <2>3. e.f < p
    BY <1>1, <1>4, <2>2 DEF Held, Iterates
  <2>4. \A i \in 1 .. Len(e.told) : e.f + i - 1 \in 1 .. p - 1
    BY <1>1, <2>1, <2>2, <2>3
  <2> QED
    BY <1>1, <1>4, <2>1, <2>2, <2>3, <2>4 DEF StandsAt
<1>5. CASE e.how = "clear"
  <2>1. e.f = 1 /\ \A i \in 1 .. Len(e.told) : e.told[i] = s[e.f + i - 1]
    BY <1>5 DEF StandsAt, Iterates
  <2>2. Len(e.told) < p
    BY <1>1, <1>2, <1>5, <2>1 DEF Held, Iterates
  <2>3. \A i \in 1 .. Len(e.told) : e.f + i - 1 \in 1 .. p - 1
    BY <1>2, <2>1, <2>2
  <2> QED
    BY <1>1, <1>2, <1>5, <2>1, <2>2, <2>3 DEF StandsAt
<1>6. CASE e.how = "pop"
  BY <1>6 DEF StandsAt, Waits, Iterates
<1>7. CASE e.how = "copy"
  BY <1>7 DEF StandsAt, Iterates
<1> QED
  BY <1>3, <1>4, <1>5, <1>6, <1>7 DEF Pending

Untouched(es, p) == \A e \in Range(es) : Iterates(e) => ~(p <= Held(e))
SameBefore(p, s, t) == p \in Nat \ {0} /\ p <= Len(t) + 1 /\ \A j \in 1 .. p - 1 : t[j] = s[j]
Balanced(tally, r, s, knows, q, t) ==
  /\ knows = [v \in Values |-> knows[v]]
  /\ \A v \in Values :
       /\ knows[v] \in Int
       /\ knows[v] + Count(q)[v] - Count(t)[v] = tally[v] + Count(r)[v] - Count(s)[v]

LEMMA ChangedOutside ==
  ASSUME NEW s, NEW t \in Seq(Values), NEW es, NEW tally, NEW knows,
         NEW r \in Seq(Values), NEW q \in Seq(Values), Outside(s, es, tally, r),
         NEW p, SameBefore(p, s, t), Untouched(es, p), Balanced(tally, r, s, knows, q, t)
  PROVE  Outside(t, es, knows, q)
<1>1. /\ s \in Seq(Values) /\ es \in Seq(Pending)
      /\ \A i \in 1 .. Len(es) : StandsAt(es[i], s) /\ Waits(es[i])
  BY DEF Outside
<1>2. PICK c : /\ Told(es, c)
               /\ \A v \in Values : /\ tally[v] \in Int
                                    /\ tally[v] + c[Len(es)][v] + Count(r)[v] = Count(s)[v]
  BY DEF Outside
<1>3. ASSUME NEW i \in 1 .. Len(es)
      PROVE  StandsAt(es[i], t) /\ Waits(es[i])
  <2>1. es[i] \in Pending /\ es[i] \in Range(es)
    BY <1>1, ElementOfSeq, LenProperties DEF Range
  <2>2. Iterates(es[i]) => ~(p <= Held(es[i]))
    BY <2>1 DEF Untouched
  <2>3. p \in Nat \ {0} /\ p <= Len(t) + 1 /\ \A j \in 1 .. p - 1 : t[j] = s[j]
    BY DEF SameBefore
  <2> QED
    BY <1>1, <2>1, <2>2, <2>3, StandsStill
<1>4. ASSUME NEW v \in Values
      PROVE  knows[v] + c[Len(es)][v] + Count(q)[v] = Count(t)[v]
  <2>1. c[Len(es)][v] \in Int
    BY <1>1, <1>2, LenProperties DEF Told
  <2>2. Count(q)[v] \in Int /\ Count(r)[v] \in Int /\ Count(s)[v] \in Int /\ Count(t)[v] \in Int
    <3>1. Count(q)[v] \in Nat /\ Count(r)[v] \in Nat /\ Count(s)[v] \in Nat /\ Count(t)[v] \in Nat
      BY <1>1, CountIs
    <3> QED
      BY <3>1
  <2>3. /\ knows[v] \in Int /\ tally[v] \in Int
        /\ tally[v] + c[Len(es)][v] + Count(r)[v] = Count(s)[v]
        /\ knows[v] + Count(q)[v] - Count(t)[v] = tally[v] + Count(r)[v] - Count(s)[v]
    BY <1>2 DEF Balanced
  <2> QED
    BY <2>1, <2>2, <2>3, SMTT(30)
<1>5. knows = [v \in Values |-> knows[v]] /\ \A v \in Values : knows[v] \in Int
  BY DEF Balanced
<1> QED
  BY <1>1, <1>2, <1>3, <1>4, <1>5 DEF Outside

(* Nothing is under way, and the watcher has counted. *)
LEMMA CountedFits ==
  ASSUME NEW s \in Seq(Values)
  PROVE  VecFits(s, <<>>, Count(s))
<1>1. PICK es, c, r : es = <<>> /\ c = [i \in {0} |-> [v \in Values |-> 0]] /\ r = <<>>
  OBVIOUS
<1>2. es \in Seq(Pending) /\ Len(es) = 0
  BY <1>1, EmptySeq
<1>3. Told(es, c)
  BY <1>1, <1>2 DEF Told
<1>4. \A v \in Values : c[Len(es)][v] = 0 /\ Count(r)[v] = 0 /\ Count(s)[v] \in Nat
  BY <1>1, <1>2, CountNone, CountIs
<1>5. Count(s) = [v \in Values |-> Count(s)[v]]
  BY DEF Count
<1>6. Outside(s, es, Count(s), r)
  BY <1>2, <1>3, <1>4, <1>5 DEF Outside
<1> QED
  BY <1>1, <1>6 DEF VecFits

LEMMA VecInvInit == VecInit => VecInv
<1> SUFFICES ASSUME VecInit PROVE VecInv
  OBVIOUS
<1>1. vec = <<>> /\ vecErasing = <<>> /\ vecSeen = Count(vec) /\ vecOdd = {} /\ vec \in Seq(Values)
  BY EmptySeq DEF VecInit
<1> QED
  BY <1>1, CountedFits DEF VecInv

LEMMA CopiesAre ==
  ASSUME NEW n \in Nat, NEW x \in Values
  PROVE  Copies(n, x) \in Seq(Values) /\ Len(Copies(n, x)) = n
BY DEF Copies

(* Nothing is under way, or a callback of the innermost. *)
LEMMA InACallback ==
  ASSUME VecInv, vecOdd = {}, InCallback
  PROVE  Outside(vec, vecErasing, vecSeen, <<>>)
<1>1. CASE vecErasing = <<>>
  BY <1>1 DEF VecInv, VecFits
<1>2. CASE vecErasing # <<>>
  <2>1. PICK es, e : es = Front(vecErasing) /\ e = Last(vecErasing)
    OBVIOUS
  <2>2. vecErasing \in Seq(Pending) /\ StandsAt(e, vec) /\ Outside(vec, es, vecSeen, e.told)
    BY <1>2, <2>1 DEF VecInv, VecFits
  <2>3. e \in Pending /\ es \in Seq(Pending) /\ vecErasing = Append(es, e)
    BY <1>2, <2>1, <2>2, LastFront, FrontAndLast
  <2>4. Waits(e)
    BY <1>2, <2>1 DEF InCallback, Inner, Waits
  <2> QED
    BY <2>2, <2>3, <2>4, GoesInside
<1> QED
  BY <1>1, <1>2

LEMMA InInner ==
  ASSUME VecInv, vecOdd = {}, vecErasing # <<>>
  PROVE  /\ Inner \in Pending /\ StandsAt(Inner, vec) /\ Outside(vec, Outer, vecSeen, Inner.told)
         /\ vec \in Seq(Values) /\ Len(vec) \in Nat /\ Outer \in Seq(Pending)
         /\ Inner.told \in Seq(Values) /\ Len(Inner.told) \in Nat /\ Inner.f \in Nat /\ Inner.l \in Nat
<1>1. /\ vecErasing \in Seq(Pending) /\ StandsAt(Inner, vec)
      /\ Outside(vec, Outer, vecSeen, Inner.told)
  BY DEF VecInv, VecFits, Inner, Outer
<1>2. Inner \in Pending
  BY <1>1, LastFront DEF Inner
<1>3. vec \in Seq(Values) /\ Len(vec) \in Nat /\ Outer \in Seq(Pending)
  BY <1>1, LenProperties DEF Outside
<1>4. Inner.told \in Seq(Values) /\ Inner.f \in Nat /\ Inner.l \in Nat
  BY <1>2 DEF Pending
<1>5. Len(Inner.told) \in Nat
  BY <1>4, LenProperties
<1> QED
  BY <1>1, <1>2, <1>3, <1>4, <1>5

(* One x more, at p, while the erasures es are under way. *)
LEMMA InsertedOutside ==
  ASSUME NEW es, Outside(vec, es, vecSeen, <<>>), NEW x \in Values,
         NEW p \in 1 .. Len(vec) + 1, NEW all, InsertedAt(all, p), vecOdd' = {},
         Range(es) \subseteq Range(all),
         NEW u \in Seq(Values), Len(u) = Len(vec) + 1, \A j \in 1 .. p - 1 : u[j] = vec[j],
         \A v \in Values : Count(u)[v] = Count(vec)[v] + Count(<<x>>)[v],
         vecSeen' = [vecSeen EXCEPT ![x] = @ + 1]
  PROVE  Outside(u, es, vecSeen', <<>>)
<1>1. vec \in Seq(Values) /\ vecSeen = [v \in Values |-> vecSeen[v]]
  BY DEF Outside
<1>2. Untouched(es, p)
  BY DEF InsertedAt, ErasedAt, Untouched
<1>3. SameBefore(p, vec, u)
  <2>1. p \in Nat \ {0} /\ p <= Len(u) + 1
    BY <1>1, LenProperties
  <2> QED
    BY <2>1 DEF SameBefore
<1>4. vecSeen' = [v \in Values |-> IF v = x THEN vecSeen[v] + 1 ELSE vecSeen[v]]
  BY <1>1
<1>5. PICK knows, none : knows = vecSeen' /\ none = <<>>
  OBVIOUS
<1>6. none \in Seq(Values)
  BY <1>5, EmptySeq
<1>7. Balanced(vecSeen, none, vec, knows, none, u)
  <2>1. knows = [v \in Values |-> knows[v]]
    BY <1>4, <1>5
  <2>2. ASSUME NEW v \in Values
        PROVE  /\ knows[v] \in Int
               /\ knows[v] + Count(none)[v] - Count(u)[v] = vecSeen[v] + Count(none)[v] - Count(vec)[v]
    <3>1. vecSeen[v] \in Int
      BY DEF Outside
    <3>2. PICK k : k = IF v = x THEN 1 ELSE 0
      OBVIOUS
    <3>3. Count(none)[v] = 0 /\ Count(vec)[v] \in Nat
      BY <1>1, <1>5, CountNone, CountIs
    <3>4. Count(u)[v] = Count(vec)[v] + k
      BY <3>2, CountOne
    <3>5. knows[v] = vecSeen[v] + k /\ k \in Int
      BY <1>4, <1>5, <3>1, <3>2
    <3> QED
      BY <3>1, <3>3, <3>4, <3>5
  <2> QED
    BY <2>1, <2>2 DEF Balanced
<1>8. Outside(vec, es, vecSeen, none)
  BY <1>5
<1>9. Outside(u, es, knows, none)
  BY <1>2, <1>3, <1>6, <1>7, <1>8, ChangedOutside
<1> QED
  BY <1>5, <1>9

(* What was told is gone, from p on. *)
LEMMA ErasedOutside ==
  ASSUME NEW es, NEW told \in Seq(Values), Outside(vec, es, vecSeen, told), UNCHANGED vecSeen,
         NEW p \in Nat \ {0}, NEW all, ErasedAt(all, p), vecOdd' = {}, Range(es) \subseteq Range(all),
         NEW u \in Seq(Values), p <= Len(u) + 1, \A j \in 1 .. p - 1 : u[j] = vec[j],
         \A v \in Values : Count(vec)[v] = Count(u)[v] + Count(told)[v]
  PROVE  Outside(u, es, vecSeen', <<>>)
<1>1. vec \in Seq(Values) /\ vecSeen = [v \in Values |-> vecSeen[v]]
  BY DEF Outside
<1>2. Untouched(es, p)
  BY DEF ErasedAt, Untouched
<1>3. SameBefore(p, vec, u)
  BY DEF SameBefore
<1>4. PICK none : none = <<>>
  OBVIOUS
<1>5. none \in Seq(Values)
  BY <1>4, EmptySeq
<1>6. Balanced(vecSeen, told, vec, vecSeen, none, u)
  <2>1. ASSUME NEW v \in Values
        PROVE  /\ vecSeen[v] \in Int
               /\ vecSeen[v] + Count(none)[v] - Count(u)[v] = vecSeen[v] + Count(told)[v] - Count(vec)[v]
    <3>1. vecSeen[v] \in Int
      BY DEF Outside
    <3>2. Count(told)[v] \in Nat /\ Count(none)[v] = 0 /\ Count(u)[v] \in Nat
      BY <1>4, CountNone, CountIs
    <3>3. Count(vec)[v] = Count(u)[v] + Count(told)[v]
      OBVIOUS
    <3> QED
      BY <3>1, <3>2, <3>3
  <2> QED
    BY <1>1, <2>1 DEF Balanced
<1>7. Outside(u, es, vecSeen, none)
  BY <1>2, <1>3, <1>5, <1>6, ChangedOutside
<1> QED
  BY <1>4, <1>7

(* Each operation. *)
LEMMA PushBackKeeps ==
  ASSUME VecInv, vecOdd = {}, InCallback, NEW x \in Values, PushBack(x)
  PROVE  VecInv'
<1>1. Outside(vec, vecErasing, vecSeen, <<>>) /\ vec \in Seq(Values) /\ Len(vec) \in Nat
  BY InACallback, LenProperties DEF Outside
<1>2. PICK u : u = Append(vec, x)
  OBVIOUS
<1>3. u = vec \o <<x>>
  BY <1>1, <1>2, AppendIsConcat
<1>4. \A v \in Values : Count(u)[v] = Count(vec)[v] + Count(<<x>>)[v]
  BY <1>1, <1>3, CountConcat, CountOne
<1>5. u \in Seq(Values) /\ Len(u) = Len(vec) + 1 /\ \A j \in 1 .. Len(vec) : u[j] = vec[j]
  BY <1>1, <1>2, AppendProperties
<1>6. /\ vec' = u /\ vecSeen' = [vecSeen EXCEPT ![x] = @ + 1]
      /\ InsertedAt(vecErasing, Len(vec) + 1)
  BY <1>2 DEF PushBack, PostInsert
<1>7. ASSUME vecOdd' = {}
      PROVE  VecFits(u, vecErasing, vecSeen')
  <2>1. Len(vec) + 1 \in 1 .. Len(vec) + 1 /\ \A j \in 1 .. (Len(vec) + 1) - 1 : u[j] = vec[j]
    BY <1>1, <1>5
  <2>2. Outside(u, vecErasing, vecSeen', <<>>)
    BY <1>1, <1>4, <1>5, <1>6, <1>7, <2>1, InsertedOutside
  <2> QED
    BY <2>2, FitsOutside
<1>8. vecErasing' = vecErasing /\ vecOdd' \in {{}, {"stale"}}
  BY <1>6 DEF InsertedAt, ErasedAt
<1> QED
  BY <1>5, <1>6, <1>7, <1>8 DEF VecInv

LEMMA BeginsKeeps ==
  ASSUME VecInv, vecOdd = {}, InCallback, NEW how \in {"pop", "erase", "range", "clear", "copy"},
         NEW f \in Nat, NEW l \in Nat, NEW pushes \in Seq(Values),
         Begins(how, f, l, pushes), StandsAt(Erasure(how, f, l, pushes), vec)
  PROVE  VecInv'
<1>1. Outside(vec, vecErasing, vecSeen, <<>>)
  BY InACallback
<1>2. PICK e : e = Erasure(how, f, l, pushes)
  OBVIOUS
<1>3. e \in Pending /\ e.told = <<>>
  BY <1>2, EmptySeq DEF Erasure, Pending
<1>4. VecFits(vec, Append(vecErasing, e), vecSeen)
  BY <1>1, <1>2, <1>3, FitsInside
<1>5. vecErasing' = Append(vecErasing, e) /\ vec' = vec /\ vecSeen' = vecSeen /\ vecOdd' = {}
  BY <1>2 DEF Begins
<1> QED
  BY <1>4, <1>5 DEF VecInv

LEMMA TellsKeeps ==
  ASSUME VecInv, vecOdd = {}, vecErasing # <<>>, VecTells
  PROVE  VecInv'
<1>1. PICK e, es : e = Inner /\ es = Outer
  OBVIOUS
<1>2. /\ e \in Pending /\ StandsAt(e, vec) /\ Outside(vec, es, vecSeen, e.told)
      /\ vec \in Seq(Values) /\ Len(vec) \in Nat
      /\ e.told \in Seq(Values) /\ Len(e.told) \in Nat /\ e.f \in Nat /\ e.l \in Nat
  BY <1>1, InInner
<1>3. /\ e.how # "copy" /\ e.f + Len(e.told) < IF e.how = "clear" THEN Len(vec) + 1 ELSE e.l
  <2>1. e.how # "copy" /\ ~(e.f + Len(e.told) >= IF e.how = "clear" THEN Len(vec) + 1 ELSE e.l)
    BY <1>1 DEF VecTells, HasTold, Goal
  <2> QED
    BY <1>2, <2>1
<1>4. PICK i : i = e.f + Len(e.told)
  OBVIOUS
<1>5. i \in 1 .. Len(vec)
  <2>1. CASE e.how = "pop"
    <3>1. e.l = e.f + 1 /\ (e.told = <<>> => e.f \in 1 .. Len(vec))
      BY <1>2, <2>1 DEF StandsAt
    <3>2. Len(e.told) = 0
      BY <1>2, <1>3, <2>1, <3>1
    <3>3. e.told = <<>>
      BY <1>2, <3>2, EmptySeq
    <3> QED
      BY <1>2, <1>4, <3>1, <3>2, <3>3
  <2>2. CASE e.how # "pop"
    <3>1. 1 <= e.f /\ (e.how # "clear" => e.l <= Len(vec) + 1)
      BY <1>2, <1>3, <2>2 DEF StandsAt, Iterates, Pending
    <3> QED
      BY <1>2, <1>3, <1>4, <3>1
  <2> QED
    BY <2>1, <2>2
<1>6. PICK x, told, d : x = vec[i] /\ told = Append(e.told, x) /\ d = [e EXCEPT !.told = told]
  OBVIOUS
<1>7. x \in Values
  BY <1>2, <1>5, <1>6, ElementOfSeq
<1>8. /\ told \in Seq(Values) /\ Len(told) = Len(e.told) + 1 /\ told[Len(e.told) + 1] = x
      /\ \A j \in 1 .. Len(e.told) : told[j] = e.told[j]
      /\ told # <<>>
  BY <1>2, <1>6, <1>7, AppendProperties
<1>9. d \in Pending /\ d.told = told /\ d.how = e.how /\ d.f = e.f /\ d.l = e.l /\ d.pushes = e.pushes
  BY <1>2, <1>6, <1>8 DEF Pending
<1>10. StandsAt(d, vec)
  <2>1. CASE Iterates(e)
    <3>1. /\ 1 <= e.f /\ \A j \in 1 .. Len(e.told) : e.told[j] = vec[e.f + j - 1]
          /\ e.how = "range" => e.f < e.l /\ e.l <= Len(vec) + 1
          /\ e.how = "erase" => e.l = e.f + 1 /\ e.l <= Len(vec) + 1
          /\ e.how = "clear" => e.f = 1
      BY <1>2, <2>1 DEF StandsAt
    <3>2. d.f + Len(d.told) <= Len(vec) + 1
      BY <1>2, <1>4, <1>5, <1>8, <1>9
    <3>3. \A j \in 1 .. Len(d.told) : d.told[j] = vec[d.f + j - 1]
      <4> SUFFICES ASSUME NEW j \in 1 .. Len(told) PROVE told[j] = vec[e.f + j - 1]
        BY <1>9
      <4>1. CASE j \in 1 .. Len(e.told)
        BY <1>8, <3>1, <4>1
      <4>2. CASE j = Len(e.told) + 1
        <5>1. e.f + j - 1 = i
          BY <1>2, <1>4, <4>2
        <5> QED
          BY <1>6, <1>8, <4>2, <5>1
      <4> QED
        BY <1>2, <1>8, <4>1, <4>2
    <3>4. e.how \in {"erase", "range"} => d.f + Len(d.told) <= d.l
      BY <1>2, <1>3, <1>8, <1>9
    <3>5. e.how = "erase" => Len(d.told) <= 1
      BY <1>2, <1>8, <1>9, <3>1, <3>4
    <3> QED
      BY <1>9, <2>1, <3>1, <3>2, <3>3, <3>4, <3>5 DEF StandsAt, Iterates
  <2>2. CASE e.how = "pop"
    <3>1. e.l = e.f + 1 /\ Len(told) <= 1
      BY <1>2, <1>3, <1>8, <2>2 DEF StandsAt
    <3> QED
      BY <1>8, <1>9, <2>2, <3>1 DEF StandsAt, Iterates
  <2> QED
    BY <1>2, <1>3, <2>1, <2>2 DEF Pending, Iterates
<1>11. /\ vecErasing' = Append(es, d) /\ vec' = vec /\ vecOdd' = {}
       /\ vecSeen' = [vecSeen EXCEPT ![x] = @ - 1]
  BY <1>1, <1>4, <1>6 DEF VecTells, PreErase
<1>12. PICK knows : knows = vecSeen'
  OBVIOUS
<1>13. Outside(vec, es, knows, told)
  <2>1. /\ es \in Seq(Pending) /\ vecSeen = [v \in Values |-> vecSeen[v]]
        /\ \A k \in 1 .. Len(es) : StandsAt(es[k], vec) /\ Waits(es[k])
    BY <1>2 DEF Outside
  <2>2. PICK c : /\ Told(es, c)
                 /\ \A v \in Values : /\ vecSeen[v] \in Int
                                      /\ vecSeen[v] + c[Len(es)][v] + Count(e.told)[v] = Count(vec)[v]
    BY <1>2 DEF Outside
  <2>3. knows = [v \in Values |-> IF v = x THEN vecSeen[v] - 1 ELSE vecSeen[v]]
    BY <1>11, <1>12, <2>1
  <2>4. knows = [v \in Values |-> knows[v]]
    BY <2>3
  <2>5. ASSUME NEW v \in Values
        PROVE  knows[v] \in Int /\ knows[v] + c[Len(es)][v] + Count(told)[v] = Count(vec)[v]
    <3>1. c[Len(es)][v] \in Int
      BY <2>1, <2>2, LenProperties DEF Told
    <3>2. told = e.told \o <<x>>
      BY <1>2, <1>6, <1>7, AppendIsConcat
    <3>3. Count(told)[v] = Count(e.told)[v] + (IF v = x THEN 1 ELSE 0)
      <4>1. PICK one : one = <<x>>
        OBVIOUS
      <4>2. one \in Seq(Values) /\ Count(one)[v] = IF v = x THEN 1 ELSE 0
        BY <1>7, <4>1, CountOne
      <4>3. Count(e.told \o one)[v] = Count(e.told)[v] + Count(one)[v]
        BY <1>2, <4>2, CountConcat
      <4> QED
        BY <3>2, <4>1, <4>2, <4>3
    <3>4. Count(e.told)[v] \in Nat
      BY <1>2, CountIs
    <3>5. knows[v] = (IF v = x THEN vecSeen[v] - 1 ELSE vecSeen[v]) /\ vecSeen[v] \in Int
      BY <2>2, <2>3
    <3> QED
      BY <2>2, <3>1, <3>3, <3>4, <3>5
  <2> QED
    BY <1>2, <2>1, <2>2, <2>4, <2>5 DEF Outside
<1>14. VecFits(vec, Append(es, d), knows)
  BY <1>9, <1>10, <1>13, FitsInside
<1> QED
  BY <1>11, <1>12, <1>14 DEF VecInv

(* Without the elements from f and before l. *)
LEMMA WithoutIs ==
  ASSUME vec \in Seq(Values), NEW f \in Nat, NEW l \in Nat, 1 <= f, f < l, l <= Len(vec) + 1
  PROVE  /\ Without(f, l) \in Seq(Values) /\ f <= Len(Without(f, l)) + 1
         /\ \A j \in 1 .. f - 1 : Without(f, l)[j] = vec[j]
         /\ SubSeq(vec, f, l - 1) \in Seq(Values) /\ Len(SubSeq(vec, f, l - 1)) = l - f
         /\ \A i \in 1 .. l - f : SubSeq(vec, f, l - 1)[i] = vec[f + i - 1]
         /\ \A v \in Values :
              Count(vec)[v] = Count(Without(f, l))[v] + Count(SubSeq(vec, f, l - 1))[v]
<1>1. Len(vec) \in Nat
  BY LenProperties
<1>2. PICK a, b, c, d : /\ a = SubSeq(vec, 1, f - 1) /\ b = SubSeq(vec, f, l - 1)
                        /\ c = SubSeq(vec, l, Len(vec)) /\ d = SubSeq(vec, f, Len(vec))
  OBVIOUS
<1>3. a \in Seq(Values) /\ d \in Seq(Values) /\ vec = a \o d /\ Len(a) = f - 1
  <2>1. f \in 1 .. Len(vec) + 1
    BY <1>1
  <2> QED
    BY <1>2, <2>1, Cut
<1>4. c \in Seq(Values) /\ Len(c) = Len(vec) - l + 1
  <2>1. l \in 1 .. Len(vec) + 1
    BY <1>1
  <2> QED
    BY <1>2, <2>1, Cut
<1>5. b \in Seq(Values) /\ Len(b) = l - f /\ \A i \in 1 .. l - f : b[i] = vec[f + i - 1]
  <2>1. PICK k \in Nat : k = l - 1
    BY <1>1
  <2>2. f <= k + 1 /\ k <= Len(vec) /\ f \in Int /\ k \in Int /\ k - f + 1 = l - f /\ f <= k
    BY <1>1, <2>1
  <2>3. \A i \in f .. k : vec[i] \in Values
    <3>1. \A i \in f .. k : i \in 1 .. Len(vec)
      BY <1>1, <2>2
    <3> QED
      BY <3>1, ElementOfSeq
  <2>4. /\ SubSeq(vec, f, k) \in Seq(Values)
        /\ Len(SubSeq(vec, f, k)) = (IF f <= k THEN k - f + 1 ELSE 0)
        /\ \A i \in 1 .. k - f + 1 : SubSeq(vec, f, k)[i] = vec[f + i - 1]
    BY <2>2, <2>3, SubSeqProperties
  <2> QED
    BY <1>2, <2>1, <2>2, <2>4
<1>6. d = b \o c
  <2>1. PICK k \in Nat : k = l - 1
    BY <1>1
  <2>2. f \in 1 .. Len(vec) + 1 /\ k \in f - 1 .. Len(vec) /\ Len(vec) \in k .. Len(vec) /\ k + 1 = l
    BY <1>1, <2>1
  <2>3. SubSeq(vec, f, k) \o SubSeq(vec, k + 1, Len(vec)) = SubSeq(vec, f, Len(vec))
    BY <2>2, ConcatAdjacentSubSeq
  <2> QED
    BY <1>2, <2>1, <2>2, <2>3
<1>7. Without(f, l) = a \o c
  BY <1>2 DEF Without
<1>8. /\ a \o c \in Seq(Values) /\ Len(a \o c) = Len(a) + Len(c)
      /\ \A j \in 1 .. Len(a) + Len(c) : (a \o c)[j] = IF j <= Len(a) THEN a[j] ELSE c[j - Len(a)]
  BY <1>3, <1>4, ConcatProperties
<1>9. /\ Len(a \o d) = Len(a) + Len(d) /\ Len(d) \in Nat
      /\ \A j \in 1 .. Len(a) + Len(d) : (a \o d)[j] = IF j <= Len(a) THEN a[j] ELSE d[j - Len(a)]
  BY <1>3, ConcatProperties, LenProperties
<1>10. \A j \in 1 .. f - 1 : (a \o c)[j] = vec[j]
  <2> SUFFICES ASSUME NEW j \in 1 .. f - 1 PROVE (a \o c)[j] = (a \o d)[j]
    BY <1>3
  <2>1. j <= Len(a) /\ j \in 1 .. Len(a) + Len(c) /\ j \in 1 .. Len(a) + Len(d)
    BY <1>1, <1>3, <1>4, <1>9
  <2> QED
    BY <1>8, <1>9, <2>1
<1>11. ASSUME NEW v \in Values
       PROVE  Count(vec)[v] = Count(a \o c)[v] + Count(b)[v]
  <2>1. /\ Count(a \o d)[v] = Count(a)[v] + Count(d)[v]
        /\ Count(b \o c)[v] = Count(b)[v] + Count(c)[v]
        /\ Count(a \o c)[v] = Count(a)[v] + Count(c)[v]
    BY <1>3, <1>4, <1>5, CountConcat
  <2>2. Count(a)[v] \in Nat /\ Count(b)[v] \in Nat /\ Count(c)[v] \in Nat
    BY <1>3, <1>4, <1>5, CountIs
  <2> QED
    BY <1>3, <1>6, <2>1, <2>2
<1>12. f <= Len(a \o c) + 1
  BY <1>1, <1>3, <1>4, <1>8
<1> QED
  BY <1>2, <1>5, <1>7, <1>8, <1>10, <1>11, <1>12

LEMMA EraseEndsKeeps ==
  ASSUME VecInv, vecOdd = {}, vecErasing # <<>>, EraseEnds
  PROVE  VecInv'
<1>1. PICK e, es : e = Inner /\ es = Outer
  OBVIOUS
<1>2. /\ e \in Pending /\ StandsAt(e, vec) /\ Outside(vec, es, vecSeen, e.told)
      /\ vec \in Seq(Values) /\ Len(vec) \in Nat
      /\ e.told \in Seq(Values) /\ Len(e.told) \in Nat /\ e.f \in Nat /\ e.l \in Nat
  BY <1>1, InInner
<1>3. e.how \in {"erase", "range"} /\ e.f + Len(e.told) >= e.l
  BY <1>1 DEF EraseEnds, HasTold, Goal
<1>4. PICK u : u = Without(e.f, e.l)
  OBVIOUS
<1>5. vec' = u /\ ErasedAt(es, e.f) /\ vecSeen' = vecSeen
  BY <1>1, <1>4 DEF EraseEnds
<1>6. /\ 1 <= e.f /\ e.f < e.l /\ e.l <= Len(vec) + 1 /\ e.f + Len(e.told) <= e.l
      /\ \A i \in 1 .. Len(e.told) : e.told[i] = vec[e.f + i - 1]
  <2>1. CASE e.how = "range"
    BY <1>2, <2>1 DEF StandsAt, Iterates
  <2>2. CASE e.how = "erase"
    <3>1. /\ 1 <= e.f /\ e.l = e.f + 1 /\ e.l <= Len(vec) + 1 /\ Len(e.told) <= 1
          /\ \A i \in 1 .. Len(e.told) : e.told[i] = vec[e.f + i - 1]
      BY <1>2, <2>2 DEF StandsAt, Iterates
    <3> QED
      BY <1>2, <3>1
  <2> QED
    BY <1>3, <2>1, <2>2
<1>7. Len(e.told) = e.l - e.f
  BY <1>2, <1>3, <1>6
<1>8. PICK b : b = SubSeq(vec, e.f, e.l - 1)
  OBVIOUS
<1>9. /\ u \in Seq(Values) /\ e.f <= Len(u) + 1 /\ \A j \in 1 .. e.f - 1 : u[j] = vec[j]
      /\ b \in Seq(Values) /\ Len(b) = e.l - e.f
      /\ \A i \in 1 .. e.l - e.f : b[i] = vec[e.f + i - 1]
      /\ \A v \in Values : Count(vec)[v] = Count(u)[v] + Count(b)[v]
  BY <1>2, <1>4, <1>6, <1>8, WithoutIs
<1>10. b = e.told
  <2>1. PICK told : told = e.told
    OBVIOUS
  <2>2. told \in Seq(Values) /\ Len(told) = Len(b)
    BY <1>2, <1>7, <1>9, <2>1
  <2>3. \A i \in 1 .. Len(b) : b[i] = told[i]
    BY <1>6, <1>7, <1>9, <2>1
  <2> QED
    BY <1>9, <2>1, <2>2, <2>3, SeqEqual
<1>11. ASSUME vecOdd' = {}
       PROVE  VecFits(u, es, vecSeen')
  <2>1. e.f \in Nat \ {0}
    BY <1>2, <1>6
  <2>2. Outside(u, es, vecSeen', <<>>)
    BY <1>2, <1>5, <1>9, <1>10, <1>11, <2>1, ErasedOutside
  <2> QED
    BY <2>2, FitsOutside
<1>12. vecErasing' = es /\ vecOdd' \in {{}, {"stale"}}
  BY <1>5 DEF ErasedAt
<1> QED
  BY <1>5, <1>9, <1>11, <1>12 DEF VecInv

LEMMA PopEndsKeeps ==
  ASSUME VecInv, vecOdd = {}, vecErasing # <<>>, PopEnds
  PROVE  VecInv'
<1>1. CASE vecOdd' # {}
  <2>1. vecOdd' \in {{"ub"}, {"other"}, {"stale"}}
    BY <1>1 DEF PopEnds, VecUndefined, ErasedAt
  <2> QED
    BY <2>1 DEF VecInv
<1>2. CASE vecOdd' = {}
  <2>1. PICK told, es, n : told = Inner.told /\ es = Outer /\ n = Len(vec)
    OBVIOUS
  <2>2. /\ vec \in Seq(Values) /\ n \in Nat /\ told \in Seq(Values)
        /\ Outside(vec, es, vecSeen, told)
    BY <2>1, InInner
  <2>3. /\ vec # <<>> /\ vec' = Front(vec) /\ vecSeen' = vecSeen
        /\ told = <<Last(vec)>> /\ ErasedAt(es, n)
    BY <1>2, <2>1 DEF PopEnds, VecUndefined
  <2>4. n \in Nat \ {0}
    BY <2>1, <2>2, <2>3, EmptySeq
  <2>5. PICK u, b : u = Without(n, n + 1) /\ b = SubSeq(vec, n, (n + 1) - 1)
    OBVIOUS
  <2>6. /\ u \in Seq(Values) /\ n <= Len(u) + 1 /\ \A j \in 1 .. n - 1 : u[j] = vec[j]
        /\ b \in Seq(Values) /\ Len(b) = (n + 1) - n
        /\ \A i \in 1 .. (n + 1) - n : b[i] = vec[n + i - 1]
        /\ \A v \in Values : Count(vec)[v] = Count(u)[v] + Count(b)[v]
    <3>1. n + 1 \in Nat /\ 1 <= n /\ n < n + 1 /\ n + 1 <= Len(vec) + 1
      BY <2>1, <2>4
    <3> QED
      BY <2>2, <2>4, <2>5, <3>1, WithoutIs
  <2>7. b = told
    <3>1. Len(b) = 1 /\ b[1] = vec[n]
      <4>1. (n + 1) - n = 1 /\ 1 \in 1 .. 1 /\ n + 1 - 1 = n
        BY <2>4
      <4> QED
        BY <2>6, <4>1
    <3>2. told = <<vec[n]>>
      BY <2>1, <2>3 DEF Last
    <3>3. b \in Seq(Values)
      BY <2>6
    <3>4. b = <<vec[n]>>
      BY <3>1, <3>3
    <3> QED
      BY <3>2, <3>4
  <2>8. Front(vec) = u
    <3>1. SubSeq(vec, n + 1, n) = <<>>
      BY <2>4, SubSeqEmpty
    <3>2. u = SubSeq(vec, 1, n - 1) \o <<>>
      BY <2>1, <2>5, <3>1 DEF Without
    <3>3. Front(vec) \in Seq(Values) /\ Front(vec) = SubSeq(vec, 1, n - 1)
      BY <2>1, <2>2, <2>3, LastFront DEF Front
    <3> QED
      BY <3>2, <3>3, ConcatEmptySeq
  <2>9. Outside(u, es, vecSeen', <<>>)
    BY <1>2, <2>2, <2>3, <2>4, <2>6, <2>7, ErasedOutside
  <2>10. VecFits(u, es, vecSeen')
    BY <2>9, FitsOutside
  <2>11. vecErasing' = es
    BY <2>3 DEF ErasedAt
  <2> QED
    BY <1>2, <2>3, <2>8, <2>10, <2>11 DEF VecInv
<1> QED
  BY <1>1, <1>2

LEMMA ClearEndsKeeps ==
  ASSUME VecInv, vecOdd = {}, vecErasing # <<>>, ClearEnds
  PROVE  VecInv'
<1>1. PICK e, es : e = Inner /\ es = Outer
  OBVIOUS
<1>2. /\ e \in Pending /\ StandsAt(e, vec) /\ Outside(vec, es, vecSeen, e.told)
      /\ vec \in Seq(Values) /\ Len(vec) \in Nat
      /\ e.told \in Seq(Values) /\ Len(e.told) \in Nat /\ e.f \in Nat /\ e.pushes \in Seq(Values)
  <2>1. Inner.pushes \in Seq(Values)
    BY InInner DEF Pending
  <2> QED
    BY <1>1, <2>1, InInner
<1>3. e.how = "clear" /\ e.f + Len(e.told) >= Len(vec) + 1
  BY <1>1 DEF ClearEnds, HasTold, Goal
<1>4. /\ e.f = 1 /\ e.f + Len(e.told) <= Len(vec) + 1
      /\ \A i \in 1 .. Len(e.told) : e.told[i] = vec[e.f + i - 1]
  BY <1>2, <1>3 DEF StandsAt, Iterates
<1>5. Len(e.told) = Len(vec) /\ \A i \in 1 .. Len(vec) : e.told[i] = vec[i]
  BY <1>2, <1>3, <1>4
<1>6. e.told = vec
  BY <1>2, <1>5, SeqEqual
<1>7. PICK all : all = IF e.pushes = <<>> THEN es ELSE Append(es, Erasure("copy", 1, 1, e.pushes))
  OBVIOUS
<1>8. vec' = <<>> /\ vecSeen' = vecSeen /\ ErasedAt(all, 1)
  BY <1>1, <1>7 DEF ClearEnds
<1>9. vecErasing' = all /\ vecOdd' \in {{}, {"stale"}}
  BY <1>8 DEF ErasedAt
<1>10. PICK d : d = Erasure("copy", 1, 1, e.pushes)
  OBVIOUS
<1>11. d \in Pending /\ d.told = <<>> /\ d.how = "copy" /\ d.pushes = e.pushes
  BY <1>2, <1>10, EmptySeq DEF Erasure, Pending
<1>12. es \in Seq(Pending)
  BY <1>2 DEF Outside
<1>13. Range(es) \subseteq Range(all)
  <2>1. CASE e.pushes = <<>>
    BY <1>7, <2>1
  <2>2. CASE e.pushes # <<>>
    <3>1. all = Append(es, d)
      BY <1>7, <1>10, <2>2
    <3> QED
      BY <1>11, <1>12, <3>1, AppendKeeps DEF ToSet, Range
  <2> QED
    BY <2>1, <2>2
<1>14. ASSUME vecOdd' = {}
       PROVE  VecFits(<<>>, all, vecSeen')
  <2>1. PICK u : u = <<>>
    OBVIOUS
  <2>2. u \in Seq(Values) /\ Len(u) = 0 /\ 1 <= Len(u) + 1
    BY <2>1, EmptySeq
  <2>3. ASSUME NEW v \in Values
        PROVE  Count(vec)[v] = Count(u)[v] + Count(e.told)[v]
    <3>1. Count(u)[v] = 0 /\ Count(vec)[v] \in Nat
      BY <1>2, <2>1, CountNone, CountIs
    <3> QED
      BY <1>6, <3>1
  <2>4. Outside(u, es, vecSeen', <<>>)
    <3>1. 1 \in Nat \ {0} /\ \A j \in 1 .. 1 - 1 : u[j] = vec[j]
      OBVIOUS
    <3> QED
      BY <1>2, <1>8, <1>13, <1>14, <2>2, <2>3, <3>1, ErasedOutside
  <2>5. CASE e.pushes = <<>>
    BY <1>7, <2>1, <2>4, <2>5, FitsOutside
  <2>6. CASE e.pushes # <<>>
    <3>1. StandsAt(d, u)
      BY <1>11, <2>6 DEF StandsAt, Iterates
    <3> QED
      BY <1>7, <1>10, <1>11, <2>1, <2>4, <2>6, <3>1, FitsInside
  <2> QED
    BY <2>5, <2>6
<1> QED
  BY <1>8, <1>9, <1>14 DEF VecInv

LEMMA PushesKeeps ==
  ASSUME VecInv, vecOdd = {}, vecErasing # <<>>, VecPushes
  PROVE  VecInv'
<1>1. PICK e, es : e = Inner /\ es = Outer
  OBVIOUS
<1>2. /\ e \in Pending /\ StandsAt(e, vec) /\ Outside(vec, es, vecSeen, e.told)
      /\ vec \in Seq(Values) /\ Len(vec) \in Nat /\ e.pushes \in Seq(Values)
  <2>1. Inner.pushes \in Seq(Values)
    BY InInner DEF Pending
  <2> QED
    BY <1>1, <2>1, InInner
<1>3. e.how = "copy" /\ e.told = <<>> /\ e.pushes # <<>>
  BY <1>1, <1>2 DEF VecPushes, StandsAt
<1>4. PICK x, rest, u, d : /\ x = Head(e.pushes) /\ rest = Tail(e.pushes) /\ u = Append(vec, x)
                           /\ d = Erasure("copy", 1, 2, rest)
  OBVIOUS
<1>5. x \in Values /\ rest \in Seq(Values)
  BY <1>2, <1>3, <1>4, HeadTailProperties
<1>6. PICK all : all = IF rest = <<>> THEN es ELSE Append(es, d)
  OBVIOUS
<1>7. vec' = u /\ vecSeen' = [vecSeen EXCEPT ![x] = @ + 1] /\ InsertedAt(all, Len(vec) + 1)
  BY <1>1, <1>4, <1>6 DEF VecPushes, PostInsert
<1>8. vecErasing' = all /\ vecOdd' \in {{}, {"stale"}}
  BY <1>7 DEF InsertedAt, ErasedAt
<1>9. d \in Pending /\ d.told = <<>> /\ d.how = "copy" /\ d.pushes = rest
  BY <1>4, <1>5, EmptySeq DEF Erasure, Pending
<1>10. es \in Seq(Pending)
  BY <1>2 DEF Outside
<1>11. Range(es) \subseteq Range(all)
  <2>1. CASE rest = <<>>
    BY <1>6, <2>1
  <2>2. CASE rest # <<>>
    <3>1. all = Append(es, d)
      BY <1>6, <2>2
    <3> QED
      BY <1>9, <1>10, <3>1, AppendKeeps DEF ToSet, Range
  <2> QED
    BY <2>1, <2>2
<1>12. ASSUME vecOdd' = {}
       PROVE  VecFits(u, all, vecSeen')
  <2>1. u = vec \o <<x>>
    BY <1>2, <1>4, <1>5, AppendIsConcat
  <2>2. \A v \in Values : Count(u)[v] = Count(vec)[v] + Count(<<x>>)[v]
    BY <1>2, <1>5, <2>1, CountConcat, CountOne
  <2>3. u \in Seq(Values) /\ Len(u) = Len(vec) + 1 /\ \A j \in 1 .. Len(vec) : u[j] = vec[j]
    BY <1>2, <1>4, <1>5, AppendProperties
  <2>4. Len(vec) + 1 \in 1 .. Len(vec) + 1 /\ \A j \in 1 .. (Len(vec) + 1) - 1 : u[j] = vec[j]
    BY <1>2, <2>3
  <2>5. Outside(u, es, vecSeen', <<>>)
    BY <1>2, <1>3, <1>5, <1>7, <1>11, <1>12, <2>2, <2>3, <2>4, InsertedOutside
  <2>6. CASE rest = <<>>
    BY <1>6, <2>5, <2>6, FitsOutside
  <2>7. CASE rest # <<>>
    <3>1. StandsAt(d, u)
      BY <1>9, <2>7 DEF StandsAt, Iterates
    <3> QED
      BY <1>6, <1>9, <2>5, <2>7, <3>1, FitsInside
  <2> QED
    BY <2>6, <2>7
<1> QED
  BY <1>7, <1>8, <1>12 DEF VecInv

LEMMA SplicedIs ==
  ASSUME vec \in Seq(Values), NEW p \in 1 .. Len(vec) + 1, NEW s \in Seq(Values)
  PROVE  /\ Spliced(p, s) \in Seq(Values)
         /\ Len(Spliced(p, s)) = Len(vec) + Len(s)
         /\ \A v \in Values : Count(Spliced(p, s))[v] = Count(vec)[v] + Count(s)[v]
         /\ Len(s) > 0 => Spliced(p, s)[p] = s[1]
         /\ s = <<>> => Spliced(p, s) = vec
         /\ \A j \in 1 .. p - 1 : Spliced(p, s)[j] = vec[j]
<1>1. PICK a, b : a = SubSeq(vec, 1, p - 1) /\ b = SubSeq(vec, p, Len(vec))
  OBVIOUS
<1>2. /\ a \in Seq(Values) /\ b \in Seq(Values) /\ a \o b = vec
      /\ Len(a) = p - 1 /\ Len(b) = Len(vec) - p + 1
  BY <1>1, Cut
<1>3. Spliced(p, s) = (a \o s) \o b
  BY <1>1 DEF Spliced
<1>4. /\ a \o s \in Seq(Values) /\ Len(a \o s) = Len(a) + Len(s)
      /\ \A i \in 1 .. Len(a) + Len(s) : (a \o s)[i] = IF i <= Len(a) THEN a[i] ELSE s[i - Len(a)]
  BY <1>2, ConcatProperties
<1>5. PICK t : t = a \o s
  OBVIOUS
<1>6. /\ t \o b \in Seq(Values) /\ Len(t \o b) = Len(t) + Len(b)
      /\ \A i \in 1 .. Len(t) + Len(b) : (t \o b)[i] = IF i <= Len(t) THEN t[i] ELSE b[i - Len(t)]
  <2>1. t \in Seq(Values) /\ b \in Seq(Values)
    BY <1>2, <1>4, <1>5
  <2> QED
    BY <2>1, ConcatProperties
<1>7. ASSUME NEW v \in Values
      PROVE  Count(t \o b)[v] = Count(vec)[v] + Count(s)[v]
  <2>1. /\ Count(t \o b)[v] = Count(t)[v] + Count(b)[v]
        /\ Count(t)[v] = Count(a)[v] + Count(s)[v]
        /\ Count(vec)[v] = Count(a)[v] + Count(b)[v]
    <3>1. Count(t \o b)[v] = Count(t)[v] + Count(b)[v]
      BY <1>2, <1>4, <1>5, CountConcat
    <3>2. Count(t)[v] = Count(a)[v] + Count(s)[v]
      BY <1>2, <1>5, CountConcat
    <3>3. Count(vec)[v] = Count(a)[v] + Count(b)[v]
      BY <1>2, CountConcat
    <3> QED
      BY <3>1, <3>2, <3>3
  <2>2. Count(a)[v] \in Nat /\ Count(b)[v] \in Nat /\ Count(s)[v] \in Nat
    BY <1>2, CountIs
  <2> QED
    BY <2>1, <2>2
<1>8. Len(vec) \in Nat /\ Len(s) \in Nat /\ p \in Nat /\ 1 <= p /\ p <= Len(vec) + 1
  BY LenProperties
<1>9. Len(t \o b) = Len(vec) + Len(s)
  BY <1>2, <1>4, <1>5, <1>6, <1>8
<1>10. ASSUME Len(s) > 0
       PROVE  (t \o b)[p] = s[1]
  <2>1. /\ p \in 1 .. Len(a) + Len(s) /\ ~(p <= Len(a)) /\ p - Len(a) = 1
        /\ p \in 1 .. Len(t) + Len(b) /\ p <= Len(t)
    BY <1>2, <1>4, <1>5, <1>8, <1>10
  <2> QED
    BY <1>4, <1>5, <1>6, <2>1
<1>11. ASSUME s = <<>>
       PROVE  t \o b = vec
  BY <1>2, <1>5, <1>11, ConcatEmptySeq
<1>12. ASSUME NEW j \in 1 .. p - 1
       PROVE  (t \o b)[j] = vec[j]
  <2>1. /\ j <= Len(a) /\ j \in 1 .. Len(a) + Len(s) /\ j <= Len(t) /\ j \in 1 .. Len(t) + Len(b)
        /\ j \in 1 .. Len(a) + Len(b)
    BY <1>2, <1>4, <1>5, <1>8
  <2>2. (a \o b)[j] = a[j]
    BY <1>2, <2>1, ConcatProperties
  <2> QED
    BY <1>2, <1>4, <1>5, <1>6, <2>1, <2>2
<1> QED
  BY <1>3, <1>5, <1>6, <1>7, <1>9, <1>10, <1>11, <1>12

LEMMA VecInsertKeeps ==
  ASSUME VecInv, vecOdd = {}, InCallback,
         NEW p \in 1 .. Len(vec) + 1, NEW n \in 0 .. 2, NEW x \in Values, VecInsert(p, n, x)
  PROVE  VecInv'
<1>0. Outside(vec, vecErasing, vecSeen, <<>>) /\ vec \in Seq(Values) /\ Len(vec) \in Nat
  BY InACallback, LenProperties DEF Outside
<1>1. PICK s : s = Copies(n, x)
  OBVIOUS
<1>2. s \in Seq(Values) /\ Len(s) = n /\ n \in Nat /\ p \in Nat
  <2>1. n \in Nat
    OBVIOUS
  <2>2. s \in Seq(Values) /\ Len(s) = n
    BY <1>1, <2>1, CopiesAre
  <2> QED
    BY <1>0, <2>1, <2>2
<1>3. PICK u : u = Spliced(p, s)
  OBVIOUS
<1>4. /\ u \in Seq(Values) /\ Len(u) = Len(vec) + n
      /\ \A v \in Values : Count(u)[v] = Count(vec)[v] + Count(s)[v]
      /\ n > 0 => u[p] = s[1]
      /\ \A j \in 1 .. p - 1 : u[j] = vec[j]
  BY <1>0, <1>2, <1>3, SplicedIs
<1>5. /\ vec' = u
      /\ vecSeen' = IF p <= Len(u) THEN [vecSeen EXCEPT ![u[p]] = @ + 1] ELSE vecSeen
      /\ n = 1 => InsertedAt(vecErasing, p)
      /\ n # 1 => vecOdd' = (IF p > Len(u) THEN {} ELSE {"untold"}) /\ vecErasing' = vecErasing
  BY <1>1, <1>3 DEF VecInsert, PostInsert
<1>6. CASE n = 1
  <2>1. s = <<x>>
    BY <1>1, <1>6 DEF Copies
  <2>2. u[p] = x /\ p <= Len(u)
    BY <1>0, <1>2, <1>4, <1>6, <2>1
  <2>3. vecSeen' = [vecSeen EXCEPT ![x] = @ + 1]
    BY <1>5, <2>2
  <2>4. ASSUME vecOdd' = {}
        PROVE  VecFits(u, vecErasing, vecSeen')
    <3>1. Outside(u, vecErasing, vecSeen', <<>>)
      BY <1>0, <1>4, <1>5, <1>6, <2>1, <2>3, <2>4, InsertedOutside
    <3> QED
      BY <3>1, FitsOutside
  <2>5. vecErasing' = vecErasing /\ vecOdd' \in {{}, {"stale"}}
    BY <1>5, <1>6 DEF InsertedAt, ErasedAt
  <2> QED
    BY <1>4, <1>5, <2>4, <2>5 DEF VecInv
<1>7. CASE n # 1 /\ p > Len(u)
  <2>1. n = 0
    BY <1>0, <1>2, <1>4, <1>7
  <2>2. s = <<>>
    BY <1>2, <2>1, EmptySeq
  <2>3. u = vec
    BY <1>0, <1>3, <2>2, SplicedIs, EmptySeq
  <2>4. vecSeen' = vecSeen
    BY <1>0, <1>2, <1>4, <1>5, <1>7
  <2> QED
    BY <1>5, <1>7, <2>3, <2>4 DEF VecInv
<1>8. CASE n # 1 /\ ~(p > Len(u))
  BY <1>4, <1>5, <1>8 DEF VecInv
<1> QED
  BY <1>6, <1>7, <1>8

LEMMA SomeAre ==
  ASSUME 0 \in Values, NEW s \in Some
  PROVE  s \in Seq(Values) /\ s # <<>> /\ Len(s) \in {1, 2} /\ s[1] \in Values
<1>1. ASSUME NEW v \in Values, s = <<v>>
      PROVE  s \in Seq(Values) /\ s # <<>> /\ Len(s) \in {1, 2} /\ s[1] \in Values
  BY <1>1
<1>2. ASSUME NEW v \in Values, s = <<0, v>>
      PROVE  s \in Seq(Values) /\ s # <<>> /\ Len(s) \in {1, 2} /\ s[1] \in Values
  BY <1>2
<1> QED
  BY <1>1, <1>2 DEF Some

LEMMA VecInsertRangeKeeps ==
  ASSUME 0 \in Values, Values \subseteq Nat, vec \in Seq(Values),
         NEW p \in 1 .. Len(vec) + 1, NEW s \in Some, VecInsertRange(p, s)
  PROVE  VecInv'
<1>1. CASE vecOdd' = {"untold"}
  <2>1. s[1] \in Nat
    BY SomeAre
  <2>2. vec' = Spliced(p, Copies(s[1], 0))
    BY <1>1 DEF VecInsertRange
  <2>3. vec' \in Seq(Values)
    BY <2>1, <2>2, CopiesAre, SplicedIs
  <2> QED
    BY <1>1, <2>3 DEF VecInv
<1>2. CASE vecOdd' = {"ub"}
  BY <1>2 DEF VecInv
<1> QED
  BY <1>1, <1>2 DEF VecInsertRange

LEMMA VecResizeKeeps ==
  ASSUME vec \in Seq(Values), NEW n \in Nat, NEW x \in Values, VecResize(n, x)
  PROVE  VecInv'
<1>0. Len(vec) \in Nat
  BY LenProperties
<1>1. PICK u : u = IF n <= Len(vec) THEN SubSeq(vec, 1, n) ELSE vec \o Copies(n - Len(vec), x)
  OBVIOUS
<1>2. u \in Seq(Values)
  <2>1. CASE n <= Len(vec)
    BY <1>1, <2>1, Subsequence
  <2>2. CASE ~(n <= Len(vec))
    <3>1. n - Len(vec) \in Nat
      BY <1>0, <2>2
    <3>2. Copies(n - Len(vec), x) \in Seq(Values)
      BY <3>1, CopiesAre
    <3> QED
      BY <1>1, <2>2, <3>2, ConcatProperties
  <2> QED
    BY <2>1, <2>2
<1>3. vec' = u /\ vecOdd' = {"untold"}
  BY <1>1 DEF VecResize
<1> QED
  BY <1>2, <1>3 DEF VecInv

LEMMA VecInvStep == VecInv /\ [VecNext]_vecVars => VecInv'
<1> SUFFICES ASSUME VecInv, [VecNext]_vecVars
             PROVE  VecInv'
  OBVIOUS
<1>1. 0 \in Values /\ Values \subseteq Nat /\ MaxSize \in Nat
  BY ContainersAssumption
<1>2. CASE Reread
  <2>1. vec' = vec /\ vecErasing' = <<>> /\ vecOdd' = {} /\ vecSeen' = Count(vec) /\ vec \in Seq(Values)
    BY <1>2 DEF Reread, VecInv
  <2> QED
    BY <2>1, CountedFits DEF VecInv
<1>3. CASE UNCHANGED vecVars
  BY <1>3 DEF vecVars, VecInv
<1>4. ASSUME vecOdd = {}, vecErasing # <<>>, VecTells \/ PopEnds \/ EraseEnds \/ ClearEnds \/ VecPushes
      PROVE  VecInv'
  BY <1>4, TellsKeeps, PopEndsKeeps, EraseEndsKeeps, ClearEndsKeeps, PushesKeeps
<1>5. ASSUME vecOdd = {}, InCallback
      PROVE  vec \in Seq(Values) /\ Len(vec) \in Nat
  BY <1>5, InACallback, LenProperties DEF Outside
<1>6. ASSUME vecOdd = {}, InCallback, NEW x \in Values, PushBack(x)
      PROVE  VecInv'
  BY <1>6, PushBackKeeps
<1>7. ASSUME vecOdd = {}, InCallback, NEW p \in 1 .. Len(vec) + 1, NEW n \in 0 .. 2, NEW x \in Values,
             VecInsert(p, n, x)
      PROVE  VecInv'
  BY <1>7, VecInsertKeeps
<1>8. ASSUME vecOdd = {}, InCallback, NEW p \in 1 .. Len(vec) + 1, NEW s \in Some, VecInsertRange(p, s)
      PROVE  VecInv'
  BY <1>1, <1>5, <1>8, VecInsertRangeKeeps
<1>9. ASSUME vecOdd = {}, InCallback, NEW n \in 0 .. MaxSize, NEW x \in Values, VecResize(n, x)
      PROVE  VecInv'
  <2>1. n \in Nat
    BY <1>1
  <2> QED
    BY <1>5, <1>9, <2>1, VecResizeKeeps
<1>10. ASSUME vecOdd = {}, NEW s \in Some, VecAssign(s)
       PROVE  VecInv'
  <2>1. vec' = s /\ vecOdd' = {"untold"} /\ s \in Seq(Values)
    BY <1>1, <1>10, SomeAre DEF VecAssign
  <2> QED
    BY <2>1 DEF VecInv
<1>11. ASSUME vecOdd = {}, InCallback, NEW pushes \in Seq(Values), Begins("clear", 1, 1, pushes)
       PROVE  VecInv'
  <2>1. Len(vec) \in Nat
    BY <1>5, <1>11
  <2>2. StandsAt(Erasure("clear", 1, 1, pushes), vec)
    BY <2>1, EmptySeq DEF StandsAt, Erasure, Iterates
  <2> QED
    BY <1>11, <2>2, BeginsKeeps
<1>12. ASSUME vecOdd = {}, InCallback, PopBack
       PROVE  VecInv'
  <2>1. Len(vec) \in Nat \ {0} /\ Len(vec) + 1 \in Nat /\ <<>> \in Seq(Values)
    BY <1>5, <1>12, EmptySeq DEF PopBack
  <2>2. StandsAt(Erasure("pop", Len(vec), Len(vec) + 1, <<>>), vec)
    BY <2>1, EmptySeq DEF StandsAt, Erasure, Iterates
  <2> QED
    BY <1>12, <2>1, <2>2, BeginsKeeps DEF PopBack
<1>13. ASSUME vecOdd = {}, InCallback, NEW p \in 1 .. Len(vec) + 1, VecErase(p)
       PROVE  VecInv'
  <2>1. CASE p <= Len(vec)
    <3>1. p \in Nat /\ 1 <= p /\ p + 1 \in Nat /\ <<>> \in Seq(Values) /\ Len(vec) \in Nat
      BY <1>5, <1>13, EmptySeq
    <3>2. StandsAt(Erasure("erase", p, p + 1, <<>>), vec)
      BY <2>1, <3>1, EmptySeq DEF StandsAt, Erasure, Iterates
    <3> QED
      BY <1>13, <2>1, <3>1, <3>2, BeginsKeeps DEF VecErase
  <2>2. CASE ~(p <= Len(vec))
    BY <1>13, <2>2 DEF VecErase, VecUndefined, VecInv
  <2> QED
    BY <2>1, <2>2
<1>14. ASSUME vecOdd = {}, InCallback, NEW f \in 1 .. Len(vec) + 1, NEW l \in 1 .. Len(vec) + 1,
              VecEraseRange(f, l)
       PROVE  VecInv'
  <2>1. f \in Nat /\ 1 <= f /\ l \in Nat /\ <<>> \in Seq(Values) /\ Len(vec) \in Nat
        /\ f < l /\ l <= Len(vec) + 1
    BY <1>5, <1>14, EmptySeq DEF VecEraseRange
  <2>2. StandsAt(Erasure("range", f, l, <<>>), vec)
    BY <2>1, EmptySeq DEF StandsAt, Erasure, Iterates
  <2> QED
    BY <1>14, <2>1, <2>2, BeginsKeeps DEF VecEraseRange
<1>15. ASSUME vecOdd = {}, InCallback, VecClear \/ VecCopySelf \/ \E s \in Some : VecCopy(s)
       PROVE  VecInv'
  <2>1. <<>> \in Seq(Values) /\ \A s \in Some : s \in Seq(Values)
    BY <1>1, SomeAre, EmptySeq
  <2> QED
    BY <1>11, <1>15, <2>1 DEF VecClear, VecCopySelf, VecCopy
<1> QED
  BY <1>2, <1>3, <1>4, <1>6, <1>7, <1>8, <1>9, <1>10, <1>12, <1>13, <1>14, <1>15 DEF VecNext

LEMMA VecInvGives == VecInv => VectorWatched
<1> SUFFICES ASSUME VecInv, vecOdd = {}, vecErasing = <<>>
             PROVE  vecSeen = Count(vec)
  BY DEF VectorWatched
<1>1. Outside(vec, <<>>, vecSeen, <<>>)
  BY DEF VecInv, VecFits
<1>2. PICK c : /\ Told(<<>>, c)
               /\ \A v \in Values : /\ vecSeen[v] \in Int
                                    /\ vecSeen[v] + c[Len(<<>>)][v] + Count(<<>>)[v] = Count(vec)[v]
  BY <1>1 DEF Outside
<1>3. Len(<<>>) = 0 /\ vec \in Seq(Values) /\ vecSeen = [v \in Values |-> vecSeen[v]]
  BY <1>1 DEF Outside
<1>4. ASSUME NEW v \in Values
      PROVE  vecSeen[v] = Count(vec)[v]
  <2>1. c[0][v] = 0 /\ Count(<<>>)[v] = 0 /\ vecSeen[v] \in Int
    BY <1>2, CountNone DEF Told
  <2> QED
    BY <1>2, <1>3, <2>1
<1>5. Count(vec) = [v \in Values |-> Count(vec)[v]]
  BY DEF Count
<1> QED
  BY <1>3, <1>4, <1>5

-------------------------------------------------------------------------------
(***************************************************************************)
(* Event trees.  The lists that were handed out for an event are the one of   *)
(* its node, as insert() keeps a node that was made meanwhile.               *)
(***************************************************************************)
TreeInv ==
  /\ DOMAIN lists = TreeEvents
  /\ \A e \in TreeEvents : \A l \in lists[e] : e \in DOMAIN evtmap /\ l = evtmap[e]

LEMMA TreeInvInit == TreeInit => TreeInv
BY DEF TreeInit, TreeInv

LEMMA TreeInvStep == TreeInv /\ [TreeNext]_treeVars => TreeInv'
<1> SUFFICES ASSUME TreeInv, [TreeNext]_treeVars
             PROVE  TreeInv'
  OBVIOUS
<1>1. ASSUME NEW t \in Finders, EventInserts(t)
      PROVE  TreeInv'
  <2>1. PICK e : /\ evtmap' = [f \in DOMAIN evtmap \cup {e} |->
                                 IF f = e THEN Inserted(t, e) ELSE evtmap[f]]
                 /\ lists' = [lists EXCEPT ![e] = @ \cup {evtmap'[e]}]
    BY <1>1 DEF EventInserts
  <2>2. \A f \in DOMAIN evtmap : f \in DOMAIN evtmap' /\ evtmap'[f] = evtmap[f]
    BY <2>1 DEF Inserted
  <2>3. e \in DOMAIN evtmap'
    BY <2>1
  <2>4. \A f \in TreeEvents : \A l \in lists'[f] : l \in lists[f] \/ (f = e /\ l = evtmap'[e])
    BY <2>1 DEF TreeInv
  <2>5. DOMAIN lists' = TreeEvents
    BY <2>1 DEF TreeInv
  <2> QED
    BY <2>2, <2>3, <2>4, <2>5 DEF TreeInv
<1>2. ASSUME NEW t \in Finders, EventFound(t)
      PROVE  TreeInv'
  <2>1. PICK e : /\ e \in DOMAIN evtmap /\ evtmap' = evtmap
                 /\ lists' = [lists EXCEPT ![e] = @ \cup {evtmap[e]}]
    BY <1>2 DEF EventFound
  <2>2. \A f \in TreeEvents : \A l \in lists'[f] : l \in lists[f] \/ (f = e /\ l = evtmap[e])
    BY <2>1 DEF TreeInv
  <2>3. DOMAIN lists' = TreeEvents
    BY <2>1 DEF TreeInv
  <2> QED
    BY <2>1, <2>2, <2>3 DEF TreeInv
<1>4. ASSUME NEW t \in Finders, EventMissed(t) \/ \E e \in TreeEvents : Event(t, e)
      PROVE  TreeInv'
  BY <1>4 DEF Event, EventMissed, TreeInv
<1>3. ASSUME UNCHANGED treeVars
      PROVE  TreeInv'
  BY <1>3 DEF treeVars, TreeInv
<1> QED
  BY <1>1, <1>2, <1>3, <1>4 DEF TreeNext

LEMMA TreeInvGives == TreeInv => OneListPerEvent
<1> SUFFICES ASSUME TreeInv, NEW e \in TreeEvents
             PROVE  Cardinality(lists[e]) <= 1
  BY DEF OneListPerEvent
<1>1. lists[e] \in SUBSET {evtmap[e]}
  BY DEF TreeInv
<1>2. IsFiniteSet({evtmap[e]}) /\ Cardinality({evtmap[e]}) = 1
  BY FS_Singleton
<1> QED
  BY <1>1, <1>2, FS_Subset

-------------------------------------------------------------------------------
(***************************************************************************)
(* Token maps.  A source's token is as far behind the ticker as others were   *)
(* given away since, so the next is of nobody who has not outlasted them.      *)
(***************************************************************************)
Paired ==
  /\ DOMAIN d2s = {s2d[s] : s \in DOMAIN s2d}
  /\ \A s \in DOMAIN s2d : d2s[s2d[s]] = s

TokenInv ==
  tokenOdd = {} =>
    /\ Paired
    /\ ticker \in 0 .. LastToken /\ DOMAIN age = DOMAIN s2d
    /\ ticker = 0 => DOMAIN s2d = {}
    /\ \A s \in DOMAIN s2d :
         /\ age[s] \in 0 .. LastToken - 1
         /\ s2d[s] = IF age[s] < ticker THEN ticker - age[s] ELSE ticker - age[s] + LastToken
    /\ tokenErasing \in Seq(DOMAIN s2d)

LEMMA TokenInvInit == TokenInit => TokenInv
BY EmptySeq, DispatchAssumption DEF TokenInit, TokenInv, Paired, Empty

LEMMA TokenInvStep == TokenInv /\ [TokenNext]_tokenVars => TokenInv'
<1> SUFFICES ASSUME TokenInv, [TokenNext]_tokenVars, tokenOdd' = {}
             PROVE  TokenInv'
  BY DEF TokenInv
<1>0. LastToken \in Nat \ {0}
  BY DispatchAssumption
<1>1. tokenOdd = {}
  BY DEF TokenNext, tokenVars
<1>2. Paired
  BY <1>1 DEF TokenInv
<1>3. ASSUME NEW s \in DOMAIN s2d, TokenInsert(s)
      PROVE  TokenInv'
  <2>1. /\ s2d' = s2d /\ d2s' = Put(d2s, s2d[s], s)
        /\ UNCHANGED <<ticker, age, tokenErasing>>
    BY <1>3 DEF TokenInsert
  <2>2. Paired'
    BY <1>2, <2>1 DEF Put, Paired
  <2> QED
    BY <1>1, <2>1, <2>2 DEF TokenInv
<1>4. ASSUME NEW s, s \notin DOMAIN s2d, TokenInsert(s)
      PROVE  TokenInv'
  <2>1. PICK n : n = NextToken
    OBVIOUS
  <2>2. /\ s2d' = Put(s2d, s, n) /\ d2s' = Put(d2s, n, s) /\ ticker' = n
        /\ age' = [r \in DOMAIN s2d \cup {s} |-> IF r = s THEN 0 ELSE age[r] + 1]
        /\ tokenErasing' = tokenErasing
        /\ \A r \in DOMAIN s2d : age[r] + 1 # LastToken
    BY <1>4, <2>1 DEF TokenInsert
  <2>3. n \in 1 .. LastToken /\ n = IF ticker = LastToken THEN 1 ELSE ticker + 1
    BY <1>0, <1>1, <2>1 DEF NextToken, TokenInv
  <2>4. DOMAIN age' = DOMAIN s2d' /\ DOMAIN s2d' = DOMAIN s2d \cup {s}
        /\ s2d'[s] = n /\ age'[s] = 0
        /\ \A r \in DOMAIN s2d : s2d'[r] = s2d[r] /\ age'[r] = age[r] + 1
    BY <1>4, <2>2 DEF Put
  <2>5. ASSUME NEW r \in DOMAIN s2d
        PROVE  /\ s2d[r] # n /\ age'[r] \in 0 .. LastToken - 1
               /\ s2d'[r] = IF age'[r] < n THEN n - age'[r] ELSE n - age'[r] + LastToken
    <3>1. /\ age[r] \in 0 .. LastToken - 1 /\ age[r] + 1 # LastToken /\ ticker \in 1 .. LastToken
          /\ s2d[r] = IF age[r] < ticker THEN ticker - age[r] ELSE ticker - age[r] + LastToken
      BY <1>0, <1>1, <2>2 DEF TokenInv
    <3> QED
      BY <1>0, <2>3, <2>4, <3>1
  <2>6. /\ DOMAIN d2s' = DOMAIN d2s \cup {n} /\ d2s'[n] = s
        /\ \A k \in DOMAIN d2s : k # n => d2s'[k] = d2s[k]
    BY <2>2 DEF Put
  <2>7. Paired'
    BY <1>2, <2>4, <2>5, <2>6 DEF Paired
  <2>8. tokenErasing' \in Seq(DOMAIN s2d')
    <3>1. tokenErasing \in Seq(DOMAIN s2d) /\ DOMAIN s2d \subseteq DOMAIN s2d'
      BY <1>1, <2>4 DEF TokenInv
    <3> QED
      BY <2>2, <3>1
  <2>9. \A r \in DOMAIN s2d' :
          /\ age'[r] \in 0 .. LastToken - 1
          /\ s2d'[r] = IF age'[r] < n THEN n - age'[r] ELSE n - age'[r] + LastToken
    BY <1>0, <2>3, <2>4, <2>5
  <2>10. ticker' \in 0 .. LastToken /\ ticker' # 0 /\ ticker' = n
    BY <1>0, <2>2, <2>3
  <2> QED
    BY <2>4, <2>7, <2>8, <2>9, <2>10 DEF TokenInv
<1>5. ASSUME NEW s, TokenErase(s)
      PROVE  TokenInv'
  <2>1. /\ s \in DOMAIN s2d /\ tokenErasing' = Append(tokenErasing, s)
        /\ UNCHANGED <<s2d, d2s, ticker, age>>
    BY <1>5 DEF TokenErase
  <2>2. tokenErasing' \in Seq(DOMAIN s2d)
    BY <1>1, <2>1, AppendProperties DEF TokenInv
  <2> QED
    BY <1>1, <2>1, <2>2 DEF TokenInv, Paired
<1>6. ASSUME TokenErased
      PROVE  TokenInv'
  <2>1. PICK s : s = Last(tokenErasing)
    OBVIOUS
  <2>2. /\ tokenErasing # <<>> /\ s2d' = Dropped(s2d, s) /\ d2s' = Dropped(d2s, s2d[s])
        /\ age' = Dropped(age, s) /\ tokenErasing' = Front(tokenErasing) /\ ticker' = ticker
        /\ s \notin Range(tokenErasing')
    BY <1>6, <2>1 DEF TokenErased
  <2>3. /\ s \in DOMAIN s2d /\ tokenErasing' \in Seq(DOMAIN s2d)
    <3>1. tokenErasing \in Seq(DOMAIN s2d) /\ tokenErasing # <<>>
      BY <1>1, <2>2 DEF TokenInv
    <3> QED
      BY <2>1, <2>2, <3>1, LastFront
  <2>4. tokenErasing' \in Seq(DOMAIN s2d \ {s})
    <3>1. PICK es \in Seq(DOMAIN s2d) : es = tokenErasing'
      BY <2>3
    <3>2. \A i \in 1 .. Len(es) : es[i] \in DOMAIN s2d \ {s}
      <4>1. DOMAIN es = 1 .. Len(es) /\ \A i \in 1 .. Len(es) : es[i] \in DOMAIN s2d
        BY LenProperties, ElementOfSeq
      <4> QED
        BY <2>2, <3>1, <4>1 DEF Range
    <3> QED
      BY <3>1, <3>2, SequenceOf
  <2>5. /\ DOMAIN s2d' = DOMAIN s2d \ {s} /\ \A r \in DOMAIN s2d' : s2d'[r] = s2d[r]
        /\ DOMAIN d2s' = DOMAIN d2s \ {s2d[s]} /\ \A k \in DOMAIN d2s' : d2s'[k] = d2s[k]
    BY <2>2 DEF Dropped
  <2>6. DOMAIN age' = DOMAIN s2d' /\ \A r \in DOMAIN s2d' : age'[r] = age[r]
    BY <1>1, <2>2 DEF Dropped, TokenInv
  <2>7. \A r \in DOMAIN s2d : r # s => s2d[r] # s2d[s]
    BY <1>2, <2>3 DEF Paired
  <2>8. Paired'
    BY <1>2, <2>3, <2>5, <2>7 DEF Paired
  <2> QED
    BY <1>1, <2>2, <2>4, <2>5, <2>6, <2>8 DEF TokenInv
<1>7. ASSUME UNCHANGED tokenVars
      PROVE  TokenInv'
  BY <1>7 DEF tokenVars, TokenInv, Paired
<1> QED
  BY <1>3, <1>4, <1>5, <1>6, <1>7 DEF TokenNext

LEMMA TokenInvGives == TokenInv => TokensPaired
BY DEF TokenInv, TokensPaired, Paired

-------------------------------------------------------------------------------
(***************************************************************************)
(* Sets.                                                                    *)
(***************************************************************************)
SetInv ==
  /\ IsFiniteSet(set)
  /\ setOdd = {} => /\ setErasing \in Seq(set)
                    /\ setSeen + Len(setErasing) = Cardinality(set) /\ setSeen \in Int

LEMMA SetInvInit == SetInit => SetInv
BY FS_EmptySet, EmptySeq DEF SetInit, SetInv

LEMMA SetInvStep == SetInv /\ [SetNext]_setVars => SetInv'
<1> SUFFICES ASSUME SetInv, [SetNext]_setVars
             PROVE  SetInv'
  OBVIOUS
<1>0. Cardinality(set) \in Nat
  BY FS_CardinalityType DEF SetInv
<1>1. ASSUME setOdd = {}, NEW k \in Keys, SetInsert(k)
      PROVE  SetInv'
  <2>1. /\ IsFiniteSet(set \cup {k})
        /\ Cardinality(set \cup {k}) = IF k \in set THEN Cardinality(set) ELSE Cardinality(set) + 1
    BY FS_AddElement DEF SetInv
  <2>2. setErasing \in Seq(set \cup {k}) /\ Len(setErasing) \in Nat
    BY <1>1, LenProperties DEF SetInv
  <2> QED
    BY <1>0, <1>1, <2>1, <2>2 DEF SetInsert, SetInv
<1>2. ASSUME setOdd = {}, NEW k \in Keys, SetErase(k)
      PROVE  SetInv'
  <2>1. setErasing' \in Seq(set) /\ Len(setErasing') = Len(setErasing) + 1 /\ Len(setErasing) \in Nat
    BY <1>2, AppendProperties, LenProperties DEF SetErase, SetInv
  <2> QED
    BY <1>0, <1>2, <2>1 DEF SetErase, SetInv
<1>3. ASSUME setOdd = {}, SetEnds
      PROVE  SetInv'
  <2>1. PICK k, es : k = Last(setErasing) /\ es = Front(setErasing)
    OBVIOUS
  <2>2. /\ setErasing # <<>> /\ set' = set \ {k} /\ setErasing' = es /\ setSeen' = setSeen
        /\ setOdd' = IF k \in Range(es) THEN {"stale"} ELSE {}
    BY <1>3, <2>1 DEF SetEnds
  <2>3. k \in set /\ es \in Seq(set) /\ Len(es) = Len(setErasing) - 1
    BY <1>3, <2>1, <2>2, LastFront DEF SetInv
  <2>4. IsFiniteSet(set \ {k}) /\ Cardinality(set \ {k}) = Cardinality(set) - 1
    BY <2>3, FS_RemoveElement DEF SetInv
  <2>5. setOdd' = {} => es \in Seq(set \ {k})
    <3> SUFFICES ASSUME k \notin Range(es) PROVE es \in Seq(set \ {k})
      BY <2>2
    <3>1. DOMAIN es = 1 .. Len(es) /\ \A i \in 1 .. Len(es) : es[i] \in set
      BY <2>3, LenProperties, ElementOfSeq
    <3>2. \A i \in 1 .. Len(es) : es[i] \in set \ {k}
      BY <3>1 DEF Range
    <3> QED
      BY <2>3, <3>2, SequenceOf
  <2>6. Len(setErasing) \in Nat
    BY <1>3, LenProperties DEF SetInv
  <2> QED
    BY <1>0, <1>3, <2>2, <2>3, <2>4, <2>5, <2>6 DEF SetInv
<1>4. ASSUME SetEraseRange
      PROVE  SetInv'
  BY <1>4 DEF SetEraseRange, SetInv
<1>5. ASSUME UNCHANGED setVars
      PROVE  SetInv'
  BY <1>5 DEF setVars, SetInv
<1> QED
  BY <1>1, <1>2, <1>3, <1>4, <1>5 DEF SetNext

LEMMA SetInvGives == SetInv => SetWatched
BY EmptySeq DEF SetInv, SetWatched

-------------------------------------------------------------------------------
(***************************************************************************)
(* Maps.  The watcher knows all elements but those that are being erased, which *)
(* are still there.                                                         *)
(***************************************************************************)
Erasures == [told : Keys, iterator : BOOLEAN, new : {<<>>} \cup {<<v>> : v \in Values}]
Going(es) == {es[i].told : i \in 1 .. Len(es)}

MapInv ==
  mapOdd = {} =>
    /\ erasing \in Seq(Erasures) /\ Going(erasing) \subseteq DOMAIN map
    /\ map = [k \in DOMAIN map |-> map[k]]
    /\ mapSeen = [k \in DOMAIN map \ Going(erasing) |-> map[k]]

LEMMA MapInvInit == MapInit => MapInv
BY EmptySeq DEF MapInit, MapInv, Going, Nothing

LEMMA GoingOf ==
  ASSUME NEW es \in Seq(Erasures), NEW frame \in Erasures
  PROVE  /\ Append(es, frame) \in Seq(Erasures)
         /\ Going(Append(es, frame)) = Going(es) \cup {frame.told}
<1>1. /\ Append(es, frame) \in Seq(Erasures) /\ Len(es) \in Nat
      /\ Len(Append(es, frame)) = Len(es) + 1 /\ Append(es, frame)[Len(es) + 1] = frame
      /\ \A i \in 1 .. Len(es) : Append(es, frame)[i] = es[i]
  BY AppendProperties, LenProperties
<1>2. 1 .. Len(es) + 1 = 1 .. Len(es) \cup {Len(es) + 1}
  BY <1>1
<1> QED
  BY <1>1, <1>2 DEF Going

LEMMA GoingWithout ==
  ASSUME NEW es \in Seq(Erasures), es # <<>>
  PROVE  /\ Last(es) \in Erasures /\ Front(es) \in Seq(Erasures)
         /\ Going(es) = Going(Front(es)) \cup {Last(es).told}
         /\ Going(Front(es)) = {es[i].told : i \in 1 .. Len(es) - 1}
<1>1. /\ Len(es) \in Nat \ {0} /\ Last(es) = es[Len(es)] /\ Last(es) \in Erasures
      /\ Front(es) \in Seq(Erasures) /\ Len(Front(es)) = Len(es) - 1
      /\ \A i \in 1 .. Len(es) - 1 : Front(es)[i] = es[i]
  BY LastFront
<1>2. 1 .. Len(es) = 1 .. Len(es) - 1 \cup {Len(es)}
  BY <1>1
<1>3. Going(Front(es)) = {es[i].told : i \in 1 .. Len(es) - 1}
  BY <1>1 DEF Going
<1> QED
  BY <1>1, <1>2, <1>3 DEF Going

LEMMA MapInsertKeeps ==
  ASSUME MapInv, mapOdd = {}, NEW k \in Keys, NEW v \in Values, MapInsert(k, v)
  PROVE  MapInv'
<1>1. PICK g : g = Going(erasing)
  OBVIOUS
<1>2. erasing' = erasing /\ Going(erasing') = g
  BY <1>1 DEF MapInsert
<1>3. /\ erasing \in Seq(Erasures) /\ g \subseteq DOMAIN map
      /\ map = [i \in DOMAIN map |-> map[i]] /\ mapSeen = [i \in DOMAIN map \ g |-> map[i]]
  BY <1>1 DEF MapInv
<1>4. CASE k \in DOMAIN map
  <2>1. map' = map /\ mapSeen' = mapSeen
    BY <1>4 DEF MapInsert
  <2> QED
    BY <1>2, <1>3, <2>1 DEF MapInv
<1>5. CASE k \notin DOMAIN map
  <2>1. map' = MapWith(map, k, v) /\ mapSeen' = MapWith(mapSeen, k, v)
    BY <1>5 DEF MapInsert
  <2>2. map' = [i \in DOMAIN map \cup {k} |-> IF i = k THEN v ELSE map[i]]
    BY <2>1 DEF MapWith
  <2>3. DOMAIN map' \ g = DOMAIN mapSeen \cup {k}
    BY <1>3, <1>5, <2>2
  <2>4. mapSeen' = [i \in DOMAIN map' \ g |-> IF i = k THEN v ELSE mapSeen[i]]
    BY <2>1, <2>3 DEF MapWith
  <2>5. \A i \in DOMAIN map' \ g : (IF i = k THEN v ELSE mapSeen[i]) = map'[i]
    BY <1>3, <2>2
  <2>6. mapSeen' = [i \in DOMAIN map' \ g |-> map'[i]]
    BY <2>4, <2>5, Zenon
  <2>7. map' = [i \in DOMAIN map' |-> map'[i]] /\ g \subseteq DOMAIN map'
    BY <1>3, <2>2
  <2> QED
    BY <1>2, <1>3, <2>6, <2>7 DEF MapInv
<1> QED
  BY <1>4, <1>5

LEMMA BeginEraseKeeps ==
  ASSUME MapInv, mapOdd = {}, NEW k \in Keys, k \in DOMAIN map, NEW iterator \in BOOLEAN,
         NEW new \in {<<>>} \cup {<<v>> : v \in Values}, BeginErase(k, iterator, new)
  PROVE  MapInv'
<1>1. PICK g : g = Going(erasing)
  OBVIOUS
<1>2. PICK frame : frame = [told |-> k, iterator |-> iterator, new |-> new]
  OBVIOUS
<1>3. frame \in Erasures /\ frame.told = k
  BY <1>2 DEF Erasures
<1>4. /\ erasing \in Seq(Erasures) /\ g \subseteq DOMAIN map
      /\ map = [i \in DOMAIN map |-> map[i]] /\ mapSeen = [i \in DOMAIN map \ g |-> map[i]]
  BY <1>1 DEF MapInv
<1>5. erasing' = Append(erasing, frame) /\ map' = map /\ mapSeen' = MapLess(mapSeen, k)
  BY <1>2 DEF BeginErase
<1>6. erasing' \in Seq(Erasures) /\ Going(erasing') = g \cup {k}
  BY <1>1, <1>3, <1>4, <1>5, GoingOf
<1>7. mapSeen' = [i \in DOMAIN map \ (g \cup {k}) |-> map[i]]
  BY <1>4, <1>5 DEF MapLess
<1> QED
  BY <1>4, <1>5, <1>6, <1>7 DEF MapInv

LEMMA EndEraseKeeps ==
  ASSUME MapInv, mapOdd = {}, mapOdd' = {}, EndErase
  PROVE  MapInv'
<1>1. PICK frame, k : frame = Last(erasing) /\ k = frame.told
  OBVIOUS
<1>2. PICK g : g = Going(Front(erasing))
  OBVIOUS
<1>3. /\ erasing \in Seq(Erasures) /\ Going(erasing) \subseteq DOMAIN map
      /\ map = [i \in DOMAIN map |-> map[i]]
      /\ mapSeen = [i \in DOMAIN map \ Going(erasing) |-> map[i]]
  BY DEF MapInv
<1>4. erasing # <<>> /\ erasing' = Front(erasing)
  BY DEF EndErase
<1>5. /\ frame \in Erasures /\ erasing' \in Seq(Erasures) /\ Going(erasing') = g
      /\ Going(erasing) = g \cup {k} /\ g = {erasing[i].told : i \in 1 .. Len(erasing) - 1}
  BY <1>1, <1>2, <1>3, <1>4, GoingWithout
<1>6. Victim(frame) \in DOMAIN map /\ MapOddness(frame) = {}
  BY <1>1 DEF EndErase
<1>7. Victim(frame) = k /\ k \notin g
  BY <1>1, <1>5, <1>6 DEF MapOddness
<1>8. PICK left : left = MapLess(map, k)
  OBVIOUS
<1>9. left = [i \in DOMAIN map \ {k} |-> map[i]]
  BY <1>8 DEF MapLess
<1>10. g \subseteq DOMAIN left
  BY <1>3, <1>5, <1>7, <1>9
<1>11. CASE frame.new = <<>>
  <2>1. map' = left /\ mapSeen' = mapSeen
    BY <1>1, <1>6, <1>7, <1>8, <1>11 DEF EndErase
  <2>2. DOMAIN left \ g = DOMAIN map \ Going(erasing)
    BY <1>5, <1>9
  <2>3. mapSeen = [i \in DOMAIN left \ g |-> left[i]]
    BY <1>3, <1>9, <2>2
  <2>4. left = [i \in DOMAIN left |-> left[i]]
    BY <1>9
  <2> QED
    BY <1>5, <1>10, <2>1, <2>3, <2>4 DEF MapInv
<1>12. CASE frame.new # <<>>
  <2>1. k \notin DOMAIN left
    BY <1>9
  <2>2. map' = MapWith(left, k, frame.new[1]) /\ mapSeen' = MapWith(mapSeen, k, map'[k])
    BY <1>1, <1>6, <1>7, <1>8, <1>12, <2>1 DEF EndErase
  <2>3. map' = [i \in DOMAIN left \cup {k} |-> IF i = k THEN frame.new[1] ELSE left[i]]
    BY <2>2 DEF MapWith
  <2>4. DOMAIN map' \ g = DOMAIN mapSeen \cup {k}
    BY <1>3, <1>5, <1>7, <1>9, <2>3
  <2>5. mapSeen' = [i \in DOMAIN map' \ g |-> IF i = k THEN map'[k] ELSE mapSeen[i]]
    BY <2>2, <2>4 DEF MapWith
  <2>6. \A i \in DOMAIN map' \ g : (IF i = k THEN map'[k] ELSE mapSeen[i]) = map'[i]
    BY <1>3, <1>5, <1>9, <2>3
  <2>7. mapSeen' = [i \in DOMAIN map' \ g |-> map'[i]]
    BY <2>5, <2>6, Zenon
  <2>8. map' = [i \in DOMAIN map' |-> map'[i]] /\ g \subseteq DOMAIN map'
    BY <1>10, <2>3
  <2> QED
    BY <1>5, <2>7, <2>8 DEF MapInv
<1> QED
  BY <1>11, <1>12

LEMMA MapInvStep == MapInv /\ [MapNext]_mapVars => MapInv'
<1> SUFFICES ASSUME MapInv, [MapNext]_mapVars, mapOdd' = {}
             PROVE  MapInv'
  BY DEF MapInv
<1>1. ASSUME mapOdd = {}, NEW k \in Keys, NEW v \in Values, MapInsert(k, v) \/ Update(k, v)
      PROVE  MapInv'
  <2>1. CASE MapInsert(k, v)
    BY <1>1, <2>1, MapInsertKeeps
  <2>2. CASE k \in DOMAIN map /\ BeginErase(k, FALSE, <<v>>)
    <3>1. <<v>> \in {<<>>} \cup {<<w>> : w \in Values}
      OBVIOUS
    <3> QED
      BY <1>1, <2>2, <3>1, BeginEraseKeeps
  <2> QED
    BY <1>1, <2>1, <2>2 DEF Update
<1>2. ASSUME mapOdd = {}, NEW k \in Keys, EraseKey(k)
      PROVE  MapInv'
  <2>1. CASE k \in DOMAIN map
    <3>1. BeginErase(k, FALSE, <<>>)
      BY <1>2, <2>1 DEF EraseKey
    <3> QED
      BY <1>2, <2>1, <3>1, BeginEraseKeeps
  <2>2. CASE k \notin DOMAIN map
    BY <1>2, <2>2 DEF EraseKey, MapInv
  <2> QED
    BY <2>1, <2>2
<1>3. ASSUME mapOdd = {}, NEW k \in Keys, EraseIterator(k)
      PROVE  MapInv'
  BY <1>3, BeginEraseKeeps DEF EraseIterator
<1>4. ASSUME mapOdd = {}, EndErase
      PROVE  MapInv'
  BY <1>4, EndEraseKeeps
<1>5. ASSUME EraseRange
      PROVE  MapInv'
  BY <1>5 DEF EraseRange
<1>6. ASSUME NEW m, MapCopy(m)
      PROVE  MapInv'
  BY <1>6 DEF MapCopy
<1>7. ASSUME UNCHANGED mapVars
      PROVE  MapInv'
  BY <1>7 DEF mapVars, MapInv
<1> QED
  BY <1>1, <1>2, <1>3, <1>4, <1>5, <1>6, <1>7 DEF MapNext

LEMMA MapInvGives == MapInv => MapWatched
<1> SUFFICES ASSUME MapInv, mapOdd = {}, erasing = <<>>
             PROVE  mapSeen = map
  BY DEF MapWatched
<1>1. Going(erasing) = {}
  BY EmptySeq DEF Going
<1> QED
  BY <1>1 DEF MapInv

-------------------------------------------------------------------------------
(***************************************************************************)
(* Priority tables.  A receiver has been called once for each of its places   *)
(* that the notification has passed, and is expected once for each it has;    *)
(* whoever comes and goes moves these places, but for those that are excused. *)
(***************************************************************************)
LevelSpace == -HalfLevels .. HalfLevels - 1

IsTable(table) ==
  /\ DOMAIN table \subseteq LevelSpace
  /\ \A l \in DOMAIN table : table[l] \in Seq(Receivers) /\ Len(table[l]) <= MaxInstalled

Spots(table, r) ==
  {p \in (DOMAIN table) \X (1 .. MaxInstalled) : p[2] \in DOMAIN table[p[1]] /\ table[p[1]][p[2]] = r}
Passed(S, w) == {p \in S : p[1] < w.lvl \/ (p[1] = w.lvl /\ p[2] <= w.i)}

IsWalk(w, table) ==
  /\ w = [lvl |-> w.lvl, i |-> w.i] /\ w.i \in Nat
  /\ w.lvl \in DOMAIN table \/ (w.lvl = HalfLevels /\ w.i = 0)

Installs(x) ==
  x = NoInstall \/ x \in [at : {"search", "insert", "again", "ub"}, who : Receivers,
                          lvl : LevelSpace, torn : BOOLEAN]

TableInv ==
  /\ IsTable(mlmap) /\ DOMAIN mlmap # {} /\ IsWalk(walk, mlmap)
  /\ DOMAIN calls = Receivers /\ DOMAIN expected = Receivers
  /\ Installs(installer)
  /\ \A r \in Receivers \ excused :
       /\ calls[r] = Cardinality(Passed(Spots(mlmap, r), walk))
       /\ expected[r] = Cardinality(Spots(mlmap, r))

LEMMA Sizes == HalfLevels \in Nat /\ HalfLevels > 0 /\ MaxInstalled \in Nat
BY DispatchAssumption

LEMMA SpotsFinite ==
  ASSUME NEW table, IsTable(table), NEW r
  PROVE  IsFiniteSet(Spots(table, r)) /\ Cardinality(Spots(table, r)) \in Nat
<1>1. IsFiniteSet(LevelSpace) /\ IsFiniteSet(1 .. MaxInstalled)
  <2>1. -HalfLevels \in Int /\ HalfLevels - 1 \in Int /\ 1 \in Int /\ MaxInstalled \in Int
    BY Sizes
  <2> QED
    BY <2>1, FS_Interval DEF LevelSpace
<1>2. IsFiniteSet(DOMAIN table)
  BY <1>1, FS_Subset DEF IsTable
<1>3. IsFiniteSet((DOMAIN table) \X (1 .. MaxInstalled))
  BY <1>1, <1>2, FS_Product
<1>4. Spots(table, r) \in SUBSET ((DOMAIN table) \X (1 .. MaxInstalled))
  BY DEF Spots
<1> QED
  BY <1>3, <1>4, FS_Subset, FS_CardinalityType

(* A spot is a level and a place in its list. *)
LEMMA SpotIs ==
  ASSUME NEW table, IsTable(table), NEW r, NEW p
  PROVE  p \in Spots(table, r) <=>
           /\ p = <<p[1], p[2]>> /\ p[1] \in DOMAIN table
           /\ p[2] \in 1 .. Len(table[p[1]]) /\ table[p[1]][p[2]] = r
<1>1. ASSUME NEW l \in DOMAIN table
      PROVE  /\ DOMAIN table[l] = 1 .. Len(table[l])
             /\ \A i \in 1 .. Len(table[l]) : i \in 1 .. MaxInstalled
  <2>1. table[l] \in Seq(Receivers) /\ Len(table[l]) <= MaxInstalled
    BY DEF IsTable
  <2>2. Len(table[l]) \in Nat /\ DOMAIN table[l] = 1 .. Len(table[l])
    BY <2>1, LenProperties
  <2> QED
    BY <2>1, <2>2, Sizes
<1>2. ASSUME p \in Spots(table, r)
      PROVE  /\ p = <<p[1], p[2]>> /\ p[1] \in DOMAIN table
             /\ p[2] \in 1 .. Len(table[p[1]]) /\ table[p[1]][p[2]] = r
  BY <1>1, <1>2 DEF Spots
<1>3. ASSUME p = <<p[1], p[2]>>, p[1] \in DOMAIN table,
             p[2] \in 1 .. Len(table[p[1]]), table[p[1]][p[2]] = r
      PROVE  p \in Spots(table, r)
  <2>1. p[2] \in DOMAIN table[p[1]] /\ p[2] \in 1 .. MaxInstalled
    BY <1>1, <1>3
  <2>2. p \in (DOMAIN table) \X (1 .. MaxInstalled)
    BY <1>3, <2>1
  <2> QED
    BY <1>3, <2>1, <2>2 DEF Spots
<1> QED
  BY <1>2, <1>3

(* The least level, and the first place. *)
LEMMA LeastLevel ==
  ASSUME NEW T, T \subseteq LevelSpace, T # {}
  PROVE  Min(T) \in T /\ \A y \in T : Min(T) <= y
<1> DEFINE U == {y + HalfLevels : y \in T}
<1>1. \A y \in T : y \in Int /\ -HalfLevels <= y
  BY Sizes DEF LevelSpace
<1>2. U \subseteq Nat /\ U # {}
  BY <1>1, Sizes
<1>3. \E u \in U : \A v \in U : u <= v
  <2> HIDE DEF U
  <2> QED
    BY <1>2, LeastNumber
<1>4. \E x \in T : \A y \in T : x + HalfLevels <= y + HalfLevels
  BY <1>3
<1>5. \A x, y \in T : x + HalfLevels <= y + HalfLevels => x <= y
  BY <1>1, Sizes
<1>6. \E x \in T : \A y \in T : x <= y
  BY <1>4, <1>5
<1> QED
  BY <1>6 DEF Min

LEMMA FirstIs ==
  ASSUME NEW s \in Seq(Receivers), NEW x \in Range(s)
  PROVE  First(s, x) \in 1 .. Len(s) /\ s[First(s, x)] = x
<1> DEFINE T == {i \in DOMAIN s : s[i] = x}
<1>1. DOMAIN s = 1 .. Len(s) /\ Len(s) \in Nat
  BY LenProperties
<1>2. T \subseteq Nat /\ T # {}
  BY <1>1 DEF Range
<1>3. \E i \in T : \A j \in T : i <= j
  <2> HIDE DEF T
  <2> QED
    BY <1>2, LeastNumber
<1>4. Min(T) \in T
  BY <1>3 DEF Min
<1> QED
  BY <1>1, <1>4 DEF First

-------------------------------------------------------------------------------
(* The removal of a callback of x from some levels: where the others go. *)
LEMMA RemovedWhere ==
  ASSUME NEW s \in Seq(Receivers), NEW c \in 1 .. Len(s), NEW r, s[c] # r
  PROVE  /\ RemoveAt(s, c) \in Seq(Receivers) /\ Len(RemoveAt(s, c)) = Len(s) - 1
         /\ \A i \in 1 .. Len(s) : s[i] = r =>
              IF i > c THEN i - 1 \in 1 .. Len(s) - 1 /\ RemoveAt(s, c)[i - 1] = r
              ELSE i < c /\ i \in 1 .. Len(s) - 1 /\ RemoveAt(s, c)[i] = r
         /\ \A i \in 1 .. Len(s) - 1 : RemoveAt(s, c)[i] = r =>
              IF i < c THEN s[i] = r ELSE i + 1 \in 1 .. Len(s) /\ s[i + 1] = r
<1>1. /\ RemoveAt(s, c) \in Seq(Receivers) /\ Len(RemoveAt(s, c)) = Len(s) - 1
  BY RemoveAtProperties
<1>2. PICK u : u = RemoveAt(s, c)
  OBVIOUS
<1>3. \A k \in 1 .. Len(s) - 1 : u[k] = IF k < c THEN s[k] ELSE s[k + 1]
  BY <1>2, RemoveAtElements
<1>4. Len(s) \in Nat /\ c \in Nat /\ 1 <= c /\ c <= Len(s)
  BY LenProperties
<1>5. ASSUME NEW i \in 1 .. Len(s), s[i] = r
      PROVE  IF i > c THEN i - 1 \in 1 .. Len(s) - 1 /\ u[i - 1] = r
             ELSE i < c /\ i \in 1 .. Len(s) - 1 /\ u[i] = r
  <2>1. i # c
    BY <1>5
  <2>2. CASE i > c
    <3>1. i - 1 \in 1 .. Len(s) - 1 /\ ~(i - 1 < c) /\ i - 1 + 1 = i
      BY <1>4, <2>2
    <3>2. u[i - 1] = s[i]
      BY <1>3, <3>1
    <3> QED
      BY <1>5, <2>2, <3>1, <3>2
  <2>3. CASE ~(i > c)
    <3>1. i < c /\ i \in 1 .. Len(s) - 1
      BY <1>4, <2>1, <2>3
    <3>2. u[i] = s[i]
      BY <1>3, <3>1
    <3> QED
      BY <1>5, <2>3, <3>1, <3>2
  <2> QED
    BY <2>2, <2>3
<1>6. ASSUME NEW i \in 1 .. Len(s) - 1, u[i] = r
      PROVE  IF i < c THEN s[i] = r ELSE i + 1 \in 1 .. Len(s) /\ s[i + 1] = r
  <2>1. i + 1 \in 1 .. Len(s)
    BY <1>4
  <2>2. u[i] = IF i < c THEN s[i] ELSE s[i + 1]
    BY <1>3
  <2> QED
    BY <1>6, <2>1, <2>2
<1> QED
  BY <1>1, <1>2, <1>5, <1>6

TakenFrom(x, L) ==
  [l \in DOMAIN mlmap |-> IF l \in L THEN Removed(x, l) ELSE mlmap[l]]

LEMMA RemovalKeeps ==
  ASSUME IsTable(mlmap), IsWalk(walk, mlmap), NEW x, NEW L, L \subseteq LevelsOf(x),
         NEW table, table = TakenFrom(x, L)
  PROVE  /\ IsTable(table) /\ DOMAIN table = DOMAIN mlmap
         /\ \A l \in L : l \in DOMAIN mlmap /\ Len(table[l]) < MaxInstalled
         /\ \A l \in DOMAIN mlmap \ L : table[l] = mlmap[l]
         /\ \A r : r # x /\ r \notin PassedOver(x, L) =>
              /\ Cardinality(Spots(table, r)) = Cardinality(Spots(mlmap, r))
              /\ Cardinality(Passed(Spots(table, r), walk)) = Cardinality(Passed(Spots(mlmap, r), walk))
<1>1. /\ DOMAIN table = DOMAIN mlmap /\ L \subseteq DOMAIN mlmap
      /\ \A l \in DOMAIN mlmap \ L : table[l] = mlmap[l]
  BY DEF TakenFrom, LevelsOf
<1>2. PICK cut : cut = [l \in L |-> First(mlmap[l], x)]
  OBVIOUS
<1>3. ASSUME NEW l \in L
      PROVE  /\ mlmap[l] \in Seq(Receivers) /\ Len(mlmap[l]) \in Nat /\ Len(mlmap[l]) <= MaxInstalled
             /\ cut[l] \in 1 .. Len(mlmap[l]) /\ mlmap[l][cut[l]] = x
             /\ table[l] = RemoveAt(mlmap[l], cut[l])
  <2>1. l \in DOMAIN mlmap /\ x \in Range(mlmap[l])
    BY DEF LevelsOf
  <2>2. mlmap[l] \in Seq(Receivers) /\ Len(mlmap[l]) <= MaxInstalled
    BY <2>1 DEF IsTable
  <2>3. First(mlmap[l], x) \in 1 .. Len(mlmap[l]) /\ mlmap[l][First(mlmap[l], x)] = x
    BY <2>1, <2>2, FirstIs
  <2>4. table[l] = RemoveAt(mlmap[l], First(mlmap[l], x))
    BY <2>1 DEF TakenFrom, Removed
  <2> QED
    BY <1>2, <2>2, <2>3, <2>4, LenProperties
<1>4. ASSUME NEW l \in L
      PROVE  table[l] \in Seq(Receivers) /\ Len(table[l]) = Len(mlmap[l]) - 1 /\ Len(table[l]) < MaxInstalled
  <2>1. RemoveAt(mlmap[l], cut[l]) \in Seq(Receivers) /\ Len(RemoveAt(mlmap[l], cut[l])) = Len(mlmap[l]) - 1
    BY <1>3, RemoveAtProperties
  <2> QED
    BY <1>3, <2>1, Sizes
<1>5. IsTable(table)
  <2>1. ASSUME NEW l \in DOMAIN table
        PROVE  table[l] \in Seq(Receivers) /\ Len(table[l]) <= MaxInstalled
    <3>1. CASE l \in L
      <4>1. Len(table[l]) \in Nat
        BY <1>4, <3>1, LenProperties
      <4> QED
        BY <1>4, <3>1, <4>1, Sizes
    <3>2. CASE l \notin L
      BY <1>1, <3>2 DEF IsTable
    <3> QED
      BY <3>1, <3>2
  <2> QED
    BY <1>1, <2>1 DEF IsTable
<1>6. ASSUME NEW r, r # x, r \notin PassedOver(x, L)
      PROVE  /\ Cardinality(Spots(table, r)) = Cardinality(Spots(mlmap, r))
             /\ Cardinality(Passed(Spots(table, r), walk)) = Cardinality(Passed(Spots(mlmap, r), walk))
  <2>1. PICK S, T : S = Spots(mlmap, r) /\ T = Spots(table, r)
    OBVIOUS
  <2>2. PICK f : f = [p \in S |-> IF p[1] \in L /\ p[2] > cut[p[1]] THEN <<p[1], p[2] - 1>> ELSE p]
    OBVIOUS
  <2>3. ASSUME NEW p \in S
        PROVE  /\ p = <<p[1], p[2]>> /\ p[1] \in DOMAIN mlmap /\ p[2] \in Nat
               /\ p[2] \in 1 .. Len(mlmap[p[1]]) /\ mlmap[p[1]][p[2]] = r
               /\ p[1] \in L => p[2] # cut[p[1]] /\ cut[p[1]] \in Nat
    <3>1. /\ p = <<p[1], p[2]>> /\ p[1] \in DOMAIN mlmap
          /\ p[2] \in 1 .. Len(mlmap[p[1]]) /\ mlmap[p[1]][p[2]] = r
      BY <2>1, SpotIs
    <3> QED
      BY <1>3, <1>6, <3>1
  <2>4. ASSUME NEW p \in S
        PROVE  /\ f[p] \in T /\ f[p][1] = p[1]
               /\ f[p][2] = IF p[1] \in L /\ p[2] > cut[p[1]] THEN p[2] - 1 ELSE p[2]
               /\ f[p] = <<f[p][1], f[p][2]>>
    <3>1. CASE p[1] \in L
      <4>1. PICK l \in L : l = p[1]
        BY <3>1
      <4>0. PICK i \in 1 .. Len(mlmap[l]) : i = p[2]
        BY <2>3, <4>1
      <4>2. mlmap[l][i] = r /\ mlmap[l][cut[l]] # r
        BY <1>3, <1>6, <2>3, <4>0, <4>1
      <4>3. IF i > cut[l] THEN i - 1 \in 1 .. Len(mlmap[l]) - 1 /\ RemoveAt(mlmap[l], cut[l])[i - 1] = r
            ELSE i < cut[l] /\ i \in 1 .. Len(mlmap[l]) - 1 /\ RemoveAt(mlmap[l], cut[l])[i] = r
        <5>1. PICK s \in Seq(Receivers) : s = mlmap[l]
          BY <1>3
        <5>2. PICK c \in 1 .. Len(s) : c = cut[l]
          BY <1>3, <5>1
        <5>3. s[c] # r
          BY <4>2, <5>1, <5>2
        <5>4. \A k \in 1 .. Len(s) : s[k] = r =>
                IF k > c THEN k - 1 \in 1 .. Len(s) - 1 /\ RemoveAt(s, c)[k - 1] = r
                ELSE k < c /\ k \in 1 .. Len(s) - 1 /\ RemoveAt(s, c)[k] = r
          BY <5>3, RemovedWhere
        <5> QED
          BY <4>2, <5>1, <5>2, <5>4
      <4>4. table[l] = RemoveAt(mlmap[l], cut[l]) /\ Len(table[l]) = Len(mlmap[l]) - 1
        BY <1>3, <1>4
      <4>5. CASE i > cut[l]
        <5>1. f[p] = <<l, i - 1>>
          BY <2>2, <4>0, <4>1, <4>5
        <5>2. i - 1 \in 1 .. Len(table[l]) /\ table[l][i - 1] = r
          BY <4>3, <4>4, <4>5
        <5>3. PICK q : q = <<l, i - 1>>
          OBVIOUS
        <5>4. q[1] = l /\ q[2] = i - 1 /\ q = <<q[1], q[2]>> /\ q[1] \in DOMAIN table
          BY <1>1, <5>3
        <5>5. q \in T
          BY <1>5, <2>1, <5>2, <5>4, SpotIs
        <5> QED
          BY <4>0, <4>1, <4>5, <5>1, <5>3, <5>4, <5>5
      <4>6. CASE ~(i > cut[l])
        <5>1. f[p] = p
          BY <2>2, <4>0, <4>1, <4>6
        <5>2. i \in 1 .. Len(table[l]) /\ table[l][i] = r
          BY <4>3, <4>4, <4>6
        <5>3. p \in T
          BY <1>1, <1>5, <2>1, <2>3, <4>0, <4>1, <5>2, SpotIs
        <5> QED
          BY <2>3, <4>0, <4>1, <4>6, <5>1, <5>3
      <4> QED
        BY <4>5, <4>6
    <3>2. CASE p[1] \notin L
      <4>1. f[p] = p /\ table[p[1]] = mlmap[p[1]]
        BY <1>1, <2>2, <2>3, <3>2
      <4>2. p \in T
        BY <1>1, <1>5, <2>1, <2>3, <4>1, SpotIs
      <4> QED
        BY <2>3, <3>2, <4>1, <4>2
    <3> QED
      BY <3>1, <3>2
  <2>5. ASSUME NEW p \in S, NEW q \in S, f[p] = f[q]
        PROVE  p = q
    <3>1. p[1] = q[1]
      BY <2>4, <2>5
    <3>2. p[2] = q[2]
      <4>1. CASE p[1] \notin L
        BY <2>4, <2>5, <3>1, <4>1
      <4>2. CASE p[1] \in L
        <5>1. /\ p[2] \in Nat /\ q[2] \in Nat /\ cut[p[1]] \in Nat
              /\ p[2] # cut[p[1]] /\ q[2] # cut[p[1]]
          BY <2>3, <3>1, <4>2
        <5>2. (IF p[2] > cut[p[1]] THEN p[2] - 1 ELSE p[2]) = (IF q[2] > cut[p[1]] THEN q[2] - 1 ELSE q[2])
          BY <2>4, <2>5, <3>1, <4>2
        <5> QED
          BY <5>1, <5>2
      <4> QED
        BY <4>1, <4>2
    <3> QED
      BY <2>3, <3>1, <3>2
  <2>6. ASSUME NEW q \in T
        PROVE  \E p \in S : f[p] = q
    <3>1. /\ q = <<q[1], q[2]>> /\ q[1] \in DOMAIN table
          /\ q[2] \in 1 .. Len(table[q[1]]) /\ table[q[1]][q[2]] = r
      BY <1>5, <2>1, SpotIs
    <3>2. CASE q[1] \in L
      <4>1. PICK l \in L : l = q[1]
        BY <3>2
      <4>0. PICK i \in 1 .. Len(mlmap[l]) - 1 : i = q[2]
        BY <1>4, <3>1, <4>1
      <4>2. RemoveAt(mlmap[l], cut[l])[i] = r /\ mlmap[l][cut[l]] # r
        BY <1>3, <1>6, <3>1, <4>0, <4>1
      <4>3. IF i < cut[l] THEN mlmap[l][i] = r ELSE i + 1 \in 1 .. Len(mlmap[l]) /\ mlmap[l][i + 1] = r
        <5>1. PICK s \in Seq(Receivers) : s = mlmap[l]
          BY <1>3
        <5>2. PICK c \in 1 .. Len(s) : c = cut[l]
          BY <1>3, <5>1
        <5>3. s[c] # r
          BY <4>2, <5>1, <5>2
        <5>4. \A k \in 1 .. Len(s) - 1 : RemoveAt(s, c)[k] = r =>
                IF k < c THEN s[k] = r ELSE k + 1 \in 1 .. Len(s) /\ s[k + 1] = r
          BY <5>3, RemovedWhere
        <5> QED
          BY <4>2, <5>1, <5>2, <5>4
      <4>4. cut[l] \in Nat /\ i \in Nat /\ i \in 1 .. Len(mlmap[l]) /\ l \in DOMAIN mlmap
        BY <1>1, <1>3
      <4>5. PICK p : p = IF i < cut[l] THEN <<l, i>> ELSE <<l, i + 1>>
        OBVIOUS
      <4>6. p = <<p[1], p[2]>> /\ p[1] = l /\ p[2] = IF i < cut[l] THEN i ELSE i + 1
        BY <4>5
      <4>7. p[2] \in 1 .. Len(mlmap[l]) /\ mlmap[l][p[2]] = r
        BY <4>3, <4>4, <4>6
      <4>8. p \in S
        BY <2>1, <4>4, <4>6, <4>7, SpotIs
      <4>9. f[p] = <<l, i>>
        <5>1. CASE i < cut[l]
          <6>1. p = <<l, i>> /\ ~(p[2] > cut[p[1]])
            BY <4>4, <4>5, <4>6, <5>1
          <6> QED
            BY <2>2, <4>8, <6>1
        <5>2. CASE ~(i < cut[l])
          <6>1. p[2] = i + 1 /\ p[2] > cut[p[1]] /\ p[1] \in L /\ p[2] - 1 = i
            BY <4>4, <4>6, <5>2
          <6> QED
            BY <2>2, <4>6, <4>8, <6>1
        <5> QED
          BY <5>1, <5>2
      <4> QED
        BY <3>1, <4>0, <4>1, <4>8, <4>9
    <3>3. CASE q[1] \notin L
      <4>1. table[q[1]] = mlmap[q[1]] /\ q[1] \in DOMAIN mlmap
        BY <1>1, <3>1, <3>3
      <4>2. q \in S
        BY <2>1, <3>1, <4>1, SpotIs
      <4>3. f[q] = q
        BY <2>2, <3>3, <4>2
      <4> QED
        BY <4>2, <4>3
    <3> QED
      BY <3>2, <3>3
  <2>7. f \in [S -> T]
    BY <2>2, <2>4
  <2>8. IsFiniteSet(S)
    BY <2>1, SpotsFinite
  <2>9. Cardinality(T) = Cardinality(S)
    BY <2>5, <2>6, <2>7, <2>8, SameSize
  <2>10. ASSUME NEW p \in S
         PROVE  p \in Passed(S, walk) <=> f[p] \in Passed(T, walk)
    <3>1. p[1] = f[p][1] /\ f[p] \in T
      BY <2>4
    <3>2. CASE p[1] # walk.lvl \/ ~(p[1] \in L /\ p[2] > cut[p[1]])
      <4>1. p[1] = walk.lvl => f[p][2] = p[2]
        BY <2>4, <3>2
      <4> QED
        BY <3>1, <4>1 DEF Passed
    <3>3. CASE p[1] = walk.lvl /\ p[1] \in L /\ p[2] > cut[p[1]]
      <4>1. f[p][2] = p[2] - 1 /\ p[2] \in Nat /\ cut[p[1]] \in Nat
        BY <2>3, <2>4, <3>3
      <4>2. p[2] - 1 <= walk.i => p[2] <= walk.i
        <5> SUFFICES ASSUME p[2] - 1 <= walk.i, ~(p[2] <= walk.i) PROVE FALSE
          OBVIOUS
        <5>1. walk.i \in Nat
          BY DEF IsWalk
        <5>2. p[2] = walk.i + 1 /\ cut[p[1]] <= walk.i
          BY <3>3, <4>1, <5>1
        <5>3. Len(mlmap[p[1]]) \in Nat /\ p[2] <= Len(mlmap[p[1]])
          BY <1>3, <2>3, <3>3
        <5>4. First(mlmap[walk.lvl], x) <= walk.i
          BY <1>2, <3>3, <5>2
        <5>5. mlmap[walk.lvl][walk.i + 1] \in PassedOver(x, L)
          BY <3>3, <5>2, <5>3, <5>4 DEF PassedOver
        <5> QED
          BY <1>6, <2>3, <3>3, <5>2, <5>5
      <4>3. p[2] <= walk.i => p[2] - 1 <= walk.i
        BY <4>1 DEF IsWalk
      <4>4. ~(p[1] < walk.lvl)
        <5>1. p[1] \in Int
          BY <2>3, Sizes DEF IsTable, LevelSpace
        <5> QED
          BY <3>3, <5>1
      <4> QED
        BY <3>1, <3>3, <4>1, <4>2, <4>3, <4>4 DEF Passed
    <3> QED
      BY <3>2, <3>3
  <2>11. PICK A, B : A = Passed(S, walk) /\ B = Passed(T, walk)
    OBVIOUS
  <2>12. A \subseteq S /\ B \subseteq T
    BY <2>11 DEF Passed
  <2>13. PICK g : g = [p \in A |-> f[p]]
    OBVIOUS
  <2>14. g \in [A -> B] /\ \A p, q \in A : g[p] = g[q] => p = q
    BY <2>5, <2>10, <2>11, <2>12, <2>13
  <2>15. \A q \in B : \E p \in A : g[p] = q
    BY <2>6, <2>10, <2>11, <2>12, <2>13
  <2>16. IsFiniteSet(A)
    BY <2>8, <2>12, FS_Subset
  <2>17. Cardinality(B) = Cardinality(A)
    BY <2>14, <2>15, <2>16, SameSize
  <2> QED
    BY <2>1, <2>9, <2>11, <2>17
<1> QED
  BY <1>1, <1>4, <1>5, <1>6

-------------------------------------------------------------------------------
(* A list that is made, or that grows by one of x: the others stay. *)
LEMMA ListIs ==
  ASSUME NEW A, IsTable(A), NEW l
  PROVE  List(A, l) \in Seq(Receivers) /\ Len(List(A, l)) <= MaxInstalled
<1>1. CASE l \in DOMAIN A
  BY <1>1 DEF List, IsTable
<1>2. CASE l \notin DOMAIN A
  <2>1. <<>> \in Seq(Receivers) /\ Len(<<>>) = 0
    BY EmptySeq
  <2> QED
    BY <1>2, <2>1, Sizes DEF List
<1> QED
  BY <1>1, <1>2

LEMMA WithListKeeps ==
  ASSUME NEW A, IsTable(A), NEW l \in LevelSpace,
         NEW s \in Seq(Receivers), Len(s) <= MaxInstalled,
         NEW B, B = WithList(A, l, s)
  PROVE  /\ IsTable(B) /\ DOMAIN A \subseteq DOMAIN B
         /\ \A r : (\A i : (i \in DOMAIN s /\ s[i] = r)
                           <=> (i \in DOMAIN List(A, l) /\ List(A, l)[i] = r))
                   => Spots(B, r) = Spots(A, r)
<1>1. /\ DOMAIN B = DOMAIN A \cup {l} /\ B[l] = s
      /\ \A k \in DOMAIN A : k # l => B[k] = A[k]
  BY DEF WithList
<1>2. IsTable(B)
  BY <1>1 DEF IsTable
<1>3. ASSUME NEW r, \A i : (i \in DOMAIN s /\ s[i] = r)
                           <=> (i \in DOMAIN List(A, l) /\ List(A, l)[i] = r),
             NEW p
      PROVE  p \in Spots(B, r) <=> p \in Spots(A, r)
  <2>1. CASE p[1] # l
    <3>1. p[1] \in DOMAIN B <=> p[1] \in DOMAIN A
      BY <1>1, <2>1
    <3>2. p[1] \in DOMAIN A => B[p[1]] = A[p[1]]
      BY <1>1, <2>1
    <3> QED
      BY <1>2, <3>1, <3>2, SpotIs
  <2>2. CASE p[1] = l
    <3>1. DOMAIN s = 1 .. Len(s)
      BY LenProperties
    <3>2. p \in Spots(B, r) <=> p = <<p[1], p[2]>> /\ p[2] \in DOMAIN s /\ s[p[2]] = r
      BY <1>1, <1>2, <2>2, <3>1, SpotIs
    <3>3. CASE l \in DOMAIN A
      <4>1. List(A, l) = A[l] /\ A[l] \in Seq(Receivers)
        BY <3>3 DEF List, IsTable
      <4>2. DOMAIN A[l] = 1 .. Len(A[l])
        BY <4>1, LenProperties
      <4>3. p \in Spots(A, r) <=> p = <<p[1], p[2]>> /\ p[2] \in DOMAIN A[l] /\ A[l][p[2]] = r
        BY <2>2, <3>3, <4>2, SpotIs
      <4> QED
        BY <1>3, <3>2, <4>1, <4>3
    <3>4. CASE l \notin DOMAIN A
      <4>1. p \notin Spots(A, r)
        BY <2>2, <3>4, SpotIs
      <4>2. DOMAIN List(A, l) = {}
        <5>1. List(A, l) = <<>>
          BY <3>4 DEF List
        <5>2. DOMAIN <<>> = {}
          OBVIOUS
        <5> QED
          BY <5>1, <5>2
      <4> QED
        BY <1>3, <3>2, <4>1, <4>2
    <3> QED
      BY <3>3, <3>4
  <2> QED
    BY <2>1, <2>2
<1>4. ASSUME NEW r, \A i : (i \in DOMAIN s /\ s[i] = r)
                           <=> (i \in DOMAIN List(A, l) /\ List(A, l)[i] = r)
      PROVE  Spots(B, r) = Spots(A, r)
  <2>1. \A p : p \in Spots(B, r) <=> p \in Spots(A, r)
    BY <1>3, <1>4
  <2> QED
    BY <2>1
<1> QED
  BY <1>1, <1>2, <1>4

LEMMA InstallKeeps ==
  ASSUME NEW A, IsTable(A), NEW l \in LevelSpace, NEW x \in Receivers,
         Len(List(A, l)) < MaxInstalled,
         NEW B, B = Installed(A, x, l)
  PROVE  /\ IsTable(B) /\ DOMAIN A \subseteq DOMAIN B
         /\ \A r : r # x => Spots(B, r) = Spots(A, r)
<1>1. PICK s \in Seq(Receivers) : s = List(A, l)
  BY ListIs
<1>2. PICK u : u = Append(s, x)
  OBVIOUS
<1>3. /\ u \in Seq(Receivers) /\ Len(u) = Len(s) + 1
      /\ \A i \in 1 .. Len(s) : u[i] = s[i]
      /\ u[Len(s) + 1] = x
  BY <1>2, AppendProperties
<1>4. Len(s) \in Nat /\ DOMAIN s = 1 .. Len(s) /\ DOMAIN u = 1 .. Len(s) + 1
  BY <1>3, LenProperties
<1>5. Len(u) <= MaxInstalled /\ B = WithList(A, l, u)
  BY <1>1, <1>2, <1>3, <1>4, Sizes DEF Installed
<1>6. ASSUME NEW r, r # x, NEW i
      PROVE  (i \in DOMAIN u /\ u[i] = r) <=> (i \in DOMAIN s /\ s[i] = r)
  <2>1. i \in DOMAIN u <=> (i \in DOMAIN s \/ i = Len(s) + 1)
    BY <1>4
  <2>2. ~(Len(s) + 1 \in DOMAIN s)
    BY <1>4
  <2> QED
    BY <1>3, <1>4, <1>6, <2>1, <2>2
<1>7. /\ IsTable(B) /\ DOMAIN A \subseteq DOMAIN B
      /\ \A r : (\A i : (i \in DOMAIN u /\ u[i] = r) <=> (i \in DOMAIN s /\ s[i] = r))
                => Spots(B, r) = Spots(A, r)
  BY <1>1, <1>3, <1>5, WithListKeeps
<1> QED
  BY <1>6, <1>7

LEMMA LevelIdIs ==
  ASSUME NEW l \in Int
  PROVE  LevelId(l) \in LevelSpace
<1>1. PICK m \in Nat : m = 2 * HalfLevels
  BY Sizes
<1>2. PICK n \in Int : n = l + HalfLevels
  BY Sizes
<1>3. m > 0
  BY <1>1, Sizes
<1>4. n % m \in 0 .. m - 1
  BY <1>3
<1>5. PICK k \in 0 .. m - 1 : k = n % m
  BY <1>4
<1>6. LevelId(l) = k - HalfLevels
  BY <1>1, <1>2, <1>5 DEF LevelId, Signed
<1> QED
  BY <1>1, <1>5, <1>6, Sizes DEF LevelSpace

-------------------------------------------------------------------------------
(* The notification: it passes one place after the other. *)
LEMMA TableInvInit ==
  TableInit => TableInv
<1> SUFFICES ASSUME TableInit PROVE TableInv
  OBVIOUS
<1>1. DOMAIN mlmap = {0} /\ mlmap[0] = <<>> /\ walk = Nil
  BY DEF TableInit
<1>2. IsTable(mlmap)
  <2>1. <<>> \in Seq(Receivers) /\ Len(<<>>) = 0
    BY EmptySeq
  <2> QED
    BY <1>1, <2>1, Sizes DEF IsTable, LevelSpace
<1>3. IsWalk(walk, mlmap)
  BY <1>1, Sizes DEF IsWalk, Nil
<1>4. ASSUME NEW r \in Receivers
      PROVE  /\ calls[r] = Cardinality(Passed(Spots(mlmap, r), walk))
             /\ expected[r] = Cardinality(Spots(mlmap, r))
  <2>1. \A p : p \notin Spots(mlmap, r)
    <3>1. Len(<<>>) = 0 /\ 1 .. 0 = {}
      OBVIOUS
    <3> QED
      BY <1>1, <1>2, <3>1, SpotIs
  <2>2. Spots(mlmap, r) = {} /\ Passed(Spots(mlmap, r), walk) = {}
    BY <2>1 DEF Passed
  <2>3. calls[r] = 0 /\ expected[r] = 0
    BY DEF TableInit, NoCalls
  <2> QED
    BY <2>2, <2>3, FS_EmptySet
<1> QED
  BY <1>1, <1>2, <1>3, <1>4 DEF TableInv, TableInit, NoCalls, NoInstall

(* When it has ended it has passed them all. *)
LEMMA TableInvGives ==
  TableInv => CalledAsInstalled
<1> SUFFICES ASSUME TableInv, NEW r \in Receivers \ excused
             PROVE  calls[r] <= expected[r] /\ (~Walking => calls[r] = expected[r])
  BY DEF CalledAsInstalled
<1>1. PICK S, P : S = Spots(mlmap, r) /\ P = Passed(Spots(mlmap, r), walk)
  OBVIOUS
<1>2. IsFiniteSet(S) /\ P \in SUBSET S
  BY <1>1, SpotsFinite DEF TableInv, Passed
<1>3. Cardinality(P) <= Cardinality(S)
  BY <1>2, FS_Subset
<1>4. ~Walking => P = S
  <2> SUFFICES ASSUME walk = Nil, NEW p \in S PROVE p \in P
    BY <1>2 DEF Walking
  <2>1. p[1] \in LevelSpace
    BY <1>1, SpotIs DEF TableInv, IsTable
  <2>2. p[1] < HalfLevels /\ walk.lvl = HalfLevels
    BY <2>1, Sizes DEF LevelSpace, Nil
  <2> QED
    BY <1>1, <2>2 DEF Passed
<1>5. calls[r] = Cardinality(P) /\ expected[r] = Cardinality(S)
  BY <1>1 DEF TableInv
<1> QED
  BY <1>3, <1>4, <1>5

LEMMA WalkingAt ==
  ASSUME TableInv, Walking
  PROVE  /\ walk = [lvl |-> walk.lvl, i |-> walk.i] /\ walk.lvl \in DOMAIN mlmap
         /\ walk.lvl \in LevelSpace /\ walk.i \in Nat
         /\ mlmap[walk.lvl] \in Seq(Receivers) /\ Len(mlmap[walk.lvl]) \in Nat
         /\ Len(mlmap[walk.lvl]) <= MaxInstalled
<1>1. /\ walk = [lvl |-> walk.lvl, i |-> walk.i] /\ walk.lvl \in DOMAIN mlmap /\ walk.i \in Nat
  BY DEF TableInv, IsWalk, Walking, Nil
<1> QED
  BY <1>1, LenProperties DEF TableInv, IsTable

LEMMA InvokeStep ==
  ASSUME TableInv, Invoke
  PROVE  TableInv'
<1>1. /\ mlmap' = mlmap /\ walk' = [lvl |-> Min(DOMAIN mlmap), i |-> 0]
      /\ calls' = [r \in Receivers |-> 0] /\ excused' = {}
      /\ DOMAIN expected' = Receivers
      /\ \A r \in Receivers : expected'[r] = Cardinality(Spots(mlmap, r))
  BY DEF Invoke, NoCalls, Spots
<1>2. Min(DOMAIN mlmap) \in DOMAIN mlmap /\ \A l \in DOMAIN mlmap : Min(DOMAIN mlmap) <= l
  BY LeastLevel DEF TableInv, IsTable
<1>3. IsWalk(walk', mlmap)
  BY <1>1, <1>2 DEF IsWalk
<1>4. ASSUME NEW r \in Receivers
      PROVE  Passed(Spots(mlmap, r), walk') = {}
  <2> SUFFICES ASSUME NEW p \in Spots(mlmap, r),
                      p[1] < walk'.lvl \/ (p[1] = walk'.lvl /\ p[2] <= walk'.i)
               PROVE  FALSE
    BY DEF Passed
  <2>1. p[1] \in DOMAIN mlmap /\ p[2] \in 1 .. Len(mlmap[p[1]])
    BY SpotIs DEF TableInv
  <2>2. Min(DOMAIN mlmap) <= p[1] /\ p[1] \in LevelSpace /\ Min(DOMAIN mlmap) \in LevelSpace
    BY <1>2, <2>1 DEF TableInv, IsTable
  <2>3. p[1] \in Int /\ Min(DOMAIN mlmap) \in Int
    BY <2>2, Sizes DEF LevelSpace
  <2> QED
    BY <1>1, <2>1, <2>2, <2>3
<1>5. ASSUME NEW r \in Receivers \ excused'
      PROVE  /\ calls'[r] = Cardinality(Passed(Spots(mlmap, r), walk'))
             /\ expected'[r] = Cardinality(Spots(mlmap, r))
  BY <1>1, <1>4, FS_EmptySet
<1>6. installer' = installer
  BY DEF Invoke
<1> QED
  BY <1>1, <1>3, <1>5, <1>6 DEF TableInv

LEMMA CallNextStep ==
  ASSUME TableInv, CallNext
  PROVE  TableInv'
<1>1. Walking
  BY DEF CallNext
<1>2. PICK l, i : l = walk.lvl /\ i = walk.i
  OBVIOUS
<1>3. /\ walk = [lvl |-> l, i |-> i] /\ l \in DOMAIN mlmap /\ l \in LevelSpace /\ i \in Nat
      /\ mlmap[l] \in Seq(Receivers) /\ Len(mlmap[l]) \in Nat
  BY <1>1, <1>2, WalkingAt
<1>4. PICK called : called = mlmap[l][i + 1]
  OBVIOUS
<1>5. i < Len(mlmap[l]) /\ i + 1 \in 1 .. Len(mlmap[l]) /\ called \in Receivers
  <2>1. i < Len(mlmap[l])
    BY <1>2 DEF CallNext
  <2>2. i + 1 \in 1 .. Len(mlmap[l])
    BY <1>3, <2>1
  <2> QED
    BY <1>3, <1>4, <2>1, <2>2, ElementOfSeq
<1>6. /\ walk' = [lvl |-> l, i |-> i + 1] /\ mlmap' = mlmap /\ expected' = expected /\ excused' = excused
      /\ calls' = [calls EXCEPT ![called] = @ + 1]
  BY <1>2, <1>3, <1>4 DEF CallNext
<1>7. IsWalk(walk', mlmap)
  BY <1>3, <1>6 DEF IsWalk
<1>8. ASSUME NEW r \in Receivers \ excused
      PROVE  /\ calls'[r] = Cardinality(Passed(Spots(mlmap, r), walk'))
             /\ expected[r] = Cardinality(Spots(mlmap, r))
  <2>1. PICK S, P, Q : /\ S = Spots(mlmap, r) /\ P = Passed(Spots(mlmap, r), walk)
                       /\ Q = Passed(Spots(mlmap, r), walk')
    OBVIOUS
  <2>2. IsFiniteSet(P) /\ Cardinality(P) \in Nat
    <3>1. IsFiniteSet(S) /\ P \in SUBSET S
      BY <2>1, SpotsFinite DEF TableInv, Passed
    <3> QED
      BY <3>1, FS_Subset, FS_CardinalityType
  <2>3. calls[r] = Cardinality(P) /\ expected[r] = Cardinality(S)
    BY <2>1 DEF TableInv
  <2>4. PICK spot : spot = <<l, i + 1>>
    OBVIOUS
  <2>5. spot \in S <=> called = r
    BY <1>3, <1>4, <1>5, <2>1, <2>4, SpotIs DEF TableInv
  <2>6. spot \notin P
    BY <1>3, <2>1, <2>4, Sizes DEF Passed, LevelSpace
  <2>7. \A p \in S : p \in Q <=> (p \in P \/ p = spot)
    <3> SUFFICES ASSUME NEW p \in S PROVE p \in Q <=> (p \in P \/ p = spot)
      OBVIOUS
    <3>1. p = <<p[1], p[2]>> /\ p[1] \in DOMAIN mlmap /\ p[2] \in 1 .. Len(mlmap[p[1]])
      BY <2>1, SpotIs DEF TableInv
    <3>2. p[2] <= i + 1 <=> (p[2] <= i \/ p[2] = i + 1)
      BY <1>3, <3>1
    <3>3. p = spot <=> (p[1] = l /\ p[2] = i + 1)
      BY <2>4, <3>1
    <3>4. p \in P <=> (p[1] < l \/ (p[1] = l /\ p[2] <= i))
      BY <1>3, <2>1 DEF Passed
    <3>5. p \in Q <=> (p[1] < l \/ (p[1] = l /\ p[2] <= i + 1))
      BY <1>6, <2>1 DEF Passed
    <3> QED
      BY <3>2, <3>3, <3>4, <3>5
  <2>8. P \subseteq S /\ Q \subseteq S
    BY <2>1 DEF Passed
  <2>9. CASE called = r
    <3>1. Q = P \cup {spot}
      BY <2>5, <2>7, <2>8, <2>9
    <3>2. Cardinality(Q) = Cardinality(P) + 1
      BY <2>2, <2>6, <3>1, FS_AddElement
    <3>3. calls'[r] = calls[r] + 1
      BY <1>5, <1>6, <2>9 DEF TableInv
    <3> QED
      BY <2>1, <2>3, <3>2, <3>3
  <2>10. CASE called # r
    <3>1. Q = P
      BY <2>5, <2>7, <2>8, <2>10
    <3>2. calls'[r] = calls[r]
      BY <1>5, <1>6, <2>10 DEF TableInv
    <3> QED
      BY <2>1, <2>3, <3>1, <3>2
  <2> QED
    BY <2>9, <2>10
<1>9. DOMAIN calls' = Receivers
  BY <1>6 DEF TableInv
<1>10. installer' = installer
  BY DEF CallNext
<1> QED
  BY <1>6, <1>7, <1>8, <1>9, <1>10 DEF TableInv

LEMMA NextLevelStep ==
  ASSUME TableInv, NEW stops \in BOOLEAN, NextLevel(stops)
  PROVE  TableInv'
<1>1. Walking
  BY DEF NextLevel
<1>2. PICK l, i : l = walk.lvl /\ i = walk.i
  OBVIOUS
<1>3. /\ walk = [lvl |-> l, i |-> i] /\ l \in DOMAIN mlmap /\ l \in LevelSpace /\ i \in Nat
      /\ mlmap[l] \in Seq(Receivers) /\ Len(mlmap[l]) \in Nat
  BY <1>1, <1>2, WalkingAt
<1>4. /\ mlmap' = mlmap /\ expected' = expected /\ calls' = calls
      /\ walk' = IF Above(l) = {} THEN Nil ELSE [lvl |-> Min(Above(l)), i |-> 0]
      /\ excused' = excused \cup {mlmap[l][j] : j \in i + 1 .. Len(mlmap[l])}
  BY <1>2 DEF NextLevel
<1>5. Above(l) # {} => Min(Above(l)) \in Above(l) /\ \A k \in Above(l) : Min(Above(l)) <= k
  <2>1. Above(l) \subseteq LevelSpace
    BY DEF Above, TableInv, IsTable
  <2> QED
    BY <2>1, LeastLevel
<1>6. walk' = [lvl |-> walk'.lvl, i |-> 0] /\ walk'.i = 0
  BY <1>4 DEF Nil
<1>7. \/ Above(l) = {} /\ walk'.lvl = HalfLevels
      \/ Above(l) # {} /\ walk'.lvl = Min(Above(l)) /\ walk'.lvl \in DOMAIN mlmap
  BY <1>4, <1>5 DEF Nil, Above
<1>8. IsWalk(walk', mlmap)
  BY <1>6, <1>7 DEF IsWalk
<1>9. walk'.lvl \in Int /\ l < walk'.lvl
  <2>1. l \in Int /\ l < HalfLevels /\ HalfLevels \in Int
    BY <1>3, Sizes DEF LevelSpace
  <2>2. Above(l) # {} => Min(Above(l)) \in Int /\ l < Min(Above(l))
    BY <1>5, <2>1, Sizes DEF Above, TableInv, IsTable, LevelSpace
  <2> QED
    BY <1>7, <2>1, <2>2
<1>10. ASSUME NEW r \in Receivers \ excused', NEW p \in Spots(mlmap, r)
       PROVE  p \in Passed(Spots(mlmap, r), walk) <=> p \in Passed(Spots(mlmap, r), walk')
  <2>1. /\ p[1] \in DOMAIN mlmap /\ p[1] \in LevelSpace
        /\ p[2] \in 1 .. Len(mlmap[p[1]]) /\ mlmap[p[1]][p[2]] = r
    BY SpotIs DEF TableInv, IsTable
  <2>2. p[1] \in Int /\ l \in Int /\ p[2] \in Int /\ 1 <= p[2]
    BY <1>3, <2>1, Sizes DEF LevelSpace
  <2>3. p[1] = l => p[2] <= i
    <3> SUFFICES ASSUME p[1] = l, ~(p[2] <= i) PROVE FALSE
      OBVIOUS
    <3>1. p[2] \in i + 1 .. Len(mlmap[l])
      BY <1>3, <2>1, <2>2
    <3>2. mlmap[l][p[2]] \in excused'
      BY <1>4, <3>1
    <3> QED
      BY <2>1, <3>2
  <2>4. p[1] > l => ~(p[1] < walk'.lvl)
    <3> SUFFICES ASSUME p[1] > l PROVE ~(p[1] < walk'.lvl)
      OBVIOUS
    <3>1. p[1] \in Above(l)
      BY <2>1 DEF Above
    <3> QED
      BY <1>5, <1>7, <1>9, <2>2, <3>1
  <2>5. p \in Passed(Spots(mlmap, r), walk) <=> (p[1] < l \/ (p[1] = l /\ p[2] <= i))
    BY <1>3 DEF Passed
  <2>6. p \in Passed(Spots(mlmap, r), walk') <=> (p[1] < walk'.lvl \/ (p[1] = walk'.lvl /\ p[2] <= 0))
    BY <1>6 DEF Passed
  <2> QED
    BY <1>9, <2>2, <2>3, <2>4, <2>5, <2>6
<1>11. ASSUME NEW r \in Receivers \ excused'
       PROVE  Passed(Spots(mlmap, r), walk) = Passed(Spots(mlmap, r), walk')
  <2>1. \A w : Passed(Spots(mlmap, r), w) \subseteq Spots(mlmap, r)
    BY DEF Passed
  <2> QED
    BY <1>10, <2>1
<1>12. excused \subseteq excused'
  BY <1>4
<1>13. ASSUME NEW r \in Receivers \ excused'
       PROVE  /\ calls'[r] = Cardinality(Passed(Spots(mlmap, r), walk'))
              /\ expected'[r] = Cardinality(Spots(mlmap, r))
  BY <1>4, <1>11, <1>12 DEF TableInv
<1>14. installer' = installer
  BY DEF NextLevel
<1> QED
  BY <1>4, <1>8, <1>13, <1>14 DEF TableInv

-------------------------------------------------------------------------------
(* The table changes while nobody is told, or in a callback. *)
LEMMA TableChanges ==
  ASSUME TableInv, UNCHANGED <<walk, expected, calls>>, excused \subseteq excused',
         Installs(installer'),
         IsTable(mlmap'), DOMAIN mlmap \subseteq DOMAIN mlmap',
         \A r \in Receivers \ excused' :
           /\ Cardinality(Spots(mlmap', r)) = Cardinality(Spots(mlmap, r))
           /\ Cardinality(Passed(Spots(mlmap', r), walk)) = Cardinality(Passed(Spots(mlmap, r), walk))
  PROVE  TableInv'
<1>1. IsWalk(walk, mlmap')
  BY DEF TableInv, IsWalk
<1>2. ASSUME NEW r \in Receivers \ excused'
      PROVE  /\ calls[r] = Cardinality(Passed(Spots(mlmap', r), walk))
             /\ expected[r] = Cardinality(Spots(mlmap', r))
  BY <1>2 DEF TableInv
<1>3. DOMAIN mlmap' # {} /\ DOMAIN calls = Receivers /\ DOMAIN expected = Receivers
  BY DEF TableInv
<1>4. walk' = walk /\ expected' = expected /\ calls' = calls
  OBVIOUS
<1> QED
  BY <1>1, <1>2, <1>3, <1>4 DEF TableInv

(* What others do leaves an installation where it is. *)
LEMMA StillInstalls ==
  ASSUME TableInv, Tears \/ UNCHANGED installer
  PROVE  Installs(installer')
<1>1. CASE installer' = installer
  BY <1>1 DEF TableInv
<1>2. CASE installer # NoInstall /\ installer' = [installer EXCEPT !.torn = TRUE]
  BY <1>2 DEF TableInv, Installs
<1> QED
  BY <1>1, <1>2 DEF Tears

LEMMA InstallerStep ==
  ASSUME TableInv, LevelFound \/ LevelMissed \/ LevelInserted
  PROVE  TableInv'
<1>1. CASE LevelFound
  <2>1. installer # NoInstall
    BY <1>1 DEF LevelFound, NoInstall
  <2>2. PICK x \in Receivers, k \in LevelSpace : x = installer.who /\ k = installer.lvl
    BY <2>1 DEF TableInv, Installs
  <2>3. /\ Len(List(mlmap, k)) < MaxInstalled /\ mlmap' = Installed(mlmap, x, k)
        /\ excused' = excused \cup {x} /\ UNCHANGED <<walk, expected, calls>> /\ installer' = NoInstall
    BY <1>1, <2>2 DEF LevelFound, List
  <2>4. /\ IsTable(mlmap') /\ DOMAIN mlmap \subseteq DOMAIN mlmap'
        /\ \A r : r # x => Spots(mlmap', r) = Spots(mlmap, r)
    BY <2>3, InstallKeeps DEF TableInv
  <2>5. Installs(installer')
    BY <2>3 DEF Installs
  <2> QED
    BY <2>3, <2>4, <2>5, TableChanges
<1>2. CASE LevelMissed
  <2>1. installer # NoInstall
    BY <1>2 DEF LevelMissed, NoInstall
  <2>2. /\ UNCHANGED <<mlmap, walk, expected, calls, excused>>
        /\ installer' = [installer EXCEPT !.at = IF @ = "search" THEN "insert" ELSE "ub", !.torn = FALSE]
    BY <1>2 DEF LevelMissed
  <2>3. Installs(installer')
    BY <2>1, <2>2 DEF TableInv, Installs
  <2>4. IsTable(mlmap') /\ DOMAIN mlmap \subseteq DOMAIN mlmap'
    BY <2>2 DEF TableInv
  <2> QED
    BY <2>2, <2>3, <2>4, TableChanges
<1>3. CASE LevelInserted
  <2>1. installer # NoInstall
    BY <1>3 DEF LevelInserted, NoInstall
  <2>2. PICK k \in LevelSpace : k = installer.lvl
    BY <2>1 DEF TableInv, Installs
  <2>3. PICK s \in Seq(Receivers) : s = List(mlmap, k) /\ Len(s) <= MaxInstalled
    BY ListIs DEF TableInv
  <2>4. mlmap' = WithList(mlmap, k, s) /\ UNCHANGED <<walk, expected, calls, excused>>
    BY <1>3, <2>2, <2>3 DEF LevelInserted
  <2>5. /\ IsTable(mlmap') /\ DOMAIN mlmap \subseteq DOMAIN mlmap'
        /\ \A r : Spots(mlmap', r) = Spots(mlmap, r)
    BY <2>3, <2>4, WithListKeeps DEF TableInv
  <2>6. installer' = [installer EXCEPT !.at = "again", !.torn = FALSE]
    BY <1>3 DEF LevelInserted
  <2>7. Installs(installer')
    BY <2>1, <2>6 DEF TableInv, Installs
  <2> QED
    BY <2>4, <2>5, <2>7, TableChanges
<1> QED
  BY <1>1, <1>2, <1>3

LEMMA InstallStep ==
  ASSUME TableInv, NEW x \in Receivers, NEW l \in Int, Install(x, l)
  PROVE  TableInv'
<1>1. PICK k \in LevelSpace : k = LevelId(l)
  BY LevelIdIs
<1>2. /\ UNCHANGED <<mlmap, walk, expected, calls, excused>>
      /\ installer' = [at |-> "search", who |-> x, lvl |-> k, torn |-> FALSE]
  BY <1>1 DEF Install
<1>3. Installs(installer')
  BY <1>2 DEF Installs
<1>4. IsTable(mlmap') /\ DOMAIN mlmap \subseteq DOMAIN mlmap'
  BY <1>2 DEF TableInv
<1> QED
  BY <1>2, <1>3, <1>4, TableChanges

LEMMA TableInstallStep ==
  ASSUME TableInv, NEW x \in Receivers, NEW l \in Int, TableInstall(x, l)
  PROVE  TableInv'
<1>1. PICK k \in LevelSpace : k = LevelId(l)
  BY LevelIdIs
<1>2. /\ Len(List(mlmap, k)) < MaxInstalled /\ mlmap' = Installed(mlmap, x, k)
      /\ excused' = excused \cup {x} /\ Tears /\ UNCHANGED <<walk, expected, calls>>
  BY <1>1 DEF TableInstall
<1>3. /\ IsTable(mlmap') /\ DOMAIN mlmap \subseteq DOMAIN mlmap'
      /\ \A r : r # x => Spots(mlmap', r) = Spots(mlmap, r)
  BY <1>2, InstallKeeps DEF TableInv
<1> QED
  BY <1>2, <1>3, StillInstalls, TableChanges

LEMMA LevelStep ==
  ASSUME TableInv, NEW l \in Int, Level(l)
  PROVE  TableInv'
<1>1. PICK k \in LevelSpace : k = LevelId(l)
  BY LevelIdIs
<1>2. PICK s \in Seq(Receivers) : s = List(mlmap, k) /\ Len(s) <= MaxInstalled
  BY ListIs DEF TableInv
<1>3. mlmap' = WithList(mlmap, k, s) /\ Tears /\ UNCHANGED <<walk, expected, calls, excused>>
  BY <1>1, <1>2 DEF Level
<1>4. /\ IsTable(mlmap') /\ DOMAIN mlmap \subseteq DOMAIN mlmap'
      /\ \A r : Spots(mlmap', r) = Spots(mlmap, r)
  BY <1>2, <1>3, WithListKeeps DEF TableInv
<1> QED
  BY <1>3, <1>4, StillInstalls, TableChanges

LEMMA TableRemoveStep ==
  ASSUME TableInv, NEW x \in Receivers, TableRemove(x)
  PROVE  TableInv'
<1>1. PICK L : L = LevelsOf(x)
  OBVIOUS
<1>2. /\ mlmap' = TakenFrom(x, L) /\ excused' = excused \cup {x} \cup PassedOver(x, L)
      /\ UNCHANGED <<walk, expected, calls, installer>>
  BY <1>1 DEF TableRemove, TakenFrom
<1>3. PICK B : B = TakenFrom(x, L)
  OBVIOUS
<1>4. /\ IsTable(B) /\ DOMAIN B = DOMAIN mlmap
      /\ \A r : r # x /\ r \notin PassedOver(x, L) =>
           /\ Cardinality(Spots(B, r)) = Cardinality(Spots(mlmap, r))
           /\ Cardinality(Passed(Spots(B, r), walk)) = Cardinality(Passed(Spots(mlmap, r), walk))
  BY <1>1, <1>3, RemovalKeeps DEF TableInv
<1>5. mlmap' = B
  BY <1>2, <1>3
<1> QED
  BY <1>2, <1>4, <1>5, StillInstalls, TableChanges

LEMMA MoveStep ==
  ASSUME TableInv, NEW x \in Receivers, NEW from, NEW to \in LevelSpace,
         LevelsOf(x) # {}, from = Min(LevelsOf(x)),
         from # to => Len(List(mlmap, to)) < MaxInstalled,
         mlmap' = Installed(WithList(mlmap, from, Removed(x, from)), x, to),
         excused' = excused \cup {x} \cup PassedOver(x, {from}),
         Tears, UNCHANGED <<walk, expected, calls>>
  PROVE  TableInv'
<1>1. from \in LevelsOf(x) /\ from \in DOMAIN mlmap
  <2>1. LevelsOf(x) \subseteq LevelSpace
    BY DEF LevelsOf, TableInv, IsTable
  <2> QED
    BY <2>1, LeastLevel DEF LevelsOf
<1>2. PICK A : A = TakenFrom(x, {from})
  OBVIOUS
<1>3. A = WithList(mlmap, from, Removed(x, from))
  <2>1. DOMAIN mlmap \cup {from} = DOMAIN mlmap
    BY <1>1
  <2> QED
    BY <1>2, <2>1 DEF TakenFrom, WithList
<1>4. /\ IsTable(A) /\ DOMAIN A = DOMAIN mlmap /\ Len(A[from]) < MaxInstalled
      /\ \A l \in (DOMAIN mlmap) \ {from} : A[l] = mlmap[l]
      /\ \A r : r # x /\ r \notin PassedOver(x, {from}) =>
           /\ Cardinality(Spots(A, r)) = Cardinality(Spots(mlmap, r))
           /\ Cardinality(Passed(Spots(A, r), walk)) = Cardinality(Passed(Spots(mlmap, r), walk))
  <2>1. {from} \subseteq LevelsOf(x) /\ from \in {from}
    BY <1>1
  <2> QED
    BY <1>2, <2>1, RemovalKeeps DEF TableInv
<1>5. Len(List(A, to)) < MaxInstalled
  <2>1. CASE to = from
    BY <1>1, <1>4, <2>1 DEF List
  <2>2. CASE to # from
    <3>1. List(A, to) = List(mlmap, to)
      BY <1>4, <2>2 DEF List
    <3> QED
      BY <2>2, <3>1
  <2> QED
    BY <2>1, <2>2
<1>6. PICK B : B = Installed(A, x, to)
  OBVIOUS
<1>7. /\ IsTable(B) /\ DOMAIN A \subseteq DOMAIN B
      /\ \A r : r # x => Spots(B, r) = Spots(A, r)
  BY <1>4, <1>5, <1>6, InstallKeeps
<1>8. mlmap' = B
  BY <1>3, <1>6
<1>9. ASSUME NEW r \in Receivers \ excused'
      PROVE  /\ Cardinality(Spots(B, r)) = Cardinality(Spots(mlmap, r))
             /\ Cardinality(Passed(Spots(B, r), walk)) = Cardinality(Passed(Spots(mlmap, r), walk))
  <2>1. r # x /\ r \notin PassedOver(x, {from})
    OBVIOUS
  <2> QED
    BY <1>4, <1>7, <2>1
<1> QED
  BY <1>4, <1>7, <1>8, <1>9, StillInstalls, TableChanges

LEMMA RelevelStep ==
  ASSUME TableInv, NEW x \in Receivers, NEW l \in Int,
         ChangeLevel(x, l) \/ ChangeLevelRel(x, l)
  PROVE  TableInv'
<1>1. CASE ChangeLevel(x, l)
  <2>1. PICK to \in LevelSpace : to = LevelId(l)
    BY LevelIdIs
  <2>2. PICK from : from = Min(LevelsOf(x))
    OBVIOUS
  <2>3. /\ LevelsOf(x) # {} /\ (from # to => Len(List(mlmap, to)) < MaxInstalled)
        /\ mlmap' = Installed(WithList(mlmap, from, Removed(x, from)), x, to)
        /\ excused' = excused \cup {x} \cup PassedOver(x, {from})
        /\ Tears /\ UNCHANGED <<walk, expected, calls>>
    BY <1>1, <2>1, <2>2 DEF ChangeLevel, Relevel
  <2> QED
    BY <2>2, <2>3, MoveStep
<1>2. CASE ChangeLevelRel(x, l)
  <2>1. LevelsOf(x) # {}
    BY <1>2 DEF ChangeLevelRel, Relevel
  <2>2. PICK from \in LevelSpace : from = Min(LevelsOf(x))
    <3>1. LevelsOf(x) \subseteq LevelSpace
      BY DEF LevelsOf, TableInv, IsTable
    <3> QED
      BY <2>1, <3>1, LeastLevel
  <2>3. from + l \in Int
    BY <2>2, Sizes DEF LevelSpace
  <2>4. PICK to \in LevelSpace : to = LevelId(from + l)
    BY <2>3, LevelIdIs
  <2>5. /\ (from # to => Len(List(mlmap, to)) < MaxInstalled)
        /\ mlmap' = Installed(WithList(mlmap, from, Removed(x, from)), x, to)
        /\ excused' = excused \cup {x} \cup PassedOver(x, {from})
        /\ Tears /\ UNCHANGED <<walk, expected, calls>>
    BY <1>2, <2>2, <2>4 DEF ChangeLevelRel, Relevel
  <2> QED
    BY <2>1, <2>2, <2>5, MoveStep
<1> QED
  BY <1>1, <1>2

LEMMA TableInvStep ==
  ASSUME TableInv, [TableNext]_tableVars
  PROVE  TableInv'
<1>1. CASE UNCHANGED tableVars
  BY <1>1 DEF TableInv, tableVars, IsTable, IsWalk, Spots, Passed
<1>2. CASE Invoke
  BY <1>2, InvokeStep
<1>3. CASE CallNext
  BY <1>3, CallNextStep
<1>4. CASE \E stops \in BOOLEAN : NextLevel(stops)
  BY <1>4, NextLevelStep
<1>5. CASE \E r \in Receivers, l \in Levels :
              TableInstall(r, l) \/ Install(r, l) \/ ChangeLevel(r, l) \/ ChangeLevelRel(r, l)
  BY <1>5, TableInstallStep, InstallStep, RelevelStep, DispatchAssumption
<1>6. CASE \E l \in Levels : Level(l)
  BY <1>6, LevelStep, DispatchAssumption
<1>7. CASE \E r \in Receivers : TableRemove(r)
  BY <1>7, TableRemoveStep
<1>8. CASE LevelFound \/ LevelMissed \/ LevelInserted
  BY <1>8, InstallerStep
<1> QED
  BY <1>1, <1>2, <1>3, <1>4, <1>5, <1>6, <1>7, <1>8 DEF TableNext

-------------------------------------------------------------------------------
(***************************************************************************)
(* Reports.  Each initialized monitor's level is registered, under an id that *)
(* no other has, and the message's level is that of a report or of one that   *)
(* another thread has made since.                                           *)
(***************************************************************************)
MonitorType ==
  [at : {"none", "made", "on", "dying"}, id : MonitorIds \cup {GlobalId}, level : Nat, enabled : BOOLEAN]

ReportInv ==
  /\ debugLevel \in Nat /\ msgLevel \in Nat
  /\ \A id \in DOMAIN debugLevels : debugLevels[id] \in Nat
  /\ monitor \in [Monitors -> MonitorType]
  /\ DOMAIN reporter = Reporters
  /\ \A t \in Reporters : /\ reporter[t] = [busy |-> reporter[t].busy, levels |-> reporter[t].levels]
                          /\ reporter[t].busy \in BOOLEAN
  /\ "wrong" \notin reportOdd
  /\ reportOdd = {} =>
       /\ \A m \in Made : monitor[m].id # GlobalId /\ \A n \in Made \ {m} : monitor[n].id # monitor[m].id
       /\ \A m \in On : /\ monitor[m].id \in DOMAIN debugLevels
                        /\ monitor[m].level <= debugLevels[monitor[m].id]
       /\ \A t \in Reporters : reporter[t].busy => msgLevel \in reporter[t].levels

LEMMA ReportInvInit == ReportInit => ReportInv
<1> SUFFICES ASSUME ReportInit
             PROVE  ReportInv
  OBVIOUS
<1>1. Unmade \in MonitorType
  BY DEF Unmade, MonitorType
<1>2. monitor \in [Monitors -> MonitorType]
  BY <1>1 DEF ReportInit
<1>3. \A m \in Monitors : monitor[m].at = "none"
  BY DEF ReportInit, Unmade
<1>4. Made = {} /\ On = {}
  BY <1>3 DEF Made, On
<1>5. /\ DOMAIN reporter = Reporters
      /\ \A t \in Reporters : reporter[t] = [busy |-> FALSE, levels |-> {}]
  BY DEF ReportInit, Silent
<1>6. DOMAIN debugLevels = {} /\ debugLevel \in Nat /\ msgLevel = 0 /\ reportOdd = {}
  BY ReportsAssumption DEF ReportInit
<1>7. ASSUME NEW t \in Reporters
      PROVE  /\ reporter[t] = [busy |-> reporter[t].busy, levels |-> reporter[t].levels]
             /\ reporter[t].busy = FALSE
  BY <1>5
<1>8. \A t \in Reporters : reporter[t].busy \in BOOLEAN /\ ~reporter[t].busy
  BY <1>7
<1>9. "wrong" \notin reportOdd /\ msgLevel \in Nat
  BY <1>6
<1> QED
  BY <1>2, <1>4, <1>5, <1>6, <1>7, <1>8, <1>9 DEF ReportInv

(* Of a step that leaves the reports that are on their way. *)
LEMMA MonitorStep ==
  ASSUME ReportInv, reportOdd = {}, debugLevel' \in Nat,
         UNCHANGED <<msgLevel, reporter>>,
         \A id \in DOMAIN debugLevels' : debugLevels'[id] \in Nat,
         monitor' \in [Monitors -> MonitorType],
         "wrong" \notin reportOdd',
         reportOdd' = {} =>
           /\ \A m \in Made' : monitor'[m].id # GlobalId
                               /\ \A n \in Made' \ {m} : monitor'[n].id # monitor'[m].id
           /\ \A m \in On' : /\ monitor'[m].id \in DOMAIN debugLevels'
                             /\ monitor'[m].level <= debugLevels'[monitor'[m].id]
  PROVE  ReportInv'
BY DEF ReportInv

(* Of a step that changes one monitor, and registers nothing. *)
LEMMA OneMonitor ==
  ASSUME ReportInv, reportOdd = {}, NEW m \in Monitors, NEW r \in MonitorType,
         monitor' = [monitor EXCEPT ![m] = r],
         UNCHANGED <<debugLevel, debugLevels, msgLevel, reporter>>,
         "wrong" \notin reportOdd',
         r.at # "none" => m \in Made /\ r.id = monitor[m].id,
         reportOdd' = {} /\ r.at \in {"on", "dying"} => m \in On /\ r.level <= monitor[m].level
  PROVE  ReportInv'
<1>1. /\ monitor \in [Monitors -> MonitorType] /\ monitor' \in [Monitors -> MonitorType]
      /\ monitor'[m] = r /\ \A n \in Monitors \ {m} : monitor'[n] = monitor[n]
  BY DEF ReportInv
<1>2. Made' \subseteq Made /\ \A n \in Made' : monitor'[n].id = monitor[n].id
  BY <1>1 DEF Made
<1>3. ASSUME reportOdd' = {}, NEW n \in On'
      PROVE  n \in On /\ monitor'[n].level <= monitor[n].level /\ monitor'[n].id = monitor[n].id
  <2>1. CASE n = m
    BY <1>1, <1>3, <2>1 DEF On
  <2>2. CASE n # m
    <3>1. n \in Monitors /\ monitor'[n] = monitor[n] /\ monitor[n].level \in Nat
      BY <1>1, <1>3, <2>2 DEF On, MonitorType
    <3> QED
      BY <1>3, <3>1 DEF On
  <2> QED
    BY <2>1, <2>2
<1>4. ASSUME reportOdd' = {}, NEW n \in On'
      PROVE  /\ monitor'[n].id \in DOMAIN debugLevels'
             /\ monitor'[n].level <= debugLevels'[monitor'[n].id]
  <2>1. n \in On /\ monitor'[n].level <= monitor[n].level /\ monitor'[n].id = monitor[n].id
    BY <1>3, <1>4
  <2>2. monitor[n].id \in DOMAIN debugLevels /\ monitor[n].level <= debugLevels[monitor[n].id]
    BY <2>1 DEF ReportInv
  <2>3. /\ n \in Monitors
        /\ monitor[n].level \in Nat /\ monitor'[n].level \in Nat /\ debugLevels[monitor[n].id] \in Nat
    BY <1>1, <2>1, <2>2 DEF On, MonitorType, ReportInv
  <2> QED
    BY <2>1, <2>2, <2>3
<1>5. \A k \in Made' : monitor'[k].id # GlobalId
                       /\ \A n \in Made' \ {k} : monitor'[n].id # monitor'[k].id
  BY <1>2 DEF ReportInv
<1> QED
  BY <1>1, <1>4, <1>5, MonitorStep DEF ReportInv

LEMMA MakeMonitorKeeps ==
  ASSUME ReportInv, reportOdd = {}, NEW m \in Monitors, NEW id \in MonitorIds, NEW level \in Nat,
         MakeMonitor(m, id, level)
  PROVE  ReportInv'
<1>1. PICK r : r = [at |-> "made", id |-> id, level |-> level, enabled |-> TRUE]
  OBVIOUS
<1>2. r \in MonitorType /\ r.at = "made" /\ r.id = id
  BY <1>1 DEF MonitorType
<1>3. /\ monitor \in [Monitors -> MonitorType] /\ monitor' = [monitor EXCEPT ![m] = r]
      /\ m \notin Made
  BY <1>1 DEF MakeMonitor, ReportInv
<1>4. /\ monitor' \in [Monitors -> MonitorType]
      /\ monitor'[m] = r /\ \A n \in Monitors \ {m} : monitor'[n] = monitor[n]
  BY <1>2, <1>3
<1>5. Made' = Made \cup {m} /\ On' = On /\ m \notin On
  BY <1>2, <1>3, <1>4 DEF Made, On
<1>6. /\ \A i \in DOMAIN debugLevels' : debugLevels'[i] \in Nat
      /\ \A i \in DOMAIN debugLevels : i \in DOMAIN debugLevels' /\ (i # id => debugLevels'[i] = debugLevels[i])
  <2>1. debugLevels' = Registered({id}, level) \/ debugLevels' = debugLevels
    BY DEF MakeMonitor
  <2>2. \A i \in DOMAIN debugLevels : debugLevels[i] \in Nat
    BY DEF ReportInv
  <2> QED
    BY <2>1, <2>2 DEF Registered
<1>7. reportOdd' = SharesId(m, id)
  BY DEF MakeMonitor
<1>8. reportOdd' = {} => \A n \in Made : monitor[n].id # id
  BY <1>3, <1>7 DEF SharesId
<1>9. "wrong" \notin reportOdd'
  BY <1>7 DEF SharesId
<1>10. id # GlobalId
  BY ReportsAssumption
<1>11. \A n \in On : n \in Made /\ n \in Monitors
  BY DEF On, Made
<1>12. \A n \in Made : n \in Monitors
  BY DEF Made
<1>13. ASSUME reportOdd' = {}, NEW n \in On'
       PROVE  /\ monitor'[n].id \in DOMAIN debugLevels'
              /\ monitor'[n].level <= debugLevels'[monitor'[n].id]
  <2>1. n \in On /\ n # m /\ monitor'[n] = monitor[n] /\ monitor[n].id # id
    BY <1>4, <1>5, <1>8, <1>11, <1>13
  <2>2. monitor[n].id \in DOMAIN debugLevels /\ monitor[n].level <= debugLevels[monitor[n].id]
    BY <2>1 DEF ReportInv
  <2> QED
    BY <1>6, <2>1, <2>2
<1>14. ASSUME reportOdd' = {}, NEW k \in Made'
       PROVE  monitor'[k].id # GlobalId /\ \A n \in Made' \ {k} : monitor'[n].id # monitor'[k].id
  <2>1. \A n \in Made : /\ n # m /\ monitor'[n].id = monitor[n].id
                        /\ monitor[n].id # id /\ monitor[n].id # GlobalId
    BY <1>3, <1>4, <1>8, <1>12, <1>14 DEF ReportInv
  <2>2. \A n \in Made : \A l \in Made \ {n} : monitor[l].id # monitor[n].id
    BY DEF ReportInv
  <2>3. monitor'[m].id = id
    BY <1>2, <1>4
  <2> QED
    BY <1>5, <1>10, <1>14, <2>1, <2>2, <2>3
<1>15. debugLevel' = debugLevel /\ UNCHANGED <<msgLevel, reporter>>
  BY DEF MakeMonitor
<1> QED
  BY <1>4, <1>6, <1>9, <1>13, <1>14, <1>15, MonitorStep DEF ReportInv

LEMMA InitializeKeeps ==
  ASSUME ReportInv, reportOdd = {}, NEW m \in Monitors, Initialize(m)
  PROVE  ReportInv'
<1>1. PICK id : id = monitor[m].id
  OBVIOUS
<1>2. /\ monitor \in [Monitors -> MonitorType] /\ monitor[m].at = "made" /\ debugLevel \in Nat
  BY DEF Initialize, ReportInv
<1>3. /\ monitor' \in [Monitors -> MonitorType]
      /\ \A n \in Monitors \ {m} : monitor'[n] = monitor[n]
      /\ monitor'[m].at = "on" /\ monitor'[m].level = debugLevel /\ monitor'[m].id = id
  <2>1. monitor[m] \in MonitorType
    BY <1>2
  <2>2. PICK r : r = [monitor[m] EXCEPT !.at = "on", !.level = debugLevel]
    OBVIOUS
  <2>3. r \in MonitorType /\ r.at = "on" /\ r.level = debugLevel /\ r.id = id
    BY <1>1, <1>2, <2>1, <2>2 DEF MonitorType
  <2>4. monitor' = [monitor EXCEPT ![m] = r]
    BY <1>2, <2>2 DEF Initialize
  <2> QED
    BY <1>2, <2>3, <2>4
<1>4. /\ DOMAIN debugLevels' = DOMAIN debugLevels \cup {id} /\ debugLevels'[id] = debugLevel
      /\ \A i \in DOMAIN debugLevels \ {id} : debugLevels'[i] = debugLevels[i]
  BY <1>1 DEF Initialize, Registered
<1>5. Made' = Made /\ On' = On \cup {m} /\ m \in Made /\ On \subseteq Made
  BY <1>2, <1>3 DEF Made, On
<1>6. /\ \A n \in Made : monitor[n].id # GlobalId /\ \A k \in Made \ {n} : monitor[k].id # monitor[n].id
      /\ \A n \in On : /\ monitor[n].id \in DOMAIN debugLevels
                       /\ monitor[n].level <= debugLevels[monitor[n].id]
      /\ \A i \in DOMAIN debugLevels : debugLevels[i] \in Nat
  BY DEF ReportInv
<1>7. \A n \in Made : monitor'[n].id = monitor[n].id
  BY <1>1, <1>3 DEF Made
<1>8. ASSUME NEW n \in On'
      PROVE  /\ monitor'[n].id \in DOMAIN debugLevels'
             /\ monitor'[n].level <= debugLevels'[monitor'[n].id]
  <2>1. CASE n = m
    BY <1>2, <1>3, <1>4, <2>1
  <2>2. CASE n # m
    <3>1. n \in On /\ n \in Monitors /\ monitor'[n] = monitor[n] /\ monitor[n].id # id
      BY <1>1, <1>3, <1>5, <1>6, <1>8, <2>2 DEF On
    <3> QED
      BY <1>4, <1>6, <3>1
  <2> QED
    BY <2>1, <2>2
<1>9. \A i \in DOMAIN debugLevels' : debugLevels'[i] \in Nat
  BY <1>2, <1>4, <1>6
<1>10. debugLevel' = debugLevel /\ UNCHANGED <<msgLevel, reporter>> /\ reportOdd' = {}
  BY DEF Initialize
<1> QED
  BY <1>2, <1>3, <1>5, <1>6, <1>7, <1>8, <1>9, <1>10, MonitorStep

LEMMA ReportingLevelKeeps ==
  ASSUME ReportInv, reportOdd = {}, NEW level \in Nat, ReportingLevel(level)
  PROVE  ReportInv'
<1>1. PICK told : told = IF level = debugLevel THEN {} ELSE On
  OBVIOUS
<1>2. PICK ids : ids = {monitor[m].id : m \in told} \cup {GlobalId}
  OBVIOUS
<1>3. /\ monitor' = [m \in Monitors |-> IF m \in told THEN [monitor[m] EXCEPT !.level = level] ELSE monitor[m]]
      /\ debugLevels' = Registered(ids, level)
      /\ debugLevel' = level /\ reportOdd' = {} /\ UNCHANGED <<msgLevel, reporter>>
  BY <1>1, <1>2 DEF ReportingLevel
<1>4. /\ monitor \in [Monitors -> MonitorType]
      /\ \A n \in Made : monitor[n].id # GlobalId /\ \A k \in Made \ {n} : monitor[k].id # monitor[n].id
      /\ \A n \in On : /\ monitor[n].id \in DOMAIN debugLevels
                       /\ monitor[n].level <= debugLevels[monitor[n].id]
      /\ \A i \in DOMAIN debugLevels : debugLevels[i] \in Nat
  BY DEF ReportInv
<1>5. ASSUME NEW m \in Monitors
      PROVE  /\ monitor'[m] \in MonitorType
             /\ monitor'[m].at = monitor[m].at /\ monitor'[m].id = monitor[m].id
             /\ monitor'[m].level = IF m \in told THEN level ELSE monitor[m].level
  BY <1>3, <1>4 DEF MonitorType
<1>6. monitor' \in [Monitors -> MonitorType]
  BY <1>3, <1>5
<1>7. Made' = Made /\ On' = On /\ On \subseteq Made /\ On \subseteq Monitors /\ Made \subseteq Monitors
  BY <1>5 DEF Made, On
<1>8. /\ DOMAIN debugLevels' = DOMAIN debugLevels \cup ids
      /\ \A i \in ids : debugLevels'[i] = level
      /\ \A i \in DOMAIN debugLevels \ ids : debugLevels'[i] = debugLevels[i]
  BY <1>3 DEF Registered
<1>9. ASSUME NEW n \in On'
      PROVE  /\ monitor'[n].id \in DOMAIN debugLevels'
             /\ monitor'[n].level <= debugLevels'[monitor'[n].id]
  <2>1. n \in On /\ n \in Made /\ n \in Monitors
    BY <1>7, <1>9
  <2>2. CASE n \in told
    <3>1. monitor[n].id \in ids
      BY <1>2, <2>2
    <3> QED
      BY <1>5, <1>8, <2>1, <2>2, <3>1
  <2>3. CASE n \notin told
    <3>1. told = {}
      BY <1>1, <2>1, <2>3
    <3>2. ids = {GlobalId}
      BY <1>2, <3>1
    <3>3. monitor[n].id \in DOMAIN debugLevels \ ids
      BY <1>4, <2>1, <3>2
    <3> QED
      BY <1>4, <1>5, <1>8, <2>1, <2>3, <3>3
  <2> QED
    BY <2>2, <2>3
<1>10. \A i \in DOMAIN debugLevels' : debugLevels'[i] \in Nat
  BY <1>4, <1>8
<1>11. \A m \in Made' : monitor'[m].id # GlobalId
                        /\ \A n \in Made' \ {m} : monitor'[n].id # monitor'[m].id
  BY <1>4, <1>5, <1>7
<1> QED
  BY <1>3, <1>6, <1>9, <1>10, <1>11, MonitorStep

LEMMA ReportKeeps ==
  ASSUME ReportInv, reportOdd = {}, NEW t \in Reporters, NEW level \in Nat, Report(t, level)
  PROVE  ReportInv'
<1>1. /\ msgLevel' = level
      /\ reporter' = [u \in Reporters |->
           IF u = t THEN [busy |-> TRUE, levels |-> {level}]
           ELSE IF reporter[u].busy THEN [reporter[u] EXCEPT !.levels = @ \cup {level}]
           ELSE reporter[u]]
      /\ UNCHANGED <<active, debugLevel, debugLevels, monitor, reportOdd>>
  BY DEF Report
<1>5. ASSUME NEW u \in Reporters
      PROVE  /\ reporter'[u] = [busy |-> reporter'[u].busy, levels |-> reporter'[u].levels]
             /\ reporter'[u].busy \in BOOLEAN
             /\ reporter'[u].busy => level \in reporter'[u].levels
  <2>1. CASE u = t
    <3>1. reporter'[u] = [busy |-> TRUE, levels |-> {level}]
      BY <1>1, <2>1
    <3> QED
      BY <3>1
  <2>2. CASE u # t
    <3>1. /\ reporter[u] = [busy |-> reporter[u].busy, levels |-> reporter[u].levels]
          /\ reporter[u].busy \in BOOLEAN
      BY DEF ReportInv
    <3>2. PICK ls : ls = reporter[u].levels \cup {level}
      OBVIOUS
    <3>3. CASE reporter[u].busy
      <4>1. reporter'[u] = [reporter[u] EXCEPT !.levels = ls]
        BY <1>1, <2>2, <3>2, <3>3
      <4>2. [reporter[u] EXCEPT !.levels = ls] = [busy |-> reporter[u].busy, levels |-> ls]
        BY <3>1
      <4> QED
        BY <3>1, <3>2, <3>3, <4>1, <4>2
    <3>4. CASE ~reporter[u].busy
      BY <1>1, <2>2, <3>1, <3>4
    <3> QED
      BY <3>3, <3>4
  <2> QED
    BY <2>1, <2>2
<1>6. Made' = Made /\ On' = On
  BY <1>1 DEF Made, On
<1>7. DOMAIN reporter' = Reporters
  BY <1>1
<1>8. /\ debugLevel' \in Nat /\ msgLevel' \in Nat /\ monitor' \in [Monitors -> MonitorType]
      /\ \A id \in DOMAIN debugLevels' : debugLevels'[id] \in Nat
      /\ "wrong" \notin reportOdd'
  BY <1>1 DEF ReportInv
<1>9. /\ \A m \in Made' : monitor'[m].id # GlobalId /\ \A n \in Made' \ {m} : monitor'[n].id # monitor'[m].id
      /\ \A m \in On' : /\ monitor'[m].id \in DOMAIN debugLevels'
                        /\ monitor'[m].level <= debugLevels'[monitor'[m].id]
  BY <1>1, <1>6 DEF ReportInv
<1>10. \A u \in Reporters : reporter'[u].busy => msgLevel' \in reporter'[u].levels
  BY <1>1, <1>5
<1> QED
  BY <1>5, <1>7, <1>8, <1>9, <1>10 DEF ReportInv

LEMMA DeliversKeeps ==
  ASSUME ReportInv, reportOdd = {}, NEW t \in Reporters, Delivers(t)
  PROVE  ReportInv'
<1>1. PICK reached : reached = IF IsWatched THEN {m \in On : Hears(m, msgLevel)} ELSE {}
  OBVIOUS
<1>0. PICK may : may = {{m \in On : Hears(m, level)} : level \in reporter[t].levels}
  OBVIOUS
<1>2. /\ reporter[t].busy
      /\ reporter' = [reporter EXCEPT ![t] = Silent]
      /\ reportOdd' = (IF reached \notin may THEN {"wrong"} ELSE {})
            \cup (IF \E m \in reached : monitor[m].at = "dying" THEN {"dead"} ELSE {})
      /\ UNCHANGED <<active, debugLevel, debugLevels, msgLevel, monitor>>
  <2>1. /\ reporter[t].busy
        /\ reporter' = [reporter EXCEPT ![t] = Silent]
        /\ UNCHANGED <<active, debugLevel, debugLevels, msgLevel, monitor>>
    BY DEF Delivers
  <2>2. reportOdd' = reportOdd
            \cup (IF reached \notin may THEN {"wrong"} ELSE {})
            \cup (IF \E m \in reached : monitor[m].at = "dying" THEN {"dead"} ELSE {})
    BY <1>1, <1>0, Zenon DEF Delivers
  <2> QED
    BY <2>1, <2>2
<1>3. reached \in may
  <2>1. msgLevel \in reporter[t].levels
    BY <1>2 DEF ReportInv
  <2>2. ASSUME NEW m \in On, Hears(m, msgLevel)
        PROVE  IsWatched
    <3>1. m \in Monitors /\ monitor[m] \in MonitorType /\ monitor[m].level \in Nat
      BY DEF On, ReportInv, MonitorType
    <3>2. /\ monitor[m].id \in DOMAIN debugLevels
          /\ monitor[m].level <= debugLevels[monitor[m].id]
          /\ debugLevels[monitor[m].id] \in Nat /\ msgLevel \in Nat
      BY DEF ReportInv
    <3>3. msgLevel <= monitor[m].level
      BY <2>2 DEF Hears
    <3>4. msgLevel <= debugLevels[monitor[m].id]
      BY <3>1, <3>2, <3>3
    <3> QED
      BY <3>2, <3>4 DEF IsWatched
  <2>3. reached = {m \in On : Hears(m, msgLevel)}
    BY <1>1, <2>2
  <2> QED
    BY <1>0, <2>1, <2>3
<1>4. "wrong" \notin reportOdd'
  BY <1>2, <1>3
<1>5. Made' = Made /\ On' = On
  BY <1>2 DEF Made, On
<1>6. ASSUME NEW u \in Reporters
      PROVE  /\ reporter'[u] = [busy |-> reporter'[u].busy, levels |-> reporter'[u].levels]
             /\ reporter'[u].busy \in BOOLEAN
             /\ reporter'[u].busy => reporter'[u] = reporter[u]
  <2>1. DOMAIN reporter = Reporters
    BY DEF ReportInv
  <2>2. CASE u = t
    BY <1>2, <2>1, <2>2 DEF Silent
  <2>3. CASE u # t
    <3>1. reporter'[u] = reporter[u]
      BY <1>2, <2>1, <2>3
    <3> QED
      BY <3>1 DEF ReportInv
  <2> QED
    BY <2>2, <2>3
<1>7. DOMAIN reporter' = Reporters
  BY <1>2 DEF ReportInv
<1>8. \A u \in Reporters : reporter'[u].busy => msgLevel \in reporter'[u].levels
  BY <1>6 DEF ReportInv
<1>9. /\ \A id \in DOMAIN debugLevels' : debugLevels'[id] \in Nat
      /\ debugLevel' \in Nat /\ msgLevel' \in Nat /\ monitor' \in [Monitors -> MonitorType]
  BY <1>2 DEF ReportInv
<1>10. /\ \A m \in Made' : monitor'[m].id # GlobalId /\ \A n \in Made' \ {m} : monitor'[n].id # monitor'[m].id
       /\ \A m \in On' : /\ monitor'[m].id \in DOMAIN debugLevels'
                         /\ monitor'[m].level <= debugLevels'[monitor'[m].id]
  BY <1>2, <1>5 DEF ReportInv
<1>11. msgLevel' = msgLevel
  BY <1>2
<1> QED
  BY <1>4, <1>6, <1>7, <1>8, <1>9, <1>10, <1>11 DEF ReportInv

LEMMA ReportInvStep == ReportInv /\ [ReportNext]_reportVars => ReportInv'
<1> SUFFICES ASSUME ReportInv, [ReportNext]_reportVars
             PROVE  ReportInv'
  OBVIOUS
<1>1. CASE UNCHANGED reportVars
  BY <1>1 DEF reportVars, ReportInv, Made, On
<1>2. \A level \in Severities : level \in Nat
  BY ReportsAssumption
<1> SUFFICES ASSUME reportOdd = {}, ReportNext
             PROVE  ReportInv'
  BY <1>1 DEF ReportNext
<1>3. \A m \in Monitors : monitor[m] \in MonitorType
  BY DEF ReportInv
<1>4. ASSUME NEW m \in Monitors, NEW id \in MonitorIds, NEW level \in Severities, MakeMonitor(m, id, level)
      PROVE  ReportInv'
  BY <1>2, <1>4, MakeMonitorKeeps
<1>5. ASSUME NEW m \in Monitors, Initialize(m)
      PROVE  ReportInv'
  BY <1>5, InitializeKeeps
<1>6. ASSUME NEW m \in Monitors, Shutdown(m)
      PROVE  ReportInv'
  <2>1. PICK r : r = [monitor[m] EXCEPT !.at = "made"]
    OBVIOUS
  <2>2. r \in MonitorType /\ r.at = "made" /\ r.id = monitor[m].id
    BY <1>3, <2>1 DEF MonitorType
  <2>3. /\ monitor' = [monitor EXCEPT ![m] = r] /\ m \in Made
        /\ UNCHANGED <<debugLevel, debugLevels, msgLevel, reporter, reportOdd>>
    BY <1>6, <2>1 DEF Shutdown, Made
  <2> QED
    BY <2>2, <2>3, OneMonitor
<1>7. ASSUME NEW m \in Monitors, Destroy(m)
      PROVE  ReportInv'
  <2>1. PICK r : r = IF monitor[m].at = "on" THEN [monitor[m] EXCEPT !.at = "dying"] ELSE Unmade
    OBVIOUS
  <2>2. /\ monitor' = [monitor EXCEPT ![m] = r]
        /\ UNCHANGED <<debugLevel, debugLevels, msgLevel, reporter, reportOdd>>
    BY <1>7, <2>1 DEF Destroy
  <2>3. CASE monitor[m].at = "on"
    <3>1. r \in MonitorType /\ r.at = "dying" /\ r.id = monitor[m].id /\ r.level = monitor[m].level
      BY <1>3, <2>1, <2>3 DEF MonitorType
    <3>2. m \in Made /\ m \in On /\ monitor[m].level \in Nat /\ r.level <= monitor[m].level
      BY <1>3, <2>3, <3>1 DEF Made, On, MonitorType
    <3>3. "wrong" \notin reportOdd'
      BY <2>2
    <3> QED
      BY <2>2, <3>1, <3>2, <3>3, OneMonitor
  <2>4. CASE monitor[m].at # "on"
    <3>1. r \in MonitorType /\ r.at = "none"
      BY <2>1, <2>4 DEF Unmade, MonitorType
    <3> QED
      BY <2>2, <3>1, OneMonitor
  <2> QED
    BY <2>3, <2>4
<1>8. ASSUME NEW m \in Monitors, Destroyed(m)
      PROVE  ReportInv'
  <2>1. Unmade \in MonitorType /\ Unmade.at = "none"
    BY DEF Unmade, MonitorType
  <2> QED
    BY <1>8, <2>1, OneMonitor DEF Destroyed
<1>9. ASSUME NEW m \in Monitors, NEW level \in Severities, SetLevel(m, level)
      PROVE  ReportInv'
  <2>1. PICK r : r = [monitor[m] EXCEPT !.level = level]
    OBVIOUS
  <2>2. /\ r \in MonitorType /\ r.at = monitor[m].at /\ r.id = monitor[m].id /\ r.level = level
        /\ monitor[m].level \in Nat
    BY <1>2, <1>3, <2>1 DEF MonitorType
  <2>3. /\ monitor' = [monitor EXCEPT ![m] = r] /\ m \in Made
        /\ UNCHANGED <<debugLevel, debugLevels, msgLevel, reporter>>
        /\ reportOdd' = IF level > monitor[m].level THEN {"unregistered"} ELSE {}
    BY <1>9, <2>1 DEF SetLevel
  <2>4. reportOdd' = {} => level <= monitor[m].level
    BY <1>2, <2>2, <2>3
  <2>5. r.at \in {"on", "dying"} => m \in On
    BY <2>2 DEF On
  <2>6. "wrong" \notin reportOdd'
    BY <2>3
  <2> QED
    BY <2>2, <2>3, <2>4, <2>5, <2>6, OneMonitor
<1>10. ASSUME NEW m \in Monitors, NEW b \in BOOLEAN, SetEnabled(m, b)
       PROVE  ReportInv'
  <2>1. PICK r : r = [monitor[m] EXCEPT !.enabled = b]
    OBVIOUS
  <2>2. /\ r \in MonitorType /\ r.at = monitor[m].at /\ r.id = monitor[m].id /\ r.level = monitor[m].level
        /\ monitor[m].level \in Nat
    BY <1>3, <2>1 DEF MonitorType
  <2>3. /\ monitor' = [monitor EXCEPT ![m] = r] /\ m \in Made
        /\ UNCHANGED <<debugLevel, debugLevels, msgLevel, reporter, reportOdd>>
    BY <1>10, <2>1 DEF SetEnabled
  <2>4. r.at \in {"on", "dying"} => m \in On
    BY <2>2 DEF On
  <2>5. "wrong" \notin reportOdd' /\ r.level <= monitor[m].level
    BY <2>2, <2>3
  <2> QED
    BY <2>2, <2>3, <2>4, <2>5, OneMonitor
<1>11. ASSUME NEW level \in Severities, ReportingLevel(level)
       PROVE  ReportInv'
  BY <1>2, <1>11, ReportingLevelKeeps
<1>12. ASSUME ReportingStart \/ ReportingStop
       PROVE  ReportInv'
  BY <1>12 DEF ReportingStart, ReportingStop, ReportInv, Made, On
<1>13. ASSUME NEW t \in Reporters, NEW level \in Severities, Report(t, level)
       PROVE  ReportInv'
  BY <1>2, <1>13, ReportKeeps
<1>14. ASSUME NEW t \in Reporters, Delivers(t)
       PROVE  ReportInv'
  BY <1>14, DeliversKeeps
<1> QED
  BY <1>4, <1>5, <1>6, <1>7, <1>8, <1>9, <1>10, <1>11, <1>12, <1>13, <1>14 DEF ReportNext

-------------------------------------------------------------------------------
(***************************************************************************)
(* Stop watches.  A watch that runs has a start; what it was let run is what it *)
(* has counted and what has elapsed since; what render() has read is still so,  *)
(* unless it was torn; and unless it was reset while it ran, no event is left    *)
(* that would call it when it does not run.                                  *)
(***************************************************************************)
WatchInv ==
  /\ now \in Nat /\ ran \in Nat
  /\ watch = [alive |-> watch.alive, running |-> watch.running, diff |-> watch.diff,
              start |-> watch.start, text |-> watch.text]
  /\ watch.running \in BOOLEAN /\ watch.alive \in BOOLEAN /\ watch.diff \in Nat /\ watch.text \in Nat
  /\ IF watch.running THEN watch.start \in Nat /\ watch.start <= now /\ ran = watch.diff + (now - watch.start)
     ELSE watch.start = NoTime /\ ran = watch.diff
  /\ drawing = [at |-> drawing.at, dt |-> drawing.dt] /\ drawing.dt \in Nat
  /\ drawing.at \in {"idle", "ends", "render", "add", "show"}
  /\ watch.alive /\ "torn" \notin watchOdd =>
       /\ watch.text <= ran
       /\ drawing.at = "add" => watch.running /\ drawing.dt = watch.diff
       /\ drawing.at = "show" => drawing.dt <= ran
  /\ "reset" \notin watchOdd => "loose" \notin watchEvents /\ ("held" \in watchEvents => watch.running)
  /\ ~watch.alive => ~watch.running /\ (drawing.at # "idle" => {"reset", "gone"} \cap watchOdd # {})
  /\ started = NoTime => stopped = NoTime
  /\ started # NoTime => started \in Nat /\ p1 = Packed(started)
  /\ stopped # NoTime => stopped \in Nat /\ p2 = Packed(stopped)

LEMMA Unpacked ==
  ASSUME NEW a \in Nat, NEW b \in Nat, NEW m \in Nat, b < m
  PROVE  (a * m + b) \div m = a /\ (a * m + b) % m = b
<1>1. PICK n \in Nat : n = a * m + b
  OBVIOUS
<1>2. /\ n % m \in 0 .. m - 1 /\ n = m * (n \div m) + (n % m) /\ n \div m \in Int
  OBVIOUS
<1>3. PICK q \in Int : q = n \div m
  BY <1>2
<1>4. PICK r \in 0 .. m - 1 : r = n % m
  BY <1>2
<1>5. m * q + r = m * a + b
  BY <1>1, <1>2, <1>3, <1>4
<1>6. q = a
  <2>1. PICK d \in Int : d = q - a
    OBVIOUS
  <2>2. m * d = b - r
    BY <1>5, <2>1
  <2>3. ~(d >= 1)
    <3> SUFFICES ASSUME d >= 1 PROVE FALSE
      OBVIOUS
    <3>1. m * (d - 1) >= 0
      OBVIOUS
    <3>2. m * (d - 1) = m * d - m
      OBVIOUS
    <3> QED
      BY <2>2, <3>1, <3>2
  <2>4. ~(d <= -1)
    <3> SUFFICES ASSUME d <= -1 PROVE FALSE
      OBVIOUS
    <3>1. m * (-1 - d) >= 0
      OBVIOUS
    <3>2. m * (-1 - d) = -m - m * d
      OBVIOUS
    <3> QED
      BY <2>2, <3>1, <3>2
  <2> QED
    BY <2>1, <2>3, <2>4
<1> QED
  BY <1>1, <1>3, <1>4, <1>5, <1>6

LEMMA PackedIs ==
  ASSUME NEW n \in Nat
  PROVE  /\ Packed(n) \div Pack = n \div Second /\ Packed(n) % Pack = n % Second
         /\ n = (n \div Second) * Second + (n % Second)
         /\ n \div Second \in Nat /\ n % Second \in Nat
<1>1. Second \in Nat /\ Second > 0 /\ Pack \in Nat /\ Pack > Second
  BY WatchAssumption
<1>2. /\ n % Second \in 0 .. Second - 1 /\ n = Second * (n \div Second) + (n % Second)
      /\ n \div Second \in Nat
  BY <1>1
<1>3. PICK a \in Nat : a = n \div Second
  BY <1>2
<1>4. PICK b \in 0 .. Second - 1 : b = n % Second
  BY <1>2
<1>5. (a * Pack + b) \div Pack = a /\ (a * Pack + b) % Pack = b
  <2>1. b \in Nat /\ b < Pack
    BY <1>1
  <2> QED
    BY <1>1, <2>1, Unpacked
<1>6. Packed(n) = a * Pack + b
  BY <1>3, <1>4 DEF Packed
<1>7. Second * a = a * Second
  BY <1>1
<1> QED
  BY <1>1, <1>2, <1>3, <1>4, <1>5, <1>6, <1>7

LEMMA WatchInvInit == WatchInit => WatchInv
BY DEF WatchInit, WatchInv, NotDrawing

LEMMA WatchInvGives == WatchInv => WatchesRight
<1> SUFFICES ASSUME WatchInv PROVE WatchesRight
  OBVIOUS
<1>1. ASSUME stopped # NoTime
      PROVE  DiffUsec = stopped - started
  <2>1. PICK n \in Nat : n = stopped /\ p2 = Packed(n)
    BY <1>1 DEF WatchInv
  <2>2. PICK k \in Nat : k = started /\ p1 = Packed(k)
    BY <1>1 DEF WatchInv
  <2>3. PICK a \in Nat : a = n \div Second
    BY PackedIs
  <2>4. PICK b \in Nat : b = k \div Second
    BY PackedIs
  <2>5. PICK x \in Nat : x = n % Second
    BY PackedIs
  <2>6. PICK y \in Nat : y = k % Second
    BY PackedIs
  <2>7. DiffUsec = (a - b) * Second + (x - y)
    BY <2>1, <2>2, <2>3, <2>4, <2>5, <2>6, PackedIs DEF DiffUsec
  <2>8. n = a * Second + x /\ k = b * Second + y
    BY <2>3, <2>4, <2>5, <2>6, PackedIs
  <2>9. (a - b) * Second = a * Second - b * Second
    BY WatchAssumption
  <2> QED
    BY <2>1, <2>2, <2>7, <2>8, <2>9, WatchAssumption
<1>2. ~watch.running => watch.diff = ran
  BY DEF WatchInv
<1>3. watch.alive /\ "torn" \notin watchOdd => watch.text <= ran
  BY DEF WatchInv
<1>4. ~watch.alive /\ drawing.at # "idle" => {"reset", "gone"} \cap watchOdd # {}
  BY DEF WatchInv
<1> QED
  BY <1>1, <1>2, <1>3, <1>4 DEF WatchesRight

LEMMA WatchInvStep == WatchInv /\ [WatchNext]_watchVars => WatchInv'
<1> SUFFICES ASSUME WatchInv, [WatchNext]_watchVars PROVE WatchInv'
  OBVIOUS
<1>1. NoTime \notin Nat
  BY WatchAssumption
<1>2. CASE Tick
  <2>1. /\ now' = now + 1 /\ ran' = (IF watch.running THEN ran + 1 ELSE ran) /\ watch' = watch
        /\ UNCHANGED <<watchEvents, drawing, p1, p2, started, stopped, watchOdd>>
    BY <1>2 DEF Tick, stopWatchVars
  <2>2. CASE watch.running
    <3>1. ran' = ran + 1
      BY <2>1, <2>2
    <3> QED
      BY <1>1, <2>1, <2>2, <3>1 DEF WatchInv
  <2>3. CASE ~watch.running
    <3>1. ran' = ran
      BY <2>1, <2>3
    <3> QED
      BY <1>1, <2>1, <2>3, <3>1 DEF WatchInv
  <2> QED
    BY <2>2, <2>3
<1>3. CASE Start
  BY <1>1, <1>3 DEF Start, WatchInv
<1>4. CASE Stop
  BY <1>1, <1>4 DEF Stop, WatchInv
<1>5. CASE StartWatch
  <2>1. /\ watch' = [alive |-> TRUE, running |-> TRUE, diff |-> watch.diff, start |-> now, text |-> watch.diff]
        /\ watch.diff \in Nat /\ ran = watch.diff
    BY <1>5 DEF StartWatch, WatchInv
  <2>2. /\ "held" \in watchEvents' /\ ("reset" \notin watchOdd => "loose" \notin watchEvents')
        /\ UNCHANGED <<now, drawing, p1, p2, started, stopped, ran>>
    BY <1>5 DEF StartWatch, WatchInv, stopWatchVars
  <2>3. /\ watchOdd \subseteq watchOdd' /\ ("torn" \notin watchOdd' => drawing.at = "idle")
    BY <1>5 DEF StartWatch, Torn
  <2> QED
    BY <1>1, <2>1, <2>2, <2>3 DEF WatchInv
<1>6. CASE StopWatch
  BY <1>1, <1>6 DEF StopWatch, WatchInv, Torn, stopWatchVars, StoppedWatch, Unnotified, Elapsed
<1>7. CASE ResetWatch
  <2>1. /\ watch' = [alive |-> TRUE, running |-> FALSE, diff |-> 0, start |-> NoTime, text |-> 0] /\ ran' = 0
        /\ UNCHANGED <<now, watchEvents, drawing, p1, p2, started, stopped>>
    BY <1>7 DEF ResetWatch, WatchInv, stopWatchVars
  <2>2. /\ watchOdd \subseteq watchOdd' /\ (watch.running => "reset" \in watchOdd')
        /\ "torn" \notin watchOdd' => drawing.at = "idle"
    BY <1>7 DEF ResetWatch
  <2> QED
    BY <1>1, <2>1, <2>2 DEF WatchInv
<1>8. CASE DestroyWatch
  BY <1>1, <1>8 DEF DestroyWatch, WatchInv, Torn, stopWatchVars, StoppedWatch, Unnotified, Elapsed
<1>9. ASSUME NEW event \in {"held", "loose", "dead"}, OnTimer(event)
      PROVE  WatchInv'
  BY <1>1, <1>9 DEF OnTimer, WatchInv, stopWatchVars, NotDrawing
<1>10. CASE OnTimerEnds
  BY <1>1, <1>10 DEF OnTimerEnds, WatchInv, stopWatchVars, NotDrawing
<1>11. CASE Render
  <2>1. /\ drawing.at = "render" /\ drawing' = [at |-> drawing'.at, dt |-> watch.diff]
        /\ drawing'.at = IF watch.running /\ watch.start # NoTime THEN "add" ELSE "show"
        /\ UNCHANGED <<now, watch, watchEvents, p1, p2, started, stopped, ran, watchOdd>>
    BY <1>11 DEF Render, WatchInv, stopWatchVars
  <2>2. watch.diff <= ran
    BY DEF WatchInv
  <2>3. drawing'.at = "add" => watch.running
    BY <2>1
  <2>4. drawing'.at \in {"add", "show"} /\ drawing'.dt = watch.diff
    BY <2>1
  <2> QED
    BY <1>1, <2>1, <2>2, <2>3, <2>4 DEF WatchInv
<1>12. CASE RenderString
  <2>1. PICK shown : /\ shown \in (IF drawing.at = "show" THEN {drawing.dt}
                                  ELSE IF watch.start # NoTime THEN {drawing.dt + Elapsed} ELSE {0, MaxTime})
                     /\ watch' = [watch EXCEPT !.text = shown]
    BY <1>12 DEF RenderString
  <2>2. /\ drawing.at \in {"add", "show"} /\ drawing' = [at |-> "idle", dt |-> 0]
        /\ UNCHANGED <<now, watchEvents, p1, p2, started, stopped, ran, watchOdd>>
    BY <1>12 DEF RenderString, stopWatchVars, NotDrawing
  <2>3. watch' = [alive |-> watch.alive, running |-> watch.running, diff |-> watch.diff,
                  start |-> watch.start, text |-> shown]
    BY <2>1 DEF WatchInv
  <2>4. shown \in Nat
    BY <2>1, WatchAssumption DEF WatchInv, Elapsed
  <2>5. watch.alive /\ "torn" \notin watchOdd => shown <= ran
    BY <1>1, <2>1, <2>2 DEF WatchInv, Elapsed
  <2> QED
    BY <1>1, <2>2, <2>3, <2>4, <2>5 DEF WatchInv
<1>13. CASE UNCHANGED watchVars
  BY <1>13 DEF watchVars, WatchInv
<1> QED
  BY <1>2, <1>3, <1>4, <1>5, <1>6, <1>7, <1>8, <1>9, <1>10, <1>11, <1>12, <1>13 DEF WatchNext

-------------------------------------------------------------------------------
(***************************************************************************)
(* Aggregates.  What they compute from a vector when they are hooked up are   *)
(* folds.                                                                  *)
(***************************************************************************)
Whatever(p, q, k, x) == TRUE
Naught(p, q) == 0

Plain(p, q, sum, x) == sum + x
Whole(p, q, k, x) == x \in Int
Tot == INSTANCE SequenceFacts WITH FoldOp <- Plain, FoldBase <- Naught, FoldInv <- Whole

Averaged(p, q, m, x) == MeanAdded(m, x, Len(p))
Unmeant(p, q) == MeanOf(0, 0)
Mean == INSTANCE SequenceFacts WITH FoldOp <- Averaged, FoldBase <- Unmeant, FoldInv <- Whatever

(* x is the lowest of the first k elements, or 0 and not above them. *)
Lowered(p, q, m, x) == MinAdded(m, x, Len(p))
LowSoFar(p, q, k, x) ==
  /\ x \in Int
  /\ x = 0 \/ \E j \in 1 .. k : x = p[j]
  /\ \A j \in 1 .. k : x <= p[j]
Low == INSTANCE SequenceFacts WITH FoldOp <- Lowered, FoldBase <- Naught, FoldInv <- LowSoFar

Raised(p, q, m, x) == MaxAdded(m, x)
HighSoFar(p, q, k, x) ==
  /\ x \in Int
  /\ x = 0 \/ \E j \in 1 .. k : x = p[j]
  /\ \A j \in 1 .. k : p[j] <= x
High == INSTANCE SequenceFacts WITH FoldOp <- Raised, FoldBase <- Naught, FoldInv <- HighSoFar

(* x is the least, or the greatest, of the first k elements but element q, or 0 if
   it started from there. *)
Lesser(p, q, m, i) == IF i = q \/ (i # 1 /\ ~Less(p[i], m)) THEN m ELSE p[i]
LeastSoFar(p, q, k, x) ==
  /\ x \in Int
  /\ (x = 0 /\ (k = 0 \/ q = 1)) \/ \E j \in 1 .. k : j # q /\ x = p[j]
  /\ \A j \in 1 .. k : j # q => x <= p[j]
Least == INSTANCE SequenceFacts WITH FoldOp <- Lesser, FoldBase <- Naught, FoldInv <- LeastSoFar

Greater(p, q, m, i) == IF i = q \/ (i # 1 /\ ~More(p[i], m)) THEN m ELSE p[i]
MostSoFar(p, q, k, x) ==
  /\ x \in Int
  /\ (x = 0 /\ (k = 0 \/ q = 1)) \/ \E j \in 1 .. k : j # q /\ x = p[j]
  /\ \A j \in 1 .. k : j # q => p[j] <= x
Most == INSTANCE SequenceFacts WITH FoldOp <- Greater, FoldBase <- Naught, FoldInv <- MostSoFar

LEMMA TotalIs ==
  ASSUME NEW s
  PROVE  Total(s) = Tot!Fold(0, 0, s) /\ SumHooked(s) = Tot!Fold(0, 0, s)
<1>1. Total(s) = Tot!Fold(0, 0, s)
  BY Zenon DEF Total, Tot!Fold, Tot!FoldLeft, FoldLeft, Tot!MapThenFoldSet, MapThenFoldSet, Tot!Max, Max, Plain, Naught
<1>2. SumHooked(s) = Tot!Fold(0, 0, s)
  BY Zenon DEF SumHooked, SumAdded, Tot!Fold, Tot!FoldLeft, FoldLeft, Tot!MapThenFoldSet, MapThenFoldSet, Tot!Max, Max, Plain, Naught
<1> QED
  BY <1>1, <1>2

LEMMA MeanIs ==
  ASSUME NEW s
  PROVE  MeanHooked(s) = Mean!Fold(s, 0, s)
  BY Zenon DEF MeanHooked, Mean!Fold, Mean!FoldLeft, FoldLeft, Mean!MapThenFoldSet, MapThenFoldSet, Mean!Max, Max, Averaged, Unmeant

LEMMA LeastIs ==
  ASSUME NEW s, NEW k
  PROVE  CheckAll(s, k, Less) = Least!Fold(s, k, IndexesOf(s))
  BY Zenon DEF CheckAll, Least!Fold, Least!FoldLeft, FoldLeft, Least!MapThenFoldSet, MapThenFoldSet, Least!Max, Max, Lesser, Naught

LEMMA MostIs ==
  ASSUME NEW s, NEW k
  PROVE  CheckAll(s, k, More) = Most!Fold(s, k, IndexesOf(s))
  BY Zenon DEF CheckAll, Most!Fold, Most!FoldLeft, FoldLeft, Most!MapThenFoldSet, MapThenFoldSet, Most!Max, Max, Greater, Naught

LEMMA HookedIs ==
  ASSUME NEW s
  PROVE  MinHooked(s) = Low!Fold(s, 0, s) /\ MaxHooked(s) = High!Fold(s, 0, s)
<1>1. MinHooked(s) = Low!Fold(s, 0, s)
  BY Zenon DEF MinHooked, Low!Fold, Low!FoldLeft, FoldLeft, Low!MapThenFoldSet, MapThenFoldSet, Low!Max, Max, Lowered, Naught
<1>2. MaxHooked(s) = High!Fold(s, 0, s)
  BY Zenon DEF MaxHooked, High!Fold, High!FoldLeft, FoldLeft, High!MapThenFoldSet, MapThenFoldSet, High!Max, Max, Raised, Naught
<1> QED
  BY <1>1, <1>2

(* a[k] is the sum of the first k elements. *)
LEMMA Sums ==
  ASSUME NEW s \in Seq(Int)
  PROVE  \E a : /\ a[0] = 0 /\ Total(s) = a[Len(s)]
                /\ \A k \in 1 .. Len(s) : a[k] = a[k - 1] + s[k]
                /\ \A k \in 0 .. Len(s) : a[k] \in Int
<1>1. Len(s) \in Nat /\ DOMAIN s = 1 .. Len(s) /\ \A k \in 1 .. Len(s) : s[k] \in Int
  OBVIOUS
<1>2. \A k \in 1 .. Len(s) : \A x : x \in Int => x + s[k] \in Int
  BY <1>1
<1>3. 0 \in Int
  OBVIOUS
<1>4. PICK a : Tot!Folding(0, 0, s, Len(s), a) /\ \A k \in 0 .. Len(s) : Whole(0, 0, k, a[k])
  <2>1. \A k \in 1 .. Len(s) : \A x : Whole(0, 0, k - 1, x) => Whole(0, 0, k, Plain(0, 0, x, s[k]))
    BY <1>2 DEF Whole, Plain
  <2>2. Whole(0, 0, 0, Naught(0, 0))
    BY <1>3 DEF Whole, Naught
  <2> QED
    BY <1>1, <2>1, <2>2, Tot!FoldKeeps
<1>5. /\ a[0] = 0 /\ Tot!Fold(0, 0, s) = a[Len(s)]
      /\ \A k \in 1 .. Len(s) : a[k] = a[k - 1] + s[k]
  BY <1>4 DEF Tot!Folding, Plain, Naught
<1> QED
  BY <1>4, <1>5, TotalIs DEF Whole

LEMMA SumEnds ==
  ASSUME NEW s \in Seq(Int), NEW b, b[0] = 0, \A k \in 1 .. Len(s) : b[k] = b[k - 1] + s[k]
  PROVE  Total(s) = b[Len(s)]
<1>1. Len(s) \in Nat /\ DOMAIN s = 1 .. Len(s)
  OBVIOUS
<1>2. ASSUME NEW n \in Nat, DOMAIN s = 1 .. n, b[0] = 0, \A k \in 1 .. n : b[k] = b[k - 1] + s[k]
      PROVE  Tot!Fold(0, 0, s) = b[n]
  <2>1. b[0] = Naught(0, 0) /\ \A k \in 1 .. n : b[k] = Plain(0, 0, b[k - 1], s[k])
    BY <1>2 DEF Naught, Plain
  <2> QED
    BY <1>2, <2>1, Tot!FoldEnds
<1>3. Tot!Fold(0, 0, s) = b[Len(s)]
  BY <1>1, <1>2
<1> QED
  BY <1>3, TotalIs

LEMMA SumInt ==
  ASSUME NEW s \in Seq(Int)
  PROVE  Total(s) \in Int
<1>1. Len(s) \in 0 .. Len(s)
  BY LenProperties
<1> QED
  BY <1>1, Sums

LEMMA SumOfEmpty == Total(<<>>) = 0
<1>1. PICK s : s = <<>>
  OBVIOUS
<1>2. s \in Seq(Int) /\ Len(s) = 0
  BY <1>1
<1>3. Total(s) = 0
  BY <1>2, Sums
<1> QED
  BY <1>1, <1>3

LEMMA SumOfAppend ==
  ASSUME NEW s \in Seq(Int), NEW x \in Int
  PROVE  Total(Append(s, x)) = Total(s) + x
<1>1. PICK a : /\ a[0] = 0 /\ Total(s) = a[Len(s)]
               /\ \A k \in 1 .. Len(s) : a[k] = a[k - 1] + s[k]
               /\ \A k \in 0 .. Len(s) : a[k] \in Int
  BY Sums
<1>2. PICK n \in Nat : n = Len(s)
  BY LenProperties
<1>3. PICK r : r = Append(s, x)
  OBVIOUS
<1>4. r \in Seq(Int) /\ Len(r) = n + 1 /\ r[n + 1] = x /\ \A k \in 1 .. n : r[k] = s[k]
  BY <1>2, <1>3, AppendProperties
<1>5. PICK b : b = [k \in 0 .. n + 1 |-> IF k = n + 1 THEN a[n] + x ELSE a[k]]
  OBVIOUS
<1>6. b[0] = 0 /\ b[n + 1] = a[n] + x
  BY <1>1, <1>2, <1>5
<1>7. ASSUME NEW k \in 1 .. n + 1 PROVE b[k] = b[k - 1] + r[k]
  <2>1. CASE k = n + 1
    BY <1>4, <1>5, <2>1
  <2>2. CASE k \in 1 .. n
    BY <1>1, <1>2, <1>4, <1>5, <2>2
  <2> QED
    BY <2>1, <2>2
<1>8. Total(r) = b[n + 1]
  BY <1>4, <1>6, <1>7, SumEnds
<1> QED
  BY <1>1, <1>2, <1>3, <1>6, <1>8

LEMMA SumOfExcept ==
  ASSUME NEW s \in Seq(Int), NEW i \in 1 .. Len(s), NEW x \in Int
  PROVE  Total([s EXCEPT ![i] = x]) = Total(s) - s[i] + x
<1>1. PICK a : /\ a[0] = 0 /\ Total(s) = a[Len(s)]
               /\ \A k \in 1 .. Len(s) : a[k] = a[k - 1] + s[k]
               /\ \A k \in 0 .. Len(s) : a[k] \in Int
  BY Sums
<1>2. PICK n \in Nat : n = Len(s)
  BY LenProperties
<1>3. PICK r : r = [s EXCEPT ![i] = x]
  OBVIOUS
<1>4. /\ r \in Seq(Int) /\ Len(r) = n /\ i \in 1 .. n /\ s[i] \in Int
      /\ \A k \in 1 .. n : r[k] = IF k = i THEN x ELSE s[k]
  BY <1>2, <1>3, ExceptSeq, ElementOfSeq
<1>5. PICK b : b = [k \in 0 .. n |-> IF k < i THEN a[k] ELSE a[k] - s[i] + x]
  OBVIOUS
<1>6. b[0] = 0 /\ b[n] = a[n] - s[i] + x
  BY <1>1, <1>4, <1>5
<1>7. ASSUME NEW k \in 1 .. n PROVE b[k] = b[k - 1] + r[k]
  <2>1. /\ a[k - 1] \in Int /\ a[k] = a[k - 1] + s[k] /\ s[k] \in Int /\ k - 1 \in 0 .. n /\ k \in 0 .. n
        /\ b[k] = (IF k < i THEN a[k] ELSE a[k] - s[i] + x)
        /\ b[k - 1] = (IF k - 1 < i THEN a[k - 1] ELSE a[k - 1] - s[i] + x)
        /\ r[k] = (IF k = i THEN x ELSE s[k])
    BY <1>1, <1>2, <1>4, <1>5, ElementOfSeq
  <2>2. CASE k = i
    BY <1>4, <2>1, <2>2
  <2>3. CASE k < i
    BY <1>4, <2>1, <2>3
  <2>4. CASE i < k
    BY <1>4, <2>1, <2>4
  <2> QED
    BY <1>4, <2>2, <2>3, <2>4
<1>8. Total(r) = b[n]
  BY <1>4, <1>6, <1>7, SumEnds
<1> QED
  BY <1>1, <1>2, <1>3, <1>6, <1>8

LEMMA SumOfRemove ==
  ASSUME NEW s \in Seq(Int), NEW i \in 1 .. Len(s)
  PROVE  Total(RemoveAt(s, i)) = Total(s) - s[i]
<1>1. PICK a : /\ a[0] = 0 /\ Total(s) = a[Len(s)]
               /\ \A k \in 1 .. Len(s) : a[k] = a[k - 1] + s[k]
               /\ \A k \in 0 .. Len(s) : a[k] \in Int
  BY Sums
<1>2. PICK n \in Nat : n = Len(s) - 1
  <2>1. Len(s) \in Nat /\ Len(s) >= 1
    BY LenProperties
  <2>2. Len(s) - 1 \in Nat
    BY <2>1
  <2> QED
    BY <2>2
<1>3. PICK r : r = RemoveAt(s, i)
  OBVIOUS
<1>4. /\ r \in Seq(Int) /\ Len(r) = n /\ i \in 1 .. n + 1 /\ s[i] \in Int /\ Len(s) = n + 1
      /\ \A k \in 1 .. n : r[k] = IF k < i THEN s[k] ELSE s[k + 1]
  <2>1. Len(s) = n + 1
    BY <1>2, LenProperties
  <2>2. r \in Seq(Int) /\ Len(r) = Len(s) - 1
    BY <1>3, RemoveAtProperties
  <2>4. (n + 1) - 1 = n
    OBVIOUS
  <2>3. \A k \in 1 .. n : r[k] = IF k < i THEN s[k] ELSE s[k + 1]
    BY <1>3, <2>1, <2>4, RemoveAtElements
  <2> QED
    BY <1>2, <2>1, <2>2, <2>3, ElementOfSeq
<1>5. PICK b : b = [k \in 0 .. n |-> IF k < i THEN a[k] ELSE a[k + 1] - s[i]]
  OBVIOUS
<1>6. b[0] = 0 /\ b[n] = a[n + 1] - s[i]
  <2>1. a[n + 1] = a[n] + s[n + 1] /\ a[n] \in Int
    BY <1>1, <1>4
  <2> QED
    BY <1>1, <1>4, <1>5, <2>1
<1>7. ASSUME NEW k \in 1 .. n PROVE b[k] = b[k - 1] + r[k]
  <2>1. /\ k \in 1 .. Len(s) /\ k + 1 \in 1 .. Len(s) /\ k - 1 \in 0 .. Len(s) /\ k \in 0 .. Len(s)
        /\ k \in 0 .. n /\ k - 1 \in 0 .. n /\ (k - 1) + 1 = k /\ (k + 1) - 1 = k
    BY <1>4
  <2>5. s[k] \in Int /\ s[k + 1] \in Int
    BY <2>1, ElementOfSeq
  <2>6. /\ a[k - 1] \in Int /\ a[k] \in Int /\ a[k] = a[k - 1] + s[k]
        /\ a[k + 1] = a[k] + s[k + 1]
    BY <1>1, <2>1
  <2>7. /\ b[k] = (IF k < i THEN a[k] ELSE a[k + 1] - s[i])
        /\ b[k - 1] = (IF k - 1 < i THEN a[k - 1] ELSE a[k] - s[i])
        /\ r[k] = (IF k < i THEN s[k] ELSE s[k + 1])
    BY <1>4, <1>5, <2>1
  <2>2. CASE k = i
    BY <1>4, <2>5, <2>6, <2>7, <2>2
  <2>3. CASE k < i
    BY <1>4, <2>5, <2>6, <2>7, <2>3
  <2>4. CASE i < k
    BY <1>4, <2>5, <2>6, <2>7, <2>4
  <2> QED
    BY <1>4, <2>2, <2>3, <2>4
<1>8. Total(r) = b[n]
  BY <1>4, <1>6, <1>7, SumEnds
<1> QED
  BY <1>1, <1>3, <1>4, <1>6, <1>8

LEMMA CheckLeast ==
  ASSUME NEW s \in Seq(Int), s # <<>>, NEW q \in 0 .. Len(s)
  PROVE  LET m == CheckAll(s, q, Less)
         IN /\ m \in Int
            /\ (m = 0 /\ q = 1) \/ \E j \in 1 .. Len(s) : j # q /\ m = s[j]
            /\ \A j \in 1 .. Len(s) : j # q => m <= s[j]
<1>1. PICK n \in Nat : n = Len(s)
  BY LenProperties
<1>2. PICK idx : idx = IndexesOf(s)
  OBVIOUS
<1>3. DOMAIN idx = 1 .. n /\ (\A k \in 1 .. n : idx[k] = k) /\ n > 0
  BY <1>1, <1>2, EmptySeq DEF IndexesOf
<1>4. ASSUME NEW k \in 1 .. n, NEW x, LeastSoFar(s, q, k - 1, x)
      PROVE  LeastSoFar(s, q, k, Lesser(s, q, x, idx[k]))
  <2>1. idx[k] = k /\ k \in Nat /\ k \in 1 .. k /\ \A j \in 1 .. k : s[j] \in Int
    BY <1>1, <1>3, ElementOfSeq
  <2>2. PICK y : y = Lesser(s, q, x, idx[k])
    OBVIOUS
  <2>3. y = IF k = q \/ (k # 1 /\ ~Less(s[k], x)) THEN x ELSE s[k]
    BY <2>1, <2>2, Zenon DEF Lesser
  <2>4. /\ x \in Int
        /\ (x = 0 /\ (k = 1 \/ q = 1)) \/ \E j \in 1 .. k - 1 : j # q /\ x = s[j]
        /\ \A j \in 1 .. k - 1 : j # q => x <= s[j]
    BY <1>4, <2>1 DEF LeastSoFar
  <2>5. \A j \in 1 .. k : j = k \/ j \in 1 .. k - 1
    BY <2>1
  <2>6. y \in Int
    BY <2>1, <2>3, <2>4
  <2>7. (y = 0 /\ q = 1) \/ \E j \in 1 .. k : j # q /\ y = s[j]
    <3>1. CASE y = s[k] /\ k # q
      BY <2>1, <3>1
    <3>2. CASE y = x
      BY <2>1, <2>3, <2>4, <3>2
    <3> QED
      BY <2>3, <3>1, <3>2
  <2>8. \A j \in 1 .. k : j # q => y <= s[j]
    <3> SUFFICES ASSUME NEW j \in 1 .. k, j # q PROVE y <= s[j]
      OBVIOUS
    <3>1. s[j] \in Int /\ s[k] \in Int
      BY <2>1
    <3>2. CASE j = k
      BY <2>1, <2>3, <2>4, <3>1, <3>2 DEF Less
    <3>3. CASE j # k
      <4>1. j \in 1 .. k - 1 /\ k # 1
        BY <2>1, <2>5, <3>3
      <4> QED
        BY <2>3, <2>4, <3>1, <4>1 DEF Less
    <3> QED
      BY <3>2, <3>3
  <2> QED
    BY <2>2, <2>6, <2>7, <2>8, Zenon DEF LeastSoFar
<1>5. PICK a : Least!Folding(s, q, idx, n, a) /\ \A k \in 0 .. n : LeastSoFar(s, q, k, a[k])
  <2>1. \A k \in 1 .. n : \A x : LeastSoFar(s, q, k - 1, x) => LeastSoFar(s, q, k, Lesser(s, q, x, idx[k]))
    BY <1>4, Zenon
  <2>2. LeastSoFar(s, q, 0, Naught(s, q))
    BY DEF LeastSoFar, Naught
  <2> QED
    BY <1>3, <2>1, <2>2, Least!FoldKeeps
<1>6. Least!Fold(s, q, idx) = a[n]
  BY <1>5, Zenon DEF Least!Folding
<1>7. CheckAll(s, q, Less) = a[n]
  BY <1>2, <1>6, LeastIs, Zenon
<1>8. n \in 0 .. n /\ n # 0
  BY <1>3
<1>9. /\ a[n] \in Int
      /\ (a[n] = 0 /\ q = 1) \/ \E j \in 1 .. n : j # q /\ a[n] = s[j]
      /\ \A j \in 1 .. n : j # q => a[n] <= s[j]
  BY <1>5, <1>8, Zenon DEF LeastSoFar
<1> QED
  BY <1>1, <1>7, <1>9, Zenon

LEMMA CheckMost ==
  ASSUME NEW s \in Seq(Int), s # <<>>, NEW q \in 0 .. Len(s)
  PROVE  LET m == CheckAll(s, q, More)
         IN /\ m \in Int
            /\ (m = 0 /\ q = 1) \/ \E j \in 1 .. Len(s) : j # q /\ m = s[j]
            /\ \A j \in 1 .. Len(s) : j # q => s[j] <= m
<1>1. PICK n \in Nat : n = Len(s)
  BY LenProperties
<1>2. PICK idx : idx = IndexesOf(s)
  OBVIOUS
<1>3. DOMAIN idx = 1 .. n /\ (\A k \in 1 .. n : idx[k] = k) /\ n > 0
  BY <1>1, <1>2, EmptySeq DEF IndexesOf
<1>4. ASSUME NEW k \in 1 .. n, NEW x, MostSoFar(s, q, k - 1, x)
      PROVE  MostSoFar(s, q, k, Greater(s, q, x, idx[k]))
  <2>1. idx[k] = k /\ k \in Nat /\ k \in 1 .. k /\ \A j \in 1 .. k : s[j] \in Int
    BY <1>1, <1>3, ElementOfSeq
  <2>2. PICK y : y = Greater(s, q, x, idx[k])
    OBVIOUS
  <2>3. y = IF k = q \/ (k # 1 /\ ~More(s[k], x)) THEN x ELSE s[k]
    BY <2>1, <2>2, Zenon DEF Greater
  <2>4. /\ x \in Int
        /\ (x = 0 /\ (k = 1 \/ q = 1)) \/ \E j \in 1 .. k - 1 : j # q /\ x = s[j]
        /\ \A j \in 1 .. k - 1 : j # q => s[j] <= x
    BY <1>4, <2>1 DEF MostSoFar
  <2>5. \A j \in 1 .. k : j = k \/ j \in 1 .. k - 1
    BY <2>1
  <2>6. y \in Int
    BY <2>1, <2>3, <2>4
  <2>7. (y = 0 /\ q = 1) \/ \E j \in 1 .. k : j # q /\ y = s[j]
    <3>1. CASE y = s[k] /\ k # q
      BY <2>1, <3>1
    <3>2. CASE y = x
      BY <2>1, <2>3, <2>4, <3>2
    <3> QED
      BY <2>3, <3>1, <3>2
  <2>8. \A j \in 1 .. k : j # q => s[j] <= y
    <3> SUFFICES ASSUME NEW j \in 1 .. k, j # q PROVE s[j] <= y
      OBVIOUS
    <3>1. s[j] \in Int /\ s[k] \in Int
      BY <2>1
    <3>2. CASE j = k
      BY <2>1, <2>3, <2>4, <3>1, <3>2 DEF More
    <3>3. CASE j # k
      <4>1. j \in 1 .. k - 1 /\ k # 1
        BY <2>1, <2>5, <3>3
      <4> QED
        BY <2>3, <2>4, <3>1, <4>1 DEF More
    <3> QED
      BY <3>2, <3>3
  <2> QED
    BY <2>2, <2>6, <2>7, <2>8, Zenon DEF MostSoFar
<1>5. PICK a : Most!Folding(s, q, idx, n, a) /\ \A k \in 0 .. n : MostSoFar(s, q, k, a[k])
  <2>1. \A k \in 1 .. n : \A x : MostSoFar(s, q, k - 1, x) => MostSoFar(s, q, k, Greater(s, q, x, idx[k]))
    BY <1>4, Zenon
  <2>2. MostSoFar(s, q, 0, Naught(s, q))
    BY DEF MostSoFar, Naught
  <2> QED
    BY <1>3, <2>1, <2>2, Most!FoldKeeps
<1>6. Most!Fold(s, q, idx) = a[n]
  BY <1>5, Zenon DEF Most!Folding
<1>7. CheckAll(s, q, More) = a[n]
  BY <1>2, <1>6, MostIs, Zenon
<1>8. n \in 0 .. n /\ n # 0
  BY <1>3
<1>9. /\ a[n] \in Int
      /\ (a[n] = 0 /\ q = 1) \/ \E j \in 1 .. n : j # q /\ a[n] = s[j]
      /\ \A j \in 1 .. n : j # q => s[j] <= a[n]
  BY <1>5, <1>8, Zenon DEF MostSoFar
<1> QED
  BY <1>1, <1>7, <1>9, Zenon

LEMMA MeanWhenHooked ==
  ASSUME NEW s \in Seq(Int)
  PROVE  MeanHooked(s) = MeanOf(Total(s), Len(s))
<1>1. PICK a : /\ a[0] = 0 /\ Total(s) = a[Len(s)]
               /\ \A k \in 1 .. Len(s) : a[k] = a[k - 1] + s[k]
               /\ \A k \in 0 .. Len(s) : a[k] \in Int
  BY Sums
<1>2. PICK n \in Nat : n = Len(s) /\ DOMAIN s = 1 .. n
  BY LenProperties
<1>3. PICK b : b = [k \in 0 .. n |-> IF k = 0 THEN Unmeant(s, 0) ELSE MeanOf(a[k], n)]
  OBVIOUS
<1>4. ASSUME NEW k \in 1 .. n
      PROVE  b[k] = Averaged(s, 0, b[k - 1], s[k])
  <2>1. b[k - 1].sum = a[k - 1]
    <3>1. CASE k = 1
      <4>1. b[k - 1] = MeanOf(0, 0)
        BY <1>3, <3>1 DEF Unmeant
      <4> QED
        BY <1>1, <3>1, <4>1 DEF MeanOf
    <3>2. CASE k # 1
      <4>1. k - 1 \in 0 .. n /\ k - 1 # 0
        BY <3>2
      <4>2. b[k - 1] = MeanOf(a[k - 1], n)
        BY <1>3, <4>1
      <4> QED
        BY <4>2 DEF MeanOf
    <3> QED
      BY <3>1, <3>2
  <2>2. b[k] = MeanOf(a[k], n)
    BY <1>3
  <2> QED
    BY <1>1, <1>2, <2>1, <2>2 DEF Averaged, MeanAdded
<1>5. b[0] = Unmeant(s, 0)
  BY <1>3
<1>6. Mean!Fold(s, 0, s) = b[n]
  BY <1>2, <1>4, <1>5, Mean!FoldEnds
<1>7. b[n] = MeanOf(Total(s), n)
  <2>1. CASE n = 0
    BY <1>1, <1>2, <1>5, <2>1 DEF Unmeant
  <2>2. CASE n # 0
    BY <1>1, <1>2, <1>3, <2>2
  <2> QED
    BY <2>1, <2>2
<1> QED
  BY <1>2, <1>6, <1>7, MeanIs

LEMMA HookedLeast ==
  ASSUME NEW s \in Seq(Int)
  PROVE  /\ MinHooked(s) \in Int
         /\ MinHooked(s) = 0 \/ \E j \in 1 .. Len(s) : MinHooked(s) = s[j]
         /\ \A j \in 1 .. Len(s) : MinHooked(s) <= s[j]
<1>1. PICK n \in Nat : n = Len(s) /\ DOMAIN s = 1 .. n
  BY LenProperties
<1>2. ASSUME NEW k \in 1 .. n, NEW x, LowSoFar(s, 0, k - 1, x)
      PROVE  LowSoFar(s, 0, k, Lowered(s, 0, x, s[k]))
  <2>1. k \in Nat /\ k \in 1 .. k /\ k <= n /\ \A j \in 1 .. k : s[j] \in Int
    BY <1>1, ElementOfSeq
  <2>2. PICK y : y = Lowered(s, 0, x, s[k])
    OBVIOUS
  <2>3. y = IF x > s[k] \/ Len(s) = 1 THEN s[k] ELSE x
    BY <2>2, Zenon DEF Lowered, MinAdded
  <2>4. /\ x \in Int
        /\ x = 0 \/ \E j \in 1 .. k - 1 : x = s[j]
        /\ \A j \in 1 .. k - 1 : x <= s[j]
    BY <1>2, Zenon DEF LowSoFar
  <2>5. \A j \in 1 .. k : j = k \/ j \in 1 .. k - 1
    BY <2>1
  <2>6. y \in Int /\ (y = 0 \/ \E j \in 1 .. k : y = s[j])
    BY <2>1, <2>3, <2>4
  <2>7. \A j \in 1 .. k : y <= s[j]
    <3> SUFFICES ASSUME NEW j \in 1 .. k PROVE y <= s[j]
      OBVIOUS
    <3>1. s[j] \in Int /\ s[k] \in Int
      BY <2>1
    <3>2. CASE j = k
      BY <2>3, <2>4, <3>1, <3>2
    <3>3. CASE j # k
      <4>1. j \in 1 .. k - 1 /\ Len(s) # 1
        BY <1>1, <2>1, <2>5, <3>3
      <4> QED
        BY <2>3, <2>4, <3>1, <4>1
    <3> QED
      BY <3>2, <3>3
  <2> QED
    BY <2>2, <2>6, <2>7, Zenon DEF LowSoFar
<1>3. PICK a : Low!Folding(s, 0, s, n, a) /\ \A k \in 0 .. n : LowSoFar(s, 0, k, a[k])
  <2>1. \A k \in 1 .. n : \A x : LowSoFar(s, 0, k - 1, x) => LowSoFar(s, 0, k, Lowered(s, 0, x, s[k]))
    BY <1>2, Zenon
  <2>2. LowSoFar(s, 0, 0, Naught(s, 0))
    BY DEF LowSoFar, Naught
  <2> QED
    BY <1>1, <2>1, <2>2, Low!FoldKeeps
<1>4. MinHooked(s) = a[n]
  BY <1>3, HookedIs, Zenon DEF Low!Folding
<1>5. n \in 0 .. n
  OBVIOUS
<1> QED
  BY <1>1, <1>3, <1>4, <1>5, Zenon DEF LowSoFar

LEMMA HookedMost ==
  ASSUME NEW s \in Seq(Int)
  PROVE  /\ MaxHooked(s) \in Int
         /\ MaxHooked(s) = 0 \/ \E j \in 1 .. Len(s) : MaxHooked(s) = s[j]
         /\ \A j \in 1 .. Len(s) : s[j] <= MaxHooked(s)
<1>1. PICK n \in Nat : n = Len(s) /\ DOMAIN s = 1 .. n
  BY LenProperties
<1>2. ASSUME NEW k \in 1 .. n, NEW x, HighSoFar(s, 0, k - 1, x)
      PROVE  HighSoFar(s, 0, k, Raised(s, 0, x, s[k]))
  <2>1. k \in Nat /\ k \in 1 .. k /\ k <= n /\ \A j \in 1 .. k : s[j] \in Int
    BY <1>1, ElementOfSeq
  <2>2. PICK y : y = Raised(s, 0, x, s[k])
    OBVIOUS
  <2>3. y = IF x < s[k] THEN s[k] ELSE x
    BY <2>2, Zenon DEF Raised, MaxAdded
  <2>4. /\ x \in Int
        /\ x = 0 \/ \E j \in 1 .. k - 1 : x = s[j]
        /\ \A j \in 1 .. k - 1 : s[j] <= x
    BY <1>2, Zenon DEF HighSoFar
  <2>5. \A j \in 1 .. k : j = k \/ j \in 1 .. k - 1
    BY <2>1
  <2>6. y \in Int /\ (y = 0 \/ \E j \in 1 .. k : y = s[j])
    BY <2>1, <2>3, <2>4
  <2>7. \A j \in 1 .. k : s[j] <= y
    <3> SUFFICES ASSUME NEW j \in 1 .. k PROVE s[j] <= y
      OBVIOUS
    <3>1. s[j] \in Int /\ s[k] \in Int
      BY <2>1
    <3>2. CASE j = k
      BY <2>3, <2>4, <3>1, <3>2
    <3>3. CASE j # k
      <4>1. j \in 1 .. k - 1 /\ Len(s) # 1
        BY <1>1, <2>1, <2>5, <3>3
      <4> QED
        BY <2>3, <2>4, <3>1, <4>1
    <3> QED
      BY <3>2, <3>3
  <2> QED
    BY <2>2, <2>6, <2>7, Zenon DEF HighSoFar
<1>3. PICK a : High!Folding(s, 0, s, n, a) /\ \A k \in 0 .. n : HighSoFar(s, 0, k, a[k])
  <2>1. \A k \in 1 .. n : \A x : HighSoFar(s, 0, k - 1, x) => HighSoFar(s, 0, k, Raised(s, 0, x, s[k]))
    BY <1>2, Zenon
  <2>2. HighSoFar(s, 0, 0, Naught(s, 0))
    BY DEF HighSoFar, Naught
  <2> QED
    BY <1>1, <2>1, <2>2, High!FoldKeeps
<1>4. MaxHooked(s) = a[n]
  BY <1>3, HookedIs, Zenon DEF High!Folding
<1>5. n \in 0 .. n
  OBVIOUS
<1> QED
  BY <1>1, <1>3, <1>4, <1>5, Zenon DEF HighSoFar

LEMMA VarianceIs ==
  ASSUME NEW s, NEW skip, NEW sum, NEW n
  PROVE  /\ Variance(s, skip, sum, n).sum = sum
         /\ Variance(s, skip, sum, n).den = IF Len(s) <= 1 THEN 0 ELSE n * n * (Len(s) - 1)
<1>1. PICK num : num = FoldLeft(LAMBDA v, i : IF i = skip THEN v ELSE v + (n * s[i] - sum) * (n * s[i] - sum),
                            0, IndexesOf(s))
  BY Zenon
<1>2. Variance(s, skip, sum, n) =
        [sum |-> sum, num |-> num, den |-> IF Len(s) <= 1 THEN 0 ELSE n * n * (Len(s) - 1)]
  BY <1>1, Zenon DEF Variance
<1> QED
  BY <1>2

LEMMA VarianceWhenHooked ==
  ASSUME NEW s \in Seq(Int)
  PROVE  /\ VarianceHooked(s).sum = Total(s)
         /\ Len(s) > 1 => VarianceHooked(s).den # 0
<1>1. PICK n \in Nat : n = Len(s)
  BY LenProperties
<1>2. VarianceHooked(s).sum = Total(s) /\ VarianceHooked(s).den = IF n <= 1 THEN 0 ELSE n * n * (n - 1)
  BY <1>1, VarianceIs DEF VarianceHooked
<1>3. ASSUME n > 1 PROVE n * n * (n - 1) # 0
  <2>1. n * n # 0 /\ n * n \in Int
    BY <1>3
  <2>2. n - 1 # 0 /\ n - 1 \in Int
    BY <1>3
  <2>3. \A x, y \in Int : x # 0 /\ y # 0 => x * y # 0
    OBVIOUS
  <2> QED
    BY <2>1, <2>2, <2>3
<1> QED
  BY <1>1, <1>2, <1>3

Lowest(s, low) == (\E j \in 1 .. Len(s) : low = s[j]) /\ \A j \in 1 .. Len(s) : low <= s[j]
Highest(s, high) == (\E j \in 1 .. Len(s) : high = s[j]) /\ \A j \in 1 .. Len(s) : s[j] <= high

(* Of the vector s.  The first element is compared with what the maximum was of no
   element, so that has to be 0. *)
Computed(s, a, odd) ==
  "reported" \notin odd =>
    /\ a.sum = Total(s) /\ a.mean = MeanOf(Total(s), Len(s))
    /\ a.variance.sum = Total(s) /\ a.stddev.sum = Total(s)
    /\ "erased" \notin odd => a.variance = VarianceHooked(s) /\ a.stddev = VarianceHooked(s)
    /\ "min" \notin odd => s = <<>> \/ Lowest(s, a.min)
    /\ "max" \notin odd => IF s = <<>> THEN a.max = 0 ELSE Highest(s, a.max)

AggInv == elts \in Seq(Int) /\ Computed(elts, agg, quirks)

(* An extreme that is 0 is so of an element, or on the record. *)
LEMMA Founded ==
  ASSUME NEW s \in Seq(Int), s # <<>>, NEW a, NEW odd, Unfounded(s, a) \subseteq odd
  PROVE  /\ "min" \notin odd /\ a.min = 0 => \E j \in 1 .. Len(s) : a.min = s[j]
         /\ "max" \notin odd /\ a.max = 0 => \E j \in 1 .. Len(s) : a.max = s[j]
<1>1. DOMAIN s = 1 .. Len(s)
  BY LenProperties
<1>2. 0 \in Range(s) => \E j \in 1 .. Len(s) : 0 = s[j]
  BY <1>1 DEF Range
<1>3. "min" \notin odd /\ a["min"] = 0 => 0 \in Range(s)
  BY DEF Unfounded
<1>4. "max" \notin odd /\ a["max"] = 0 => 0 \in Range(s)
  BY DEF Unfounded
<1> QED
  BY <1>2, <1>3, <1>4

LEMMA AggInvGives == AggInv => AggregatesExact
<1> SUFFICES ASSUME AggInv, "reported" \notin quirks
             PROVE  /\ agg.sum = Total(elts)
                    /\ agg.mean = MeanOf(Total(elts), Len(elts))
                    /\ "min" \notin quirks /\ elts # <<>> => Extreme(agg.min, Less)
                    /\ "max" \notin quirks /\ elts # <<>> => Extreme(agg.max, More)
                    /\ "erased" \notin quirks => SameVariance(agg.variance) /\ SameVariance(agg.stddev)
  BY Zenon DEF AggregatesExact
<1>1. PICK s \in Seq(Int) : s = elts
  BY DEF AggInv
<1>2. Computed(s, agg, quirks) /\ DOMAIN s = 1 .. Len(s)
  BY <1>1, LenProperties DEF AggInv
<1>3. agg.sum = Total(s) /\ agg.mean = MeanOf(Total(s), Len(s))
  BY <1>2, Zenon DEF Computed
<1>4. ASSUME s # <<>>
      PROVE  /\ "min" \notin quirks => Extreme(agg.min, Less)
             /\ "max" \notin quirks => Extreme(agg.max, More)
  <2>1. /\ "min" \notin quirks => Lowest(s, agg.min)
        /\ "max" \notin quirks => Highest(s, agg.max)
    BY <1>2, <1>4, Zenon DEF Computed
  <2>2. \A j \in 1 .. Len(s) : s[j] \in Int
    BY ElementOfSeq
  <2>3. ASSUME NEW m, Lowest(s, m)
        PROVE  Extreme(m, Less)
    <3>1. m \in Range(s)
      BY <1>2, <2>3 DEF Lowest, Range
    <3>2. \A j \in DOMAIN s : ~Less(s[j], m)
      BY <1>2, <2>2, <2>3 DEF Lowest, Less
    <3> QED
      BY <1>1, <3>1, <3>2, Zenon DEF Extreme
  <2>4. ASSUME NEW m, Highest(s, m)
        PROVE  Extreme(m, More)
    <3>1. m \in Range(s)
      BY <1>2, <2>4 DEF Highest, Range
    <3>2. \A j \in DOMAIN s : ~More(s[j], m)
      BY <1>2, <2>2, <2>4 DEF Highest, More
    <3> QED
      BY <1>1, <3>1, <3>2, Zenon DEF Extreme
  <2> QED
    BY <2>1, <2>3, <2>4, Zenon
<1>5. ASSUME "erased" \notin quirks
      PROVE  SameVariance(agg.variance) /\ SameVariance(agg.stddev)
  <2>1. agg.variance = VarianceHooked(s) /\ agg.stddev = VarianceHooked(s)
    BY <1>2, <1>5, Zenon DEF Computed
  <2>2. Len(s) > 1 => VarianceHooked(s).den # 0
    BY VarianceWhenHooked
  <2> QED
    BY <1>1, <2>1, <2>2, Zenon DEF SameVariance
<1> QED
  BY <1>1, <1>3, <1>4, <1>5, Zenon

LEMMA ComputedWhenHooked ==
  ASSUME NEW s \in Seq(Int), NEW odd, Unfounded(s, Hooked(s)) \subseteq odd
  PROVE  Computed(s, Hooked(s), odd)
<1>1. PICK h : h = Hooked(s)
  OBVIOUS
<1>2. /\ h.sum = SumHooked(s) /\ h.mean = MeanHooked(s) /\ h.min = MinHooked(s) /\ h.max = MaxHooked(s)
      /\ h.variance = VarianceHooked(s) /\ h.stddev = StdDevHooked(s)
  BY <1>1 DEF Hooked
<1>3. h.sum = Total(s) /\ h.mean = MeanOf(Total(s), Len(s))
  BY <1>2, TotalIs, MeanWhenHooked
<1>4. /\ h.variance = VarianceHooked(s) /\ h.stddev = VarianceHooked(s)
      /\ h.variance.sum = Total(s) /\ h.stddev.sum = Total(s)
  BY <1>2, VarianceWhenHooked DEF StdDevHooked
<1>5. /\ h.min = 0 \/ \E j \in 1 .. Len(s) : h.min = s[j]
      /\ \A j \in 1 .. Len(s) : h.min <= s[j]
      /\ h.max = 0 \/ \E j \in 1 .. Len(s) : h.max = s[j]
      /\ \A j \in 1 .. Len(s) : s[j] <= h.max
  BY <1>2, HookedLeast, HookedMost, Zenon
<1>6. s = <<>> => h.max = 0
  BY <1>5
<1>7. ASSUME s # <<>>
      PROVE  /\ "min" \notin odd => Lowest(s, h.min)
             /\ "max" \notin odd => Highest(s, h.max)
  <2>1. /\ "min" \notin odd /\ h.min = 0 => \E j \in 1 .. Len(s) : h.min = s[j]
        /\ "max" \notin odd /\ h.max = 0 => \E j \in 1 .. Len(s) : h.max = s[j]
    BY <1>1, <1>7, Founded
  <2> QED
    BY <1>5, <2>1, Zenon DEF Lowest, Highest
<1>8. Computed(s, h, odd)
  BY <1>3, <1>4, <1>6, <1>7, Zenon DEF Computed
<1> QED
  BY <1>1, <1>8

LEMMA AggInvInit == AggInit => AggInv
<1> SUFFICES ASSUME AggInit PROVE AggInv
  OBVIOUS
<1>1. PICK s \in Seq(Int) : s = <<>>
  BY EmptySeq
<1>2. Unfounded(s, Hooked(s)) \subseteq quirks
  BY <1>1 DEF Unfounded
<1>3. Computed(s, Hooked(s), quirks)
  BY <1>2, ComputedWhenHooked
<1> QED
  BY <1>1, <1>3, Zenon DEF AggInit, AggInv

LEMMA HookKeeps ==
  ASSUME NEW s \in Seq(Int), s # <<>>, Hook(s)
  PROVE  AggInv'
<1>1. PICK odd : odd = quirks'
  OBVIOUS
<1>2. elts' = s /\ agg' = Hooked(s) /\ odd = Unfounded(s, Hooked(s))
  BY <1>1, Zenon DEF Hook
<1>3. Computed(s, Hooked(s), odd)
  BY <1>2, ComputedWhenHooked
<1> QED
  BY <1>1, <1>2, <1>3, Zenon DEF AggInv

LEMMA InsertKeeps ==
  ASSUME AggInv, "reported" \notin quirks, NEW x \in Int, Insert(x)
  PROVE  AggInv'
<1>1. PICK s \in Seq(Int) : s = elts
  BY DEF AggInv
<1>2. PICK r : r = Append(s, x)
  OBVIOUS
<1>3. PICK n \in Nat : n = Len(s)
  BY LenProperties
<1>4. /\ r \in Seq(Int) /\ r # <<>> /\ Len(r) = n + 1 /\ r[n + 1] = x /\ \A j \in 1 .. n : r[j] = s[j]
      /\ Total(r) = Total(s) + x /\ Total(s) \in Int /\ \A j \in 1 .. n : s[j] \in Int
  <2>1. /\ r \in Seq(Int) /\ r # <<>> /\ Len(r) = n + 1 /\ r[n + 1] = x
        /\ \A j \in 1 .. n : r[j] = s[j]
    BY <1>2, <1>3, AppendProperties
  <2>2. Total(r) = Total(s) + x /\ Total(s) \in Int
    BY <1>2, SumOfAppend, SumInt
  <2>3. \A j \in 1 .. n : s[j] \in Int
    BY <1>3, ElementOfSeq
  <2> QED
    BY <2>1, <2>2, <2>3
<1>5. /\ agg.sum = Total(s) /\ agg.mean = MeanOf(Total(s), Len(s))
      /\ agg.variance.sum = Total(s) /\ agg.stddev.sum = Total(s)
  BY <1>1, Zenon DEF AggInv, Computed
<1>6. PICK h : h = agg'
  OBVIOUS
<1>7. /\ elts' = r
      /\ h.sum = SumAdded(agg.sum, x) /\ h.mean = MeanAdded(agg.mean, x, n + 1)
      /\ h.min = MinAdded(agg.min, x, n + 1) /\ h.max = MaxAdded(agg.max, x)
      /\ h.variance = VarianceAdded(agg.variance, r, x) /\ h.stddev = StdDevAdded(agg.stddev, r, x)
  BY <1>1, <1>2, <1>4, <1>6 DEF Insert
<1>8. h.sum = Total(r) /\ h.mean = MeanOf(Total(r), Len(r))
  BY <1>4, <1>5, <1>7 DEF SumAdded, MeanAdded, MeanOf
<1>9. h.variance = VarianceHooked(r) /\ h.stddev = VarianceHooked(r)
  BY <1>4, <1>5, <1>7 DEF VarianceAdded, StdDevAdded, VarianceHooked
<1>10. h.variance.sum = Total(r) /\ h.stddev.sum = Total(r)
  BY <1>4, <1>9, VarianceWhenHooked
<1>11. Unfounded(r, h) \subseteq quirks' /\ quirks \ {"erased"} \subseteq quirks'
  BY <1>6, <1>7 DEF Insert
<1>12. ASSUME "min" \notin quirks'
       PROVE  Lowest(r, h.min)
  <2>1. "min" \notin quirks
    BY <1>11, <1>12
  <2>2. s = <<>> \/ Lowest(s, agg.min)
    BY <1>1, <2>1, Zenon DEF AggInv, Computed
  <2>3. CASE s = <<>>
    <3>1. n = 0
      BY <1>3, <2>3
    <3>2. h.min = x /\ Len(r) = 1 /\ r[1] = x
      BY <1>4, <1>7, <3>1 DEF MinAdded
    <3> QED
      BY <3>2 DEF Lowest
  <2>4. CASE s # <<>>
    <3>1. n # 0 /\ Lowest(s, agg.min)
      BY <1>3, <2>2, <2>4, EmptySeq
    <3>2. PICK low : low = agg.min
      OBVIOUS
    <3>3. /\ \E j \in 1 .. n : low = r[j]
          /\ \A j \in 1 .. n : low <= r[j]
          /\ low \in Int
      BY <1>3, <1>4, <3>1, <3>2 DEF Lowest
    <3>4. h.min = IF low > x THEN x ELSE low
      BY <1>7, <3>1, <3>2 DEF MinAdded
    <3>5. n + 1 \in 1 .. n + 1 /\ \A j \in 1 .. n + 1 : j \in 1 .. n \/ j = n + 1
      OBVIOUS
    <3>6. \E j \in 1 .. n + 1 : h.min = r[j]
      BY <1>4, <3>3, <3>4, <3>5
    <3>7. ASSUME NEW j \in 1 .. n + 1 PROVE h.min <= r[j]
      <4>1. r[j] \in Int
        BY <1>4, ElementOfSeq
      <4>2. CASE j \in 1 .. n
        BY <3>3, <3>4, <4>1, <4>2
      <4>3. CASE j = n + 1
        BY <1>4, <3>3, <3>4, <4>3
      <4> QED
        BY <3>5, <4>2, <4>3
    <3> QED
      BY <1>4, <3>6, <3>7 DEF Lowest
  <2> QED
    BY <2>3, <2>4
<1>13. ASSUME "max" \notin quirks'
       PROVE  Highest(r, h.max)
  <2>1. "max" \notin quirks
    BY <1>11, <1>13
  <2>2. IF s = <<>> THEN agg.max = 0 ELSE Highest(s, agg.max)
    BY <1>1, <2>1, Zenon DEF AggInv, Computed
  <2>3. CASE s = <<>>
    <3>1. n = 0 /\ agg.max = 0
      BY <1>3, <2>2, <2>3
    <3>2. h.max = (IF 0 < x THEN x ELSE 0) /\ Len(r) = 1 /\ r[1] = x
      BY <1>4, <1>7, <3>1 DEF MaxAdded
    <3>3. h.max = 0 => \E j \in 1 .. Len(r) : h.max = r[j]
      BY <1>4, <1>11, <1>13, Founded
    <3> QED
      BY <3>2, <3>3 DEF Highest
  <2>4. CASE s # <<>>
    <3>1. n # 0 /\ Highest(s, agg.max)
      BY <1>3, <2>2, <2>4, EmptySeq
    <3>2. PICK high : high = agg.max
      OBVIOUS
    <3>3. /\ \E j \in 1 .. n : high = r[j]
          /\ \A j \in 1 .. n : r[j] <= high
          /\ high \in Int
      BY <1>3, <1>4, <3>1, <3>2 DEF Highest
    <3>4. h.max = IF high < x THEN x ELSE high
      BY <1>7, <3>1, <3>2 DEF MaxAdded
    <3>5. n + 1 \in 1 .. n + 1 /\ \A j \in 1 .. n + 1 : j \in 1 .. n \/ j = n + 1
      OBVIOUS
    <3>6. \E j \in 1 .. n + 1 : h.max = r[j]
      BY <1>4, <3>3, <3>4, <3>5
    <3>7. ASSUME NEW j \in 1 .. n + 1 PROVE r[j] <= h.max
      <4>1. r[j] \in Int
        BY <1>4, ElementOfSeq
      <4>2. CASE j \in 1 .. n
        BY <3>3, <3>4, <4>1, <4>2
      <4>3. CASE j = n + 1
        BY <1>4, <3>3, <3>4, <4>3
      <4> QED
        BY <3>5, <4>2, <4>3
    <3> QED
      BY <1>4, <3>6, <3>7 DEF Highest
  <2> QED
    BY <2>3, <2>4
<1>14. Computed(r, h, quirks')
  BY <1>4, <1>8, <1>9, <1>10, <1>12, <1>13, Zenon DEF Computed
<1> QED
  BY <1>4, <1>6, <1>7, <1>14, Zenon DEF AggInv

LEMMA EraseKeeps ==
  ASSUME AggInv, "reported" \notin quirks, NEW i, Erase(i)
  PROVE  AggInv'
<1>1. PICK s \in Seq(Int) : s = elts
  BY DEF AggInv
<1>2. PICK r : r = RemoveAt(s, i)
  OBVIOUS
<1>3. i \in 1 .. Len(s)
  BY <1>1, LenProperties DEF Erase
<1>4. PICK n \in Nat : Len(s) = n + 1 /\ i \in 1 .. n + 1
  <2>1. Len(s) \in Nat /\ Len(s) >= 1
    BY <1>3, LenProperties
  <2>2. Len(s) - 1 \in Nat /\ Len(s) = (Len(s) - 1) + 1
    BY <2>1
  <2> QED
    BY <1>3, <2>2
<1>5. /\ r \in Seq(Int) /\ Len(r) = n
      /\ \A j \in 1 .. n : r[j] = IF j < i THEN s[j] ELSE s[j + 1]
  <2>1. r \in Seq(Int) /\ Len(r) = Len(s) - 1
    BY <1>2, <1>3, RemoveAtProperties
  <2>2. \A j \in 1 .. Len(s) - 1 : r[j] = IF j < i THEN s[j] ELSE s[j + 1]
    BY <1>2, <1>3, RemoveAtElements
  <2>3. Len(s) - 1 = n
    BY <1>4
  <2> QED
    BY <2>1, <2>2, <2>3
<1>6. Total(r) = Total(s) - s[i] /\ Total(s) \in Int /\ \A j \in 1 .. n + 1 : s[j] \in Int
  <2>1. Total(r) = Total(s) - s[i]
    BY <1>2, <1>3, SumOfRemove
  <2>2. \A j \in 1 .. Len(s) : s[j] \in Int
    BY ElementOfSeq
  <2> QED
    BY <1>4, <2>1, <2>2, SumInt
<1>7. /\ agg.sum = Total(s) /\ agg.mean = MeanOf(Total(s), Len(s))
      /\ agg.variance.sum = Total(s) /\ agg.stddev.sum = Total(s)
  BY <1>1, Zenon DEF AggInv, Computed
<1>8. PICK h, odd : h = agg' /\ odd = quirks'
  OBVIOUS
<1>9. /\ elts' = r
      /\ h.sum = SumErased(agg.sum, s[i]) /\ h.mean = MeanErased(agg.mean, s[i], n + 1)
      /\ h.min = MinErased(agg.min, s, i) /\ h.max = MaxErased(agg.max, s, i)
      /\ h.variance = VarianceErased(agg.variance, s, i) /\ h.stddev = StdDevErased(agg.stddev, s, i)
  BY <1>1, <1>2, <1>4, <1>8 DEF Erase
<1>10. "erased" \in odd /\ quirks \subseteq odd /\ Unfounded(r, h) \subseteq odd
  BY <1>8, <1>9 DEF Erase
<1>11. h.sum = Total(r) /\ h.mean = MeanOf(Total(r), Len(r))
  <2>1. (n + 1) - 1 = n /\ h.mean = MeanOf(agg.mean.sum - s[i], (n + 1) - 1)
    BY <1>9 DEF MeanErased
  <2>2. agg.mean.sum = Total(s)
    BY <1>7 DEF MeanOf
  <2> QED
    BY <1>5, <1>6, <1>7, <1>9, <2>1, <2>2 DEF SumErased
<1>12. h.variance.sum = Total(r) /\ h.stddev.sum = Total(r)
  BY <1>6, <1>7, <1>9, VarianceIs DEF VarianceErased, StdDevErased
<1>13. \A j \in 1 .. n : \E k \in 1 .. n + 1 : k # i /\ r[j] = s[k]
  <2> SUFFICES ASSUME NEW j \in 1 .. n PROVE \E k \in 1 .. n + 1 : k # i /\ r[j] = s[k]
    OBVIOUS
  <2>1. CASE j < i
    BY <1>4, <1>5, <2>1
  <2>2. CASE ~(j < i)
    <3>1. j + 1 \in 1 .. n + 1 /\ j + 1 # i
      BY <1>4, <2>2
    <3> QED
      BY <1>5, <2>2, <3>1
  <2> QED
    BY <2>1, <2>2
<1>14. \A k \in 1 .. n + 1 : k # i => \E j \in 1 .. n : r[j] = s[k]
  <2> SUFFICES ASSUME NEW k \in 1 .. n + 1, k # i PROVE \E j \in 1 .. n : r[j] = s[k]
    OBVIOUS
  <2>1. CASE k < i
    BY <1>4, <1>5, <2>1
  <2>2. CASE i < k
    <3>1. k - 1 \in 1 .. n /\ ~(k - 1 < i) /\ (k - 1) + 1 = k
      BY <1>4, <2>2
    <3> QED
      BY <1>5, <3>1
  <2> QED
    BY <1>4, <2>1, <2>2
<1>15. ASSUME "min" \notin odd
       PROVE  r = <<>> \/ Lowest(r, h.min)
  <2>1. "min" \notin quirks /\ s # <<>>
    BY <1>4, <1>10, <1>15, EmptySeq
  <2>2. Lowest(s, agg.min)
    BY <1>1, <2>1, Zenon DEF AggInv, Computed
  <2>3. PICK low : low = agg.min
    OBVIOUS
  <2>4. /\ \E j \in 1 .. n + 1 : low = s[j]
        /\ \A j \in 1 .. n + 1 : low <= s[j]
        /\ low \in Int
    BY <1>4, <1>6, <2>2, <2>3 DEF Lowest
  <2>5. /\ h.min = 0 \/ \E k \in 1 .. n + 1 : k # i /\ h.min = s[k]
        /\ \A j \in 1 .. n + 1 : j # i => h.min <= s[j]
    <3>1. CASE low = s[i]
      <4>1. i \in 0 .. Len(s)
        BY <1>4
      <4>2. h.min = CheckAll(s, i, Less)
        BY <1>9, <2>3, <3>1, Zenon DEF MinErased
      <4>3. /\ h.min = 0 \/ \E j \in 1 .. Len(s) : j # i /\ h.min = s[j]
            /\ \A j \in 1 .. Len(s) : j # i => h.min <= s[j]
        BY <2>1, <4>1, <4>2, CheckLeast, Zenon
      <4> QED
        BY <1>4, <4>3
    <3>2. CASE low # s[i]
      <4>1. h.min = low
        BY <1>9, <2>3, <3>2, Zenon DEF MinErased
      <4> QED
        BY <2>4, <3>2, <4>1
    <3> QED
      BY <3>1, <3>2
  <2>6. CASE r # <<>>
    <3>1. PICK m : m = h.min
      OBVIOUS
    <3>2. m = 0 \/ \E j \in 1 .. n : m = r[j]
      BY <1>14, <2>5, <3>1
    <3>3. \A j \in 1 .. n : m <= r[j]
      BY <1>13, <2>5, <3>1
    <3>4. m = 0 => \E j \in 1 .. Len(r) : m = r[j]
      BY <1>5, <1>10, <1>15, <2>6, <3>1, Founded
    <3> QED
      BY <1>5, <2>6, <3>1, <3>2, <3>3, <3>4 DEF Lowest
  <2> QED
    BY <2>6
<1>16. ASSUME "max" \notin odd
       PROVE  IF r = <<>> THEN h.max = 0 ELSE Highest(r, h.max)
  <2>1. "max" \notin quirks /\ s # <<>>
    BY <1>4, <1>10, <1>16, EmptySeq
  <2>2. Highest(s, agg.max)
    BY <1>1, <2>1, Zenon DEF AggInv, Computed
  <2>3. PICK high : high = agg.max
    OBVIOUS
  <2>4. /\ \E j \in 1 .. n + 1 : high = s[j]
        /\ \A j \in 1 .. n + 1 : s[j] <= high
        /\ high \in Int
    BY <1>4, <1>6, <2>2, <2>3 DEF Highest
  <2>5. /\ h.max = 0 \/ \E k \in 1 .. n + 1 : k # i /\ h.max = s[k]
        /\ \A j \in 1 .. n + 1 : j # i => s[j] <= h.max
    <3>1. CASE high = s[i]
      <4>1. i \in 0 .. Len(s)
        BY <1>4
      <4>2. h.max = CheckAll(s, i, More)
        BY <1>9, <2>3, <3>1, Zenon DEF MaxErased
      <4>3. /\ h.max = 0 \/ \E j \in 1 .. Len(s) : j # i /\ h.max = s[j]
            /\ \A j \in 1 .. Len(s) : j # i => s[j] <= h.max
        BY <2>1, <4>1, <4>2, CheckMost, Zenon
      <4> QED
        BY <1>4, <4>3
    <3>2. CASE high # s[i]
      <4>1. h.max = high
        BY <1>9, <2>3, <3>2, Zenon DEF MaxErased
      <4> QED
        BY <2>4, <3>2, <4>1
    <3> QED
      BY <3>1, <3>2
  <2>6. CASE r # <<>>
    <3>1. PICK m : m = h.max
      OBVIOUS
    <3>2. m = 0 \/ \E j \in 1 .. n : m = r[j]
      BY <1>14, <2>5, <3>1
    <3>3. \A j \in 1 .. n : r[j] <= m
      BY <1>13, <2>5, <3>1
    <3>4. m = 0 => \E j \in 1 .. Len(r) : m = r[j]
      BY <1>5, <1>10, <1>16, <2>6, <3>1, Founded
    <3> QED
      BY <1>5, <2>6, <3>1, <3>2, <3>3, <3>4 DEF Highest
  <2>7. CASE r = <<>>
    <3>1. n = 0
      BY <1>5, <2>7
    <3>2. \A k \in 1 .. n + 1 : k = i
      BY <1>4, <3>1
    <3> QED
      BY <2>5, <2>7, <3>2
  <2> QED
    BY <2>6, <2>7
<1>17. Computed(r, h, odd)
  BY <1>10, <1>11, <1>12, <1>15, <1>16, Zenon DEF Computed
<1> QED
  BY <1>5, <1>8, <1>9, <1>17, Zenon DEF AggInv

LEMMA ChangedKeeps ==
  ASSUME AggInv, "reported" \notin quirks, NEW i, NEW new \in Int, NEW reported,
         i \in DOMAIN elts, Changed(i, new, reported)
  PROVE  AggInv'
<1>1. PICK s \in Seq(Int) : s = elts
  BY DEF AggInv
<1>2. PICK r : r = [s EXCEPT ![i] = new]
  OBVIOUS
<1>3. PICK n \in Nat : n = Len(s)
  BY LenProperties
<1>4. i \in 1 .. n
  BY <1>1, <1>3, LenProperties
<1>5. /\ r \in Seq(Int) /\ Len(r) = n /\ \A j \in 1 .. n : r[j] = IF j = i THEN new ELSE s[j]
  BY <1>2, <1>3, <1>4, ExceptSeq
<1>6. /\ Total(r) = Total(s) - s[i] + new /\ Total(s) \in Int
      /\ \A j \in 1 .. n : s[j] \in Int /\ r[j] \in Int
  <2>1. Total(r) = Total(s) - s[i] + new
    BY <1>2, <1>3, <1>4, SumOfExcept
  <2>2. \A j \in 1 .. n : s[j] \in Int
    BY <1>3, ElementOfSeq
  <2> QED
    BY <1>5, <2>1, <2>2, SumInt
<1>7. /\ agg.sum = Total(s) /\ agg.mean = MeanOf(Total(s), Len(s))
      /\ agg.variance.sum = Total(s) /\ agg.stddev.sum = Total(s)
  BY <1>1, Zenon DEF AggInv, Computed
<1>8. PICK h, odd : h = agg' /\ odd = quirks'
  OBVIOUS
<1>9. /\ elts' = r
      /\ h.sum = SumChanged(agg.sum, reported, s[i]) /\ h.mean = MeanChanged(agg.mean, reported, s[i], n)
      /\ h.min = MinChanged(agg.min, r, reported, s[i]) /\ h.max = MaxChanged(agg.max, r, reported, s[i])
      /\ h.variance = VarianceChanged(agg.variance, r, reported, s[i])
      /\ h.stddev = StdDevChanged(agg.stddev, r, reported, s[i])
  BY <1>1, <1>2, <1>3, <1>8 DEF Changed
<1>10. (reported # new => "reported" \in odd) /\ quirks \ {"erased"} \subseteq odd
  BY <1>8 DEF Changed
<1>11. CASE reported # new
  BY <1>5, <1>8, <1>9, <1>10, <1>11, Zenon DEF AggInv, Computed
<1>12. CASE reported = new
  <2>1. h.sum = Total(r) /\ h.mean = MeanOf(Total(r), Len(r))
    BY <1>3, <1>5, <1>6, <1>7, <1>9, <1>12 DEF SumChanged, MeanChanged, MeanOf
  <2>2. h.variance = VarianceHooked(r) /\ h.stddev = VarianceHooked(r)
    BY <1>6, <1>7, <1>9, <1>12 DEF VarianceChanged, StdDevChanged, VarianceHooked
  <2>3. h.variance.sum = Total(r) /\ h.stddev.sum = Total(r)
    BY <1>5, <2>2, VarianceWhenHooked
  <2>4. r # <<>> /\ 0 \in 0 .. Len(r) /\ 0 # 1
    BY <1>4, <1>5, EmptySeq
  <2>5. ASSUME "min" \notin odd
        PROVE  Lowest(r, h.min)
    <3>1. "min" \notin quirks /\ s # <<>>
      BY <1>3, <1>4, <1>10, <2>5, EmptySeq
    <3>2. Lowest(s, agg.min)
      BY <1>1, <3>1, Zenon DEF AggInv, Computed
    <3>3. PICK low : low = agg.min
      OBVIOUS
    <3>4. /\ \E j \in 1 .. n : low = s[j]
          /\ \A j \in 1 .. n : low <= s[j]
          /\ low \in Int
      BY <1>3, <1>6, <3>2, <3>3 DEF Lowest
    <3>5. CASE low = s[i]
      <4>1. h.min = CheckAll(r, 0, Less)
        BY <1>9, <3>3, <3>5, Zenon DEF MinChanged
      <4>2. /\ \E j \in 1 .. Len(r) : h.min = r[j]
            /\ \A j \in 1 .. Len(r) : j # 0 => h.min <= r[j]
        BY <1>5, <2>4, <4>1, CheckLeast
      <4>3. \A j \in 1 .. Len(r) : j # 0
        BY <1>5
      <4> QED
        BY <4>2, <4>3, Zenon DEF Lowest
    <3>6. CASE low # s[i]
      <4>1. h.min = IF low > new THEN new ELSE low
        BY <1>9, <1>12, <3>3, <3>6, Zenon DEF MinChanged
      <4>2. PICK j \in 1 .. n : low = s[j]
        BY <3>4
      <4>3. j # i /\ r[j] = low /\ r[i] = new
        BY <1>4, <1>5, <3>6, <4>2
      <4>4. PICK m : m = h.min
        OBVIOUS
      <4>5. m = r[i] \/ m = r[j]
        BY <4>1, <4>3, <4>4
      <4>6. \E k \in 1 .. n : m = r[k]
        BY <1>4, <4>5
      <4>7. ASSUME NEW k \in 1 .. n
            PROVE  m <= r[k]
        <5>1. r[k] \in Int /\ s[k] \in Int /\ r[k] = (IF k = i THEN new ELSE s[k])
          BY <1>5, <1>6
        <5> QED
          BY <3>4, <4>1, <4>4, <5>1
      <4> QED
        BY <1>5, <4>4, <4>6, <4>7 DEF Lowest
    <3> QED
      BY <3>5, <3>6
  <2>6. ASSUME "max" \notin odd
        PROVE  Highest(r, h.max)
    <3>1. "max" \notin quirks /\ s # <<>>
      BY <1>3, <1>4, <1>10, <2>6, EmptySeq
    <3>2. Highest(s, agg.max)
      BY <1>1, <3>1, Zenon DEF AggInv, Computed
    <3>3. PICK high : high = agg.max
      OBVIOUS
    <3>4. /\ \E j \in 1 .. n : high = s[j]
          /\ \A j \in 1 .. n : s[j] <= high
          /\ high \in Int
      BY <1>3, <1>6, <3>2, <3>3 DEF Highest
    <3>5. CASE high = s[i]
      <4>1. h.max = CheckAll(r, 0, More)
        BY <1>9, <3>3, <3>5, Zenon DEF MaxChanged
      <4>2. /\ \E j \in 1 .. Len(r) : h.max = r[j]
            /\ \A j \in 1 .. Len(r) : j # 0 => r[j] <= h.max
        BY <1>5, <2>4, <4>1, CheckMost
      <4>3. \A j \in 1 .. Len(r) : j # 0
        BY <1>5
      <4> QED
        BY <4>2, <4>3, Zenon DEF Highest
    <3>6. CASE high # s[i]
      <4>1. h.max = IF high < new THEN new ELSE high
        BY <1>9, <1>12, <3>3, <3>6, Zenon DEF MaxChanged
      <4>2. PICK j \in 1 .. n : high = s[j]
        BY <3>4
      <4>3. j # i /\ r[j] = high /\ r[i] = new
        BY <1>4, <1>5, <3>6, <4>2
      <4>4. PICK m : m = h.max
        OBVIOUS
      <4>5. m = r[i] \/ m = r[j]
        BY <4>1, <4>3, <4>4
      <4>6. \E k \in 1 .. n : m = r[k]
        BY <1>4, <4>5
      <4>7. ASSUME NEW k \in 1 .. n
            PROVE  r[k] <= m
        <5>1. r[k] \in Int /\ s[k] \in Int /\ r[k] = (IF k = i THEN new ELSE s[k])
          BY <1>5, <1>6
        <5> QED
          BY <3>4, <4>1, <4>4, <5>1
      <4> QED
        BY <1>5, <4>4, <4>6, <4>7 DEF Highest
    <3> QED
      BY <3>5, <3>6
  <2>7. Computed(r, h, odd)
    BY <2>1, <2>2, <2>3, <2>4, <2>5, <2>6, Zenon DEF Computed
  <2> QED
    BY <1>5, <1>8, <1>9, <2>7, Zenon DEF AggInv
<1> QED
  BY <1>11, <1>12

LEMMA AggInvStep == AggInv /\ [AggNext]_aggVars => AggInv'
<1> SUFFICES ASSUME AggInv, [AggNext]_aggVars PROVE AggInv'
  OBVIOUS
<1>1. Numbers \subseteq Int
  BY AggregatesAssumption DEF AggregatesAssumption
<1>2. CASE UNCHANGED aggVars
  BY <1>2, Zenon DEF aggVars, AggInv
<1>3. ASSUME NEW x \in Numbers, NEW y \in Numbers, Hook(<<x>>) \/ Hook(<<x, y>>)
      PROVE  AggInv'
  <2>1. <<x>> \in Seq(Int) /\ <<x, y>> \in Seq(Int) /\ <<x>> # <<>> /\ <<x, y>> # <<>>
    BY <1>1
  <2> QED
    BY <1>3, <2>1, HookKeeps, Zenon
<1>4. ASSUME "reported" \notin quirks, NEW x \in Numbers, Insert(x)
      PROVE  AggInv'
  BY <1>1, <1>4, InsertKeeps
<1>5. ASSUME "reported" \notin quirks, NEW i \in 1 .. MaxElements, Erase(i)
      PROVE  AggInv'
  BY <1>5, EraseKeeps
<1>6. ASSUME "reported" \notin quirks, NEW i \in 1 .. MaxElements, NEW x \in Numbers,
             Assign(i, x) \/ Plus(i, x) \/ Minus(i, x) \/ Times(i, x)
      PROVE  AggInv'
  <2>1. i \in DOMAIN elts /\ \E new \in Int : \E reported : Changed(i, new, reported)
    BY <1>1, <1>6 DEF Assign, Plus, Minus, Times
  <2> QED
    BY <1>6, <2>1, ChangedKeeps
<1>7. ASSUME "reported" \notin quirks, NEW i \in 1 .. MaxElements, NEW x \in Numbers, Over(i, x)
      PROVE  AggInv'
  <2>1. i \in DOMAIN elts /\ x \in Int /\ x # 0 /\ elts[i] \in Int
    <3>1. i \in DOMAIN elts /\ x \in Int /\ x # 0
      BY <1>1, <1>7 DEF Over
    <3>2. elts \in Seq(Int)
      BY DEF AggInv
    <3> QED
      BY <3>1, <3>2
  <2>2. Quotient(elts[i], x) \in Int
    <3>1. PICK y \in Int : y = elts[i]
      BY <2>1
    <3>2. Magnitude(y) \in Int /\ Magnitude(x) \in Nat \ {0}
      BY <2>1 DEF Magnitude
    <3>3. Magnitude(y) \div Magnitude(x) \in Int
      BY <3>2
    <3> QED
      BY <3>1, <3>3 DEF Quotient
  <2>3. Changed(i, Quotient(elts[i], x), Quotient(elts[i], x))
    BY <1>7, Zenon DEF Over
  <2> QED
    BY <1>7, <2>1, <2>2, <2>3, ChangedKeeps
<1> QED
  BY <1>2, <1>3, <1>4, <1>5, <1>6, <1>7 DEF AggNext

-------------------------------------------------------------------------------
(***************************************************************************)
(* Rates of a line.                                                         *)
(***************************************************************************)
Newest(p, q) == p[1]

LowerOf(p, q, m, x) == IF x < m THEN x ELSE m
LowerSoFar(p, q, k, x) == (\E j \in 1 .. Len(p) : x = p[j]) /\ \A j \in 1 .. k : x <= p[j]
Lo == INSTANCE SequenceFacts WITH FoldOp <- LowerOf, FoldBase <- Newest, FoldInv <- LowerSoFar

HigherOf(p, q, m, x) == IF x > m THEN x ELSE m
HigherSoFar(p, q, k, x) == (\E j \in 1 .. Len(p) : x = p[j]) /\ \A j \in 1 .. k : x >= p[j]
Hi == INSTANCE SequenceFacts WITH FoldOp <- HigherOf, FoldBase <- Newest, FoldInv <- HigherSoFar

(* A sum of k numbers between p and q. *)
Between(p, q, k, x) == x \in Int /\ k * p <= x /\ x <= k * q
Bounds == INSTANCE SequenceFacts WITH FoldOp <- Plain, FoldBase <- Naught, FoldInv <- Between

(* An integer that wraps around is the sum until the sum, p[k], is too big. *)
Around(p, q, sum, x) == Wrapped(sum + x)
UntilHalf(p, q, k, x) == p[k] < Half => x = p[k]
Ave == INSTANCE SequenceFacts WITH FoldOp <- Around, FoldBase <- Naught, FoldInv <- UntilHalf

PlainSum(s) == FoldLeft(LAMBDA t, x : t + x, 0, s)

LEMMA RecalcIs ==
  ASSUME NEW s
  PROVE  Recalc(s) = [last |-> s, lo |-> Lo!Fold(s, 0, s), hi |-> Hi!Fold(s, 0, s),
                      ave |-> Quotient(Ave!Fold(0, 0, s), Len(s))]
<1>1. FoldLeft(LAMBDA m, x : IF x < m THEN x ELSE m, s[1], s) = Lo!Fold(s, 0, s)
  BY Zenon DEF Lo!Fold, Lo!FoldLeft, FoldLeft, Lo!MapThenFoldSet, MapThenFoldSet, Lo!Max, Max, LowerOf, Newest
<1>2. FoldLeft(LAMBDA m, x : IF x > m THEN x ELSE m, s[1], s) = Hi!Fold(s, 0, s)
  BY Zenon DEF Hi!Fold, Hi!FoldLeft, FoldLeft, Hi!MapThenFoldSet, MapThenFoldSet, Hi!Max, Max, HigherOf, Newest
<1>3. FoldLeft(LAMBDA sum, x : Wrapped(sum + x), 0, s) = Ave!Fold(0, 0, s)
  BY Zenon DEF Ave!Fold, Ave!FoldLeft, FoldLeft, Ave!MapThenFoldSet, MapThenFoldSet, Ave!Max, Max, Around, Naught
<1> QED
  BY <1>1, <1>2, <1>3, Zenon DEF Recalc

LEMMA WrappedFoldIs ==
  ASSUME NEW s, NEW a
  PROVE  Ave!Fold(0, 0, s) = Ave!Fold(a, 0, s)
  BY Zenon DEF Ave!Fold, Ave!FoldLeft, Ave!MapThenFoldSet, Around, Naught

LEMMA PlainSumIs ==
  ASSUME NEW s, NEW a, NEW b
  PROVE  PlainSum(s) = Bounds!Fold(a, b, s)
  BY Zenon DEF PlainSum, Bounds!Fold, Bounds!FoldLeft, FoldLeft, Bounds!MapThenFoldSet, MapThenFoldSet, Bounds!Max, Max, Plain, Naught

LEMMA LoIsLeast ==
  ASSUME NEW s \in Seq(Nat), s # <<>>
  PROVE  LET m == Lo!Fold(s, 0, s)
         IN (\E j \in 1 .. Len(s) : m = s[j]) /\ \A j \in 1 .. Len(s) : m <= s[j]
<1>1. PICK n \in Nat : n = Len(s)
  BY LenProperties
<1>2. DOMAIN s = 1 .. n /\ n # 0 /\ 1 \in 1 .. n /\ \A j \in 1 .. n : s[j] \in Nat
  BY <1>1, EmptySeq
<1>3. ASSUME NEW k \in 1 .. n, NEW x, LowerSoFar(s, 0, k - 1, x)
      PROVE  LowerSoFar(s, 0, k, LowerOf(s, 0, x, s[k]))
  <2>1. x \in Nat /\ s[k] \in Nat /\ \A j \in 1 .. k : j = k \/ j \in 1 .. k - 1
    BY <1>1, <1>2, <1>3 DEF LowerSoFar
  <2> QED
    BY <1>1, <1>2, <1>3, <2>1 DEF LowerSoFar, LowerOf
<1>4. LowerSoFar(s, 0, 0, Newest(s, 0))
  BY <1>1, <1>2 DEF LowerSoFar, Newest
<1>5. PICK a : Lo!Folding(s, 0, s, n, a) /\ \A k \in 0 .. n : LowerSoFar(s, 0, k, a[k])
  BY <1>2, <1>3, <1>4, Lo!FoldKeeps
<1>6. Lo!Fold(s, 0, s) = a[n]
  BY <1>5, Zenon DEF Lo!Folding
<1>7. LowerSoFar(s, 0, n, a[n])
  BY <1>5
<1> QED
  BY <1>1, <1>6, <1>7, Zenon DEF LowerSoFar

LEMMA HiIsGreatest ==
  ASSUME NEW s \in Seq(Nat), s # <<>>
  PROVE  LET m == Hi!Fold(s, 0, s)
         IN (\E j \in 1 .. Len(s) : m = s[j]) /\ \A j \in 1 .. Len(s) : m >= s[j]
<1>1. PICK n \in Nat : n = Len(s)
  BY LenProperties
<1>2. DOMAIN s = 1 .. n /\ n # 0 /\ 1 \in 1 .. n /\ \A j \in 1 .. n : s[j] \in Nat
  BY <1>1, EmptySeq
<1>3. ASSUME NEW k \in 1 .. n, NEW x, HigherSoFar(s, 0, k - 1, x)
      PROVE  HigherSoFar(s, 0, k, HigherOf(s, 0, x, s[k]))
  <2>1. x \in Nat /\ s[k] \in Nat /\ \A j \in 1 .. k : j = k \/ j \in 1 .. k - 1
    BY <1>1, <1>2, <1>3 DEF HigherSoFar
  <2> QED
    BY <1>1, <1>2, <1>3, <2>1 DEF HigherSoFar, HigherOf
<1>4. HigherSoFar(s, 0, 0, Newest(s, 0))
  BY <1>1, <1>2 DEF HigherSoFar, Newest
<1>5. PICK a : Hi!Folding(s, 0, s, n, a) /\ \A k \in 0 .. n : HigherSoFar(s, 0, k, a[k])
  BY <1>2, <1>3, <1>4, Hi!FoldKeeps
<1>6. Hi!Fold(s, 0, s) = a[n]
  BY <1>5, Zenon DEF Hi!Folding
<1>7. HigherSoFar(s, 0, n, a[n])
  BY <1>5
<1> QED
  BY <1>1, <1>6, <1>7, Zenon DEF HigherSoFar

(* Arithmetic that wraps around at Half. *)
LEMMA Modulo ==
  ASSUME NEW m \in Nat \ {0}, NEW n \in Int
  PROVE  n % m \in 0 .. m - 1 /\ n \div m \in Int /\ n = m * (n \div m) + (n % m)
  OBVIOUS

LEMMA OneRemainder ==
  ASSUME NEW m \in Nat \ {0}, NEW q \in Int, NEW r \in 0 .. m - 1
  PROVE  (m * q + r) % m = r
<1>1. PICK n \in Int : n = m * q + r
  OBVIOUS
<1>2. PICK d \in Int : d = n \div m
  BY Modulo
<1>3. PICK x \in 0 .. m - 1 : x = n % m
  BY Modulo
<1>4. n = m * d + x
  BY <1>2, <1>3, Modulo
<1>5. m * (d - q) = r - x
  <2>1. m * (d - q) = m * d - m * q
    OBVIOUS
  <2> QED
    BY <1>1, <1>4, <2>1
<1>6. d - q = 0
  <2>1. PICK e \in Int : e = d - q
    OBVIOUS
  <2>2. m * e < m /\ m * e > -m
    BY <1>5, <2>1
  <2>3. CASE e >= 1
    <3>1. m * e >= m
      BY <2>3
    <3> QED
      BY <2>2, <3>1
  <2>4. CASE e <= -1
    <3>1. m * e <= -m
      BY <2>4
    <3> QED
      BY <2>2, <3>1
  <2> QED
    BY <2>1, <2>3, <2>4
<1> QED
  BY <1>1, <1>3, <1>5, <1>6

LEMMA WrappedSmall ==
  ASSUME NEW x \in -Half .. Half - 1
  PROVE  Wrapped(x) = x
<1>1. Half \in Nat /\ Half # 0
  BY LineAssumption
<1>2. PICK m \in Nat \ {0} : m = 2 * Half
  BY <1>1
<1>3. x + Half \in 0 .. m - 1 /\ m * 0 + (x + Half) = x + Half
  BY <1>1, <1>2
<1>4. (x + Half) % m = x + Half
  BY <1>3, OneRemainder
<1> QED
  BY <1>1, <1>2, <1>4 DEF Wrapped, Signed

(* A number and what it wraps around to differ by turns. *)
LEMMA WrappedTurns ==
  ASSUME NEW x \in Int
  PROVE  /\ Wrapped(x) \in -Half .. Half - 1
         /\ \E k \in Int : Wrapped(x) = x + (2 * Half) * k
<1>1. Half \in Nat /\ Half # 0
  BY LineAssumption
<1>2. PICK m \in Nat \ {0} : m = 2 * Half
  BY <1>1
<1>3. PICK n \in Int : n = x + Half
  BY <1>1
<1>4. PICK q \in Int : q = n \div m
  BY Modulo
<1>5. PICK r \in 0 .. m - 1 : r = n % m
  BY Modulo
<1>6. n = m * q + r
  BY <1>4, <1>5, Modulo
<1>7. Wrapped(x) = r - Half
  BY <1>2, <1>3, <1>5 DEF Wrapped, Signed
<1>8. -q \in Int /\ m * (-q) = -(m * q)
  OBVIOUS
<1>9. r - Half = x + m * (-q)
  BY <1>1, <1>3, <1>6, <1>8
<1> QED
  BY <1>1, <1>2, <1>7, <1>8, <1>9

LEMMA WrappedDifference ==
  ASSUME NEW x \in Int, NEW n \in 0 .. Half - 1
  PROVE  Wrapped(Wrapped(x + n) - x) = n
<1>1. Half \in Nat /\ Half # 0 /\ x + n \in Int
  BY LineAssumption
<1>2. PICK m \in Nat \ {0} : m = 2 * Half
  BY <1>1
<1>3. PICK k \in Int : Wrapped(x + n) = x + n + m * k
  BY <1>1, <1>2, WrappedTurns
<1>4. (Wrapped(x + n) - x) + Half = m * k + (n + Half) /\ n + Half \in 0 .. m - 1
  BY <1>1, <1>2, <1>3
<1>5. (m * k + (n + Half)) % m = n + Half
  BY <1>4, OneRemainder
<1> QED
  BY <1>1, <1>2, <1>4, <1>5 DEF Wrapped, Signed

LEMMA WrappedAgain ==
  ASSUME NEW x \in Int, NEW n \in Int
  PROVE  Wrapped(Wrapped(x) + n) = Wrapped(x + n)
<1>1. Half \in Nat /\ Half # 0
  BY LineAssumption
<1>2. PICK m \in Nat \ {0} : m = 2 * Half
  BY <1>1
<1>3. PICK k \in Int : Wrapped(x) = x + m * k
  BY <1>2, WrappedTurns
<1>4. PICK t \in Int : t = x + n + Half
  BY <1>1
<1>5. PICK q \in Int : q = t \div m
  BY Modulo
<1>6. PICK r \in 0 .. m - 1 : r = t % m
  BY Modulo
<1>7. t = m * q + r
  BY <1>5, <1>6, Modulo
<1>8. (Wrapped(x) + n) + Half = m * (q + k) + r
  <2>1. m * (q + k) = m * q + m * k
    OBVIOUS
  <2> QED
    BY <1>1, <1>3, <1>4, <1>7, <2>1
<1>9. (m * (q + k) + r) % m = r
  BY OneRemainder
<1> QED
  BY <1>2, <1>4, <1>6, <1>8, <1>9 DEF Wrapped, Signed

LEMMA SumBetween ==
  ASSUME NEW s \in Seq(Nat), NEW lo \in Nat, NEW hi \in Nat,
         \A j \in 1 .. Len(s) : lo <= s[j] /\ s[j] <= hi
  PROVE  /\ PlainSum(s) \in Nat /\ Len(s) * lo <= PlainSum(s) /\ PlainSum(s) <= Len(s) * hi
         /\ PlainSum(s) < Half => Ave!Fold(0, 0, s) = PlainSum(s)
<1>1. PICK n \in Nat : n = Len(s)
  BY LenProperties
<1>2. DOMAIN s = 1 .. n /\ \A j \in 1 .. n : s[j] \in Nat
  BY <1>1
<1>3. ASSUME NEW k \in 1 .. n, NEW x, Between(lo, hi, k - 1, x)
      PROVE  Between(lo, hi, k, Plain(lo, hi, x, s[k]))
  <2>1. PICK y \in Nat : y = s[k]
    BY <1>2
  <2>2. x \in Int /\ lo <= y /\ y <= hi /\ k \in Int
    BY <1>1, <1>3, <2>1 DEF Between
  <2>3. k * lo = (k - 1) * lo + lo /\ k * hi = (k - 1) * hi + hi
    BY <2>2
  <2>4. (k - 1) * lo <= x /\ x <= (k - 1) * hi /\ (k - 1) * lo \in Int /\ (k - 1) * hi \in Int
    BY <1>3, <2>2 DEF Between
  <2>5. x + y \in Int /\ k * lo <= x + y /\ x + y <= k * hi
    BY <2>2, <2>3, <2>4
  <2> QED
    BY <2>1, <2>5, Zenon DEF Between, Plain
<1>4. Between(lo, hi, 0, Naught(lo, hi))
  BY DEF Between, Naught
<1>5. PICK a : Bounds!Folding(lo, hi, s, n, a) /\ \A k \in 0 .. n : Between(lo, hi, k, a[k])
  BY <1>2, <1>3, <1>4, Bounds!FoldKeeps
<1>6. /\ a[0] = 0 /\ (\A k \in 1 .. n : a[k] = a[k - 1] + s[k])
      /\ Bounds!Fold(lo, hi, s) = a[n]
  BY <1>5, Zenon DEF Bounds!Folding, Plain, Naught
<1>7. PlainSum(s) = a[n]
  BY <1>6, PlainSumIs, Zenon
<1>8. \A k \in 0 .. n : a[k] \in Nat
  <2> SUFFICES ASSUME NEW k \in 0 .. n PROVE a[k] \in Nat
    OBVIOUS
  <2>1. a[k] \in Int /\ k * lo <= a[k]
    BY <1>5, Zenon DEF Between
  <2>2. k * lo \in Nat
    BY <1>1
  <2> QED
    BY <2>1, <2>2
<1>9. ASSUME NEW k \in 1 .. n, NEW x, UntilHalf(a, 0, k - 1, x)
      PROVE  UntilHalf(a, 0, k, Around(a, 0, x, s[k]))
  <2>1. /\ a[k - 1] \in Nat /\ a[k] \in Nat /\ s[k] \in Nat /\ a[k] = a[k - 1] + s[k]
        /\ Half \in Nat
    BY <1>2, <1>6, <1>8, LineAssumption
  <2>2. SUFFICES ASSUME a[k] < Half PROVE Wrapped(x + s[k]) = a[k]
    BY DEF UntilHalf, Around
  <2>3. x + s[k] = a[k]
    BY <1>9, <2>1, <2>2 DEF UntilHalf
  <2> QED
    BY <2>1, <2>2, <2>3, WrappedSmall
<1>10. UntilHalf(a, 0, 0, Naught(a, 0))
  BY <1>6 DEF UntilHalf, Naught
<1>11. PICK b : Ave!Folding(a, 0, s, n, b) /\ \A k \in 0 .. n : UntilHalf(a, 0, k, b[k])
  BY <1>2, <1>9, <1>10, Ave!FoldKeeps
<1>12. Ave!Fold(a, 0, s) = b[n]
  BY <1>11, Zenon DEF Ave!Folding
<1>13. a[n] < Half => b[n] = a[n]
  BY <1>11 DEF UntilHalf
<1>14. Between(lo, hi, n, a[n]) /\ a[n] \in Nat
  BY <1>5, <1>8
<1>15. Ave!Fold(0, 0, s) = b[n]
  BY <1>12, WrappedFoldIs, Zenon
<1> QED
  BY <1>1, <1>7, <1>13, <1>14, <1>15, Zenon DEF Between

LEMMA AverageBetween ==
  ASSUME NEW n \in Nat \ {0}, NEW sum \in Nat, NEW lo \in Nat, NEW hi \in Nat,
         n * lo <= sum, sum <= n * hi
  PROVE  lo <= Quotient(sum, n) /\ Quotient(sum, n) <= hi
<1>1. PICK d \in Int : d = sum \div n
  BY Modulo
<1>2. PICK r \in 0 .. n - 1 : r = sum % n
  BY Modulo
<1>3. sum = n * d + r
  BY <1>1, <1>2, Modulo
<1>4. lo <= d
  <2> SUFFICES ASSUME d + 1 <= lo PROVE FALSE
    OBVIOUS
  <2>1. PICK e \in Nat : e = lo - (d + 1)
    BY SMT
  <2>2. n * e \in Nat /\ n * lo = n * d + n + n * e
    <3>1. lo = d + 1 + e
      BY <2>1
    <3>2. n * (d + 1 + e) = n * d + n + n * e
      OBVIOUS
    <3> QED
      BY <3>1, <3>2
  <2> QED
    BY <1>3, <2>2
<1>5. d <= hi
  <2> SUFFICES ASSUME hi + 1 <= d PROVE FALSE
    OBVIOUS
  <2>1. PICK e \in Nat : e = d - (hi + 1)
    BY SMT
  <2>2. n * e \in Nat /\ n * d = n * hi + n + n * e
    <3>1. d = hi + 1 + e
      BY <2>1
    <3>2. n * (hi + 1 + e) = n * hi + n + n * e
      OBVIOUS
    <3> QED
      BY <3>1, <3>2
  <2> QED
    BY <1>3, <2>2
<1>6. Quotient(sum, n) = d
  <2>1. ~(sum < 0) /\ ~(n < 0)
    OBVIOUS
  <2>2. (sum < 0) = (n < 0)
    BY <2>1, SMT
  <2>3. Magnitude(sum) = sum /\ Magnitude(n) = n
    BY <2>1 DEF Magnitude
  <2> QED
    BY <1>1, <2>2, <2>3, Zenon DEF Quotient
<1> QED
  BY <1>4, <1>5, <1>6

(* What a recalculation gives. *)
LEMMA RecalcRight ==
  ASSUME NEW s \in Seq(Nat), s # <<>>
  PROVE  LET new == Recalc(s)
         IN /\ new.last = s /\ new.lo \in Range(s) /\ new.hi \in Range(s)
            /\ \A x \in Range(s) : new.lo <= x /\ x <= new.hi
            /\ PlainSum(s) < Half => new.lo <= new.ave /\ new.ave <= new.hi
<1>1. PICK n \in Nat : n = Len(s)
  BY LenProperties
<1>2. DOMAIN s = 1 .. n /\ n # 0 /\ \A j \in 1 .. n : s[j] \in Nat
  BY <1>1, EmptySeq
<1>3. PICK lo : lo = Lo!Fold(s, 0, s)
  OBVIOUS
<1>4. PICK hi : hi = Hi!Fold(s, 0, s)
  OBVIOUS
<1>5. (\E j \in 1 .. n : lo = s[j]) /\ \A j \in 1 .. n : lo <= s[j]
  BY <1>1, <1>3, LoIsLeast
<1>6. (\E j \in 1 .. n : hi = s[j]) /\ \A j \in 1 .. n : hi >= s[j]
  BY <1>1, <1>4, HiIsGreatest
<1>7. lo \in Nat /\ hi \in Nat
  BY <1>2, <1>5, <1>6
<1>8. \A j \in 1 .. Len(s) : lo <= s[j] /\ s[j] <= hi
  BY <1>1, <1>2, <1>5, <1>6, <1>7
<1>9. PICK sum : sum = PlainSum(s)
  OBVIOUS
<1>10. /\ sum \in Nat /\ n * lo <= sum /\ sum <= n * hi
       /\ sum < Half => Ave!Fold(0, 0, s) = sum
  BY <1>1, <1>7, <1>8, <1>9, SumBetween
<1>11. lo <= Quotient(sum, n) /\ Quotient(sum, n) <= hi
  BY <1>2, <1>7, <1>10, AverageBetween
<1>12. PICK new : new = Recalc(s)
  OBVIOUS
<1>13. new.last = s /\ new.lo = lo /\ new.hi = hi /\ new.ave = Quotient(Ave!Fold(0, 0, s), n)
  BY <1>1, <1>3, <1>4, <1>12, RecalcIs
<1>14. \A x : x \in Range(s) <=> \E j \in 1 .. n : x = s[j]
  BY <1>2 DEF Range
<1>15. new.lo \in Range(s) /\ new.hi \in Range(s)
  BY <1>5, <1>6, <1>13, <1>14
<1>16. \A x \in Range(s) : new.lo <= x /\ x <= new.hi
  BY <1>1, <1>8, <1>13, <1>14
<1>17. sum < Half => new.lo <= new.ave /\ new.ave <= new.hi
  BY <1>10, <1>11, <1>13
<1> QED
  BY <1>9, <1>12, <1>13, <1>15, <1>16, <1>17, Zenon

(***************************************************************************)
(* The bytes of a check under way are those its rate is made of; the samples *)
(* are of rates that were really received, and the figures are those of a     *)
(* recalculation that the watchers were told.                                *)
(***************************************************************************)
LineInv ==
  /\ recv \in -Half .. Half - 1 /\ rBytes \in -Half .. Half - 1 /\ got \in 0 .. Half - 1
  /\ recv = Wrapped(rBytes + got)
  /\ check.busy => check.rd = check.got /\ check.got \in Nat
  /\ truth \in Seq(Nat) /\ rates.last = truth
  /\ truth # <<>> => rates = Recalc(truth)
  /\ DOMAIN seen = {"lo", "hi", "ave"} /\ \A f \in {"lo", "hi", "ave"} : seen[f] = rates[f]

LEMMA LineInvGives == LineInv => RatesRight
<1> SUFFICES ASSUME LineInv PROVE RatesRight
  OBVIOUS
<1>1. /\ recv = Wrapped(rBytes + got) /\ rates.last = truth
      /\ \A f \in DOMAIN seen : seen[f] = rates[f]
  BY Zenon DEF LineInv
<1>2. ASSUME rates.last # <<>>
      PROVE  /\ rates.lo \in Range(rates.last) /\ rates.hi \in Range(rates.last)
             /\ \A x \in Range(rates.last) : rates.lo <= x /\ x <= rates.hi
             /\ PlainSum(rates.last) < Half => rates.lo <= rates.ave /\ rates.ave <= rates.hi
  <2>1. PICK s \in Seq(Nat) : s = truth
    BY DEF LineInv
  <2>2. s # <<>> /\ rates = Recalc(s)
    BY <1>2, <2>1, Zenon DEF LineInv
  <2> QED
    BY <1>1, <2>1, <2>2, RecalcRight, Zenon
<1>3. PlainSum(rates.last) = FoldLeft(LAMBDA s, x : s + x, 0, rates.last)
  BY Zenon DEF PlainSum
<1> QED
  BY <1>1, <1>2, <1>3, Zenon DEF RatesRight

LEMMA LineInvInit == LineInit => LineInv
<1> SUFFICES ASSUME LineInit PROVE LineInv
  OBVIOUS
<1>1. Half \in Nat /\ Half # 0 /\ Wrapped(0) = 0
  <2>1. Half \in Nat /\ Half # 0 /\ 0 \in -Half .. Half - 1
    BY LineAssumption
  <2> QED
    BY <2>1, WrappedSmall
<1>2. /\ recv = 0 /\ rBytes = 0 /\ got = 0 /\ 0 + 0 = 0 /\ 0 \in -Half .. Half - 1 /\ 0 \in 0 .. Half - 1
  BY <1>1 DEF LineInit
<1>3. ~check.busy
  BY DEF LineInit, Idle
<1>4. truth = <<>> /\ truth \in Seq(Nat) /\ rates.last = truth
  BY DEF LineInit
<1>5. DOMAIN seen = {"lo", "hi", "ave"} /\ \A f \in {"lo", "hi", "ave"} : seen[f] = rates[f]
  BY DEF LineInit
<1> QED
  BY <1>1, <1>2, <1>3, <1>4, <1>5 DEF LineInv

LEMMA ShiftedIs ==
  ASSUME NEW s \in Seq(Nat), NEW d \in Nat
  PROVE  Shifted(s, d) \in Seq(Nat) /\ Shifted(s, d) # <<>>
<1>1. PICK n \in Nat : n = Len(s)
  BY LenProperties
<1>2. PICK r : r = <<d>> \o s
  OBVIOUS
<1>3. r \in Seq(Nat) /\ Len(r) = n + 1
  BY <1>1, <1>2
<1>4. PICK k : k = IF n < SampleSize THEN n + 1 ELSE SampleSize
  OBVIOUS
<1>5. k \in 1 .. Len(r) /\ k \in 0 .. Len(r) /\ 1 \in 1 .. Len(r) + 1
  BY <1>3, <1>4, LineAssumption
<1>6. SubSeq(r, 1, k) \in Seq(Nat) /\ Len(SubSeq(r, 1, k)) = k
  BY <1>3, <1>5
<1> QED
  BY <1>1, <1>2, <1>4, <1>5, <1>6 DEF Shifted

LEMMA LineInvStep == LineInv /\ [LineNext]_lineVars => LineInv'
<1> SUFFICES ASSUME LineInv, [LineNext]_lineVars PROVE LineInv'
  OBVIOUS
<1>1. Half \in Nat /\ Half # 0
  BY LineAssumption
<1>2. CASE UNCHANGED lineVars
  BY <1>2, Zenon DEF lineVars, LineInv
<1>3. ASSUME NEW n \in Arrivals, Receive(n)
      PROVE  LineInv'
  <2>1. /\ n \in Nat /\ got \in 0 .. Half - 1 /\ got + n < Half
        /\ recv' = Wrapped(recv + n) /\ got' = got + n /\ recv = Wrapped(rBytes + got)
        /\ rBytes' = rBytes /\ rBytes \in -Half .. Half - 1
    BY <1>3, LineAssumption DEF Receive, LineInv
  <2>2. PICK b \in Int : b = rBytes
    BY <1>1, <2>1
  <2>3. PICK g \in Int : g = got
    BY <2>1
  <2>4. Wrapped(Wrapped(b + g) + n) = Wrapped((b + g) + n)
    BY <2>1, WrappedAgain
  <2>5. (b + g) + n = b + (g + n) /\ Wrapped(b + g) + n \in Int
    BY <1>1, <2>1, WrappedTurns
  <2>6. recv' = Wrapped(rBytes' + got')
    BY <2>1, <2>2, <2>3, <2>4, <2>5
  <2>7. recv' \in -Half .. Half - 1
    BY <2>1, <2>2, <2>3, <2>5, WrappedTurns
  <2>8. got' \in 0 .. Half - 1
    BY <1>1, <2>1
  <2>9. UNCHANGED <<check, rates, seen, truth>>
    BY <1>3, Zenon DEF Receive
  <2> QED
    BY <2>1, <2>6, <2>7, <2>8, <2>9, Zenon DEF LineInv
<1>4. ASSUME CheckBegins
      PROVE  LineInv'
  <2>1. PICK b \in Int : b = rBytes
    BY <1>1 DEF LineInv
  <2>2. PICK g \in 0 .. Half - 1 : g = got
    BY DEF LineInv
  <2>3. Wrapped(recv - rBytes) = g
    BY <2>1, <2>2, WrappedDifference DEF LineInv
  <2>4. check'.rd = g /\ check'.got = g /\ g \in Nat
    BY <1>4, <2>2, <2>3 DEF CheckBegins
  <2>5. UNCHANGED <<recv, rBytes, rates, seen, got, truth>>
    BY <1>4, Zenon DEF CheckBegins
  <2> QED
    BY <2>4, <2>5, Zenon DEF LineInv
<1>5. ASSUME NEW dt \in Intervals, CheckEnds(dt)
      PROVE  LineInv'
  <2>1. /\ check.busy /\ check.rd = check.got /\ check.got \in Nat /\ dt \in Nat
    BY <1>5, LineAssumption DEF CheckEnds, LineInv
  <2>2. /\ recv \in -Half .. Half - 1 /\ recv' = recv /\ rBytes' = recv /\ got' = 0 /\ check' = Idle
    BY <1>5, Zenon DEF CheckEnds, LineInv, Baseline
  <2>3. recv + 0 = recv /\ 0 \in 0 .. Half - 1 /\ ~check'.busy
    BY <1>1, <2>2 DEF Idle
  <2>4. recv' = Wrapped(rBytes' + got')
    BY <2>2, <2>3, WrappedSmall
  <2>5. /\ truth' \in Seq(Nat) /\ rates'.last = truth'
        /\ truth' # <<>> => rates' = Recalc(truth')
        /\ DOMAIN seen' = {"lo", "hi", "ave"} /\ \A f \in {"lo", "hi", "ave"} : seen'[f] = rates'[f]
    <3>1. CASE dt = 0
      <4>1. UNCHANGED <<rates, seen, truth>>
        BY <1>5, <3>1 DEF CheckEnds
      <4> QED
        BY <4>1, Zenon DEF LineInv
    <3>2. CASE dt # 0
      <4>1. PICK d \in Nat : d = check.got \div dt
        <5>1. check.got \div dt \in Nat
          BY <2>1, <3>2
        <5> QED
          BY <5>1
      <4>2. PICK s \in Seq(Nat) : s = truth
        BY DEF LineInv
      <4>3. PICK r \in Seq(Nat) : r = Shifted(s, d) /\ r # <<>>
        BY ShiftedIs
      <4>4. Data(d) /\ truth' = r
        BY <1>5, <2>1, <3>2, <4>1, <4>2, <4>3, Zenon DEF CheckEnds
      <4>5. PICK new : new = Recalc(r)
        OBVIOUS
      <4>6. /\ rates' = new /\ seen' = [f \in {"lo", "hi", "ave"} |-> Tell(f, new)]
        BY <4>2, <4>3, <4>4, <4>5, Zenon DEF Data, LineInv
      <4>7. new.last = r
        BY <4>5 DEF Recalc
      <4>8. ASSUME NEW f \in {"lo", "hi", "ave"} PROVE Tell(f, new) = new[f]
        <5>1. seen[f] = rates[f]
          BY DEF LineInv
        <5>2. CASE f = "ave"
          BY <5>1, <5>2 DEF Tell
        <5>3. CASE f # "ave"
          BY <5>1, <5>3 DEF Tell
        <5> QED
          BY <5>2, <5>3
      <4>9. DOMAIN seen' = {"lo", "hi", "ave"} /\ \A f \in {"lo", "hi", "ave"} : seen'[f] = rates'[f]
        BY <4>6, <4>8
      <4> QED
        BY <4>3, <4>4, <4>5, <4>6, <4>7, <4>9
    <3> QED
      BY <3>1, <3>2
  <2> QED
    BY <2>2, <2>3, <2>4, <2>5, Zenon DEF LineInv
<1>6. CASE Unhook \/ Hookup
  <2>1. UNCHANGED <<recv, rBytes, check, rates, seen, got, truth>>
    BY <1>6, Zenon DEF Unhook, Hookup
  <2> QED
    BY <2>1, Zenon DEF LineInv
<1> QED
  BY <1>2, <1>3, <1>4, <1>5, <1>6 DEF LineNext

LEMMA TimesInvGives == TimesInv => TimesRight
<1> SUFFICES ASSUME TimesInv, ptOdd = {}
             PROVE  /\ Normal(pt) /\ Instant(pt) = exact
                    /\ \A q \in Points : Compares(pt, q) /\ Measures(pt, q)
  BY DEF TimesRight
<1>1. pt \in Point /\ Normal(pt) /\ Instant(pt) = exact
  BY DEF TimesInv, Right
<1>2. ASSUME NEW q \in Points
      PROVE  Compares(pt, q) /\ Measures(pt, q)
  BY <1>1, GivenPoints, ComparesRight, MeasuresRight
<1> QED
  BY <1>1, <1>2

-------------------------------------------------------------------------------
(***************************************************************************)
(* The library.                                                             *)
(***************************************************************************)
LibraryInv ==
  /\ TimesInv /\ VecInv /\ MapInv /\ SetInv
  /\ TableInv /\ TreeInv /\ TokenInv /\ ReportInv
  /\ WatchInv /\ BufferInv /\ FileInv
  /\ AggInv /\ LineInv
  /\ StringInv /\ IniInv /\ ArgsInv

LEMMA LibraryInvInit == Init => LibraryInv
<1> SUFFICES ASSUME Init PROVE LibraryInv
  OBVIOUS
<1>1. TimesInv /\ VecInv /\ MapInv /\ SetInv
  BY TimesInvInit, VecInvInit, MapInvInit, SetInvInit DEF Init
<1>2. TableInv /\ TreeInv /\ TokenInv /\ ReportInv
  BY TableInvInit, TreeInvInit, TokenInvInit, ReportInvInit DEF Init
<1>3. WatchInv /\ BufferInv /\ FileInv
  BY WatchInvInit, BufferInvInit, FileInvInit DEF Init
<1>4. AggInv /\ LineInv
  BY AggInvInit, LineInvInit DEF Init
<1>5. StringInv /\ IniInv /\ ArgsInv
  BY StringInvInit, IniInvInit, ArgsInvInit DEF Init
<1> QED
  BY <1>1, <1>2, <1>3, <1>4, <1>5 DEF LibraryInv

LEMMA LibraryInvStep == LibraryInv /\ [Next]_libraryVars => LibraryInv'
<1> SUFFICES ASSUME LibraryInv, [Next]_libraryVars PROVE LibraryInv'
  OBVIOUS
<1>1. TimesInv'
  <2>1. [TimesNext]_ptVars
    BY DEF Next, libraryVars
  <2> QED
    BY <2>1, TimesInvStep DEF LibraryInv
<1>2. VecInv'
  <2>1. [VecNext]_vecVars
    BY DEF Next, libraryVars
  <2> QED
    BY <2>1, VecInvStep DEF LibraryInv
<1>3. MapInv'
  <2>1. [MapNext]_mapVars
    BY DEF Next, libraryVars
  <2> QED
    BY <2>1, MapInvStep DEF LibraryInv
<1>4. SetInv'
  <2>1. [SetNext]_setVars
    BY DEF Next, libraryVars
  <2> QED
    BY <2>1, SetInvStep DEF LibraryInv
<1>5. TableInv'
  <2>1. [TableNext]_tableVars
    BY DEF Next, libraryVars
  <2> QED
    BY <2>1, TableInvStep DEF LibraryInv
<1>6. TreeInv'
  <2>1. [TreeNext]_treeVars
    BY DEF Next, libraryVars
  <2> QED
    BY <2>1, TreeInvStep DEF LibraryInv
<1>7. TokenInv'
  <2>1. [TokenNext]_tokenVars
    BY DEF Next, libraryVars
  <2> QED
    BY <2>1, TokenInvStep DEF LibraryInv
<1>8. ReportInv'
  <2>1. [ReportNext]_reportVars
    BY DEF Next, libraryVars
  <2> QED
    BY <2>1, ReportInvStep DEF LibraryInv
<1>9. WatchInv'
  <2>1. [WatchNext]_watchVars
    BY DEF Next, libraryVars
  <2> QED
    BY <2>1, WatchInvStep DEF LibraryInv
<1>10. BufferInv'
  <2>1. [BufferNext]_bufferVars
    BY DEF Next, libraryVars
  <2> QED
    BY <2>1, BufferInvStep DEF LibraryInv
<1>11. FileInv'
  <2>1. [FileNext]_fileVars
    BY DEF Next, libraryVars
  <2> QED
    BY <2>1, FileInvStep DEF LibraryInv
<1>12. AggInv'
  <2>1. [AggNext]_aggVars
    BY DEF Next, libraryVars
  <2> QED
    BY <2>1, AggInvStep DEF LibraryInv
<1>13. LineInv'
  <2>1. [LineNext]_lineVars
    BY DEF Next, libraryVars
  <2> QED
    BY <2>1, LineInvStep DEF LibraryInv
<1>14. StringInv'
  <2>1. [StringNext]_strVars
    BY DEF Next, libraryVars
  <2> QED
    BY <2>1, StringInvStep DEF LibraryInv
<1>15. IniInv'
  <2>1. [IniNext]_iniVars
    BY DEF Next, libraryVars
  <2> QED
    BY <2>1, IniInvStep DEF LibraryInv
<1>16. ArgsInv'
  <2>1. [ArgsNext]_argsVars
    BY DEF Next, libraryVars
  <2> QED
    BY <2>1, ArgsInvStep DEF LibraryInv
<1> QED
  BY <1>1, <1>2, <1>3, <1>4, <1>5, <1>6, <1>7, <1>8, <1>9, <1>10, <1>11, <1>12, <1>13,
     <1>14, <1>15, <1>16 DEF LibraryInv

(***************************************************************************)
(* Whoever asked to be told of what is added to a vector, a map or a set and   *)
(* lost from it (govector.h, gomap.h, goset.h), called for a level, an event   *)
(* or a token (goprioritytable.cpp, goeventtree.cpp, gtokenmap.h), or handed   *)
(* the reports of its level (report.cpp) is, as often as he asked to be, and    *)
(* unless the program did one of the things that the code gets wrong.         *)
(***************************************************************************)
THEOREM LibraryEveryoneTold == Spec => []EveryoneTold
<1>1. LibraryInv => EveryoneTold
  <2> SUFFICES ASSUME LibraryInv PROVE EveryoneTold
    OBVIOUS
  <2>1. VectorWatched /\ MapWatched
    BY VecInvGives, MapInvGives DEF LibraryInv
  <2>2. SetWatched /\ TokensPaired
    BY SetInvGives, TokenInvGives DEF LibraryInv
  <2>3. CalledAsInstalled /\ OneListPerEvent
    BY TableInvGives, TreeInvGives DEF LibraryInv
  <2>4. ReportsArrive
    BY DEF LibraryInv, ReportInv, ReportsArrive
  <2> QED
    BY <2>1, <2>2, <2>3, <2>4 DEF EveryoneTold
<1>2. Spec => []LibraryInv
  BY LibraryInvInit, LibraryInvStep, PTL DEF Spec
<1> QED
  BY <1>1, <1>2, PTL

(***************************************************************************)
(* However it is started, stopped and reset, a stopped watch (gostopwatch.cpp)  *)
(* knows how long it ran in all, its text is never ahead of that unless it was  *)
(* changed during a render(), and the timer calls no watch that is gone unless  *)
(* it was reset as it ran or just called; a StopWatch (stopwatch.cpp) tells the *)
(* time between start() and stop().                                           *)
(***************************************************************************)
THEOREM LibraryWatchesRight == Spec => []WatchesRight
<1>1. LibraryInv => WatchesRight
  BY WatchInvGives DEF LibraryInv
<1>2. Spec => []LibraryInv
  BY LibraryInvInit, LibraryInvStep, PTL DEF Spec
<1> QED
  BY <1>1, <1>2, PTL

(***************************************************************************)
(* For any limit, block size and lengths, a buffer (bytebuffer.cpp) grows to    *)
(* its limit only, and an append() writes nothing beyond it and loses nothing   *)
(* as it grows, as long as nobody else uses the buffer meanwhile.             *)
(***************************************************************************)
THEOREM LibraryBufferFits == Spec => []BufferFits
<1>1. LibraryInv => BufferFits
  BY BufferInvGives DEF LibraryInv
<1>2. Spec => []LibraryInv
  BY LibraryInvInit, LibraryInvStep, PTL DEF Spec
<1> QED
  BY <1>1, <1>2, PTL

(***************************************************************************)
(* For any bytes written, a file (dar.cpp) holds them where they were written,  *)
(* knows its length, and gives back what was written there, unless readWhile()  *)
(* has put a byte back.                                                       *)
(***************************************************************************)
THEOREM LibraryFileRight == Spec => []FileRight
<1>1. LibraryInv => FileRight
  BY FileInvGives DEF LibraryInv
<1>2. Spec => []LibraryInv
  BY LibraryInvInit, LibraryInvStep, PTL DEF Spec
<1> QED
  BY <1>1, <1>2, PTL

(***************************************************************************)
(* What is stored is what was put there, for any bytes, characters, texts,      *)
(* names, numbers and sizes: a string (gostring.cpp) holds the text that its     *)
(* operations make, with the NUL behind it, an ini file (inifiledb.cpp) is read  *)
(* as it was saved, with one field of a name as long as one thread at a time is  *)
(* in set(), and the arguments of a callback (arglist.cpp) are those that were   *)
(* added and not removed, unless the program did one of the things that the      *)
(* code gets wrong; so are the bytes of buffers and files.                     *)
(***************************************************************************)
THEOREM LibraryContentsRight == Spec => []ContentsRight
<1>1. LibraryInv => ContentsRight
  <2> SUFFICES ASSUME LibraryInv PROVE ContentsRight
    OBVIOUS
  <2>1. BufferFits /\ FileRight
    BY BufferInvGives, FileInvGives DEF LibraryInv
  <2>2. StringRight
    BY StringInvGives DEF LibraryInv
  <2>3. IniRight
    BY IniInvGives DEF LibraryInv
  <2>4. ArgumentsRight
    BY ArgsInvGives DEF LibraryInv
  <2> QED
    BY <2>1, <2>2, <2>3, <2>4 DEF ContentsRight
<1>2. Spec => []LibraryInv
  BY LibraryInvInit, LibraryInvStep, PTL DEF Spec
<1> QED
  BY <1>1, <1>2, PTL

(***************************************************************************)
(* Every figure is the true one: the sum, mean, extremes and variance kept of   *)
(* an observed vector are those of its numbers (govectoraggregates.h), whatever *)
(* was inserted, erased and assigned; the rates of a line, with their extremes  *)
(* and average (golinestats.cpp, gosampler.cpp), are those at which bytes came,  *)
(* although their counter wraps around; what watches and times say is right.    *)
(***************************************************************************)
THEOREM LibraryFiguresRight == Spec => []FiguresRight
<1>1. LibraryInv => FiguresRight
  <2> SUFFICES ASSUME LibraryInv PROVE FiguresRight
    OBVIOUS
  <2>1. AggregatesExact /\ RatesRight
    BY AggInvGives, LineInvGives DEF LibraryInv
  <2>2. WatchesRight
    BY WatchInvGives DEF LibraryInv
  <2>3. TimesRight
    BY TimesInvGives DEF LibraryInv
  <2> QED
    BY <2>1, <2>2, <2>3 DEF FiguresRight
<1>2. Spec => []LibraryInv
  BY LibraryInvInit, LibraryInvStep, PTL DEF Spec
<1> QED
  BY <1>1, <1>2, PTL

(***************************************************************************)
(* Whatever a program computes, for any milliseconds and time zones, is the   *)
(* time that the numbers say, unless it did one of the things the code gets    *)
(* wrong, and is compared with any other as the numbers are.                 *)
(***************************************************************************)
THEOREM TimesCorrect == TimesSpec => []TimesRight
<1>1. TimesInv => TimesRight
  BY TimesInvGives
<1>2. TimesSpec => []TimesInv
  BY TimesInvInit, TimesInvStep, PTL DEF TimesSpec
<1> QED
  BY <1>1, <1>2, PTL
===============================================================================
