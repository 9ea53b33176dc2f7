--------------------------------- MODULE LineStats ---------------------------------
(***************************************************************************)
(* GOLineStats (golinestats.cpp): the rate at which a line receives bytes, that *)
(* its timer's thread works out from a counter the line's own thread advances, *)
(* and GOSampler (gosampler.cpp), the last of these rates with their extremes  *)
(* and average.  The other three counters of the class go the same way.        *)
(***************************************************************************)
EXTENDS Integers, Sequences, SequencesExt, CIntegers

CONSTANTS
  Half,        \* 2^31: integers wrap around there
  SampleSize,  \* _sampleSz
  Arrivals,    \* bytes that are received at once
  Intervals    \* of two checks, 0 if the clock did not advance between them

ASSUME LineAssumption ==
  /\ Half \in Nat \ {0} /\ SampleSize \in Nat \ {0}
  /\ Arrivals \subseteq Nat /\ Intervals \subseteq Nat

VARIABLES
  recv,     \* _nBytesRecv
  rBytes,   \* _rBytes, what it was at the last check
  check,    \* the rate check of the timer's thread under way
  hooked,   \* _hTimer
  rates,    \* _recvRateSamples: _last, _lo, _hi and _ave
  seen,     \* what watchers of these were told
  got,      \* observer: the bytes received since the last check
  truth     \* observer: the last rates that were really received, [0] if one is not known

lineVars == <<recv, rBytes, check, hooked, rates, seen, got, truth>>

Wrapped(n) == Signed(n, Half)
Idle == [busy |-> FALSE, rd |-> 0, got |-> 0]

LineInit ==
  /\ recv = 0 /\ rBytes = 0 /\ check = Idle /\ hooked = TRUE
  /\ rates = [last |-> <<>>, lo |-> 0, hi |-> 0, ave |-> 0]
  /\ seen = [lo |-> 0, hi |-> 0, ave |-> 0]
  /\ got = 0 /\ truth = <<>>

-------------------------------------------------------------------------------
(* GOSampler::data() *)
Shifted(last, d) == SubSeq(<<d>> \o last, 1, IF Len(last) < SampleSize THEN Len(last) + 1 ELSE SampleSize)

(* recalc() *)
Recalc(last) ==
  [last |-> last,
   lo |-> FoldLeft(LAMBDA m, x : IF x < m THEN x ELSE m, last[1], last),
   hi |-> FoldLeft(LAMBDA m, x : IF x > m THEN x ELSE m, last[1], last),
   ave |-> Quotient(FoldLeft(LAMBDA sum, x : Wrapped(sum + x), 0, last), Len(last))]

(* While its callbacks are blocked a value that changes, if only for a moment, is
   noted; unblock() then tells the last value.  _lo and _hi begin with the newest
   sample; _ave with it, too, and then adds up the others. *)
Tell(field, new) ==
  LET changed ==
        CASE field = "ave" -> \/ new.last[1] # rates.ave \/ new.ave # rates.ave
                              \/ \E i \in 2 .. Len(new.last) : new.last[i] # 0
          [] OTHER -> new.last[1] # rates[field] \/ new[field] # rates[field]
  IN IF changed THEN new[field] ELSE seen[field]

Data(d) ==
  LET new == Recalc(Shifted(rates.last, d))
  IN rates' = new /\ seen' = [f \in {"lo", "hi", "ave"} |-> Tell(f, new)]

-------------------------------------------------------------------------------
(* The line counts what it has received.  Bound: an interval's bytes are fewer than
   Half, or the rate is taken for a negative one. *)
Receive(n) ==
  /\ got + n < Half
  /\ recv' = Wrapped(recv + n) /\ got' = got + n
  /\ UNCHANGED <<rBytes, check, hooked, rates, seen, truth>>

(* Mistake: that the counter has wrapped around is not seen. *)
CheckUnwrapped ==
  /\ hooked /\ ~check.busy
  /\ check' = [busy |-> TRUE, rd |-> recv - rBytes, got |-> got]
  /\ UNCHANGED <<recv, rBytes, hooked, rates, seen, got, truth>>

(* onRateCheckInterval() reads the counter... *)
CheckBegins ==
  /\ hooked /\ ~check.busy
  /\ check' = [busy |-> TRUE, rd |-> Wrapped(recv - rBytes), got |-> got]
  /\ UNCHANGED <<recv, rBytes, hooked, rates, seen, got, truth>>

(* ... and reads it again for the next time: what came in between is in no rate. *)
Baseline == recv

CheckEnds(dt) ==
  /\ check.busy
  /\ IF dt # 0
     THEN Data(check.rd \div dt) /\ truth' = Shifted(truth, check.got \div dt)
     ELSE UNCHANGED <<rates, seen, truth>>
  /\ rBytes' = Baseline
  /\ check' = Idle /\ got' = 0
  /\ UNCHANGED <<recv, hooked>>

(* timer_unhook() does not wait for a check under way, and so neither does the
   destructor; timer_hookup(). *)
Unhook == hooked /\ hooked' = FALSE /\ UNCHANGED <<recv, rBytes, check, rates, seen, got, truth>>
Hookup == hooked' = TRUE /\ UNCHANGED <<recv, rBytes, check, rates, seen, got, truth>>

LineNext ==
  \/ \E n \in Arrivals : Receive(n)
  \/ CheckBegins
  \/ \E dt \in Intervals : CheckEnds(dt)
  \/ Unhook \/ Hookup

-------------------------------------------------------------------------------
(***************************************************************************)
(* The rates are those at which bytes were received, although the counter wraps *)
(* around: none is counted twice.  Their extremes and (unless their sum is too  *)
(* big) average are those of the rates, and a watcher knows them.              *)
(***************************************************************************)
RatesRight ==
  /\ recv = Wrapped(rBytes + got)
  /\ rates.last = truth
  /\ \A f \in DOMAIN seen : seen[f] = rates[f]
  /\ rates.last # <<>> =>
       /\ rates.lo \in Range(rates.last) /\ rates.hi \in Range(rates.last)
       /\ \A x \in Range(rates.last) : rates.lo <= x /\ x <= rates.hi
       /\ LET sum == FoldLeft(LAMBDA s, x : s + x, 0, rates.last)
          IN sum < Half => rates.lo <= rates.ave /\ rates.ave <= rates.hi
===============================================================================
