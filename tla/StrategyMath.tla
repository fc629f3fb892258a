---------------------------- MODULE StrategyMath ----------------------------
(***************************************************************************)
(* The arithmetic of Strategy V4, src/src/strategy-v2/probe-strategy.math  *)
(* .ts: what a candle does to a level, to a stop and to a position.        *)
(*                                                                         *)
(* Prices are integers, an average true range is given as an integer and   *)
(* ratios are in hundredths; a quotient is compared by cross-multiplying.  *)
(* Where the code divides by a constant the model leaves a numerator.      *)
(***************************************************************************)
EXTENDS Integers, Sequences, SequencesExt

Candle(lo, hi) ==
  {c \in [open : lo .. hi, high : lo .. hi, low : lo .. hi, close : lo .. hi] :
     /\ c.low <= Min({c.open, c.close}) /\ Max({c.open, c.close}) <= c.high}

Abs(x)          == IF x < 0 THEN -x ELSE x
Buy(d)          == d = "BUY"
Column(cs, f)   == {cs[i][f] : i \in DOMAIN cs}
LastOf(cs, n)   == SubSeq(cs, Len(cs) - n + 1, Len(cs))
\* How far x lies beyond y in direction d.
Beyond(d, x, y) == IF Buy(d) THEN x - y ELSE y - x
\* The extremes of a candle with and against direction d.
Ahead(d, c)     == IF Buy(d) THEN c.high ELSE c.low
Behind(d, c)    == IF Buy(d) THEN c.low ELSE c.high

-----------------------------------------------------------------------------
(* Levels and triggers.                                                    *)

breakoutLevel(cs, period, d) ==
  IF Buy(d) THEN Max(Column(LastOf(cs, period), "high")) ELSE Min(Column(LastOf(cs, period), "low"))

\* Mutant: selling takes a close at the level for a break of it.
WaveTriggeredAtLevel(bias, previous, current, lookback) ==
  LET level == breakoutLevel(previous, lookback, bias) IN
    /\ Len(previous) >= lookback
    /\ IF Buy(bias) THEN Last(previous).close <= level /\ current.close > level
                    ELSE Last(previous).close >= level /\ current.close <= level

\* detectWaveTrigger
WaveTriggered(bias, previous, current, lookback) ==
  LET level == breakoutLevel(previous, lookback, bias) IN
    /\ Len(previous) >= lookback
    /\ IF Buy(bias) THEN Last(previous).close <= level /\ current.close > level
                    ELSE Last(previous).close >= level /\ current.close < level

\* detectM5Trigger: the level of the bias is crossed, or held after a retest.
M5Trigger(bias, previous, current, level, atr) ==
  LET breakout == Beyond(bias, previous.close, level) <= 0 /\ Beyond(bias, current.close, level) > 0
      retest == /\ Beyond(bias, previous.close, level) > 0
                /\ 100 * Beyond(bias, Behind(bias, current), level) <= 15 * atr
                /\ Beyond(bias, current.close, level) > 0
                /\ Beyond(bias, current.close, current.open) > 0 IN
    CASE retest -> "RETEST" [] breakout /\ ~retest -> "FAST_BREAKOUT" [] OTHER -> "none"

confirmWaveMain(d, c, level, probeEntry, atr) ==
  LET range == c.high - c.low
      body == /\ range > 0 /\ atr > 0 /\ Beyond(d, c.close, c.open) > 0
              /\ 100 * Abs(c.close - c.open) >= 45 * range
      reclaim == Beyond(d, Behind(d, c), level) <= 0 /\ 100 * Beyond(d, c.close, level) >= 10 * atr
      momentum == 100 * Beyond(d, c.close, probeEntry) >= 50 * atr IN
    CASE body /\ reclaim -> "RETEST_RECLAIM"
      [] body /\ ~reclaim /\ momentum -> "MOMENTUM"
      [] OTHER -> "none"

-----------------------------------------------------------------------------
(* Stops and outcomes.  Distances are in hundredths of a price.             *)

Swing(previous, current, swingBars) ==
  Append(LastOf(previous, Min({swingBars, Len(previous)})), current)

\* waveStop: the distance of the stop from the close, beyond the swing or at
\* least the multiple minAtr (hundredths) of the range.
StopDistance(d, previous, current, atr, swingBars, minAtr) ==
  LET recent == Swing(previous, current, swingBars)
      structural == IF Buy(d) THEN 100 * Min(Column(recent, "low")) - 15 * atr
                              ELSE 100 * Max(Column(recent, "high")) + 15 * atr IN
    Max({Abs(100 * current.close - structural), minAtr * atr})

waveStop(d, previous, current, atr, swingBars, minAtr) ==
  100 * current.close + IF Buy(d) THEN -StopDistance(d, previous, current, atr, swingBars, minAtr)
                                  ELSE StopDistance(d, previous, current, atr, swingBars, minAtr)

\* waveMfeR times the risk
MfeTimesRisk(d, entry, cs) ==
  IF Buy(d) THEN Max(Column(cs, "high")) - entry ELSE -(Min(Column(cs, "low")) - entry)

\* Mutant: a candle that reaches both barriers counts as a win.
resolveBarrierOutcomeTarget(d, stop, target, c) ==
  CASE (IF Buy(d) THEN c.high >= target ELSE c.low <= target) -> "TP"
    [] (IF Buy(d) THEN c.low <= stop ELSE c.high >= stop)     -> "SL"
    [] OTHER -> "none"

\* Both barriers in one candle count as the stop.
resolveBarrierOutcome(d, stop, target, c) ==
  LET stopHit == IF Buy(d) THEN c.low <= stop ELSE c.high >= stop
      targetHit == IF Buy(d) THEN c.high >= target ELSE c.low <= target IN
    CASE stopHit -> "SL" [] ~stopHit /\ targetHit -> "TP" [] OTHER -> "none"

\* managePosition decides by barriers of its own.
managedOutcome(d, stop, target, c) ==
  CASE Beyond(d, stop, Behind(d, c)) >= 0 -> "SL"
    [] Beyond(d, stop, Behind(d, c)) < 0 /\ Beyond(d, Ahead(d, c), target) >= 0 -> "TP"
    [] OTHER -> "none"

-----------------------------------------------------------------------------
(* Averages.                                                               *)

SumOf(s) == FoldSeq(LAMBDA x, sum : x + sum, 0, s)

\* ema times period * (period + 1) ^ (Len(values) - period)
EmaNumerator(values, period) ==
  FoldLeft(LAMBDA acc, v : [n |-> acc.n * (period - 1) + 2 * v * acc.scale,
                            scale |-> acc.scale * (period + 1)],
           [n |-> SumOf(SubSeq(values, 1, period)), scale |-> period],
           SubSeq(values, period + 1, Len(values)))

\* The exponential average of a is above that of b.
Above(a, b) == a.n * b.scale > b.n * a.scale

\* atr times its period
TrueRange(c, previousClose) ==
  Max({c.high - c.low, Abs(c.high - previousClose), Abs(c.low - previousClose)})
AtrTimesPeriod(cs, period) ==
  SumOf(LastOf([i \in 1 .. Len(cs) - 1 |-> TrueRange(cs[i + 1], cs[i].close)], period))

\* median times two
MedianTwice(s) ==
  LET ordered == SortSeq(s, <)
      middle == Len(s) \div 2 IN
    IF Len(s) % 2 = 0 THEN ordered[middle] + ordered[middle + 1] ELSE 2 * ordered[middle + 1]

\* directionalEfficiency is net / travelled
Net(cs)       == Abs(Last(cs).close - cs[1].close)
Travelled(cs) == SumOf([i \in 1 .. Len(cs) - 1 |-> Abs(cs[i + 1].close - cs[i].close)])

\* |a - b| in average ranges is min (hundredths) or more; range is period times one.
Exceeds(a, b, range, period, min) ==
  100 * Abs(a.n * b.scale - b.n * a.scale) * period >= min * range * a.scale * b.scale

\* The averages decide where they are apart and moving; the code throws on a
\* market that has no range.
detectMarketRegime(cs, fast, slow, atrPeriod, minSeparation, minSlope, slopeBars) ==
  LET closes == [i \in DOMAIN cs |-> cs[i].close]
      f == EmaNumerator(closes, fast)
      s == EmaNumerator(closes, slow)
      before == EmaNumerator(SubSeq(closes, 1, Len(cs) - slopeBars), fast)
      range == AtrTimesPeriod(cs, atrPeriod)
      clear == /\ range > 0
               /\ Exceeds(f, s, range, atrPeriod, minSeparation)
               /\ Exceeds(f, before, range, atrPeriod, minSlope * slopeBars) IN
    CASE clear /\ Above(f, s) /\ Above(f, before) -> "TREND_UP"
      [] clear /\ Above(s, f) /\ Above(before, f) -> "TREND_DOWN"
      [] OTHER -> "RANGE"

\* The shape of the candle; q holds the thresholds, in hundredths.
ShapeReasons(c, d, level, atr, q) ==
  LET range == c.high - c.low
      wick == Max({0, IF Buy(d) THEN c.high - Max({c.open, c.close}) ELSE Min({c.open, c.close}) - c.low}) IN
    {r \in {"WRONG_BODY_DIRECTION", "WEAK_BODY", "LARGE_REJECTION_WICK",
            "WEAK_CLOSE_BEYOND_LEVEL", "LOW_VOL_BREAKOUT", "HIGH_VOL_BREAKOUT"} :
       CASE r = "WRONG_BODY_DIRECTION"    -> Beyond(d, c.close, c.open) <= 0
         [] r = "WEAK_BODY"               -> 100 * Abs(c.close - c.open) < q.minBody * range
         [] r = "LARGE_REJECTION_WICK"    -> 100 * wick > q.maxWick * range
         [] r = "WEAK_CLOSE_BEYOND_LEVEL" -> 100 * Beyond(d, c.close, level) < q.minClose * atr
         [] r = "LOW_VOL_BREAKOUT"        -> 100 * range < q.minRange * atr
         [] r = "HIGH_VOL_BREAKOUT"       -> 100 * range > q.maxRange * atr}

\* The tick volume against the median of those before; a missing one is -1.
VolumeReasons(tick, before, minRatio) ==
  LET usable == SelectSeq(before, LAMBDA v : v > 0) IN
    CASE tick < 0 \/ usable = <<>> -> {"MISSING_TICK_VOLUME"}
      [] tick >= 0 /\ usable # <<>> /\ 200 * tick < minRatio * MedianTwice(usable) -> {"LOW_TICK_VOLUME"}
      [] OTHER -> {}

\* A breakout is accepted when there is no reason against it.
assessBreakoutQuality(c, d, level, atr, tick, before, q) ==
  IF c.high <= c.low \/ atr <= 0 THEN {"INVALID_RANGE"}
  ELSE ShapeReasons(c, d, level, atr, q) \cup VolumeReasons(tick, before, q.minVolume)
=============================================================================
