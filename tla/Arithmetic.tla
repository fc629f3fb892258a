----------------------------- MODULE Arithmetic -----------------------------
(***************************************************************************)
(* Inputs for the arithmetic of orders and of the strategy, enumerated:    *)
(* the volumes and risks an order may have, and a market that closes one   *)
(* candle after the other.                                                 *)
(***************************************************************************)
EXTENDS ReversalMath, StrategyMath

CONSTANTS MaxVolume,   \* bound on volumes and balances
          MaxTargets,  \* bound on targets and on orders per side
          MaxPrice,    \* bound on prices
          MaxCandles   \* bound on the candles of a market

ASSUME ArithmeticAssumption == {MaxVolume, MaxTargets, MaxPrice, MaxCandles} \subseteq Nat \ {0}

VARIABLES order, candles

vars == <<order, candles>>

Direction == {"BUY", "SELL"}
Splits == [requested : 1 .. MaxVolume, step : 1 .. 3, targets : 1 .. MaxTargets]
Risks  == [mode : Mode \ {"NEWS_REVERSAL"}, balance : 1 .. MaxVolume, risk : 1 .. 3, step : 1 .. 2,
           stop : 1 .. 4, next : 1 .. 4, count : 1 .. MaxTargets]

None == [mode |-> "none"]

Init == order \in Splits \cup Risks \cup {None} /\ candles = <<>>

\* Without an order the market closes one more candle.
Closes ==
  /\ order = None /\ Len(candles) < MaxCandles
  /\ UNCHANGED order
  /\ \E c \in Candle(0, MaxPrice) : candles' = Append(candles, c)

Next == Closes
Spec == Init /\ [][Next]_vars

-----------------------------------------------------------------------------
(* Properties.                                                             *)

\* A split loses nothing but what is below the broker's step, gives every
\* target something, and no leg differs from another by more than one step.
SplitIsFair ==
  order \in Splits /\ Allocates(order.requested, order.step, "SPLIT_TOTAL", order.targets) =>
    LET legs == allocateNewsReversalVolume(order.requested, order.step, "SPLIT_TOTAL", order.targets) IN
      /\ Total(legs) <= order.requested /\ order.requested < Total(legs) + order.step
      /\ \A i, j \in DOMAIN legs : /\ legs[i] >= order.step
                                   /\ i <= j => legs[j] - legs[i] \in {0, order.step}

\* A volume derived from a risk passes the later check of that same risk in
\* every mode that may be sized by risk, and one more step would not be sized.
SizedPassesCheck ==
  order \in Risks =>
    LET stops == SizedStops(order.mode, order.count, order.stop, order.next)
        volume == RiskVolume(order.balance, order.risk, stops, order.step)
        checked == CheckedStops(order.mode, order.count, order.stop, order.next, FALSE) IN
      /\ WithinRisk(order.balance, order.risk, checked, volume)
      /\ ~WithinRisk(order.balance, order.risk, stops, volume + order.step)

Past    == Front(candles)
Current == Last(candles)
Prices  == 0 .. MaxPrice

\* The label of a candidate and the management of its position read a candle
\* alike: two places of the code decide the same barriers.
LabelsAgree ==
  candles # <<>> => \A d \in Direction, stop, target \in Prices :
    resolveBarrierOutcome(d, stop, target, Current) = managedOutcome(d, stop, target, Current)

-----------------------------------------------------------------------------
Mirror(c) == [open |-> MaxPrice - c.open, high |-> MaxPrice - c.low,
              low |-> MaxPrice - c.high, close |-> MaxPrice - c.close]
Mirrored(cs) == [i \in DOMAIN cs |-> Mirror(cs[i])]
Turned(regime) == CASE regime = "TREND_UP" -> "TREND_DOWN" [] regime = "TREND_DOWN" -> "TREND_UP"
                    [] OTHER -> regime

Quality == [minBody |-> 55, maxWick |-> 35, minClose |-> 5, minRange |-> 60, maxRange |-> 300, minVolume |-> 90]
Ticks   == <<1, 0, 2>>

\* Selling is buying in the mirror: every rule the code writes out once per
\* direction decides a market and its mirror image alike.
DirectionsMirror ==
  Len(candles) > 1 =>
    LET m == Mirror(Current)
        before == Mirrored(Past) IN
      /\ \A n \in 1 .. 2 : WaveTriggered("BUY", Past, Current, n) = WaveTriggered("SELL", before, m, n)
      /\ MfeTimesRisk("BUY", Current.close, Past) = MfeTimesRisk("SELL", m.close, before)
      /\ \A level \in Prices :
           LET mirrored == MaxPrice - level IN
             /\ M5Trigger("BUY", Last(Past), Current, level, 1) = M5Trigger("SELL", Last(before), m, mirrored, 1)
             /\ assessBreakoutQuality(Current, "BUY", level, 1, level - 1, Ticks, Quality)
                  = assessBreakoutQuality(m, "SELL", mirrored, 1, level - 1, Ticks, Quality)
             /\ \A other \in Prices :
                  /\ resolveBarrierOutcome("BUY", level, other, Current)
                       = resolveBarrierOutcome("SELL", mirrored, MaxPrice - other, m)
                  /\ confirmWaveMain("BUY", Current, level, other, 1)
                       = confirmWaveMain("SELL", m, mirrored, MaxPrice - other, 1)
                  /\ StopLoss("BUY", level, other) + StopLoss("SELL", mirrored, other) = MaxPrice
                  /\ fixedReversalPrice("BUY", level, 1, other)
                       + fixedReversalPrice("SELL", mirrored, 1, other) = MaxPrice
      /\ waveStop("BUY", Past, Current, 1, 2, 130) + waveStop("SELL", before, m, 1, 2, 130) = 100 * MaxPrice
      /\ Len(candles) > 2 => \A separation, slope \in {0, 30} :
           detectMarketRegime(Mirrored(candles), 1, 2, 2, separation, slope, 1)
             = Turned(detectMarketRegime(candles, 1, 2, 2, separation, slope, 1))
=============================================================================
