---------------------------- MODULE ReversalMath ----------------------------
(***************************************************************************)
(* The arithmetic of orders at the cTrader worker: how a volume is split   *)
(* over the targets of a news reversal (news-reversal-volume.ts), where    *)
(* the reversal is placed (news-reversal-state.ts), how a volume follows   *)
(* from a risk (ctrader-risk.ts), and the limits checked before an order   *)
(* (ctrader-execution.service.ts).                                         *)
(*                                                                         *)
(* Volumes are the broker's integer units, prices and distances integer    *)
(* points, money integer cents; a risk is in hundredths of a percent.  The *)
(* rounding of binary fractions is not modelled.                           *)
(***************************************************************************)
EXTENDS Integers, Sequences, FiniteSetsExt

Mode == {"MARKET", "STRADDLE", "MULTI", "NEWS_REVERSAL"}

\* Mutant: the remainder goes to the first legs and one leg too many.
SharesFirst(total, targets) ==
  [i \in 1 .. targets |-> total \div targets + IF i <= (total % targets) + 1 THEN 1 ELSE 0]

\* SPLIT_TOTAL in broker steps: the remainder goes to the last legs.
Shares(total, targets) ==
  [i \in 1 .. targets |->
     total \div targets + IF i > targets - (total % targets) THEN 1 ELSE 0]

\* The code throws where nothing is allocated here.
Allocates(requested, step, mode, targets) ==
  requested \div step >= IF mode = "FULL_EACH" THEN 1 ELSE targets

allocateNewsReversalVolume(requested, step, mode, targets) ==
  IF mode = "FULL_EACH" THEN [i \in 1 .. targets |-> (requested \div step) * step]
  ELSE [i \in 1 .. targets |-> Shares(requested \div step, targets)[i] * step]

Total(legs) == MapThenSumSet(LAMBDA i : legs[i], DOMAIN legs)

reversalTargetsAfter(closed, targets) == SubSeq(targets, 1, Len(targets) - closed)

fixedReversalPrice(direction, entry, stop, gap) ==
  IF direction = "BUY" THEN entry - (stop + gap) ELSE entry + (stop + gap)

StopLoss(direction, entry, stop) == IF direction = "BUY" THEN entry - stop ELSE entry + stop

-----------------------------------------------------------------------------
(* Risk.                                                                   *)

\* Both sides of a basket: the first level with its stop, the others with theirs.
BasketStops(count, stop, next) == 2 * (stop + (count - 1) * next)

\* start: the stops that count when a volume is derived from a risk
SizedStops(mode, count, stop, next) ==
  CASE mode = "MULTI"    -> BasketStops(count, stop, next)
    [] mode = "STRADDLE" -> 2 * stop
    [] OTHER             -> stop

\* Mutant: one stop for a whole basket.
CheckedStopsTwice(mode, count, stop, next, each) ==
  IF mode = "MULTI" THEN 2 * BasketStops(count, stop, next) ELSE stop

\* assertEstimatedRisk: the stops that count when the risk is checked
CheckedStops(mode, count, stop, next, each) ==
  CASE mode = "MULTI"                  -> BasketStops(count, stop, next)
    [] mode = "NEWS_REVERSAL" /\ each  -> 3 * stop
    [] OTHER                           -> stop

\* calculateRiskVolumeInCents, before the limits of the broker
RiskVolume(balance, risk, stops, step) == ((balance * risk) \div (stops * step)) * step

\* The loss at the stops is within the risk allowed.
WithinRisk(balance, risk, stops, volume) == volume * stops <= balance * risk
=============================================================================
