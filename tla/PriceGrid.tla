------------------------------ MODULE PriceGrid ------------------------------
(***************************************************************************)
(* Prices and sizes of the gateway (src/src/                               *)
(* hyperliquid_execution_gateway.cpp) and their wire format                *)
(* (floatToWire), on integers: a number x stands for x / 10^Scale.  The    *)
(* code computes with doubles, whose error is far below the eighth decimal *)
(* at which floatToWire rounds.                                            *)
(***************************************************************************)
EXTENDS Integers

CONSTANTS
  Scale,        \* decimals kept; large enough for a price after slippage
  SigFigs,      \* significant figures of a price (5)
  MaxDecimals   \* decimals of a price, less szDecimals (6)

ASSUME GridAssumption ==
  /\ {Scale, SigFigs, MaxDecimals} \subseteq Nat \ {0}
  /\ MaxDecimals + 2 <= Scale /\ Scale <= 8

Pow10[n \in Nat] == IF n = 0 THEN 1 ELSE 10 * Pow10[n - 1]

\* The distance of two numbers with d decimals.
StepOf(d) == Pow10[Scale - d]

\* std::round(x * 10^d) / 10^d of a number that is not negative.
RoundTo(x, step) == ((2 * x + step) \div (2 * step)) * step

\* std::floor(std::log10(px))
Magnitude(px) ==
  CHOOSE m \in -Scale .. px :
    Pow10[m + Scale] <= px /\ px < 10 * Pow10[m + Scale]

Clamp(d, low, high) == IF d < low THEN low ELSE IF d > high THEN high ELSE d
SmallerOf(a, b) == IF a < b THEN a ELSE b

AllowedDecimals(px, szDecimals) ==
  LET cap == MaxDecimals - szDecimals
  IN Clamp(IF px > 0 THEN SmallerOf(cap, SigFigs - 1 - Magnitude(px)) ELSE cap, 0, 8)

NormalizePrice(px, szDecimals) == RoundTo(px, StepOf(AllowedDecimals(px, szDecimals)))
NormalizeSize(qty, szDecimals) == RoundTo(qty, StepOf(szDecimals))

TickSize(refPx, szDecimals) == StepOf(AllowedDecimals(refPx, szDecimals))

\* A wire format whose zeros are stripped past the decimal point.
FloatToWireAllZeros(x) ==
  LET k == CHOOSE k \in 0..9 :
             x % Pow10[k] = 0 /\ \A j \in 0..9 : x % Pow10[j] = 0 => j <= k
  IN [digits |-> x \div Pow10[k], decimals |-> IF k > Scale THEN 0 ELSE Scale - k]

\* The shortest decimal string: its digits, and how many of them are decimals.
FloatToWire(x) ==
  LET d == CHOOSE d \in 0..Scale :
             x % StepOf(d) = 0 /\ \A e \in 0..Scale : x % StepOf(e) = 0 => d <= e
  IN [digits |-> x \div StepOf(d), decimals |-> d]

WireValue(wire) == wire.digits * StepOf(wire.decimals)

\* The venue: any whole number, or SigFigs figures with not too many decimals.
OnGrid(px, szDecimals) ==
  /\ px > 0
  /\ \/ px % StepOf(0) = 0
     \/ \E d \in 1 .. MaxDecimals - szDecimals :
          px % StepOf(d) = 0 /\ px \div StepOf(d) < Pow10[SigFigs]

=============================================================================
