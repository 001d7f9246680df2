--------------------------- MODULE FmvConversion ---------------------------
(***************************************************************************)
(* The conversions of budgets/fmv.py: the price of a challenge, in the     *)
(* base units of its rail, becomes an amount in the minor units of the     *)
(* envelope's currency.  One conversion is made before the draw, rounded   *)
(* up and with a buffer, another for the trace, rounded to the nearest.    *)
(* Decimals are integers here: a rate is so many RateScale-ths.            *)
(***************************************************************************)
EXTENDS Integers

CONSTANTS
  RateScale,       \* the precision of the rates
  StableUnits,     \* 10**decimals of a stablecoin
  MinorPerMajor,   \* MINOR_PER_MAJOR
  OfflineRates,    \* _ECB_OFFLINE_FALLBACK, by pair of currencies
  None             \* no rate, no amount

ASSUME ScalesAssumption == RateScale \in Nat \ {0} /\ StableUnits \in Nat \ {0}
ASSUME TablesAssumption ==
  /\ None \notin Int
  /\ \A cur \in DOMAIN MinorPerMajor : MinorPerMajor[cur] \in Nat \ {0}
  /\ \A pair \in DOMAIN OfflineRates : OfflineRates[pair] \in Nat

(***************************************************************************)
(* A price names its kind of asset ("<iso>-fiat", a stablecoin and its     *)
(* peg, "btc-lightning", or an asset unknown to the registry), and its     *)
(* amount: minor units, token base units, satoshis.                        *)
(***************************************************************************)
Kinds == {"fiat", "stable", "sats", "other"}

Source(price) == IF price.kind = "sats" THEN "sats" ELSE price.currency

DividedUp(n, d) == (n + d - 1) \div d

(* ROUND_HALF_EVEN. *)
DividedHalfEven(n, d) ==
  LET low == n \div d
      rest == 2 * (n % d)
  IN IF rest > d \/ (rest = d /\ low % 2 = 1) THEN low + 1 ELSE low

SnapshotRate(src, dst, snapshot) ==
  IF <<src, dst>> \in DOMAIN snapshot THEN snapshot[<<src, dst>>] ELSE None

EcbRate(src, dst) ==
  IF src = dst THEN RateScale
  ELSE IF <<src, dst>> \in DOMAIN OfflineRates THEN OfflineRates[<<src, dst>>]
  ELSE None

(* _resolve_rate: the snapshot's rate, or the one of the offline table. *)
ResolvedRate(src, dst, snapshot) ==
  LET rate == SnapshotRate(src, dst, snapshot)
  IN IF rate # None THEN rate ELSE EcbRate(src, dst)

-----------------------------------------------------------------------------
(* Mutation: the amount is rounded to the nearest unit, not up. *)
WithBufferRounded(amount, units, rate, minor) ==
  IF rate = None THEN None
  ELSE DividedHalfEven(amount * rate * minor * 105, units * RateScale * 100)

(* _apply_rate_with_buffer, with FMV_BUFFER = 5 %. *)
WithBuffer(amount, units, rate, minor) ==
  IF rate = None THEN None
  ELSE DividedUp(amount * rate * minor * 105, units * RateScale * 100)

(* amount_to_envelope_minor_units, None where it raises. *)
EnvelopeAmount(price, env, snapshot) ==
  LET rate == ResolvedRate(Source(price), env, snapshot)
      minor == MinorPerMajor[env]
  IN CASE price.kind = "other" -> None
       [] price.kind = "fiat" /\ price.currency = env -> price.amount
       [] price.kind = "fiat" /\ price.currency # env ->
            WithBuffer(price.amount, 1, rate, 1)
       [] price.kind = "stable" /\ price.currency = env ->
            DividedUp(price.amount * minor, StableUnits)
       [] price.kind = "stable" /\ price.currency # env ->
            WithBuffer(price.amount, StableUnits, rate, minor)
       [] price.kind = "sats" -> WithBuffer(price.amount, 1, rate, minor)

Rounded(amount, units, rate, minor) ==
  IF rate = None THEN None
  ELSE DividedHalfEven(amount * rate * minor, units * RateScale)

(* Mutation: the buffer of the draw is applied to the trace as well. *)
TraceAmountBuffered(price, env, snapshot) ==
  LET amount == EnvelopeAmount(price, env, snapshot)
  IN IF amount = None THEN None ELSE DividedUp(amount * 105, 100)

(* fmv_for_trace, None where it reports "unavailable". *)
TraceAmount(price, env, snapshot) ==
  LET rate == SnapshotRate(Source(price), env, snapshot)
      minor == MinorPerMajor[env]
  IN CASE price.kind = "other" -> None
       [] price.kind = "fiat" /\ price.currency = env -> price.amount
       [] price.kind = "fiat" /\ price.currency # env ->
            Rounded(price.amount, 1, ResolvedRate(price.currency, env, snapshot), 1)
       [] price.kind = "stable" /\ price.currency = env ->
            Rounded(price.amount, StableUnits, RateScale, minor)
       [] price.kind = "stable" /\ price.currency # env ->
            Rounded(price.amount, StableUnits, rate, minor)
       [] price.kind = "sats" -> Rounded(price.amount, 1, rate, minor)

-----------------------------------------------------------------------------
(***************************************************************************)
(* What a price is worth in minor units of the envelope's currency: the    *)
(* reference that the conversions are compared with.  It is a fraction,    *)
(* Numerator over Denominator.                                             *)
(***************************************************************************)
UnitsPerMajor(price) ==
  CASE price.kind = "fiat" -> MinorPerMajor[price.currency]
    [] price.kind = "stable" -> StableUnits
    [] price.kind = "sats" -> 1

Numerator(price, env, snapshot) ==
  price.amount * ResolvedRate(Source(price), env, snapshot) * MinorPerMajor[env]

Denominator(price) == UnitsPerMajor(price) * RateScale
=============================================================================
