----------------------------- MODULE Transport ------------------------------
(***************************************************************************)
(* What a trip costs and where a point is shown: TransportPricingService   *)
(* and approximateCoordinates.  Lengths are in tenths of a kilometre,      *)
(* coordinates in ten-thousandths of a degree and money in its minor unit; *)
(* the code has floating-point numbers where the model has exact ones.     *)
(***************************************************************************)
EXTENDS Integers

TransportConfig ==
    [freeRadius: Nat, perKm: Nat, maxFee: Nat, speed: Nat \ {0}]

Tenths == 10

\* Math.round of n / d: a half goes up.
Round(n, d) == (2 * n + d) \div (2 * d)

EstimateTravelMinutes(distance, speed) == Round(distance * 60, Tenths * speed)

Billable(distance, config) ==
    IF distance > config.freeRadius THEN distance - config.freeRadius ELSE 0

\* What is beyond the free radius, times the price of a kilometre, at most the
\* maximal fee.
Fee(distance, config) ==
    LET uncapped == Round(Billable(distance, config) * config.perKm, Tenths) IN
    IF uncapped < config.maxFee THEN uncapped ELSE config.maxFee

BuildQuote(distance, minutes, config) ==
    [distance |-> distance, minutes |-> minutes, billable |-> Billable(distance, config),
     amount |-> Fee(distance, config), isFree |-> Fee(distance, config) = 0]

QuoteForDistance(distance, config) ==
    BuildQuote(distance, EstimateTravelMinutes(distance, config.speed), config)

\* The dev map provider, which quote asks for the time.
EstimateRoute(distance, config) ==
    [distance |-> distance, minutes |-> Round(distance * 60, Tenths * config.speed)]

\* The quote between two points that are this far apart.
Quote(distance, config) == BuildQuote(distance, EstimateRoute(distance, config).minutes, config)

\* Two decimals of a degree.
Cell == 100

Approximate(coordinate) == Cell * Round(coordinate, Cell)

ApproximateCoordinates(point) == [lat |-> Approximate(point.lat), lng |-> Approximate(point.lng)]
=============================================================================
