------------------------------- MODULE FanClamp -------------------------------
(***************************************************************************)
(* How every fan interface of the drivers keeps a requested speed out of   *)
(* the range between "off" and the lowest speed at which a fan reliably    *)
(* runs: a request below half of that speed becomes 0, one above it and    *)
(* below that speed becomes that speed.  The ioctls for Clevo and Uniwill  *)
(* devices turn a request at the very middle on, the hwmon drivers (NB05,  *)
(* TUXI) turn it off.  The C code divides from left to right, truncating.  *)
(***************************************************************************)
EXTENDS Integers

FAN_ON_MIN_SPEED_PERCENT == 25

FanOnMin(max)  == (FAN_ON_MIN_SPEED_PERCENT * max) \div 100
FanOnHalf(max) == ((FAN_ON_MIN_SPEED_PERCENT * max) \div 2) \div 100

\* W_CL_FANSPEED (max 0xff) and uw_set_fan (max 0xc8)
ClampStrict(speed, max) ==
    IF speed < FanOnHalf(max) THEN 0
    ELSE IF speed < FanOnMin(max) THEN FanOnMin(max)
    ELSE speed

\* the write functions of the NB05 and TUXI hwmon drivers
ClampInclusive(speed, max) ==
    IF speed <= FanOnHalf(max) THEN 0
    ELSE IF speed < FanOnMin(max) THEN FanOnMin(max)
    ELSE speed

\* What uw_set_fan writes for an accepted request: 1 instead of 0, because
\* the EC answers 0 by spinning the fan up for 3 minutes first.
NB02_FAN_SPEED_MAX == 200

UwTableSpeed(speed) ==
    LET s == ClampStrict(speed, NB02_FAN_SPEED_MAX)
    IN  IF s = 0 THEN 1 ELSE s

\* W_CL_FANSPEED: three speeds in the low bytes of a word.
NB01_FAN_SPEED_MAX == 255

ClevoSpeed(argument, shift) == ClampStrict((argument \div shift) % 256, NB01_FAN_SPEED_MAX)

ClevoFanArgument(argument) ==
    ClevoSpeed(argument, 1) + 256 * ClevoSpeed(argument, 256) + 65536 * ClevoSpeed(argument, 65536)
=============================================================================
