------------------------------- MODULE ClubTimes -------------------------------
(***************************************************************************)
(* What two services make of the same club subscriptions as time passes:   *)
(* subscription for the packet of the club (subscription/composers.go),    *)
(* catalog for that of the gifts (catalog/data.go).  Each has its own      *)
(* calculatePastTime.                                                      *)
(*                                                                         *)
(* Seconds are few: Minute, Day and GiftPeriod stand for 60, 86400 and     *)
(* 2678400 of them.  A quotient is exact before it is rounded.             *)
(***************************************************************************)
EXTENDS Integers, Sequences

CONSTANTS
  Minute, Day, GiftPeriod,
  Memberships,   \* the subscriptions of a user that are considered
  LastSecond     \* bound: the clock

ASSUME ClubAssumption ==
  /\ {Minute, Day, GiftPeriod} \subseteq Nat \ {0} /\ LastSecond \in Nat
  /\ Memberships \subseteq Seq([start : Nat, duration : Nat, active : BOOLEAN])

VARIABLES
  memberships,   \* the rows of users_subscriptions of type HABBO_CLUB
  now            \* time.Now()

clubVars == <<memberships, now>>

\* What the loops over the subscriptions add up.
SumOf(times) ==
  LET sum[k \in 0..Len(times)] == IF k = 0 THEN 0 ELSE sum[k - 1] + times[k]
  IN sum[Len(times)]
MinZero(n) == IF n < 0 THEN 0 ELSE n
Ceil(n, d) == -((-n) \div d)
\* int(...) of a quotient: towards zero.
Truncated(n, d) == IF n < 0 THEN -((-n) \div d) ELSE n \div d

\* subscription
GetRemaining(sub) == sub.start + sub.duration - now
PastTimes == [k \in 1..Len(memberships) |-> memberships[k].duration - GetRemaining(memberships[k])]
PastTime == SumOf(PastTimes)
IsValidSubscription(sub) == sub.active /\ GetRemaining(sub) > 0
Valid == {k \in 1..Len(memberships) : IsValidSubscription(memberships[k])}
\* The first that is valid.
CurrentSubscription == memberships[CHOOSE k \in Valid : \A l \in Valid : k <= l]
\* The days and minutes left: a day at least, if any time is.
CalculateDaysAndMinutes(remaining) ==
  LET days == remaining \div Day
      minutes == Ceil(remaining, Minute)
  IN [days |-> IF days < 1 /\ minutes > 0 THEN 1 ELSE days, minutes |-> minutes]
SubscriptionTime ==
  IF Valid = {} THEN [days |-> 0, minutes |-> 0]
  ELSE CalculateDaysAndMinutes(GetRemaining(CurrentSubscription))
PastVipDays == Truncated(PastTime, Day)

\* catalog
FlooredTimes ==
  [k \in 1..Len(memberships) |-> memberships[k].duration - MinZero(GetRemaining(memberships[k]))]
CalculatePastTime_NotFloored == SumOf(PastTimes)
CalculatePastTime == SumOf(FlooredTimes)
CalculateTotalGifts == Ceil(CalculatePastTime, GiftPeriod)
DaysTillNextGift == (CalculateTotalGifts * GiftPeriod - CalculatePastTime) \div Day
DaysAsHC == CalculatePastTime \div Day

ClubInit == memberships \in Memberships /\ now = 0

\* Memberships start, and time passes.
Tick ==
  /\ now < LastSecond
  /\ now' = now + 1
  /\ UNCHANGED memberships

ClubSpec == ClubInit /\ [][Tick]_clubVars

-----------------------------------------------------------------------------

Begun == \A k \in 1..Len(memberships) : memberships[k].start <= now
Expired == \E k \in 1..Len(memberships) : GetRemaining(memberships[k]) < 0
Paid == SumOf([k \in 1..Len(memberships) |-> memberships[k].duration])

\* The days of membership that the two services count are the same until a
\* subscription expires; then catalog counts no more than was paid for, while
\* subscription goes on counting.  A gift is never more than a period away, and
\* a member with time left is told of a day and a minute at least.
ClubTimesAgree ==
  Begun =>
    /\ ~Expired => PastVipDays = DaysAsHC
    /\ PastVipDays >= DaysAsHC /\ CalculatePastTime \in 0..Paid
    /\ DaysTillNextGift \in 0..(GiftPeriod \div Day)
    /\ Valid # {} => SubscriptionTime.days >= 1 /\ SubscriptionTime.minutes >= 1
==============================================================================
