----------------------------- MODULE HourMinutes -----------------------------
(***************************************************************************)
(* Durations written as hours and minutes, H.MM, and what the program      *)
(* computes with them.  A duration is a natural number of minutes.  It is  *)
(* stored as a Float, whose decimal text has lost the final zeros of the   *)
(* minutes: two hours are "2.0" in Java and "2" in JavaScript, an hour and *)
(* fifty minutes "1.5" in both.  The page of a plan and the entity add     *)
(* durations by taking these texts apart; the dashboard averages them by   *)
(* way of decimal hours, and drops zeros on the way.                       *)
(*                                                                         *)
(* A text is the whole hours and the digits behind the point.  Decimal     *)
(* hours are natural numbers of hundredths.  Durations are taken as Floats *)
(* write them: from 131072 hours on a Float has no two digits left for the *)
(* minutes.                                                                *)
(***************************************************************************)
EXTENDS Integers, Sequences, SequencesExt

Hours(m)   == m \div 60
Minutes(m) == m % 60

SumOf(ns) == FoldLeft(LAMBDA sum, n : sum + n, 0, ns)

(* What two digits stand for. *)
Value(digits) == digits[1] * 10 + digits[2]

-----------------------------------------------------------------------------
(* Sums: the entity and the page.                                          *)

(* Float.toString: one digit at least. *)
JavaDigits(m) ==
  IF Minutes(m) % 10 = 0 THEN <<Minutes(m) \div 10>>
  ELSE <<Minutes(m) \div 10, Minutes(m) % 10>>

(* Number.toString: no digit for whole hours. *)
ScriptDigits(m) == IF Minutes(m) = 0 THEN <<>> ELSE JavaDigits(m)

(* Mutant: a single digit is read as it is. *)
PadInFront(digits) == IF Len(digits) = 1 THEN <<0>> \o digits ELSE digits

(* while (minuteSt.length() < 2) minuteSt = minuteSt + "0" *)
PadBehind(digits) == IF Len(digits) = 1 THEN Append(digits, 0) ELSE digits

(* Mutant: what the last line of the function does to a single digit. *)
ScriptPadInFront(digits) == IF digits = <<>> THEN <<0, 0>> ELSE PadInFront(digits)

ScriptPad(digits) ==
  IF digits = <<>> THEN <<0, 0>>
  ELSE IF Len(digits) = 1 THEN Append(digits, 0) ELSE digits

Carried(hours, minutes) == <<hours + minutes \div 60, minutes % 60>>

(* Workplan.getWorkload *)
getWorkload(ms) ==
  Carried(SumOf([i \in DOMAIN ms |-> Hours(ms[i])]),
          SumOf([i \in DOMAIN ms |-> Value(PadBehind(JavaDigits(ms[i])))]))

(* workloadSum of the page *)
workloadSum(ms) ==
  Carried(SumOf([i \in DOMAIN ms |-> Hours(ms[i])]),
          SumOf([i \in DOMAIN ms |-> Value(ScriptPad(ScriptDigits(ms[i])))]))

(* The reference: the sum, as hours and minutes. *)
ExactSum(ms) == <<SumOf(ms) \div 60, SumOf(ms) % 60>>

-----------------------------------------------------------------------------
(* Averages: the dashboard.                                                *)

(* The number k is put behind the point without a leading zero: five       *)
(* stands for fifty.                                                       *)
Behind(k) == IF k < 10 THEN k * 10 ELSE k

(* What (int) makes of a quotient of doubles: where it is a whole number,  *)
(* rounding may leave it just below, unless all of it is exact in binary.  *)
Truncated(n, d, exact) ==
  {n \div d} \cup IF n % d = 0 /\ n > 0 /\ ~exact THEN {(n \div d) - 1} ELSE {}

(* Mutant: the formula of the other direction. *)
MinutesOfHundredths(m) == Truncated(Minutes(m) * 60, 100, FALSE)

HundredthsOfMinutes(m) == Truncated(Minutes(m) * 100, 60, FALSE)

(* Decimal hours of a duration, every outcome that the rounding may have. *)
datesTransformationForward(m) ==
  {Hours(m) * 100 + Behind(k) : k \in HundredthsOfMinutes(m)}

(* How far a total of n Floats may be off, in its own unit.  Each Float,   *)
(* each addition, the division and the text of its result are off by up to *)
(* a 2^24th part; what the doubles add to it is less than one more.        *)
Rounding(total, n) == 1 + (total * (n + 4)) \div 16777216

(* The whole minutes of the n-th part of a sum of decimal hours, as far as *)
(* the Floats on the way determine them.                                   *)
PartOf(sum, n, exact) ==
  LET total == 60 * sum
      off   == IF exact THEN 0 ELSE Rounding(total, n)
  IN  {m \in ((total - off) \div (100 * n))..((total + off) \div (100 * n)) : m >= 0}

(* Mutant: what exceeds an hour is carried. *)
CarriedBackward(sum, n, exact) ==
  {Carried(Hours(m), Behind(Minutes(m))) : m \in PartOf(sum, n, exact)}

(* The n-th part of a sum of decimal hours, as hours and what is shown     *)
(* behind the point.                                                       *)
datesTransformationBackward(sum, n, exact) ==
  {<<Hours(m), Behind(Minutes(m))>> : m \in PartOf(sum, n, exact)}

(* Quarters of an hour are exact in binary, up to 2^22 hours. *)
Quarters(hundredths) == hundredths % 25 = 0

AllQuarters(hs) ==
  /\ \A i \in DOMAIN hs : Quarters(hs[i])
  /\ SumOf(hs) % (25 * Len(hs)) = 0
  /\ SumOf(hs) < 419430400

Conversions(ms) ==
  FoldLeft(LAMBDA lists, m :
             {Append(hs, h) : hs \in lists, h \in datesTransformationForward(m)},
           {<<>>}, ms)

getAvarageWorkloads(ms) ==
  UNION {datesTransformationBackward(SumOf(hs), Len(ms), AllQuarters(hs)) :
         hs \in Conversions(ms)}
=============================================================================
