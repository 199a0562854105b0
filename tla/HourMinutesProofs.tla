--------------------------- MODULE HourMinutesProofs ---------------------------
(***************************************************************************)
(* Proofs about the arithmetic of HourMinutes, for any durations and any   *)
(* number of them.                                                         *)
(***************************************************************************)
EXTENDS HourMinutes, Sums, TLAPS

(* How the fold of SumOf adds. *)
Greatest(s) == CHOOSE x \in s : \A y \in s : x >= y

Adds(it, ns) == it = [s \in SUBSET DOMAIN ns |->
    IF s = {} THEN 0 ELSE it[s \ {Greatest(s)}] + ns[Greatest(s)]]

(* The fold that adds from left to right has the total. *)
LEMMA SumOfIsTotal ==
  ASSUME NEW n \in Nat, NEW ns \in [1..n -> Nat]
  PROVE  SumOf(ns) = Total(ns, 1..n) /\ SumOf(ns) \in Nat
<1>1. PICK D : D = 1..n
  OBVIOUS
<1>2. /\ IsFiniteSet(D) /\ D \subseteq Nat
      /\ DOMAIN ns = D /\ \A i \in D : ns[i] \in Nat
  <2>1. IsFiniteSet(1..n)
    BY FS_Interval
  <2> QED
    BY <1>1, <2>1
<1>3. PICK pick : pick = [s \in SUBSET D |-> Greatest(s)]
  OBVIOUS
<1>4. /\ \A s \in SUBSET D : pick[s] = Greatest(s)
      /\ \A s \in SUBSET D : s # {} => pick[s] \in s
  <2>1. \A s \in SUBSET D : pick[s] = Greatest(s)
    BY <1>3
  <2>2. ASSUME NEW s \in SUBSET D, s # {} PROVE Greatest(s) \in s
    <3>1. IsFiniteSet(s) /\ s \subseteq Nat
      BY <1>2, FS_Subset
    <3>2. PICK m \in s : \A y \in s : y <= m
      BY <2>2, <3>1, GreatestNatural
    <3>3. \A y \in s : m >= y
      BY <3>1, <3>2
    <3> QED
      BY <3>3 DEF Greatest
  <2> QED
    BY <2>1, <2>2
<1>5. ASSUME NEW g PROVE Adds(g, ns) <=> IsFold(g, ns, pick, D)
  <2>1. ASSUME NEW s \in SUBSET D
        PROVE  (IF s = {} THEN 0 ELSE g[s \ {Greatest(s)}] + ns[Greatest(s)])
               = AddPicked(ns, pick, g, s)
    BY <1>4 DEF AddPicked
  <2> QED
    BY <1>2, <2>1, Zenon DEF Adds, IsFold
<1>6. SumOf(ns) = (CHOOSE it : Adds(it, ns))[D]
  <2>1. SumOf(ns) = (CHOOSE it : Adds(it, ns))[DOMAIN ns]
    BY DEF SumOf, FoldLeft, MapThenFoldSet, Max, Adds, Greatest
  <2> QED
    BY <1>2, <2>1
<1>7. PICK g : g = (CHOOSE it : Adds(it, ns)) /\ Adds(g, ns)
  <2>1. PICK it : IsFold(it, ns, pick, D)
    BY <1>2, <1>4, SumFoldExists
  <2>2. Adds(it, ns)
    BY <1>5, <2>1
  <2> QED
    BY <2>2
<1>8. IsSum(g, ns, D)
  <2>1. IsFold(g, ns, pick, D)
    BY <1>5, <1>7
  <2> QED
    BY <1>2, <1>4, <2>1, FoldIsSum
<1>9. Total(ns, D) = g[D] /\ Total(ns, D) \in Nat
  BY <1>2, <1>8, TotalIsSum, TotalStep
<1> QED
  BY <1>1, <1>6, <1>7, <1>9

-----------------------------------------------------------------------------
(* The digits of the minutes.                                              *)

LEMMA HoursAndMinutes ==
  ASSUME NEW m \in Nat
  PROVE  /\ Hours(m) \in Nat /\ Minutes(m) \in Nat /\ Minutes(m) \in 0..59
         /\ m = 60 * Hours(m) + Minutes(m)
BY DEF Hours, Minutes

(* However many zeros the text has lost, both ways of filling it up again  *)
(* give the minutes.                                                       *)
LEMMA DigitsAreMinutes ==
  ASSUME NEW m \in Nat
  PROVE  /\ Value(PadBehind(JavaDigits(m))) = Minutes(m)
         /\ Value(ScriptPad(ScriptDigits(m))) = Minutes(m)
<1>1. PICK k : k = Minutes(m) /\ k \in 0..59
  BY HoursAndMinutes
<1>2. PICK tens, ones : /\ tens = k \div 10 /\ ones = k % 10
                        /\ tens \in Nat /\ ones \in Nat /\ k = tens * 10 + ones
  BY <1>1
<1>3. CASE ones = 0
  <2>1. JavaDigits(m) = <<tens>>
    BY <1>1, <1>2, <1>3 DEF JavaDigits
  <2>2. PICK d : d = <<tens>>
    OBVIOUS
  <2>3. Len(d) = 1 /\ d # <<>> /\ Append(d, 0)[1] = tens /\ Append(d, 0)[2] = 0
    BY <2>2
  <2>4. PadBehind(d) = Append(d, 0) /\ ScriptPad(d) = Append(d, 0)
    BY <2>3 DEF PadBehind, ScriptPad
  <2>5. Value(Append(d, 0)) = k
    BY <1>2, <1>3, <2>3 DEF Value
  <2>6. CASE k = 0
    <3>1. ScriptDigits(m) = <<>>
      BY <1>1, <2>6 DEF ScriptDigits
    <3>2. ScriptPad(<<>>) = <<0, 0>>
      BY DEF ScriptPad
    <3>3. Value(<<0, 0>>) = 0
      BY DEF Value
    <3> QED
      BY <1>1, <2>1, <2>2, <2>4, <2>5, <2>6, <3>1, <3>2, <3>3
  <2>7. CASE k # 0
    <3>1. ScriptDigits(m) = d
      BY <1>1, <2>1, <2>2, <2>7 DEF ScriptDigits
    <3> QED
      BY <1>1, <2>1, <2>2, <2>4, <2>5, <3>1
  <2> QED
    BY <2>6, <2>7
<1>4. CASE ones # 0
  <2>1. PICK d : d = <<tens, ones>>
    OBVIOUS
  <2>2. JavaDigits(m) = d /\ ScriptDigits(m) = d
    <3>1. k # 0
      BY <1>2, <1>4
    <3>2. JavaDigits(m) = d
      BY <1>1, <1>2, <1>4, <2>1 DEF JavaDigits
    <3> QED
      BY <1>1, <3>1, <3>2 DEF ScriptDigits
  <2>3. Len(d) = 2 /\ d # <<>> /\ d[1] = tens /\ d[2] = ones
    BY <2>1
  <2>4. PadBehind(d) = d /\ ScriptPad(d) = d
    BY <2>3 DEF PadBehind, ScriptPad
  <2>5. Value(d) = k
    BY <1>2, <2>3 DEF Value
  <2> QED
    BY <1>1, <2>2, <2>4, <2>5
<1> QED
  BY <1>3, <1>4

-----------------------------------------------------------------------------
(* Sums of durations.                                                      *)

(* The entity and the script of the page compute the exact sum of any      *)
(* number of durations, although each takes other texts of them apart.     *)
THEOREM SumsAreExact ==
  ASSUME NEW n \in Nat, NEW ms \in [1..n -> Nat]
  PROVE  getWorkload(ms) = ExactSum(ms) /\ workloadSum(ms) = ExactSum(ms)
<1>1. PICK hs, ks : /\ hs = [i \in DOMAIN ms |-> Hours(ms[i])]
                    /\ ks = [i \in DOMAIN ms |-> Minutes(ms[i])]
  OBVIOUS
<1>2. /\ DOMAIN ms = 1..n
      /\ hs \in [1..n -> Nat] /\ ks \in [1..n -> Nat]
      /\ \A i \in 1..n : ms[i] = 60 * hs[i] + ks[i]
  <2>1. ASSUME NEW i \in 1..n
        PROVE  /\ Hours(ms[i]) \in Nat /\ Minutes(ms[i]) \in Nat
               /\ ms[i] = 60 * Hours(ms[i]) + Minutes(ms[i])
    <3>1. PICK m \in Nat : m = ms[i]
      OBVIOUS
    <3>2. Hours(m) \in Nat /\ Minutes(m) \in Nat /\ m = 60 * Hours(m) + Minutes(m)
      BY HoursAndMinutes
    <3> QED
      BY <3>1, <3>2
  <2>2. DOMAIN ms = 1..n
    OBVIOUS
  <2>3. \A i \in 1..n : hs[i] = Hours(ms[i]) /\ ks[i] = Minutes(ms[i])
    BY <1>1, <2>2
  <2>4. hs \in [1..n -> Nat]
    BY <1>1, <2>1, <2>2
  <2>5. ks \in [1..n -> Nat]
    BY <1>1, <2>1, <2>2
  <2> QED
    BY <2>1, <2>2, <2>3, <2>4, <2>5
<1>3. /\ [i \in DOMAIN ms |-> Value(PadBehind(JavaDigits(ms[i])))] = ks
      /\ [i \in DOMAIN ms |-> Value(ScriptPad(ScriptDigits(ms[i])))] = ks
  BY <1>1, <1>2, DigitsAreMinutes
<1>4. SumOf(hs) \in Nat /\ SumOf(ks) \in Nat /\ SumOf(ms) = 60 * SumOf(hs) + SumOf(ks)
  <2>1. /\ SumOf(hs) = Total(hs, 1..n) /\ SumOf(hs) \in Nat
        /\ SumOf(ks) = Total(ks, 1..n) /\ SumOf(ks) \in Nat
        /\ SumOf(ms) = Total(ms, 1..n)
    BY <1>2, SumOfIsTotal
  <2>2. IsFiniteSet(1..n)
    BY FS_Interval
  <2>3. \A i \in 1..n : hs[i] \in Nat /\ ks[i] \in Nat /\ ms[i] = 60 * hs[i] + ks[i]
    BY <1>2
  <2>4. Total(ms, 1..n) = 60 * Total(hs, 1..n) + Total(ks, 1..n)
    <3>1. PICK D : D = 1..n
      OBVIOUS
    <3> QED
      BY <2>2, <2>3, <3>1, TotalLinear
  <2> QED
    BY <2>1, <2>4
<1>5. SumOf(ms) \div 60 = SumOf(hs) + SumOf(ks) \div 60 /\ SumOf(ms) % 60 = SumOf(ks) % 60
  <2>1. PICK a, b, c : a = SumOf(hs) /\ b = SumOf(ks) /\ c = SumOf(ms)
    OBVIOUS
  <2>2. a \in Nat /\ b \in Nat /\ c = 60 * a + b
    BY <1>4, <2>1
  <2>3. c \div 60 = a + (b \div 60) /\ c % 60 = b % 60
    BY <2>2
  <2> QED
    BY <2>1, <2>3
<1>6. getWorkload(ms) = Carried(SumOf(hs), SumOf(ks))
      /\ workloadSum(ms) = Carried(SumOf(hs), SumOf(ks))
  BY <1>1, <1>3 DEF getWorkload, workloadSum
<1> QED
  BY <1>5, <1>6 DEF Carried, ExactSum

-----------------------------------------------------------------------------
(* Averages of durations.                                                  *)

LEMMA Division ==
  ASSUME NEW x \in Nat, NEW d \in Nat \ {0}
  PROVE  /\ x \div d \in Nat /\ x % d \in 0..(d - 1)
         /\ x = d * (x \div d) + (x % d)
OBVIOUS

(* What the truncation of a quotient yields is the quotient or, of a whole *)
(* number, one less.                                                       *)
LEMMA TruncatedBounds ==
  ASSUME NEW x \in Nat, NEW d \in Nat \ {0}, NEW exact, NEW q \in Truncated(x, d, exact)
  PROVE  /\ q \in Nat
         /\ \/ q = x \div d /\ x = d * q + (x % d) /\ x % d \in 0..(d - 1)
            \/ ~exact /\ x > 0 /\ x = d * (q + 1)
<1>0. PICK p, r : p = x \div d /\ r = x % d
  OBVIOUS
<1>1. /\ p = x \div d /\ r = x % d
      /\ p \in Nat /\ r \in 0..(d - 1) /\ x = d * p + r
  BY <1>0, Division
<1>2. CASE q = p
  BY <1>1, <1>2
<1>3. CASE r = 0 /\ x > 0 /\ ~exact /\ q = p - 1
  <2>1. p # 0
    <3>1. d * 0 = 0
      OBVIOUS
    <3> QED
      BY <1>1, <1>3, <3>1
  <2>2. q \in Nat /\ q + 1 = p
    BY <1>1, <1>3, <2>1
  <2> QED
    BY <1>1, <1>3, <2>2
<1> QED
  BY <1>1, <1>2, <1>3 DEF Truncated

(* The hundredths of an hour of m minutes fall short of them by less than  *)
(* a minute, before zeros are lost; they have two digits from seven        *)
(* minutes on.                                                             *)
LEMMA HundredthsBounds ==
  ASSUME NEW m \in Nat, NEW q \in HundredthsOfMinutes(m)
  PROVE  /\ q \in 0..98
         /\ 60 * q <= 100 * Minutes(m) /\ 100 * Minutes(m) <= 60 * q + 60
         /\ Minutes(m) = 0 => q = 0
         /\ Minutes(m) >= 7 => q >= 10
<1>0. PICK k, x : k = Minutes(m) /\ x = k * 100
  OBVIOUS
<1>1. k = Minutes(m) /\ k \in 0..59 /\ x = k * 100 /\ x \in Nat
  <2>1. k \in 0..59
    BY <1>0, HoursAndMinutes
  <2> QED
    BY <1>0, <2>1
<1>2. q \in Truncated(x, 60, FALSE)
  BY <1>1 DEF HundredthsOfMinutes
<1>3. /\ q \in Nat
      /\ \/ x = 60 * q + (x % 60) /\ x % 60 \in 0..59
         \/ x > 0 /\ x = 60 * (q + 1)
  <2>1. PICK d, exact : d = 60 /\ exact = FALSE
    OBVIOUS
  <2>2. d \in Nat \ {0} /\ q \in Truncated(x, d, exact)
    <3>1. d \in Nat \ {0}
      BY <2>1
    <3> QED
      BY <1>2, <2>1, <3>1
  <2>3. /\ q \in Nat
        /\ \/ x = d * q + (x % d) /\ x % d \in 0..(d - 1)
           \/ x > 0 /\ x = d * (q + 1)
    <3>1. x \in Nat
      BY <1>1
    <3> QED
      BY <2>1, <2>2, <3>1, TruncatedBounds
  <2> QED
    BY <2>1, <2>3
<1>4. /\ q \in 0..98 /\ 60 * q <= 100 * k /\ 100 * k <= 60 * q + 60
      /\ k = 0 => q = 0
      /\ k >= 7 => q >= 10
  <2>1. CASE x = 60 * q + (x % 60) /\ x % 60 \in 0..59
    <3>1. PICK y \in 0..59 : x = 60 * q + y
      BY <2>1
    <3>2. q \in Nat /\ k \in 0..59 /\ k * 100 = 60 * q + y
      BY <1>1, <1>3, <3>1
    <3> QED
      BY <3>2
  <2>2. CASE x > 0 /\ x = 60 * (q + 1)
    BY <1>1, <1>3, <2>2
  <2> QED
    BY <1>3, <2>1, <2>2
<1> QED
  BY <1>1, <1>4

(* A conversion to decimal hours keeps the hours, whatever happens to the  *)
(* minutes, and what it puts behind them is nothing or ten hundredths at   *)
(* least; without one to six minutes past the hour it is less than a       *)
(* minute short.                                                           *)
LEMMA ForwardBounds ==
  ASSUME NEW m \in Nat, NEW h \in datesTransformationForward(m)
  PROVE  /\ h \in Nat
         /\ h = 100 * Hours(m) \/ h >= 100 * Hours(m) + 10
         /\ h <= 100 * Hours(m) + 98
         /\ Minutes(m) \notin 1..6 => 60 * h <= 100 * m /\ 100 * m <= 60 * h + 60
<1>1. PICK q \in HundredthsOfMinutes(m) : h = Hours(m) * 100 + Behind(q)
  BY DEF datesTransformationForward
<1>0. PICK hour, k : hour = Hours(m) /\ k = Minutes(m)
  OBVIOUS
<1>2. hour = Hours(m) /\ k = Minutes(m) /\ hour \in Nat /\ k \in 0..59 /\ m = 60 * hour + k
  BY <1>0, HoursAndMinutes
<1>3. /\ q \in 0..98
      /\ 60 * q <= 100 * k /\ 100 * k <= 60 * q + 60
      /\ k = 0 => q = 0
      /\ k >= 7 => q >= 10
  BY <1>2, HundredthsBounds
<1>4. PICK b : /\ h = hour * 100 + b
               /\ (q < 10 /\ b = q * 10) \/ (q >= 10 /\ b = q)
  <2>1. h = hour * 100 + Behind(q)
    BY <1>1, <1>2
  <2>2. (q < 10 /\ Behind(q) = q * 10) \/ (q >= 10 /\ Behind(q) = q)
    BY <1>3 DEF Behind
  <2> QED
    BY <2>1, <2>2
<1>5. b \in 0..98 /\ (b = 0 \/ b >= 10) /\ (k \notin 1..6 => b = q)
  <2>1. CASE q < 10 /\ b = q * 10
    BY <1>2, <1>3, <2>1
  <2>2. CASE q >= 10 /\ b = q
    BY <1>3, <2>2
  <2> QED
    BY <1>4, <2>1, <2>2
<1>6. /\ h \in Nat
      /\ h = 100 * hour \/ h >= 100 * hour + 10
      /\ h <= 100 * hour + 98
  <2>1. h = hour * 100 + b /\ hour \in Nat /\ b \in 0..98 /\ (b = 0 \/ b >= 10)
    BY <1>2, <1>4, <1>5
  <2> QED
    BY <2>1
<1>7. ASSUME k \notin 1..6 PROVE 60 * h <= 100 * m /\ 100 * m <= 60 * h + 60
  <2>1. h = hour * 100 + q /\ m = 60 * hour + k
    BY <1>2, <1>4, <1>5, <1>7
  <2>2. hour \in Nat /\ q \in Nat /\ k \in Nat
    BY <1>2, <1>3
  <2> QED
    BY <1>3, <2>1, <2>2
<1> QED
  BY <1>2, <1>6, <1>7

(* How the fold of Conversions lists them. *)
Extended(lists, m) == {Append(hs, h) : hs \in lists, h \in datesTransformationForward(m)}

Converts(it, ms) == it = [s \in SUBSET DOMAIN ms |->
    IF s = {} THEN {<<>>} ELSE Extended(it[s \ {Greatest(s)}], ms[Greatest(s)])]

(* The conversions are defined, and those of a list without its last       *)
(* duration are the first parts of those of all of it.                     *)
LEMMA ConversionsFold ==
  ASSUME NEW n \in Nat, NEW ms \in [1..n -> Nat]
  PROVE  \E g : Conversions(ms) = g[1..n] /\ Converts(g, ms)
<1>1. PICK D : D = 1..n
  OBVIOUS
<1>2. /\ IsFiniteSet(D) /\ D \subseteq Nat
      /\ DOMAIN ms = D /\ \A i \in D : ms[i] \in Nat
  <2>1. IsFiniteSet(1..n)
    BY FS_Interval
  <2> QED
    BY <1>1, <2>1
<1>3. PICK pick : pick = [s \in SUBSET D |-> Greatest(s)]
  OBVIOUS
<1>4. /\ \A s \in SUBSET D : pick[s] = Greatest(s)
      /\ \A s \in SUBSET D : s # {} => pick[s] \in s
  <2>1. \A s \in SUBSET D : pick[s] = Greatest(s)
    BY <1>3
  <2>2. ASSUME NEW s \in SUBSET D, s # {} PROVE Greatest(s) \in s
    <3>1. IsFiniteSet(s) /\ s \subseteq Nat
      BY <1>2, FS_Subset
    <3>2. PICK m \in s : \A y \in s : y <= m
      BY <2>2, <3>1, GreatestNatural
    <3>3. \A y \in s : m >= y
      BY <3>1, <3>2
    <3> QED
      BY <3>3 DEF Greatest
  <2> QED
    BY <2>1, <2>2
<1>5. PICK next, Values : /\ Values = SUBSET Seq(Nat)
                          /\ next = [pair \in D \X Values |-> Extended(pair[2], ms[pair[1]])]
  OBVIOUS
<1>6. \A x \in D : \A v \in Values : /\ next[<<x, v>>] = Extended(v, ms[x])
                                     /\ next[<<x, v>>] \in Values
  <2>1. TAKE x \in D
  <2>2. TAKE v \in Values
  <2>3. next[<<x, v>>] = Extended(v, ms[x])
    BY <1>5
  <2>4. Extended(v, ms[x]) \in Values
    <3>1. ASSUME NEW hs \in v, NEW h \in datesTransformationForward(ms[x])
          PROVE  Append(hs, h) \in Seq(Nat)
      <4>1. hs \in Seq(Nat)
        BY <1>5
      <4>2. h \in Nat
        BY <1>2, ForwardBounds
      <4> QED
        BY <4>1, <4>2
    <3>2. ASSUME NEW e \in Extended(v, ms[x]) PROVE e \in Seq(Nat)
      <4>1. PICK hs \in v, h \in datesTransformationForward(ms[x]) : e = Append(hs, h)
        BY DEF Extended
      <4> QED
        BY <3>1, <4>1
    <3>3. Extended(v, ms[x]) \in SUBSET Seq(Nat)
      BY <3>2
    <3> QED
      BY <1>5, <3>3
  <2> QED
    BY <2>3, <2>4
<1>7. PICK base : base = {<<>>} /\ base \in Values
  <2>1. <<>> \in Seq(Nat)
    OBVIOUS
  <2> QED
    BY <1>5, <2>1
<1>8. PICK g : IsFoldOf(g, base, next, pick, D)
  BY <1>2, <1>4, FoldExists
<1>9. g = [s \in SUBSET D |-> g[s]] /\ \A s \in SUBSET D : g[s] = FoldStep(base, next, pick, g, s)
  BY <1>8 DEF IsFoldOf
<1> DEFINE G == {s \in SUBSET D : g[s] \in Values}
<1>10. SUBSET D \subseteq G
  <2>1. {} \in G
    <3>1. g[{}] = FoldStep(base, next, pick, g, {})
      BY <1>9
    <3> QED
      BY <1>7, <3>1 DEF FoldStep
  <2>2. ASSUME NEW T \in SUBSET D, T # {}, \A x \in T : T \ {x} \in G
        PROVE  T \in G
    <3>1. pick[T] \in T /\ g[T] = next[<<pick[T], g[T \ {pick[T]}]>>]
      BY <1>4, <1>9, <2>2 DEF FoldStep
    <3>2. g[T \ {pick[T]}] \in Values /\ pick[T] \in D
      BY <2>2, <3>1
    <3> QED
      BY <1>6, <3>1, <3>2
  <2> HIDE DEF G
  <2> QED
    BY <1>2, <2>1, <2>2, SubsetsOf
<1>11. ASSUME NEW s \in SUBSET D
       PROVE  g[s] = IF s = {} THEN {<<>>} ELSE Extended(g[s \ {Greatest(s)}], ms[Greatest(s)])
  <2>1. CASE s = {}
    BY <1>7, <1>9, <2>1 DEF FoldStep
  <2>2. CASE s # {}
    <3>1. pick[s] = Greatest(s) /\ pick[s] \in s /\ pick[s] \in D
      BY <1>4, <2>2
    <3>2. g[s] = next[<<pick[s], g[s \ {pick[s]}]>>]
      BY <1>9, <2>2 DEF FoldStep
    <3>3. g[s \ {pick[s]}] \in Values
      BY <1>10
    <3> QED
      BY <1>6, <2>2, <3>1, <3>2, <3>3
  <2> QED
    BY <2>1, <2>2
<1>12. Converts(g, ms)
  BY <1>2, <1>9, <1>11, Zenon DEF Converts
<1>13. Conversions(ms) = (CHOOSE it : Converts(it, ms))[D]
  <2>1. Conversions(ms) = (CHOOSE it : Converts(it, ms))[DOMAIN ms]
    BY DEF Conversions, FoldLeft, MapThenFoldSet, Max, Converts, Extended, Greatest
  <2> QED
    BY <1>2, <2>1
<1>14. PICK it : it = (CHOOSE h : Converts(h, ms)) /\ Converts(it, ms)
  BY <1>12
<1> QED
  BY <1>1, <1>13, <1>14

(* A conversion of a list is a list of conversions. *)
LEMMA ConversionsTyped ==
  ASSUME NEW n \in Nat, NEW ms \in [1..n -> Nat], NEW hs \in Conversions(ms)
  PROVE  /\ hs \in [1..n -> Nat]
         /\ \A i \in 1..n : hs[i] \in datesTransformationForward(ms[i])
<1>1. PICK g : Conversions(ms) = g[1..n] /\ Converts(g, ms)
  BY ConversionsFold
<1>2. ASSUME NEW s \in SUBSET (1..n)
      PROVE  g[s] = IF s = {} THEN {<<>>} ELSE Extended(g[s \ {Greatest(s)}], ms[Greatest(s)])
  <2>1. DOMAIN ms = 1..n
    OBVIOUS
  <2> QED
    BY <1>1, <2>1 DEF Converts
<1> DEFINE Listed(k, es) == /\ es \in Seq(Nat) /\ Len(es) = k
                            /\ \A i \in 1..k : es[i] \in datesTransformationForward(ms[i])
           G == {k \in Nat : k <= n => \A es \in g[1..k] : Listed(k, es)}
<1>3. 0 \in G
  <2>1. 1..0 = {} /\ g[{}] = {<<>>}
    <3>1. 1..0 = {}
      OBVIOUS
    <3>2. {} \in SUBSET (1..n)
      OBVIOUS
    <3> QED
      BY <1>2, <3>1, <3>2
  <2>2. <<>> \in Seq(Nat) /\ Len(<<>>) = 0
    OBVIOUS
  <2> QED
    BY <2>1, <2>2
<1>4. ASSUME NEW k \in Nat, k \in G PROVE k + 1 \in G
  <2>1. SUFFICES ASSUME k + 1 <= n, NEW es \in g[1..(k + 1)] PROVE Listed(k + 1, es)
    OBVIOUS
  <2>2. /\ 1..(k + 1) \in SUBSET (1..n) /\ 1..(k + 1) # {}
        /\ (1..(k + 1)) \ {k + 1} = 1..k
    <3>1. \A i \in 1..(k + 1) : i \in 1..n
      BY <2>1
    <3>2. k + 1 \in 1..(k + 1)
      OBVIOUS
    <3>3. (1..(k + 1)) \ {k + 1} = 1..k
      OBVIOUS
    <3> QED
      BY <3>1, <3>2, <3>3
  <2>3. Greatest(1..(k + 1)) = k + 1
    <3>1. k + 1 \in 1..(k + 1) /\ \A y \in 1..(k + 1) : k + 1 >= y
      OBVIOUS
    <3>2. \A x \in 1..(k + 1) : (\A y \in 1..(k + 1) : x >= y) => x = k + 1
      BY <3>1
    <3> QED
      BY <3>1, <3>2 DEF Greatest
  <2>4. es \in Extended(g[1..k], ms[k + 1])
    BY <1>2, <2>1, <2>2, <2>3
  <2>5. PICK fs \in g[1..k], h \in datesTransformationForward(ms[k + 1]) : es = Append(fs, h)
    BY <2>4 DEF Extended
  <2>6. Listed(k, fs)
    BY <1>4, <2>1
  <2>7. h \in Nat
    <3>1. ms[k + 1] \in Nat
      BY <2>1
    <3> QED
      BY <3>1, ForwardBounds
  <2>8. /\ es \in Seq(Nat) /\ Len(es) = k + 1 /\ es[k + 1] = h
        /\ \A i \in 1..k : es[i] = fs[i]
    BY <2>5, <2>6, <2>7
  <2>9. ASSUME NEW i \in 1..(k + 1) PROVE es[i] \in datesTransformationForward(ms[i])
    <3>1. CASE i = k + 1
      BY <2>8, <3>1
    <3>2. CASE i \in 1..k
      BY <2>6, <2>8, <3>2
    <3> QED
      BY <3>1, <3>2
  <2> QED
    BY <2>8, <2>9
<1>5. Listed(n, hs)
  <2>1. Nat \subseteq G
    <3> HIDE DEF G
    <3> QED
      BY <1>3, <1>4, NaturalsOf
  <2> QED
    BY <1>1, <2>1
<1> QED
  BY <1>5

(* A multiple leaves no rest. *)
LEMMA Multiples ==
  ASSUME NEW d \in Nat \ {0}, NEW y \in Nat
  PROVE  (d * y) % d = 0
<1>1. PICK x : x = d * y /\ x \in Nat
  OBVIOUS
<1>2. PICK p, r : p = x \div d /\ r = x % d
  OBVIOUS
<1>3. p \in Nat /\ r \in 0..(d - 1) /\ x = d * p + r
  BY <1>1, <1>2, Division
<1>4. d * (p + 1) = d * p + d /\ d * (y + 1) = d * y + d /\ d * p \in Nat
  BY <1>3
<1>5. d * y < d * (p + 1) /\ d * p < d * (y + 1)
  BY <1>1, <1>3, <1>4
<1>6. y <= p /\ p <= y
  BY <1>3, <1>5, Factors
<1>7. p = y
  BY <1>3, <1>6
<1>8. r = 0
  BY <1>1, <1>3, <1>7
<1> QED
  BY <1>1, <1>2, <1>8

-----------------------------------------------------------------------------
(* Sums of Floats.                                                         *)

LEMMA WholeDivision ==
  ASSUME NEW x \in Int, NEW d \in Nat \ {0}
  PROVE  /\ x \div d \in Int /\ x % d \in 0..(d - 1)
         /\ x = d * (x \div d) + (x % d)
OBVIOUS

(* A larger total is rounded no less. *)
LEMMA RoundingGrows ==
  ASSUME NEW n \in Nat \ {0}, NEW a \in Nat, NEW b \in Nat, a <= b
  PROVE  Rounding(a, n) \in Nat /\ Rounding(b, n) \in Nat /\ Rounding(a, n) <= Rounding(b, n)
<1>1. PICK k, c, x, y : k = n + 4 /\ c = 16777216 /\ x = a * k /\ y = b * k
  OBVIOUS
<1>2. k \in Nat /\ c \in Nat \ {0} /\ x \in Nat /\ y \in Nat /\ x <= y
  <2>1. k \in Nat /\ c \in Nat \ {0}
    BY <1>1
  <2>2. k * a <= k * b /\ k * a \in Nat /\ k * b \in Nat
    BY <2>1, Products
  <2>3. k * a = a * k /\ k * b = b * k
    BY <2>1
  <2> QED
    BY <1>1, <2>1, <2>2, <2>3
<1>3. PICK p, q, r, t : p = x \div c /\ r = x % c /\ q = y \div c /\ t = y % c
  OBVIOUS
<1>4. /\ p \in Nat /\ r \in 0..(c - 1) /\ x = c * p + r
      /\ q \in Nat /\ t \in 0..(c - 1) /\ y = c * q + t
  BY <1>2, <1>3, Division
<1>5. c * p < c * (q + 1)
  <2>1. c * (q + 1) = c * q + c /\ c * p \in Nat /\ c * q \in Nat
    BY <1>2, <1>4
  <2> QED
    BY <1>2, <1>4, <2>1
<1>6. p <= q
  BY <1>2, <1>4, <1>5, Factors
<1>7. Rounding(a, n) = 1 + p /\ Rounding(b, n) = 1 + q
  BY <1>1, <1>3 DEF Rounding
<1> QED
  BY <1>4, <1>6, <1>7

(* What is rounded little is little. *)
LEMMA RoundingSmall ==
  ASSUME NEW n \in Nat \ {0}, NEW a \in Nat, Rounding(a, n) <= 100
  PROVE  a < 335544320
<1>1. PICK k, c, x : k = n + 4 /\ c = 16777216 /\ x = a * k
  OBVIOUS
<1>2. k \in Nat /\ c \in Nat \ {0} /\ x \in Nat
  BY <1>1
<1>3. PICK p, r : p = x \div c /\ r = x % c
  OBVIOUS
<1>4. p \in Nat /\ r \in 0..(c - 1) /\ x = c * p + r
  BY <1>2, <1>3, Division
<1>5. p <= 99
  <2>1. Rounding(a, n) = 1 + p
    BY <1>1, <1>3 DEF Rounding
  <2> QED
    BY <1>4, <2>1
<1>6. x < 1677721600
  <2>1. c * p <= c * 99
    <3>1. 99 \in Nat
      OBVIOUS
    <3> QED
      BY <1>2, <1>4, <1>5, <3>1, Products
  <2>2. c * 99 \in Nat /\ c * p \in Nat /\ x < c * 99 + c
    BY <1>2, <1>4, <2>1
  <2>3. c = 16777216
    BY <1>1
  <2> QED
    BY <1>2, <2>2, <2>3
<1>7. a * 5 <= x
  <2>1. 5 <= k /\ 5 \in Nat
    BY <1>1
  <2>2. a * 5 <= a * k
    BY <1>2, <2>1, Products
  <2> QED
    BY <1>1, <2>2
<1>8. a * 5 \in Nat /\ x \in Nat
  BY <1>2
<1> QED
  BY <1>6, <1>7, <1>8

(* The whole minutes of a part are off by the rounding and a minute.       *)
LEMMA PartOfBounds ==
  ASSUME NEW n \in Nat \ {0}, NEW sum \in Nat, NEW exact, NEW off \in Nat,
         off = IF exact THEN 0 ELSE Rounding(60 * sum, n),
         NEW q \in PartOf(sum, n, exact)
  PROVE  /\ q \in Nat
         /\ 100 * (n * q) <= 60 * sum + off
         /\ 60 * sum - off < 100 * (n * q) + 100 * n
<1>1. PICK x, y, d : x = 60 * sum - off /\ y = 60 * sum + off /\ d = 100 * n
  OBVIOUS
<1>2. x \in Int /\ y \in Int /\ d \in Nat \ {0}
  BY <1>1
<1>3. PICK a, b, r, t : a = x \div d /\ r = x % d /\ b = y \div d /\ t = y % d
  OBVIOUS
<1>4. /\ a \in Int /\ r \in 0..(d - 1) /\ x = d * a + r
      /\ b \in Int /\ t \in 0..(d - 1) /\ y = d * b + t
  BY <1>2, <1>3, WholeDivision
<1>5. q \in {m \in a..b : m >= 0}
  <2>1. PartOf(sum, n, exact) = {m \in (x \div d)..(y \div d) : m >= 0}
    BY <1>1 DEF PartOf
  <2> QED
    BY <1>3, <2>1
<1>6. q \in Nat /\ a <= q /\ q <= b
  BY <1>4, <1>5
<1>7. PICK u : u = n * q /\ u \in Nat
  BY <1>6
<1>8. d * q = 100 * u
  BY <1>1, <1>6, <1>7
<1>9. 100 * u <= y
  <2>1. b \in Nat
    BY <1>4, <1>6
  <2>2. PICK l, m : l = d * q /\ m = d * b
    OBVIOUS
  <2>3. l <= m /\ l \in Nat /\ m \in Nat
    BY <1>2, <1>6, <2>1, <2>2, Products
  <2>4. y = m + t /\ t \in Nat
    BY <1>2, <1>4, <2>2
  <2>5. 100 * u = l
    BY <1>8, <2>2
  <2> QED
    BY <2>3, <2>4, <2>5
<1>10. x < 100 * u + d
  <2>1. CASE a < 0
    <3>1. PICK e : e = 0 - a - 1 /\ e \in Nat
      BY <1>4, <2>1
    <3>2. a = 0 - (e + 1)
      BY <1>4, <3>1
    <3>3. d * e \in Nat /\ d * a = 0 - (d * e + d)
      BY <1>2, <3>1, <3>2
    <3> QED
      BY <1>2, <1>4, <1>7, <3>3
  <2>2. CASE a \in Nat
    <3>1. PICK l, m : l = d * a /\ m = d * q
      OBVIOUS
    <3>2. l <= m /\ l \in Nat /\ m \in Nat
      BY <1>2, <1>6, <2>2, <3>1, Products
    <3>3. x = l + r /\ r \in 0..(d - 1)
      BY <1>4, <3>1
    <3>4. 100 * u = m
      BY <1>8, <3>1
    <3> QED
      BY <1>2, <3>2, <3>3, <3>4
  <2> QED
    BY <1>4, <2>1, <2>2
<1> QED
  BY <1>1, <1>6, <1>7, <1>9, <1>10

(* A total of n decimal hours between lo and hi hours, off by no more than *)
(* a minute: it is the least one, or exceeds that by 10 hundredths.        *)
TotalInRange(n, sum, lo, hi, exact, off) ==
  /\ n \in Nat \ {0} /\ sum \in Nat /\ lo \in Nat /\ hi \in Nat
  /\ off \in Nat /\ off <= 100
  /\ off = IF exact THEN 0 ELSE Rounding(60 * sum, n)
  /\ sum <= (100 * hi + 98) * n
  /\ \/ sum = (100 * lo) * n /\ off = 0
     \/ sum >= (100 * lo) * n + 10

(* A part of a total whose addends are decimal hours between lo and hi     *)
(* hours: the rounding does not change the hours if the total exceeds its  *)
(* least value by more than the rounding.                                  *)
LEMMA QuotientInRange ==
  ASSUME NEW n, NEW sum, NEW lo, NEW hi, NEW exact, NEW off,
         TotalInRange(n, sum, lo, hi, exact, off),
         NEW q \in PartOf(sum, n, exact)
  PROVE  q \in Nat /\ 60 * lo <= q /\ q <= 60 * hi + 59
<1>1. /\ n \in Nat \ {0} /\ sum \in Nat /\ lo \in Nat /\ hi \in Nat
      /\ off \in Nat /\ off <= 100
      /\ off = IF exact THEN 0 ELSE Rounding(60 * sum, n)
  BY DEF TotalInRange
<1>2. /\ sum <= (100 * hi + 98) * n
      /\ (sum = (100 * lo) * n /\ off = 0) \/ sum >= (100 * lo) * n + 10
  BY DEF TotalInRange
<1>3. /\ q \in Nat
      /\ 100 * (n * q) <= 60 * sum + off
      /\ 60 * sum - off < 100 * (n * q) + 100 * n
  BY <1>1, PartOfBounds
<1>4. PICK u, v, w : u = lo * n /\ v = hi * n /\ w = n * q /\ u \in Nat /\ v \in Nat /\ w \in Nat
  BY <1>1, <1>3
<1>5. /\ n * (60 * lo) = 60 * u /\ n * (60 * hi + 59 + 1) = 60 * v + 60 * n
      /\ n * (q + 1) = w + n
      /\ (100 * lo) * n = 100 * u /\ (100 * hi + 98) * n = 100 * v + 98 * n
  BY <1>1, <1>3, <1>4
<1>6. /\ sum <= 100 * v + 98 * n
      /\ (sum = 100 * u /\ off = 0) \/ sum >= 100 * u + 10
      /\ 100 * w <= 60 * sum + off /\ 60 * sum - off < 100 * w + 100 * n
  BY <1>2, <1>3, <1>4, <1>5
<1>7. w < 60 * v + 60 * n /\ 60 * u < w + n
  BY <1>1, <1>4, <1>6
<1>8. q <= 60 * hi + 59
  <2>1. n * q < n * (60 * hi + 59 + 1)
    BY <1>4, <1>5, <1>7
  <2>2. 60 * hi + 59 \in Nat
    BY <1>1
  <2> QED
    BY <1>1, <1>3, <2>1, <2>2, Factors
<1>9. 60 * lo <= q
  <2>1. n * (60 * lo) < n * (q + 1)
    BY <1>5, <1>7
  <2>2. 60 * lo \in Nat
    BY <1>1
  <2> QED
    BY <1>1, <1>3, <2>1, <2>2, Factors
<1> QED
  BY <1>3, <1>8, <1>9

(* What an average is computed from. *)
LEMMA AverageOf ==
  ASSUME NEW n \in Nat \ {0}, NEW ms \in [1..n -> Nat], NEW avg \in getAvarageWorkloads(ms)
  PROVE  \E hs \in Conversions(ms) :
           \E q \in PartOf(SumOf(hs), n, AllQuarters(hs)) :
             avg[1] = Hours(q) /\ avg[2] = Behind(Minutes(q))
<1>1. Len(ms) = n
  <2>1. ms \in Seq(Nat) /\ DOMAIN ms = 1..n
    OBVIOUS
  <2> QED
    BY <2>1
<1>2. PICK hs \in Conversions(ms) :
        avg \in datesTransformationBackward(SumOf(hs), n, AllQuarters(hs))
  BY <1>1 DEF getAvarageWorkloads
<1>3. PICK q \in PartOf(SumOf(hs), n, AllQuarters(hs)) :
        avg = <<Hours(q), Behind(Minutes(q))>>
  BY <1>2 DEF datesTransformationBackward
<1>4. avg[1] = Hours(q) /\ avg[2] = Behind(Minutes(q))
  BY <1>3
<1> QED
  BY <1>4

(* Sixties, as decimal hours are weighed against minutes. *)
LEMMA TotalOfSixties ==
  ASSUME NEW S, IsFiniteSet(S), NEW a, NEW b, NEW f,
         \A x \in S : a[x] \in Nat /\ b[x] \in Nat /\ f[x] = 60 * a[x] + b[x]
  PROVE  Total(f, S) = 60 * Total(a, S) + Total(b, S)
<1>1. PICK k : k = 60
  OBVIOUS
<1>2. \A x \in S : a[x] \in Nat /\ b[x] \in Nat /\ f[x] = k * a[x] + b[x]
  BY <1>1
<1>3. Total(f, S) = k * Total(a, S) + Total(b, S)
  BY <1>1, <1>2, TotalLinear
<1> QED
  BY <1>1, <1>3

(* Addends that are larger by no more than a constant. *)
LEMMA TotalsWeighed ==
  ASSUME NEW S, IsFiniteSet(S), NEW c \in Nat, NEW a, NEW b,
         \A x \in S : a[x] \in Nat /\ b[x] \in Nat /\ 60 * a[x] <= 100 * b[x] + c
  PROVE  60 * Total(a, S) <= 100 * Total(b, S) + c * Cardinality(S)
<1>1. PICK f, w, z : /\ f = [x \in S |-> 100 * b[x] + c]
                     /\ w = [x \in S |-> 100 * b[x] + c - 60 * a[x]]
                     /\ z = [x \in S |-> c]
  OBVIOUS
<1>2. \A x \in S : /\ a[x] \in Nat /\ b[x] \in Nat /\ w[x] \in Nat
                   /\ z[x] \in Nat /\ c <= z[x] /\ z[x] <= c
                   /\ f[x] = 60 * a[x] + w[x] /\ f[x] = 100 * b[x] + z[x]
  <2>1. TAKE x \in S
  <2>2. PICK i, j : i = a[x] /\ j = b[x]
    OBVIOUS
  <2>3. i \in Nat /\ j \in Nat /\ 60 * i <= 100 * j + c
    BY <2>2
  <2>4. f[x] = 100 * j + c /\ w[x] = 100 * j + c - 60 * i /\ z[x] = c
    BY <1>1, <2>2
  <2>5. PICK k, l : k = f[x] /\ l = w[x]
    OBVIOUS
  <2>6. k = 60 * i + l /\ k = 100 * j + c /\ l \in Nat
    BY <2>3, <2>4, <2>5
  <2> QED
    BY <2>2, <2>3, <2>4, <2>5, <2>6
<1>3. Total(f, S) = 60 * Total(a, S) + Total(w, S)
  BY <1>2, TotalOfSixties
<1>4. Total(f, S) = 100 * Total(b, S) + Total(z, S)
  <2>1. PICK k : k = 100
    OBVIOUS
  <2>2. k \in Nat /\ \A x \in S : b[x] \in Nat /\ z[x] \in Nat /\ f[x] = k * b[x] + z[x]
    BY <1>2, <2>1
  <2>3. Total(f, S) = k * Total(b, S) + Total(z, S)
    BY <2>2, TotalLinear
  <2> QED
    BY <2>1, <2>3
<1>5. Total(z, S) <= c * Cardinality(S)
  BY <1>2, TotalBetween
<1>6. /\ Total(a, S) \in Nat /\ Total(b, S) \in Nat
      /\ Total(w, S) \in Nat /\ Total(z, S) \in Nat
  BY <1>2, TotalStep
<1>7. c * Cardinality(S) \in Nat
  <2>1. Cardinality(S) \in Nat
    BY FS_CardinalityType
  <2> QED
    BY <2>1
<1> QED
  BY <1>3, <1>4, <1>5, <1>6, <1>7

(* The hours of an average are between the hours of the shortest and those *)
(* of the longest duration, whatever zeros are lost, as long as the Floats *)
(* do not add up to more than a minute of rounding.                        *)
THEOREM AveragesInRange ==
  ASSUME NEW n \in Nat \ {0}, NEW ms \in [1..n -> Nat], NEW avg \in getAvarageWorkloads(ms),
         Rounding(100 * (SumOf(ms) + 60 * n), n) <= 100
  PROVE  /\ \E i \in 1..n : Hours(ms[i]) <= avg[1]
         /\ \E i \in 1..n : avg[1] <= Hours(ms[i])
<1>1. PICK hs \in Conversions(ms) :
        \E q \in PartOf(SumOf(hs), n, AllQuarters(hs)) :
          avg[1] = Hours(q) /\ avg[2] = Behind(Minutes(q))
  BY AverageOf
<1>2. PICK q \in PartOf(SumOf(hs), n, AllQuarters(hs)) : avg[1] = Hours(q)
  BY <1>1
<1>3. PICK D, HS : D = 1..n /\ HS = {Hours(ms[i]) : i \in D}
  OBVIOUS
<1>4. IsFiniteSet(D) /\ Cardinality(D) = n /\ D # {}
  <2>1. IsFiniteSet(1..n) /\ Cardinality(1..n) = n
    BY FS_Interval
  <2>2. 1 \in D
    BY <1>3
  <2> QED
    BY <1>3, <2>1, <2>2
<1>5. HS \subseteq Nat /\ HS # {} /\ IsFiniteSet(HS)
  <2>1. \A i \in D : ms[i] \in Nat
    BY <1>3
  <2>2. IsFiniteSet(HS)
    <3>1. PICK w : w = [i \in D |-> Hours(ms[i])]
      OBVIOUS
    <3>2. w \in Surjection(D, HS)
      BY <1>3, <3>1 DEF Surjection
    <3> QED
      BY <1>4, <3>2, FS_Surjection
  <2>3. ASSUME NEW h \in HS PROVE h \in Nat
    <3>1. PICK i \in D : h = Hours(ms[i])
      BY <1>3
    <3> QED
      BY <2>1, <3>1, HoursAndMinutes
  <2>4. HS # {}
    BY <1>3, <1>4
  <2> QED
    BY <2>2, <2>3, <2>4
<1>6. PICK lo \in HS : \A h \in HS : lo <= h
  BY <1>5, LeastNatural
<1>7. PICK hi \in HS : \A h \in HS : h <= hi
  BY <1>5, GreatestNatural
<1>8. lo \in Nat /\ hi \in Nat
  BY <1>5
<1>9. hs \in [1..n -> Nat] /\ \A i \in D : hs[i] \in datesTransformationForward(ms[i])
  BY <1>3, ConversionsTyped
<1>10. PICK a, b : a = 100 * lo /\ b = 100 * hi + 98 /\ a \in Nat /\ b \in Nat
  BY <1>8
<1>11. ASSUME NEW i \in D
       PROVE  /\ hs[i] \in Nat /\ ms[i] \in Nat
              /\ a <= hs[i] /\ hs[i] <= b
              /\ hs[i] = a \/ a + 10 <= hs[i]
              /\ 60 * hs[i] <= 100 * ms[i] + 6000
  <2>1. PICK m, h, hour : m = ms[i] /\ h = hs[i] /\ hour = Hours(m)
    OBVIOUS
  <2>2. m \in Nat /\ h \in datesTransformationForward(m)
    BY <1>3, <1>9, <2>1
  <2>3. /\ h \in Nat
        /\ h = 100 * hour \/ h >= 100 * hour + 10
        /\ h <= 100 * hour + 98
    BY <2>1, <2>2, ForwardBounds
  <2>4. hour \in Nat /\ lo <= hour /\ hour <= hi
    BY <1>3, <1>5, <1>6, <1>7, <2>1
  <2>5. 60 * hour <= m
    <3>1. m = 60 * Hours(m) + Minutes(m) /\ Minutes(m) \in 0..59
      BY <2>2, HoursAndMinutes
    <3>2. PICK k : k = Minutes(m)
      OBVIOUS
    <3>3. hour = Hours(m)
      BY <2>1
    <3>4. m = 60 * hour + k /\ k \in 0..59
      BY <3>1, <3>2, <3>3
    <3> QED
      BY <2>4, <3>4
  <2>6. a <= h /\ h <= b /\ (h = a \/ a + 10 <= h)
    BY <1>8, <1>10, <2>3, <2>4
  <2>7. 60 * h <= 100 * m + 6000
    BY <2>2, <2>3, <2>4, <2>5
  <2> QED
    BY <2>1, <2>2, <2>3, <2>6, <2>7
<1>12. PICK sum, exact : sum = SumOf(hs) /\ exact = AllQuarters(hs)
  OBVIOUS
<1>13. sum = Total(hs, D) /\ sum \in Nat /\ SumOf(ms) = Total(ms, D) /\ SumOf(ms) \in Nat
  BY <1>3, <1>9, <1>12, SumOfIsTotal
<1>14. a * n <= sum /\ sum <= b * n
  <2>1. a * Cardinality(D) <= Total(hs, D) /\ Total(hs, D) <= b * Cardinality(D)
    <3>1. \A i \in D : hs[i] \in Nat /\ a <= hs[i] /\ hs[i] <= b
      BY <1>11
    <3> QED
      BY <1>4, <1>10, <3>1, TotalBetween
  <2>2. Cardinality(D) = n /\ Total(hs, D) = sum
    BY <1>4, <1>13
  <2> QED
    BY <2>1, <2>2
<1>15. PICK most : most = 100 * (SumOf(ms) + 60 * n)
  OBVIOUS
<1>16. most \in Nat /\ 60 * sum <= most /\ Rounding(most, n) <= 100
  <2>1. PICK c : c = 6000
    OBVIOUS
  <2>2. c \in Nat /\ \A i \in D : hs[i] \in Nat /\ ms[i] \in Nat /\ 60 * hs[i] <= 100 * ms[i] + c
    BY <1>11, <2>1
  <2>3. 60 * Total(hs, D) <= 100 * Total(ms, D) + c * Cardinality(D)
    BY <1>4, <2>2, TotalsWeighed
  <2>4. Cardinality(D) = n /\ Total(hs, D) = sum /\ Total(ms, D) = SumOf(ms)
    BY <1>4, <1>13
  <2>5. 60 * sum <= 100 * SumOf(ms) + c * n
    BY <2>3, <2>4
  <2>6. 60 * sum <= 100 * SumOf(ms) + 6000 * n
    BY <2>1, <2>5
  <2> QED
    BY <1>13, <1>15, <2>6
<1>17. /\ Rounding(60 * sum, n) \in Nat /\ Rounding(60 * sum, n) <= 100
       /\ sum < 419430400
  <2>1. PICK x : x = 60 * sum
    OBVIOUS
  <2>2. x \in Nat /\ x <= most
    BY <1>13, <1>16, <2>1
  <2>3. Rounding(x, n) \in Nat /\ Rounding(most, n) \in Nat /\ Rounding(x, n) <= Rounding(most, n)
    BY <1>16, <2>2, RoundingGrows
  <2>4. most < 335544320
    BY <1>16, RoundingSmall
  <2>5. sum < 419430400
    BY <1>13, <1>16, <2>4
  <2> QED
    BY <1>16, <2>1, <2>3, <2>5
<1>18. PICK off : off = IF exact THEN 0 ELSE Rounding(60 * sum, n)
  OBVIOUS
<1>19. off \in Nat /\ off <= 100
  <2>1. CASE exact
    BY <1>18, <2>1
  <2>2. CASE ~exact
    BY <1>17, <1>18, <2>2
  <2> QED
    BY <2>1, <2>2
<1>20. (sum = a * n /\ off = 0) \/ sum >= a * n + 10
  <2>1. CASE \E i \in D : a + 10 <= hs[i]
    <3>1. PICK i \in D : a + 10 <= hs[i]
      BY <2>1
    <3>2. PICK k : k = 10 /\ k \in Nat /\ a + k <= hs[i]
      BY <3>1
    <3>3. \A y \in D : hs[y] \in Nat /\ a <= hs[y] /\ hs[y] <= b
      BY <1>11
    <3>4. a * Cardinality(D) + k <= Total(hs, D)
      BY <1>4, <1>10, <3>2, <3>3, TotalExceeds
    <3> QED
      BY <1>4, <1>13, <3>2, <3>4
  <2>2. CASE \A i \in D : hs[i] = a
    <3>1. sum = a * n
      <4>1. \A i \in D : hs[i] \in Nat /\ a <= hs[i] /\ hs[i] <= a
        BY <1>10, <2>2
      <4>2. a * Cardinality(D) <= Total(hs, D) /\ Total(hs, D) <= a * Cardinality(D)
        BY <1>4, <1>10, <4>1, TotalBetween
      <4>3. a * n \in Nat
        BY <1>10
      <4> QED
        BY <1>4, <1>13, <4>2, <4>3
    <3>2. DOMAIN hs = D /\ Len(hs) = n
      <4>1. DOMAIN hs = 1..n /\ hs \in Seq(Nat)
        BY <1>9
      <4> QED
        BY <1>3, <4>1
    <3>3. Quarters(a)
      <4>1. a % 25 = 0
        BY <1>8, <1>10
      <4> QED
        BY <4>1 DEF Quarters
    <3>4. sum % (25 * n) = 0
      <4>1. PICK d, y : d = 25 * n /\ y = 4 * lo
        OBVIOUS
      <4>2. d \in Nat \ {0} /\ y \in Nat
        BY <1>8, <4>1
      <4>3. (d * y) % d = 0
        BY <4>2, Multiples
      <4>4. d * y = a * n
        BY <1>8, <1>10, <4>1
      <4> QED
        BY <3>1, <4>1, <4>3, <4>4
    <3>5. exact
      BY <1>12, <1>17, <2>2, <3>2, <3>3, <3>4 DEF AllQuarters
    <3> QED
      BY <1>18, <3>1, <3>5
  <2> QED
    BY <1>11, <2>1, <2>2
<1>21. q \in Nat /\ 60 * lo <= q /\ q <= 60 * hi + 59
  <2>1. q \in PartOf(sum, n, exact)
    BY <1>2, <1>12
  <2>2. sum \in Nat /\ sum <= b * n /\ a = 100 * lo /\ b = 100 * hi + 98
    BY <1>10, <1>13, <1>14
  <2>3. TotalInRange(n, sum, lo, hi, exact, off)
    BY <1>8, <1>18, <1>19, <1>20, <2>2 DEF TotalInRange
  <2> QED
    BY <2>1, <2>3, QuotientInRange
<1>22. lo <= Hours(q) /\ Hours(q) <= hi
  BY <1>8, <1>21 DEF Hours
<1> QED
  BY <1>2, <1>3, <1>6, <1>7, <1>22

(* A part of a total of decimal hours that fall short of the minutes by up *)
(* to a minute each.                                                       *)
LEMMA QuotientClose ==
  ASSUME NEW n \in Nat \ {0}, NEW sum \in Nat, NEW total \in Nat,
         60 * total <= 100 * sum, 100 * sum <= 60 * total + 60 * n,
         NEW drift, drift = Rounding(100 * sum, n),
         NEW exact, NEW q \in PartOf(total, n, exact)
  PROVE  /\ q \in Nat /\ drift \in Nat
         /\ 100 * (n * q) <= 100 * sum + drift
         /\ 100 * sum < 100 * (n * q) + 160 * n + drift
<1>1. PICK x, y : x = 60 * total /\ y = 100 * sum
  OBVIOUS
<1>2. x \in Nat /\ y \in Nat /\ x <= y
  BY <1>1
<1>3. Rounding(x, n) \in Nat /\ drift \in Nat /\ Rounding(x, n) <= drift
  BY <1>1, <1>2, RoundingGrows
<1>4. PICK off : off = IF exact THEN 0 ELSE Rounding(x, n)
  OBVIOUS
<1>5. off \in Nat /\ off <= drift
  <2>1. CASE exact
    BY <1>3, <1>4, <2>1
  <2>2. CASE ~exact
    BY <1>3, <1>4, <2>2
  <2> QED
    BY <2>1, <2>2
<1>6. /\ q \in Nat
      /\ 100 * (n * q) <= 60 * total + off
      /\ 60 * total - off < 100 * (n * q) + 100 * n
  BY <1>1, <1>4, <1>5, PartOfBounds
<1>7. PICK u : u = n * q /\ u \in Nat
  BY <1>6
<1>8. 100 * u <= 100 * sum + drift /\ 100 * sum < 100 * u + 160 * n + drift
  BY <1>3, <1>5, <1>6, <1>7
<1> QED
  BY <1>3, <1>6, <1>7, <1>8

(* A quotient near a sum that leaves enough minutes past the hour.         *)
MinutesLeft(n, sum, drift, q) ==
  /\ n \in Nat \ {0} /\ sum \in Nat /\ drift \in Nat /\ q \in Nat
  /\ 100 * (sum % (60 * n)) \in (1060 * n + drift)..(6000 * n - drift - 1)
  /\ 100 * (n * q) <= 100 * sum + drift
  /\ 100 * sum < 100 * (n * q) + 160 * n + drift

(* Where such a quotient has its minutes: it has the hours of the sum, and *)
(* two digits of minutes, if the sum leaves enough of them.                *)
LEMMA MinutesShown ==
  ASSUME NEW n, NEW sum, NEW drift, NEW q, MinutesLeft(n, sum, drift, q)
  PROVE  Behind(Minutes(q)) = Minutes(q)
<1>1. n \in Nat \ {0} /\ sum \in Nat /\ drift \in Nat /\ q \in Nat
  BY DEF MinutesLeft
<1>2. /\ 100 * (n * q) <= 100 * sum + drift
      /\ 100 * sum < 100 * (n * q) + 160 * n + drift
  BY DEF MinutesLeft
<1>3. PICK d, p, r : d = 60 * n /\ p = sum \div d /\ r = sum % d
  OBVIOUS
<1>4. d \in Nat \ {0}
  BY <1>1, <1>3
<1>5. p \in Nat /\ r \in 0..(d - 1) /\ sum = d * p + r
  <2>1. p = sum \div d /\ r = sum % d
    BY <1>3
  <2>2. sum \in Nat
    BY <1>1
  <2>3. /\ sum \div d \in Nat /\ sum % d \in 0..(d - 1)
        /\ sum = d * (sum \div d) + (sum % d)
    BY <1>4, <2>2, Division
  <2> QED
    BY <2>1, <2>3
<1>6. PICK u, v : u = n * q /\ v = n * p /\ u \in Nat /\ v \in Nat
  BY <1>1, <1>5
<1>7. d * p = 60 * v /\ n * (60 * p + 9 + 1) = 60 * v + 10 * n
      /\ n * (60 * p + 59 + 1) = 60 * v + 60 * n /\ n * (q + 1) = u + n
  <2>1. d = 60 * n
    BY <1>3
  <2> QED
    BY <1>1, <1>5, <1>6, <2>1
<1>8. 1060 * n + drift <= 100 * r /\ 100 * r <= 6000 * n - drift - 1
  <2>1. 100 * r \in (1060 * n + drift)..(6000 * n - drift - 1)
    BY <1>3 DEF MinutesLeft
  <2>2. r \in Nat
    BY <1>4, <1>5
  <2> QED
    BY <1>1, <2>1, <2>2
<1>9. 60 * p + 10 <= q
  <2>1. n * (60 * p + 10) < n * (q + 1)
    <3>1. n * (60 * p + 10) = 60 * v + 10 * n
      BY <1>7, <1>5
    <3>2. 6000 * v + 1060 * n + drift <= 100 * sum
      BY <1>1, <1>5, <1>6, <1>7, <1>8
    <3>3. 100 * sum < 100 * u + 160 * n + drift
      BY <1>6, <1>2
    <3>4. 60 * v + 10 * n < u + n
      BY <1>1, <1>6, <3>2, <3>3
    <3> QED
      BY <1>7, <3>1, <3>4
  <2> QED
    BY <1>1, <1>5, <2>1, Factors
<1>10. q <= 60 * p + 59
  <2>1. n * q < n * (60 * p + 59 + 1)
    <3>1. 100 * u <= 6000 * v + 100 * r + drift
      BY <1>1, <1>5, <1>6, <1>7, <1>2
    <3>2. u < 60 * v + 60 * n
      BY <1>1, <1>4, <1>5, <1>6, <1>8, <3>1
    <3> QED
      BY <1>6, <1>7, <3>2
  <2> QED
    BY <1>1, <1>5, <2>1, Factors
<1>11. Minutes(q) >= 10 /\ Minutes(q) \in Nat
  BY <1>1, <1>5, <1>9, <1>10 DEF Minutes
<1> QED
  BY <1>11 DEF Behind

(* A sum that leaves more than 10.6 minutes past the hour, and less than   *)
(* an hour, for each duration, whatever the rounding.                      *)
SumLeavesMinutes(ms, n) ==
  100 * (SumOf(ms) % (60 * n)) \in
    (1060 * n + Rounding(100 * SumOf(ms), n))..(6000 * n - Rounding(100 * SumOf(ms), n) - 1)

(* The average that is shown is too low by up to 1.6 minutes, and never    *)
(* too high, but for the rounding.                                         *)
ShownClose(ms, n, avg) ==
  100 * (SumOf(ms) - n * (60 * avg[1] + avg[2])) \in
    (0 - Rounding(100 * SumOf(ms), n))..(160 * n + Rounding(100 * SumOf(ms), n))

(* Where no duration has one to six minutes past the hour and the average  *)
(* has at least 10.6, what is shown is too low by up to 1.6 minutes for    *)
(* each duration, and never too high, but for the rounding of the Floats.  *)
THEOREM AveragesClose ==
  ASSUME NEW n \in Nat \ {0}, NEW ms \in [1..n -> Nat], NEW avg \in getAvarageWorkloads(ms),
         \A i \in 1..n : Minutes(ms[i]) \notin 1..6,
         SumLeavesMinutes(ms, n)
  PROVE  ShownClose(ms, n, avg)
<1>0. PICK drift : drift = Rounding(100 * SumOf(ms), n)
  OBVIOUS
<1>1. PICK hs \in Conversions(ms) :
        \E q \in PartOf(SumOf(hs), n, AllQuarters(hs)) :
          avg[1] = Hours(q) /\ avg[2] = Behind(Minutes(q))
  BY AverageOf
<1>2. PICK q \in PartOf(SumOf(hs), n, AllQuarters(hs)) :
        avg[1] = Hours(q) /\ avg[2] = Behind(Minutes(q))
  BY <1>1
<1>3. PICK D : D = 1..n
  OBVIOUS
<1>4. IsFiniteSet(D) /\ Cardinality(D) = n
  <2>1. IsFiniteSet(1..n) /\ Cardinality(1..n) = n
    BY FS_Interval
  <2> QED
    BY <1>3, <2>1
<1>5. hs \in [1..n -> Nat] /\ \A i \in D : hs[i] \in datesTransformationForward(ms[i])
  BY <1>3, ConversionsTyped
<1>6. /\ SumOf(hs) = Total(hs, D) /\ SumOf(hs) \in Nat
      /\ SumOf(ms) = Total(ms, D) /\ SumOf(ms) \in Nat
  BY <1>3, <1>5, SumOfIsTotal
<1>7. ASSUME NEW i \in D
      PROVE  /\ ms[i] \in Nat /\ hs[i] \in Nat
             /\ 60 * hs[i] <= 100 * ms[i] /\ 100 * ms[i] <= 60 * hs[i] + 60
  <2>1. PICK m, h : m = ms[i] /\ h = hs[i]
    OBVIOUS
  <2>2. m \in Nat /\ h \in datesTransformationForward(m) /\ Minutes(m) \notin 1..6
    BY <1>3, <1>5, <2>1
  <2> QED
    BY <2>1, <2>2, ForwardBounds
<1>8. PICK f, w : /\ f = [i \in D |-> 100 * ms[i]]
                  /\ w = [i \in D |-> 100 * ms[i] - 60 * hs[i]]
  OBVIOUS
<1>9. \A i \in D : /\ f[i] = 60 * hs[i] + w[i]
                   /\ w[i] \in Nat /\ 0 <= w[i] /\ w[i] <= 60
  <2>1. TAKE i \in D
  <2>2. PICK m, h : m = ms[i] /\ h = hs[i]
    OBVIOUS
  <2>3. m \in Nat /\ h \in Nat /\ 60 * h <= 100 * m /\ 100 * m <= 60 * h + 60
    BY <1>7, <2>2
  <2>4. f[i] = 100 * m /\ w[i] = 100 * m - 60 * h
    BY <1>8, <2>2
  <2>5. PICK a, c : a = f[i] /\ c = w[i]
    OBVIOUS
  <2>6. a = 60 * h + c /\ c \in Nat /\ 0 <= c /\ c <= 60
    BY <2>3, <2>4, <2>5
  <2> QED
    BY <2>2, <2>5, <2>6
<1>10. Total(f, D) = 100 * Total(ms, D)
  <2>1. PICK k : k = 100
    OBVIOUS
  <2>2. k \in Nat /\ \A i \in D : ms[i] \in Nat /\ f[i] = k * ms[i]
    BY <1>7, <1>8, <2>1
  <2>3. Total(f, D) = k * Total(ms, D)
    BY <1>4, <2>2, TotalMultiple
  <2> QED
    BY <2>1, <2>3
<1>11. Total(f, D) = 60 * Total(hs, D) + Total(w, D)
  <2>1. \A i \in D : hs[i] \in Nat /\ w[i] \in Nat /\ f[i] = 60 * hs[i] + w[i]
    BY <1>7, <1>9
  <2> QED
    BY <1>4, <2>1, TotalOfSixties
<1>12. Total(w, D) \in Nat /\ Total(w, D) <= 60 * n
  <2>1. PICK none, most : none = 0 /\ most = 60
    OBVIOUS
  <2>2. none \in Nat /\ most \in Nat /\ \A i \in D : w[i] \in Nat /\ none <= w[i] /\ w[i] <= most
    BY <1>9, <2>1
  <2>3. Total(w, D) <= most * Cardinality(D)
    BY <1>4, <2>2, TotalBetween
  <2>4. Total(w, D) \in Nat
    BY <1>4, <1>9, TotalStep
  <2> QED
    BY <1>4, <2>1, <2>3, <2>4
<1>13. PICK sum, total, exact : sum = SumOf(ms) /\ total = SumOf(hs) /\ exact = AllQuarters(hs)
  OBVIOUS
<1>14. /\ sum \in Nat /\ total \in Nat
       /\ 60 * total <= 100 * sum /\ 100 * sum <= 60 * total + 60 * n
  BY <1>6, <1>10, <1>11, <1>12, <1>13
<1>15. /\ q \in Nat /\ drift \in Nat
       /\ 100 * (n * q) <= 100 * sum + drift
       /\ 100 * sum < 100 * (n * q) + 160 * n + drift
  <2>1. drift = Rounding(100 * sum, n)
    BY <1>0, <1>13
  <2> QED
    BY <1>2, <1>13, <1>14, <2>1, QuotientClose
<1>16. Behind(Minutes(q)) = Minutes(q)
  <2>1. 100 * (sum % (60 * n)) \in (1060 * n + drift)..(6000 * n - drift - 1)
    BY <1>0, <1>13 DEF SumLeavesMinutes
  <2>2. MinutesLeft(n, sum, drift, q)
    BY <1>14, <1>15, <2>1 DEF MinutesLeft
  <2> QED
    BY <2>2, MinutesShown
<1>17. 60 * avg[1] + avg[2] = q
  <2>1. q = 60 * Hours(q) + Minutes(q)
    BY <1>15, HoursAndMinutes
  <2> QED
    BY <1>2, <1>16, <2>1
<1>18. 100 * (sum - n * q) \in (0 - drift)..(160 * n + drift)
  <2>1. PICK u : u = n * q /\ u \in Nat
    BY <1>15
  <2> QED
    BY <1>14, <1>15, <2>1
<1> QED
  BY <1>0, <1>13, <1>17, <1>18 DEF ShownClose
=============================================================================
