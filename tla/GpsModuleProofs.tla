--------------------------- MODULE GpsModuleProofs ---------------------------
(* Proofs about GpsModule, for rings of any size and any readings.  The    *)
(* loops that add up the samples are recursive functions; what holds of    *)
(* their value at each i is shown by way of the least i of which it would  *)
(* be wrong.                                                               *)
EXTENDS GpsModule, SequenceTheorems, WellFoundedInduction, TLAPS

(* A non-empty set of natural numbers has a least one.                     *)
LEMMA Least ==
    ASSUME NEW T, T \subseteq Nat, T # {}
    PROVE  \E m \in T : \A k \in T : m <= k
<1>1. PICK m \in T : \A k \in T : ~(<<k, m>> \in OpToRel(<, Nat))
  BY NatLessThanWellFounded, WFMin
<1>2. \A k \in T : ~(k < m)
  BY <1>1 DEF OpToRel
<1> QED
  BY <1>2

(* g holds the sums of the first 0, 1 .. n of the numbers s[1], s[2] ..    *)
Sums(g, s, n) == g = [i \in 0..n |-> IF i = 0 THEN 0 ELSE g[i - 1] + s[i]]

LEMMA SumsExist ==
    ASSUME NEW s, NEW n \in Nat
    PROVE  \E g : Sums(g, s, n)
<1> DEFINE Without == {k \in Nat : ~ \E g : Sums(g, s, k)}
<1> SUFFICES ASSUME Without # {} PROVE FALSE
  OBVIOUS
<1>1. PICK m \in Without : \A k \in Without : m <= k
  BY Least
<1>2. CASE m = 0
  <2>1. Sums([i \in 0..0 |-> 0], s, 0)
    BY DEF Sums
  <2> QED
    BY <1>1, <1>2, <2>1
<1>3. CASE m # 0
  <2>1. m \in Nat /\ m - 1 \in Nat /\ ~(m <= m - 1)
    BY <1>3
  <2>2. PICK g : Sums(g, s, m - 1)
    BY <1>1, <2>1
  <2> DEFINE h == [i \in 0..m |-> IF i = m THEN g[m - 1] + s[m] ELSE g[i]]
  <2>3. ASSUME NEW i \in 0..m
        PROVE  h[i] = IF i = 0 THEN 0 ELSE h[i - 1] + s[i]
    <3>1. CASE i = m
      BY <1>3, <2>1, <3>1
    <3>2. CASE i # m
      <4>1. i \in 0..(m - 1) /\ (i # 0 => i - 1 \in 0..(m - 1) /\ i - 1 # m)
        BY <2>1, <3>2
      <4>2. g[i] = IF i = 0 THEN 0 ELSE g[i - 1] + s[i]
        BY <2>2, <4>1 DEF Sums
      <4> QED
        BY <3>2, <4>1, <4>2
    <3> QED
      BY <3>1, <3>2
  <2>4. Sums(h, s, m)
    BY <2>3 DEF Sums
  <2> QED
    BY <1>1, <2>4
<1> QED
  BY <1>2, <1>3

LEMMA SumsStep ==
    ASSUME NEW s, NEW n \in Nat, NEW g, Sums(g, s, n)
    PROVE  /\ g[0] = 0
           /\ \A i \in 1..n : i - 1 \in 0..n /\ g[i] = g[i - 1] + s[i]
  BY DEF Sums

(* Sums of natural numbers are natural numbers.                            *)
LEMMA SumsTyped ==
    ASSUME NEW s, NEW n \in Nat, NEW g, Sums(g, s, n),
           \A i \in 1..n : s[i] \in Nat
    PROVE  \A i \in 0..n : g[i] \in Nat
<1> DEFINE Wrong == {i \in 0..n : g[i] \notin Nat}
<1> SUFFICES ASSUME Wrong # {} PROVE FALSE
  OBVIOUS
<1>0. Wrong \subseteq Nat
  OBVIOUS
<1>1. PICK m \in Wrong : \A k \in Wrong : m <= k
  <2> HIDE DEF Wrong
  <2> QED
    BY <1>0, Least
<1>2. m # 0
  BY <1>1, SumsStep
<1>3. m \in 1..n /\ m - 1 \in 0..n /\ ~(m <= m - 1)
  BY <1>2
<1>4. g[m - 1] \in Nat
  BY <1>1, <1>3
<1> QED
  BY <1>3, <1>4, SumsStep

Courses(s, n) == \A i \in 1..n : s[i] \in 0..359

(* A sum of i courses is at most i times the largest.                      *)
LEMMA SumsOfCourses ==
    ASSUME NEW s, NEW n \in Nat, NEW g, Sums(g, s, n), Courses(s, n)
    PROVE  \A i \in 0..n : g[i] \in Nat /\ g[i] <= 359 * i
<1> DEFINE Wrong == {i \in 0..n : ~(g[i] \in Nat /\ g[i] <= 359 * i)}
<1> SUFFICES ASSUME Wrong # {} PROVE FALSE
  OBVIOUS
<1>0. Wrong \subseteq Nat
  OBVIOUS
<1>1. PICK m \in Wrong : \A k \in Wrong : m <= k
  <2> HIDE DEF Wrong
  <2> QED
    BY <1>0, Least
<1>2. m # 0
  <2>1. g[0] = 0 /\ 359 * 0 = 0
    BY SumsStep
  <2> QED
    BY <1>1, <2>1
<1>3. m \in 1..n /\ m - 1 \in 0..n /\ ~(m <= m - 1)
  BY <1>2
<1>4. g[m - 1] \in Nat /\ g[m - 1] <= 359 * (m - 1)
  BY <1>1, <1>3
<1>5. g[m] = g[m - 1] + s[m] /\ s[m] \in 0..359
  BY <1>3, SumsStep DEF Courses
<1>6. g[m] \in Nat /\ g[m] <= 359 * m
  <2>1. \A a, c \in Nat : a <= 359 * (m - 1) /\ c <= 359
                          => a + c \in Nat /\ a + c <= 359 * m
    BY <1>3
  <2>2. s[m] \in Nat /\ s[m] <= 359
    <3>1. \A c \in 0..359 : c \in Nat /\ c <= 359
      OBVIOUS
    <3> QED
      BY <1>5, <3>1, Zenon
  <2> QED
    BY <1>4, <1>5, <2>1, <2>2
<1> QED
  BY <1>1, <1>6

Numbers(s, n) == \A i \in 1..n : s[i] \in Nat

(* w is s, read from behind its k-th element and round to there.           *)
Rotated(w, s, k, n) ==
    \A i \in 1..n : w[i] = IF k + i <= n THEN s[k + i] ELSE s[k + i - n]

(* Numbers in a ring have the same sum from wherever one starts.           *)
LEMMA SumsRotate ==
    ASSUME NEW n \in Nat, NEW k \in 0..n,
           NEW s, Numbers(s, n), NEW w, Rotated(w, s, k, n),
           NEW g, Sums(g, s, n), NEW h, Sums(h, w, n)
    PROVE  h[n] = g[n]
<1> DEFINE Right(i) == h[i] = IF k + i <= n THEN g[k + i] - g[k]
                              ELSE g[n] - g[k] + g[k + i - n]
           Wrong == {i \in 0..n : ~Right(i)}
<1>s. \A i \in 1..n : s[i] \in Nat
  BY DEF Numbers
<1>g. \A i \in 0..n : g[i] \in Nat
  BY <1>s, SumsTyped
<1>0. g[0] = 0 /\ h[0] = 0
  BY SumsStep
<1>1. ASSUME Wrong # {} PROVE FALSE
  <2>0. Wrong \subseteq Nat
    OBVIOUS
  <2>1. PICK m \in Wrong : \A i \in Wrong : m <= i
    <3> HIDE DEF Wrong
    <3> QED
      BY <1>1, <2>0, Least
  <2>2. m # 0
    BY <2>1, <1>0, <1>g
  <2>3. m \in 1..n /\ m - 1 \in 0..n /\ ~(m <= m - 1)
    BY <2>2
  <2>4. Right(m - 1)
    BY <2>1, <2>3
  <2>5. h[m] = h[m - 1] + w[m]
    BY <2>3, SumsStep
  <2>6. CASE k + m <= n
    <3>1. k + m \in 1..n /\ k + m - 1 = k + (m - 1) /\ k + (m - 1) <= n
      BY <2>3, <2>6
    <3>2. g[k + m] = g[k + m - 1] + s[k + m] /\ w[m] = s[k + m]
      BY <2>3, <2>6, <3>1, SumsStep DEF Rotated
    <3> QED
      BY <2>1, <2>3, <2>4, <2>5, <2>6, <3>1, <3>2, <1>s, <1>g
  <2>7. CASE k + m > n
    <3>1. k + m - n \in 1..n /\ k + m - n - 1 = k + (m - 1) - n
      BY <2>3, <2>7
    <3>2. g[k + m - n] = g[k + m - n - 1] + s[k + m - n] /\ w[m] = s[k + m - n]
      BY <2>3, <2>7, <3>1, SumsStep DEF Rotated
    <3>3. h[m - 1] = g[n] - g[k] + g[k + (m - 1) - n]
      BY <2>3, <2>4, <2>7, <3>1, <1>0, <1>g
    <3> QED
      BY <2>1, <2>3, <2>5, <2>7, <3>1, <3>2, <3>3, <1>s, <1>g
  <2> QED
    BY <2>3, <2>6, <2>7
<1>2. Right(n)
  BY <1>1
<1> QED
  BY <1>2, <1>0, <1>g

-----------------------------------------------------------------------------

LEMMA DivTyped ==
    ASSUME NEW t \in Nat, NEW n \in Nat \ {0}
    PROVE  /\ t \div n \in Nat
           /\ t <= 359 * n => t \div n <= 359
  OBVIOUS

(* How many samples average() counts.                                      *)
Count(filled, index) == IF filled THEN SpeedSamples ELSE index

(* What average() divides is the last of the sums of these samples.        *)
LEMMA AverageSums ==
    ASSUME NEW buf, NEW filled, NEW index, Count(filled, index) \in Nat
    PROVE  \E g, s : LET n == Count(filled, index) IN
             /\ \A i \in 1..n : s[i] = buf[i - 1]
             /\ Sums(g, s, n)
             /\ average(buf, filled, index) = IF n = 0 THEN 0 ELSE g[n] \div n
<1> DEFINE n == Count(filled, index)
           s == [i \in 1..n |-> buf[i - 1]]
           Eq(h) == h = [i \in 0..n |-> IF i = 0 THEN 0
                                        ELSE h[i - 1] + buf[i - 1]]
           g == CHOOSE h : Eq(h)
<1>1. \A h : Sums(h, s, n) <=> Eq(h)
  <2>1. \A i \in 0..n : i # 0 => i \in 1..n
    OBVIOUS
  <2>2. ASSUME NEW h
        PROVE  [i \in 0..n |-> IF i = 0 THEN 0 ELSE h[i - 1] + s[i]]
                 = [i \in 0..n |-> IF i = 0 THEN 0 ELSE h[i - 1] + buf[i - 1]]
    BY <2>1
  <2> QED
    BY <2>2 DEF Sums
<1>2. Eq(g)
  <2>1. \E h : Eq(h)
    <3> HIDE DEF Eq, s
    <3> QED
      BY <1>1, SumsExist
  <2> HIDE DEF Eq
  <2> QED
    BY <2>1
<1>3. average(buf, filled, index) = IF n = 0 THEN 0 ELSE g[n] \div n
  BY Zenon DEF average, Count
<1>4. \A i \in 1..n : s[i] = buf[i - 1]
  OBVIOUS
<1>5. Sums(g, s, n)
  <2> HIDE DEF g, s, Eq
  <2> QED
    BY <1>1, <1>2
<1> HIDE DEF g, s, n, Eq
<1> QED
  BY <1>3, <1>4, <1>5 DEF n

(* So does the mean of the abstract window.                                *)
LEMMA MeanSums ==
    ASSUME NEW w, Len(w) \in Nat
    PROVE  \E g : /\ Sums(g, w, Len(w))
                 /\ Sliding!Mean(w) = IF w = <<>> THEN 0
                                      ELSE g[Len(w)] \div Len(w)
<1> DEFINE Eq(h) == h = [i \in 0..Len(w) |-> IF i = 0 THEN 0
                                             ELSE h[i - 1] + w[i]]
           g == CHOOSE h : Eq(h)
<1>1. \A h : Sums(h, w, Len(w)) <=> Eq(h)
  BY DEF Sums
<1>2. Eq(g)
  <2>1. \E h : Eq(h)
    <3> HIDE DEF Eq
    <3> QED
      BY <1>1, SumsExist
  <2> HIDE DEF Eq
  <2> QED
    BY <2>1
<1>3. Sliding!Mean(w) = IF w = <<>> THEN 0 ELSE g[Len(w)] \div Len(w)
  BY Zenon DEF Sliding!Mean
<1>4. Sums(g, w, Len(w))
  <2> HIDE DEF g, Eq
  <2> QED
    BY <1>1, <1>2
<1> HIDE DEF g, Eq
<1> QED
  BY <1>3, <1>4

(* An average of numbers is a number, and one of courses is a course.      *)
LEMMA AverageTyped ==
    ASSUME NEW buf, NEW filled, NEW index,
           Count(filled, index) \in 0..SpeedSamples
    PROVE  /\ buf \in [Slots -> Nat] => average(buf, filled, index) \in Nat
           /\ buf \in [Slots -> 0..359]
                => average(buf, filled, index) \in 0..359
<1> DEFINE n == Count(filled, index)
<1>1. SpeedSamples \in Nat /\ n \in Nat /\ \A i \in 1..n : i - 1 \in Slots
  BY SamplesAssumption DEF Slots
<1>2. PICK g, s : /\ \A i \in 1..n : s[i] = buf[i - 1]
                  /\ Sums(g, s, n)
                  /\ average(buf, filled, index)
                        = IF n = 0 THEN 0 ELSE g[n] \div n
  BY <1>1, AverageSums
<1> HIDE DEF n
<1>3. ASSUME buf \in [Slots -> Nat]
      PROVE  average(buf, filled, index) \in Nat
  <2>1. \A i \in 1..n : s[i] \in Nat
    BY <1>1, <1>2, <1>3
  <2>2. g[n] \in Nat
    BY <1>1, <1>2, <2>1, SumsTyped
  <2> QED
    BY <1>1, <1>2, <2>2, DivTyped
<1>4. ASSUME buf \in [Slots -> 0..359]
      PROVE  average(buf, filled, index) \in 0..359
  <2>1. Courses(s, n)
    BY <1>1, <1>2, <1>4 DEF Courses
  <2>2. n \in 0..n
    BY <1>1
  <2>a. n \in Nat /\ Sums(g, s, n)
    BY <1>1, <1>2
  <2>b. \A i \in 0..n : g[i] \in Nat /\ g[i] <= 359 * i
    BY <2>a, <2>1, SumsOfCourses
  <2>3. g[n] \in Nat /\ g[n] <= 359 * n
    BY <2>2, <2>b
  <2>4. CASE n = 0
    BY <1>2, <2>4
  <2>5. CASE n # 0
    <3>1. g[n] \div n \in Nat /\ g[n] \div n <= 359
      BY <1>1, <2>3, <2>5, DivTyped
    <3> QED
      BY <1>2, <2>5, <3>1
  <2> QED
    BY <2>4, <2>5
<1> QED
  BY <1>3, <1>4

-----------------------------------------------------------------------------

LEMMA ModTyped ==
    ASSUME NEW n \in Nat \ {0}, NEW x \in Nat, x < 2 * n
    PROVE  x % n = IF x < n THEN x ELSE x - n
  OBVIOUS

(* The index moves on, and wraps.                                          *)
LEMMA SampleMoves ==
    ASSUME TypeOK, Sample, reading' # NoReading
    PROVE  sampleIndex' = IF sampleIndex + 1 < SpeedSamples
                          THEN sampleIndex + 1 ELSE 0
<1>1. /\ SpeedSamples \in Nat \ {0} /\ sampleIndex + 1 \in Nat
      /\ sampleIndex + 1 <= SpeedSamples
      /\ sampleIndex + 1 < 2 * SpeedSamples
  BY SamplesAssumption DEF TypeOK, Slots
<1>2. (sampleIndex + 1) % SpeedSamples
        = IF sampleIndex + 1 < SpeedSamples THEN sampleIndex + 1 ELSE 0
  BY <1>1, ModTyped
<1> QED
  BY <1>2 DEF Sample

(* A sample goes to the slot the index is at.                              *)
LEMMA SampleTyped ==
    ASSUME TypeOK, Sample, reading' \in Readings \cup {NoReading}
    PROVE  /\ speedBuf' \in [Slots -> Nat] /\ courseBuf' \in [Slots -> 0..359]
           /\ sampleIndex' \in Slots /\ bufferFilled' \in BOOLEAN
<1>1. CASE reading' = NoReading
  BY <1>1 DEF TypeOK, Sample, rings
<1>2. CASE reading' # NoReading
  <2>1. reading'.speed \in Nat /\ reading'.course \in 0..359
    BY <1>2, SamplesAssumption
  <2>2. sampleIndex' = IF sampleIndex + 1 < SpeedSamples
                       THEN sampleIndex + 1 ELSE 0
    BY <1>2, SampleMoves
  <2>3. sampleIndex' \in Slots
    BY <2>2, SamplesAssumption DEF TypeOK, Slots
  <2>4. bufferFilled' \in BOOLEAN
    BY <1>2 DEF TypeOK, Sample
  <2> QED
    BY <1>2, <2>1, <2>3, <2>4 DEF TypeOK, Sample
<1> QED
  BY <1>1, <1>2

LEMMA PublishTyped ==
    ASSUME TypeOK, NEW located \in BOOLEAN, Publish(located),
           speedBuf' \in [Slots -> Nat], courseBuf' \in [Slots -> 0..359],
           sampleIndex' \in Slots, bufferFilled' \in BOOLEAN
    PROVE  /\ data' \in [speed : Nat, course : 0..359]
           /\ newData' \in BOOLEAN
<1>1. CASE ~located
  BY <1>1 DEF TypeOK, Publish
<1>2. CASE located
  <2>1. Count(bufferFilled', sampleIndex') \in 0..SpeedSamples
    BY SamplesAssumption DEF Count, Slots
  <2>2. /\ average(speedBuf', bufferFilled', sampleIndex') \in Nat
        /\ average(courseBuf', bufferFilled', sampleIndex') \in 0..359
    BY <2>1, AverageTyped
  <2> QED
    BY <1>2, <2>2 DEF Publish
<1> QED
  BY <1>1, <1>2

LEMMA InitTyped == Init => TypeOK
<1> SUFFICES ASSUME Init PROVE TypeOK
  OBVIOUS
<1>1. 0 \in Slots /\ 0 \in 0..359
  BY SamplesAssumption DEF Slots
<1>2. /\ speedBuf \in [Slots -> Nat] /\ courseBuf \in [Slots -> 0..359]
      /\ data \in [speed : Nat, course : 0..359]
  BY <1>1 DEF Init
<1> QED
  BY <1>1, <1>2 DEF Init, TypeOK

LEMMA StepTyped == TypeOK /\ [Next]_vars => TypeOK'
<1> SUFFICES ASSUME TypeOK, [Next]_vars PROVE TypeOK'
  OBVIOUS
<1>1. ASSUME NEW r \in Readings, UpdateRmc(r) PROVE TypeOK'
  BY <1>1, SampleTyped, PublishTyped DEF UpdateRmc, TypeOK
<1>2. ASSUME NEW located \in BOOLEAN, Update(located) PROVE TypeOK'
  BY <1>2, SampleTyped, PublishTyped DEF Update, TypeOK
<1>3. CASE HasNewData
  BY <1>3 DEF HasNewData, TypeOK, rings
<1>4. CASE UNCHANGED vars
  BY <1>4 DEF vars, rings, TypeOK
<1> QED
  BY <1>1, <1>2, <1>3, <1>4 DEF Next

(* The index stays within the rings, the mean of courses below 360 degrees *)
(* and every other variable keeps its type, for rings of any size.         *)
THEOREM GpsTyped == Spec => []TypeOK
  BY InitTyped, StepTyped, PTL DEF Spec

-----------------------------------------------------------------------------
(* The refinement of the sliding window.                                   *)

Samples == [speed : Nat, course : 0..359]

(* Window, of any two rings, flag and index.                               *)
WindowOf(sb, cb, filled, index) ==
    LET slot(i) == (index - Count(filled, index) + i - 1 + SpeedSamples)
                     % SpeedSamples
    IN [i \in 1..Count(filled, index) |-> [speed  |-> sb[slot(i)],
                                           course |-> cb[slot(i)]]]

(* Where the i-th oldest sample is.                                        *)
At(filled, index, i) ==
    IF ~filled THEN i - 1
    ELSE IF index + i <= SpeedSamples THEN index + i - 1
    ELSE index + i - 1 - SpeedSamples

LEMMA WindowIs ==
    Window = WindowOf(speedBuf, courseBuf, bufferFilled, sampleIndex)
  BY Zenon DEF Window, WindowOf, Count

LEMMA WindowIsNext ==
    Window' = WindowOf(speedBuf', courseBuf', bufferFilled', sampleIndex')
  BY Zenon DEF Window, WindowOf, Count

LEMMA CountTyped ==
    ASSUME NEW filled \in BOOLEAN, NEW index \in Slots
    PROVE  /\ SpeedSamples \in Nat /\ index \in Nat /\ index < SpeedSamples
           /\ Count(filled, index) \in Nat
           /\ Count(filled, index) <= SpeedSamples
  BY SamplesAssumption DEF Count, Slots

LEMMA SlotIsAt ==
    ASSUME NEW filled \in BOOLEAN, NEW index \in Slots,
           NEW i \in 1..Count(filled, index)
    PROVE  /\ (index - Count(filled, index) + i - 1 + SpeedSamples)
                  % SpeedSamples = At(filled, index, i)
           /\ At(filled, index, i) \in Slots
<1> DEFINE x == index - Count(filled, index) + i - 1 + SpeedSamples
<1>1. /\ SpeedSamples \in Nat \ {0} /\ index \in Nat /\ index < SpeedSamples
      /\ i \in Nat /\ i >= 1
  BY SamplesAssumption, CountTyped
<1>2. CASE filled
  <2>1. x = index + i - 1 /\ i <= SpeedSamples
    BY <1>1, <1>2 DEF Count
  <2>2. x \in Nat /\ x < 2 * SpeedSamples
    BY <1>1, <2>1
  <2>3. x % SpeedSamples = IF x < SpeedSamples THEN x ELSE x - SpeedSamples
    BY <1>1, <2>2, ModTyped
  <2> HIDE DEF x
  <2>4. x % SpeedSamples = At(filled, index, i)
    BY <1>1, <1>2, <2>1, <2>3 DEF At
  <2>5. At(filled, index, i) \in Slots
    BY <1>1, <1>2, <2>1 DEF At, Slots
  <2> QED
    BY <2>4, <2>5 DEF x
<1>3. CASE ~filled
  <2>1. x = i - 1 + SpeedSamples /\ i <= index
    BY <1>1, <1>3 DEF Count
  <2>2. x \in Nat /\ x < 2 * SpeedSamples /\ ~(x < SpeedSamples)
    BY <1>1, <2>1
  <2>3. x % SpeedSamples = x - SpeedSamples
    BY <1>1, <2>2, ModTyped
  <2> QED
    BY <1>1, <1>3, <2>1, <2>3 DEF At, Slots
<1> QED
  BY <1>2, <1>3

(* w has the sample at each of these places.                               *)
Reads(w, sb, cb, filled, index) ==
    LET n == Count(filled, index) IN
    /\ w \in Seq(Samples) /\ Len(w) = n /\ DOMAIN w = 1..n
    /\ \A i \in 1..n :
           /\ At(filled, index, i) \in Slots
           /\ w[i] = [speed  |-> sb[At(filled, index, i)],
                      course |-> cb[At(filled, index, i)]]

LEMMA WindowAt ==
    ASSUME NEW sb \in [Slots -> Nat], NEW cb \in [Slots -> 0..359],
           NEW filled \in BOOLEAN, NEW index \in Slots
    PROVE  Reads(WindowOf(sb, cb, filled, index), sb, cb, filled, index)
<1> DEFINE at(i) == At(filled, index, i)
           n == Count(filled, index)
           w == WindowOf(sb, cb, filled, index)
<1>1. n \in Nat
  BY CountTyped
<1>2. \A i \in 1..n :
         /\ (index - n + i - 1 + SpeedSamples) % SpeedSamples = at(i)
         /\ at(i) \in Slots
  BY SlotIsAt
<1>3. w = [i \in 1..n |-> [speed |-> sb[at(i)], course |-> cb[at(i)]]]
  <2> HIDE DEF at, n
  <2> QED
    BY <1>2 DEF WindowOf, n
<1>4. w \in [1..n -> Samples]
  <2>1. ASSUME NEW i \in 1..n
        PROVE  [speed |-> sb[at(i)], course |-> cb[at(i)]] \in Samples
    <3> HIDE DEF at, n
    <3> QED
      BY <1>2, <2>1 DEF Samples
  <2> HIDE DEF at, n, w
  <2> QED
    BY <1>3, <2>1
<1>5. w \in Seq(Samples) /\ Len(w) = n /\ DOMAIN w = 1..n
  <2> HIDE DEF n, w
  <2> QED
    BY <1>1, <1>4, SeqDef, LenProperties
<1> HIDE DEF n, w, at
<1>6. \A i \in 1..n : /\ at(i) \in Slots
                      /\ w[i] = [speed |-> sb[at(i)], course |-> cb[at(i)]]
  BY <1>2, <1>3
<1> QED
  BY <1>5, <1>6 DEF n, w, at, Reads

(* w has the numbers of one ring at these places.                          *)
Takes(w, buf, filled, index) ==
    LET n == Count(filled, index) IN
    /\ Len(w) = n /\ (w = <<>> <=> n = 0)
    /\ \A i \in 1..n : w[i] = buf[At(filled, index, i)]

(* The average of a ring is the mean of its window, from wherever the      *)
(* window starts in it.                                                    *)
LEMMA AverageIsMean ==
    ASSUME NEW buf \in [Slots -> Nat],
           NEW filled \in BOOLEAN, NEW index \in Slots,
           NEW w, Takes(w, buf, filled, index)
    PROVE  average(buf, filled, index) = Sliding!Mean(w)
<1> DEFINE n == Count(filled, index)
<1>0. /\ Len(w) = n /\ (w = <<>> <=> n = 0)
      /\ \A i \in 1..n : w[i] = buf[At(filled, index, i)]
  BY DEF Takes
<1>1. /\ SpeedSamples \in Nat /\ index \in Nat /\ index < SpeedSamples
      /\ n \in Nat /\ n <= SpeedSamples
  BY CountTyped
<1>2. PICK g, s : /\ \A i \in 1..n : s[i] = buf[i - 1]
                  /\ Sums(g, s, n)
                  /\ average(buf, filled, index)
                        = IF n = 0 THEN 0 ELSE g[n] \div n
  BY <1>1, AverageSums
<1>3. PICK h : /\ Sums(h, w, n)
               /\ Sliding!Mean(w) = IF n = 0 THEN 0 ELSE h[n] \div n
  BY <1>0, <1>1, MeanSums
<1>5. filled => n = SpeedSamples
  BY DEF Count
<1> HIDE DEF n
<1>6. Numbers(s, n)
  <2>1. \A i \in 1..n : i - 1 \in Slots
    BY <1>1 DEF Slots
  <2> QED
    BY <1>2, <2>1 DEF Numbers
<1>7. PICK k \in 0..n : Rotated(w, s, k, n)
  <2>1. CASE filled
    <3>1. index \in 0..n
      BY <1>1, <1>5, <2>1
    <3>2. ASSUME NEW i \in 1..n
          PROVE  w[i] = IF index + i <= n THEN s[index + i]
                        ELSE s[index + i - n]
      <4>1. w[i] = IF index + i <= n THEN buf[index + i - 1]
                   ELSE buf[index + i - 1 - n]
        BY <1>0, <1>5, <2>1 DEF At
      <4>2. CASE index + i <= n
        <5>1. index + i \in 1..n
          BY <1>1, <4>2
        <5>2. s[index + i] = buf[index + i - 1]
          BY <1>1, <1>2, <5>1
        <5> QED
          BY <4>1, <4>2, <5>2
      <4>3. CASE ~(index + i <= n)
        <5>1. /\ index + i - n \in 1..n
              /\ index + i - n - 1 = index + i - 1 - n
          BY <1>1, <3>1, <4>3
        <5>2. s[index + i - n] = buf[index + i - n - 1]
          BY <1>1, <1>2, <5>1
        <5> QED
          BY <4>1, <4>3, <5>1, <5>2
      <4> QED
        BY <4>2, <4>3
    <3> QED
      BY <3>1, <3>2 DEF Rotated
  <2>2. CASE ~filled
    <3>1. \A i \in 1..n : w[i] = buf[i - 1] /\ i <= n /\ 0 + i = i
      BY <1>0, <1>1, <2>2 DEF At
    <3>2. \A i \in 1..n : w[i] = IF 0 + i <= n THEN s[0 + i] ELSE s[0 + i - n]
      BY <1>2, <3>1
    <3>3. Rotated(w, s, 0, n)
      BY <3>2 DEF Rotated
    <3> QED
      BY <1>1, <3>3
  <2> QED
    BY <2>1, <2>2
<1>8. h[n] = g[n]
  <2>1. n \in Nat /\ Sums(g, s, n) /\ Sums(h, w, n)
    BY <1>1, <1>2, <1>3
  <2> QED
    BY <2>1, <1>6, <1>7, SumsRotate
<1> QED
  BY <1>2, <1>3, <1>8

LEMMA ReadingsTyped == Readings \subseteq Samples
  BY SamplesAssumption DEF Samples

(* v is w with r behind it, and without the oldest if w was full.          *)
Follows(v, w, r) ==
    LET full == Len(w) = SpeedSamples IN
    /\ v \in Seq(Samples)
    /\ Len(v) = IF full THEN Len(w) ELSE Len(w) + 1
    /\ \A i \in 1..Len(v) : v[i] = IF i = Len(v) THEN r
                                   ELSE IF full THEN w[i + 1] ELSE w[i]

LEMMA NewestFollows ==
    ASSUME NEW w \in Seq(Samples), NEW r \in Samples,
           Len(w) <= SpeedSamples
    PROVE  Follows(Sliding!Newest(Append(w, r)), w, r)
<1>1. SpeedSamples \in Nat \ {0} /\ Len(w) \in Nat
  BY SamplesAssumption
<1>2. /\ Append(w, r) \in Seq(Samples) /\ Append(w, r) # <<>>
      /\ Len(Append(w, r)) = Len(w) + 1
      /\ \A i \in 1..Len(w) : Append(w, r)[i] = w[i]
      /\ Append(w, r)[Len(w) + 1] = r
  BY AppendProperties
<1>3. CASE Len(w) = SpeedSamples
  <2>1. Sliding!Newest(Append(w, r)) = Tail(Append(w, r))
    BY <1>1, <1>2, <1>3 DEF Sliding!Newest
  <2>2. /\ Tail(Append(w, r)) \in Seq(Samples)
        /\ Len(Tail(Append(w, r))) = Len(w)
        /\ \A i \in 1..Len(w) : Tail(Append(w, r))[i] = Append(w, r)[i + 1]
    BY <1>1, <1>2, HeadTailProperties
  <2>3. \A i \in 1..Len(w) : i # Len(w) => i + 1 \in 1..Len(w)
    BY <1>1
  <2> QED
    BY <1>2, <1>3, <2>1, <2>2, <2>3 DEF Follows
<1>4. CASE Len(w) # SpeedSamples
  <2>1. Sliding!Newest(Append(w, r)) = Append(w, r)
    BY <1>1, <1>2, <1>4 DEF Sliding!Newest
  <2>2. \A i \in 1..(Len(w) + 1) : i # Len(w) + 1 => i \in 1..Len(w)
    BY <1>1
  <2> QED
    BY <1>2, <1>4, <2>1, <2>2 DEF Follows
<1> QED
  BY <1>3, <1>4

(* When the index has moved on, the newest sample is where it was, and the *)
(* others stay where they are and are counted from one further on.         *)
LEMMA AtMoves ==
    ASSUME NEW f \in BOOLEAN, NEW k \in Slots, NEW f2 \in BOOLEAN, NEW k2,
           k2 = IF k + 1 < SpeedSamples THEN k + 1 ELSE 0,
           f2 <=> f \/ k + 1 = SpeedSamples,
           NEW n, n = Count(f, k), NEW m, m = Count(f2, k2)
    PROVE  /\ m = IF n = SpeedSamples THEN n ELSE n + 1
           /\ \A i \in 1..m :
                 /\ i = m => At(f2, k2, i) = k
                 /\ i # m => \E j \in 1..n :
                       /\ j = IF n = SpeedSamples THEN i + 1 ELSE i
                       /\ At(f2, k2, i) = At(f, k, j) /\ At(f, k, j) # k
<1>1. /\ SpeedSamples \in Nat \ {0} /\ k \in Nat /\ k < SpeedSamples
  BY SamplesAssumption, CountTyped
<1>2. CASE f
  <2>1. n = SpeedSamples /\ m = SpeedSamples /\ f2
    BY <1>2 DEF Count
  <2>2. ASSUME NEW i \in 1..m, i = m
        PROVE  At(f2, k2, i) = k
    BY <1>1, <2>1, <2>2 DEF At
  <2>3. ASSUME NEW i \in 1..m, i # m
        PROVE  /\ i + 1 \in 1..n
               /\ At(f2, k2, i) = At(f, k, i + 1) /\ At(f, k, i + 1) # k
    <3>0. i \in 1..SpeedSamples /\ i # SpeedSamples
      BY <2>1, <2>3
    <3>1. i \in Nat /\ i >= 1 /\ i < SpeedSamples
      BY <1>1, <3>0
    <3>2. i + 1 \in 1..n
      BY <1>1, <2>1, <3>1
    <3>a. At(f, k, i + 1) = IF k + (i + 1) <= SpeedSamples THEN k + i
                            ELSE k + i - SpeedSamples
      BY <1>1, <1>2, <3>1 DEF At
    <3>3. CASE k + 1 < SpeedSamples
      <4>1. k2 = k + 1
        BY <3>3
      <4>2. At(f2, k2, i) = IF k + (i + 1) <= SpeedSamples THEN k + i
                            ELSE k + i - SpeedSamples
        BY <1>1, <2>1, <3>1, <4>1 DEF At
      <4> QED
        BY <1>1, <3>1, <3>2, <3>a, <4>2
    <3>4. CASE ~(k + 1 < SpeedSamples)
      <4>1. k2 = 0 /\ k = SpeedSamples - 1
        BY <1>1, <3>4
      <4>2. At(f2, k2, i) = i - 1
        BY <1>1, <2>1, <3>1, <4>1 DEF At
      <4>3. At(f, k, i + 1) = i - 1 /\ i - 1 # k
        BY <1>1, <3>1, <3>a, <4>1
      <4> QED
        BY <3>2, <4>2, <4>3
    <3> QED
      BY <3>3, <3>4
  <2> QED
    BY <2>1, <2>2, <2>3
<1>3. CASE ~f
  <2>1. n = k /\ n # SpeedSamples
    BY <1>1, <1>3 DEF Count
  <2>2. m = k + 1
    BY <1>1, <1>3 DEF Count
  <2>3. ASSUME NEW i \in 1..m
        PROVE  At(f2, k2, i) = i - 1
    <3>1. i \in Nat /\ i >= 1 /\ i <= k + 1
      BY <1>1, <2>2
    <3> QED
      BY <1>1, <1>3, <3>1 DEF At
  <2>4. ASSUME NEW i \in 1..m, i # m
        PROVE  i \in 1..n /\ At(f, k, i) = i - 1 /\ i - 1 # k
    BY <1>1, <1>3, <2>1, <2>2, <2>4 DEF At
  <2>5. m - 1 = k
    BY <1>1, <2>2
  <2> QED
    BY <2>1, <2>2, <2>3, <2>4, <2>5
<1> QED
  BY <1>2, <1>3

(* A sample moves the window on by one.                                    *)
LEMMA WindowSlides ==
    ASSUME TypeOK, TypeOK', Sample, reading' # NoReading
    PROVE  Window' = Sliding!Newest(Append(Window, reading'))
<1> DEFINE at(i) == At(bufferFilled, sampleIndex, i)
           new(i) == At(bufferFilled', sampleIndex', i)
           n == Count(bufferFilled, sampleIndex)
           m == Count(bufferFilled', sampleIndex')
           v == Sliding!Newest(Append(Window, reading'))
<1>a. /\ speedBuf \in [Slots -> Nat] /\ courseBuf \in [Slots -> 0..359]
      /\ bufferFilled \in BOOLEAN /\ sampleIndex \in Slots
  BY DEF TypeOK
<1>b. /\ speedBuf' \in [Slots -> Nat] /\ courseBuf' \in [Slots -> 0..359]
      /\ bufferFilled' \in BOOLEAN /\ sampleIndex' \in Slots
  BY DEF TypeOK
<1>1. /\ SpeedSamples \in Nat \ {0} /\ sampleIndex \in Nat
      /\ sampleIndex < SpeedSamples /\ bufferFilled \in BOOLEAN
      /\ n \in Nat /\ n <= SpeedSamples
  BY SamplesAssumption, CountTyped DEF TypeOK
<1>2. reading' \in Samples
  BY SamplesAssumption, ReadingsTyped DEF TypeOK
<1>3. /\ Window \in Seq(Samples) /\ Len(Window) = n
      /\ \A i \in 1..n : /\ at(i) \in Slots
                        /\ Window[i] = [speed  |-> speedBuf[at(i)],
                                        course |-> courseBuf[at(i)]]
  <2>1. Reads(Window, speedBuf, courseBuf, bufferFilled, sampleIndex)
    BY <1>a, WindowIs, WindowAt
  <2> QED
    BY <2>1, Zenon DEF Reads
<1>4. /\ Window' \in Seq(Samples) /\ Len(Window') = m
      /\ \A i \in 1..m : /\ new(i) \in Slots
                        /\ Window'[i] = [speed  |-> speedBuf'[new(i)],
                                         course |-> courseBuf'[new(i)]]
  <2>1. Reads(Window', speedBuf', courseBuf', bufferFilled', sampleIndex')
    BY <1>b, WindowIsNext, WindowAt
  <2> QED
    BY <2>1, Zenon DEF Reads
<1>5. /\ v \in Seq(Samples)
      /\ Len(v) = IF n = SpeedSamples THEN n ELSE n + 1
      /\ \A i \in 1..Len(v) :
            v[i] = IF i = Len(v) THEN reading'
                   ELSE IF n = SpeedSamples THEN Window[i + 1] ELSE Window[i]
  <2>1. Window \in Seq(Samples) /\ Len(Window) = n /\ Len(Window) <= SpeedSamples
    BY <1>1, <1>3
  <2>2. Follows(v, Window, reading')
    BY <1>2, <2>1, NewestFollows
  <2> HIDE DEF n, v, m, at, new
  <2> QED
    BY <2>1, <2>2 DEF Follows
<1>6. /\ sampleIndex' = IF sampleIndex + 1 < SpeedSamples
                        THEN sampleIndex + 1 ELSE 0
      /\ bufferFilled' <=> bufferFilled \/ sampleIndex + 1 = SpeedSamples
      /\ bufferFilled' \in BOOLEAN /\ sampleIndex \in Slots
  BY SampleMoves DEF Sample, TypeOK
<1>8. /\ m = IF n = SpeedSamples THEN n ELSE n + 1
      /\ \A i \in 1..m :
            /\ i = m => new(i) = sampleIndex
            /\ i # m => \E j \in 1..n :
                  /\ j = IF n = SpeedSamples THEN i + 1 ELSE i
                  /\ new(i) = at(j) /\ at(j) # sampleIndex
  BY <1>1, <1>6, AtMoves
<1>10. /\ \A k \in Slots : speedBuf'[k] = IF k = sampleIndex THEN reading'.speed
                                         ELSE speedBuf[k]
       /\ \A k \in Slots : courseBuf'[k] = IF k = sampleIndex
                                          THEN reading'.course
                                          ELSE courseBuf[k]
  BY DEF Sample, TypeOK
<1> HIDE DEF at, new, n, m, v
<1>11. m \in Nat /\ Len(v) = m
  BY <1>1, <1>5, <1>8
<1>12. ASSUME NEW i \in 1..m
       PROVE  Window'[i] = v[i]
  <2>1. /\ new(i) \in Slots
        /\ Window'[i] = [speed  |-> speedBuf'[new(i)],
                         course |-> courseBuf'[new(i)]]
    BY <1>4
  <2>2. CASE i = m
    <3>1. v[i] = reading'
      BY <1>5, <1>11, <2>2
    <3>2. reading' = [speed |-> reading'.speed, course |-> reading'.course]
      BY <1>2 DEF Samples
    <3> QED
      BY <1>8, <1>10, <2>1, <2>2, <3>1, <3>2
  <2>3. CASE i # m
    <3>1. PICK j \in 1..n : /\ j = IF n = SpeedSamples THEN i + 1 ELSE i
                            /\ new(i) = at(j) /\ at(j) # sampleIndex
      BY <1>8, <2>3
    <3>2. v[i] = Window[j]
      BY <1>5, <1>11, <2>3, <3>1
    <3>3. Window[j] = [speed |-> speedBuf[at(j)], course |-> courseBuf[at(j)]]
      BY <1>3, <3>1
    <3> QED
      BY <1>10, <2>1, <3>1, <3>2, <3>3
  <2> QED
    BY <2>2, <2>3
<1> QED
  <2>1. Window' \in Seq(Samples) /\ v \in Seq(Samples) /\ Len(Window') = Len(v)
    BY <1>4, <1>5, <1>11
  <2>2. Window' = v
    BY <1>4, <1>12, <2>1, SeqEqual
  <2> QED
    BY <2>2 DEF v

(* What is published are the means of the window.                          *)
LEMMA AveragesAreMeans ==
    ASSUME NEW sb \in [Slots -> Nat], NEW cb \in [Slots -> 0..359],
           NEW filled \in BOOLEAN, NEW index \in Slots,
           NEW w, Reads(w, sb, cb, filled, index)
    PROVE  Sliding!Means(w) = [speed  |-> average(sb, filled, index),
                               course |-> average(cb, filled, index)]
<1> DEFINE n == Count(filled, index)
           at(i) == At(filled, index, i)
           speeds == [i \in DOMAIN w |-> w[i].speed]
           courses == [i \in DOMAIN w |-> w[i].course]
<1>1. /\ n \in Nat /\ DOMAIN w = 1..n
      /\ \A i \in 1..n : /\ at(i) \in Slots
                        /\ w[i] = [speed |-> sb[at(i)], course |-> cb[at(i)]]
  BY CountTyped DEF Reads
<1>2. cb \in [Slots -> Nat]
  <2>1. 0..359 \subseteq Nat
    OBVIOUS
  <2> QED
    BY <2>1
<1>3. /\ \A i \in 1..n : speeds[i] = sb[at(i)] /\ courses[i] = cb[at(i)]
      /\ speeds \in [1..n -> Nat] /\ courses \in [1..n -> Nat]
  <2> HIDE DEF n, at
  <2> QED
    BY <1>1, <1>2
<1>4. /\ speeds \in Seq(Nat) /\ Len(speeds) = n
      /\ courses \in Seq(Nat) /\ Len(courses) = n
  <2> HIDE DEF n, speeds, courses
  <2> QED
    BY <1>1, <1>3, SeqDef, LenProperties
<1>5. /\ speeds = <<>> <=> n = 0
      /\ courses = <<>> <=> n = 0
  <2> HIDE DEF n, speeds, courses
  <2> QED
    BY <1>1, <1>4, EmptySeq
<1>6. Sliding!Means(w) = [speed  |-> Sliding!Mean(speeds),
                          course |-> Sliding!Mean(courses)]
  BY Zenon DEF Sliding!Means
<1> HIDE DEF speeds, courses
<1>7. Sliding!Mean(speeds) = average(sb, filled, index)
  <2>1. Takes(speeds, sb, filled, index)
    BY <1>3, <1>4, <1>5 DEF Takes
  <2> QED
    BY <2>1, AverageIsMean
<1>8. Sliding!Mean(courses) = average(cb, filled, index)
  <2>1. Takes(courses, cb, filled, index)
    BY <1>3, <1>4, <1>5 DEF Takes
  <2> QED
    BY <1>2, <2>1, AverageIsMean
<1> QED
  BY <1>6, <1>7, <1>8

LEMMA WindowReads ==
    ASSUME TypeOK
    PROVE  Reads(Window, speedBuf, courseBuf, bufferFilled, sampleIndex)
  BY WindowIs, WindowAt DEF TypeOK

LEMMA WindowReadsNext ==
    ASSUME TypeOK'
    PROVE  Reads(Window', speedBuf', courseBuf', bufferFilled', sampleIndex')
  BY WindowIsNext, WindowAt DEF TypeOK

LEMMA InitSlides == Init => Sliding!Init
<1> SUFFICES ASSUME Init PROVE Sliding!Init
  OBVIOUS
<1>1. TypeOK
  BY InitTyped
<1>2. Count(bufferFilled, sampleIndex) = 0
  BY DEF Init, Count
<1>3. Window = <<>>
  BY <1>1, <1>2, WindowReads, EmptySeq DEF Reads
<1>4. /\ average(speedBuf, bufferFilled, sampleIndex) = 0
      /\ average(courseBuf, bufferFilled, sampleIndex) = 0
  BY <1>2, AverageSums DEF TypeOK
<1>5. Sliding!Means(<<>>) = [speed |-> 0, course |-> 0]
  <2>1. Sliding!Means(Window)
          = [speed  |-> average(speedBuf, bufferFilled, sampleIndex),
             course |-> average(courseBuf, bufferFilled, sampleIndex)]
    BY <1>1, WindowReads, AveragesAreMeans DEF TypeOK
  <2> QED
    BY <1>3, <1>4, <2>1
<1> QED
  BY <1>3, <1>5 DEF Init, Sliding!Init

LEMMA SampleSlides ==
    ASSUME TypeOK, TypeOK', Sample
    PROVE  Window' = IF reading' = NoReading THEN Window
                     ELSE Sliding!Newest(Append(Window, reading'))
<1>1. CASE reading' = NoReading
  <2>1. /\ speedBuf' = speedBuf /\ courseBuf' = courseBuf
        /\ bufferFilled' = bufferFilled /\ sampleIndex' = sampleIndex
    BY <1>1 DEF Sample, rings
  <2> QED
    BY <1>1, <2>1, WindowIs, WindowIsNext
<1>2. CASE reading' # NoReading
  BY <1>2, WindowSlides
<1> QED
  BY <1>1, <1>2

LEMMA PublishSlides ==
    ASSUME TypeOK', NEW located \in BOOLEAN, Publish(located)
    PROVE  \/ data' = Sliding!Means(Window') /\ newData' = TRUE
           \/ UNCHANGED <<data, newData>>
<1>1. CASE located
  <2>1. Sliding!Means(Window')
          = [speed  |-> average(speedBuf', bufferFilled', sampleIndex'),
             course |-> average(courseBuf', bufferFilled', sampleIndex')]
    BY WindowReadsNext, AveragesAreMeans DEF TypeOK
  <2> QED
    BY <1>1, <2>1 DEF Publish
<1>2. CASE ~located
  BY <1>2 DEF Publish
<1> QED
  BY <1>1, <1>2

(* Each call of update() is one step of the window, each call of           *)
(* hasNewData() takes the fix or finds none.                               *)
LEMMA StepSlides ==
    ASSUME TypeOK, TypeOK', [Next]_vars
    PROVE  [Sliding!Next]_(Sliding!vars)
<1>1. ASSUME NEW r \in Readings, UpdateRmc(r) PROVE Sliding!Update
  BY <1>1, SampleSlides, PublishSlides DEF UpdateRmc, Sliding!Update
<1>2. ASSUME NEW located \in BOOLEAN, Update(located) PROVE Sliding!Update
  BY <1>2, SampleSlides, PublishSlides DEF Update, Sliding!Update
<1>3. ASSUME UNCHANGED <<reading, rings, data>>
      PROVE  UNCHANGED <<reading, Window, data>>
  <2>1. /\ speedBuf' = speedBuf /\ courseBuf' = courseBuf
        /\ bufferFilled' = bufferFilled /\ sampleIndex' = sampleIndex
    BY <1>3 DEF rings
  <2> QED
    BY <1>3, <2>1, WindowIs, WindowIsNext
<1>4. CASE HasNewData
  <2>1. CASE newData = TRUE
    BY <1>3, <1>4, <2>1 DEF HasNewData, Sliding!Take, Sliding!Next
  <2>2. CASE newData = FALSE
    BY <1>3, <1>4, <2>2 DEF HasNewData, Sliding!vars
  <2> QED
    BY <2>1, <2>2 DEF TypeOK
<1>5. CASE UNCHANGED vars
  BY <1>3, <1>5 DEF vars, Sliding!vars
<1> QED
  BY <1>1, <1>2, <1>4, <1>5 DEF Next, Sliding!Next

(* The rings with their index and flag, before and after the index wraps,  *)
(* are a window over the newest samples, for rings of any size.            *)
THEOREM RingIsWindow == Spec => ImplementsWindow
<1>1. TypeOK /\ TypeOK' /\ [Next]_vars => [Sliding!Next]_(Sliding!vars)
  BY StepSlides
<1> QED
  BY InitSlides, <1>1, GpsTyped, PTL DEF Spec, ImplementsWindow, Sliding!Spec
=============================================================================
