---------------------------- MODULE Media_proofs ----------------------------
(***************************************************************************)
(* The ranges, moments and percentages of one file, for every size, every  *)
(* duration and every value of the constants.  The lemmas on products and  *)
(* quotients come first: the provers know linear arithmetic only.          *)
(***************************************************************************)
EXTENDS Media, TLAPS

LEMMA Division ==
  ASSUME NEW x \in Int, NEW d \in Nat \ {0}
  PROVE  /\ x \div d \in Int
         /\ d * (x \div d) <= x
         /\ x < d * (x \div d) + d
  OBVIOUS

LEMMA ProductMonotone ==
  ASSUME NEW a \in Int, NEW b \in Int, NEW d \in Nat, a <= b
  PROVE  d * a <= d * b
  OBVIOUS

LEMMA ProductLess ==
  ASSUME NEW a \in Int, NEW b \in Int, NEW d \in Nat, d * a < d * b
  PROVE  a < b
  BY ProductMonotone

LEMMA Quotient ==
  ASSUME NEW x \in Int, NEW d \in Nat \ {0}, NEW q \in Int,
         d * q <= x, x < d * q + d
  PROVE  x \div d = q
<1> DEFINE p == x \div d
<1>1. p \in Int /\ d * p <= x /\ x < d * p + d  BY Division
<1> HIDE DEF p
<1>2. d * (q + 1) = d * q + d /\ d * (p + 1) = d * p + d  BY <1>1
<1>3. p < q + 1  BY <1>1, <1>2, ProductLess
<1>4. q < p + 1  BY <1>1, <1>2, ProductLess
<1> QED  BY <1>1, <1>3, <1>4 DEF p

LEMMA DivisionMonotone ==
  ASSUME NEW x \in Int, NEW y \in Int, NEW d \in Nat \ {0}, x <= y
  PROVE  x \div d <= y \div d
<1> DEFINE p == x \div d
<1> DEFINE q == y \div d
<1>1. p \in Int /\ d * p <= x
  BY Division
<1>2. q \in Int /\ y < d * q + d
  BY Division
<1> HIDE DEF p, q
<1>3. d * p < d * (q + 1)
  BY <1>1, <1>2
<1>4. p < q + 1
  BY <1>1, <1>2, <1>3, ProductLess
<1> QED
  BY <1>1, <1>2, <1>4 DEF p, q

-----------------------------------------------------------------------------
(* The parts *)

\* The parts reach the end of the file and the last one begins in it.
LEMMA PartCountBounds ==
  ASSUME NEW bytes \in Nat
  PROVE  /\ PartCount(bytes) \in Nat \ {0}
         /\ bytes <= PartCount(bytes) * PartSize
         /\ bytes > 0 => (PartCount(bytes) - 1) * PartSize < bytes
         /\ bytes = 0 => PartCount(bytes) = 1
<1> DEFINE d == PartSize
<1> DEFINE q == (bytes + d - 1) \div d
<1>0. d \in Nat \ {0}
  BY MediaAssumption
<1>1. q \in Int /\ d * q <= bytes + d - 1 /\ bytes + d - 1 < d * q + d
  BY <1>0, Division
<1>2. PartCount(bytes) = IF 1 >= q THEN 1 ELSE q
  BY DEF PartCount, MaxOf
<1> HIDE DEF q
<1> SUFFICES /\ bytes <= PartCount(bytes) * d
             /\ bytes > 0 => (PartCount(bytes) - 1) * d < bytes
             /\ bytes = 0 => PartCount(bytes) = 1
  BY <1>1, <1>2
<1> HIDE DEF d
<1>3. d * (q - 1) = d * q - d
  BY <1>0, <1>1
<1>4. CASE q >= 1
  BY <1>0, <1>1, <1>2, <1>3, <1>4
<1>5. CASE q < 1
  <2>1. d * q <= 0
    BY <1>0, <1>1, <1>5
  <2> QED
    BY <1>0, <1>1, <1>2, <1>5, <2>1
<1> QED
  BY <1>1, <1>4, <1>5

\* Where a part begins and ends.
LEMMA PartRange ==
  ASSUME size \in Nat, NEW n \in 1..PartCount(size)
  PROVE  /\ (n - 1) * PartSize \in Nat
         /\ n * PartSize = (n - 1) * PartSize + PartSize
         /\ n < PartCount(size) => n * PartSize < size
         /\ size > 0 => (n - 1) * PartSize < size
         /\ PartBytes(n) = { b \in Int : /\ (n - 1) * PartSize <= b
                                         /\ b < n * PartSize /\ b < size }
<1> DEFINE d == PartSize
<1> DEFINE c == PartCount(size)
<1>0. d \in Nat \ {0} /\ c \in Nat \ {0} /\ n \in Nat \ {0} /\ n <= c
  BY MediaAssumption, PartCountBounds
<1>1. size > 0 => (c - 1) * d < size
  BY PartCountBounds
<1>2. size = 0 => c = 1
  BY PartCountBounds
<1> HIDE DEF d, c
<1>3. (n - 1) * d \in Nat /\ n * d = (n - 1) * d + d
  BY <1>0
<1>4. (n - 1) * d <= (c - 1) * d
  BY <1>0
<1>5. n < c => n * d <= (c - 1) * d
  BY <1>0
<1>6. n < c => size > 0
  BY <1>0, <1>2
<1>7. PartBytes(n) = (n - 1) * d .. MinOf((n - 1) * d + d, size) - 1
  BY DEF PartBytes, d
<1>8. (c - 1) * d \in Int
  BY <1>0
<1> QED
  BY <1>0, <1>1, <1>3, <1>4, <1>5, <1>6, <1>7, <1>8 DEF MinOf, d, c

LEMMA TypedParts ==
  ASSUME TypeOK, stage # "uploading" => sent = 1..PartCount(size)
  PROVE  PartsTile
<1> DEFINE d == PartSize
<1> DEFINE c == PartCount(size)
<1>0. size \in Nat /\ d \in Nat \ {0} /\ sent \subseteq 1..c
  BY MediaAssumption DEF TypeOK
<1>c. c \in Nat \ {0} /\ size <= c * d
  BY <1>0, PartCountBounds
<1> HIDE DEF d, c
<1>1. ASSUME NEW n \in sent, NEW m \in sent, n < m
      PROVE  PartBytes(n) \cap PartBytes(m) = {}
  <2>1. n \in 1..c /\ m \in 1..c
    BY <1>0
  <2>2. n * d <= (m - 1) * d /\ n * d \in Int /\ (m - 1) * d \in Int
    BY <1>0, <1>c, <1>1, <2>1
  <2>3. \A b \in PartBytes(n) : b < n * d /\ b \in Int
    BY <1>0, <2>1, PartRange DEF d, c
  <2>4. \A b \in PartBytes(m) : (m - 1) * d <= b
    BY <1>0, <2>1, PartRange DEF d, c
  <2> QED
    BY <2>2, <2>3, <2>4
<1>2. \A n, m \in sent : n # m => PartBytes(n) \cap PartBytes(m) = {}
  <2> SUFFICES ASSUME NEW n \in sent, NEW m \in sent, n # m
               PROVE  PartBytes(n) \cap PartBytes(m) = {}
    OBVIOUS
  <2>1. n \in Int /\ m \in Int
    BY <1>0, <1>c
  <2>2. CASE n < m
    BY <1>1, <2>2
  <2>3. CASE m < n
    BY <1>1, <2>3
  <2> QED
    BY <2>1, <2>2, <2>3
<1>3. ASSUME NEW n \in sent
      PROVE  /\ PartBytes(n) \subseteq 0..size - 1
             /\ n < c => PartBytes(n) = (n - 1) * d .. n * d - 1
             /\ PartBytes(n) = {} => size = 0
  <2> DEFINE low == (n - 1) * d
  <2> DEFINE high == n * d
  <2>1. /\ low \in Nat /\ high = low + d
        /\ n < c => high < size
        /\ size > 0 => low < size
        /\ PartBytes(n) = {b \in Int : low <= b /\ b < high /\ b < size}
    BY <1>0, PartRange DEF d, c
  <2> HIDE DEF low, high
  <2>2. PartBytes(n) \subseteq 0..size - 1
    BY <1>0, <2>1
  <2>3. n < c => PartBytes(n) = low .. high - 1
    BY <1>0, <2>1
  <2>4. size > 0 => low \in PartBytes(n)
    BY <1>0, <2>1
  <2> QED
    BY <1>0, <2>2, <2>3, <2>4 DEF low, high
<1>4. ASSUME sent = 1..c
      PROVE  0..size - 1 \subseteq UNION {PartBytes(n) : n \in sent}
  <2> SUFFICES ASSUME NEW b \in 0..size - 1
               PROVE  \E n \in sent : b \in PartBytes(n)
    OBVIOUS
  <2> DEFINE q == b \div d
  <2>1. b \in Nat /\ b < size
    BY <1>0
  <2>2. q \in Int /\ d * q <= b /\ b < d * q + d
    BY <1>0, <2>1, Division
  <2> HIDE DEF q
  <2>3. q > -1
    <3>1. d * (-1) < d * q
      BY <1>0, <2>1, <2>2
    <3> QED
      BY <1>0, <2>2, <3>1, ProductLess
  <2>4. q < c
    <3>1. d * q < d * c
      BY <1>0, <1>c, <2>1, <2>2
    <3> QED
      BY <1>0, <1>c, <2>2, <3>1, ProductLess
  <2>5. q + 1 \in 1..c
    BY <1>c, <2>2, <2>3, <2>4
  <2>6. (q + 1) * d = d * q + d /\ ((q + 1) - 1) * d = d * q
    BY <1>0, <2>2
  <2>7. b \in PartBytes(q + 1)
    BY <1>0, <2>1, <2>2, <2>5, <2>6, PartRange DEF d, c
  <2> QED
    BY <1>4, <2>5, <2>7
<1> QED
  <2>1. stage # "uploading" => UNION {PartBytes(n) : n \in sent} = 0..size - 1
    BY <1>3, <1>4 DEF c
  <2> QED
    BY <1>2, <1>3, <2>1 DEF PartsTile, c, d

-----------------------------------------------------------------------------
(* The clips *)

LEMMA ClipCountBounds ==
  ASSUME NEW ms \in Nat \ {0}
  PROVE  /\ ClipCount(ms) \in 1..MaxClips
         /\ ms >= ClipMs => ClipCount(ms) * ClipMs <= ms
         /\ ms < ClipMs => ClipCount(ms) = 1
         /\ ClipCount(ms) < MaxClips => (ClipCount(ms) + 1) * ClipMs > ms
<1> DEFINE d == ClipMs
<1> DEFINE q == ms \div d
<1>0. d \in Nat \ {0} /\ MaxClips \in Nat \ {0}
  BY MediaAssumption
<1>1. q \in Int /\ d * q <= ms /\ ms < d * q + d
  BY <1>0, Division
<1>2. ClipCount(ms) = IF ms < d THEN 1 ELSE MaxOf(1, MinOf(MaxClips, q))
  BY DEF ClipCount
<1> HIDE DEF d, q
<1>3. CASE ms < d
  BY <1>0, <1>2, <1>3 DEF d
<1>4. CASE ms >= d
  <2>1. q >= 1
    <3>1. d * 1 < d * (q + 1)
      BY <1>0, <1>1, <1>4
    <3>2. 1 < q + 1
      BY <1>0, <1>1, <3>1, ProductLess
    <3> QED
      BY <1>1, <3>2
  <2>2. CASE q <= MaxClips
    <3>1. ClipCount(ms) = q
      BY <1>0, <1>1, <1>2, <1>4, <2>1, <2>2 DEF MaxOf, MinOf
    <3>2. q * d = d * q /\ (q + 1) * d = d * q + d
      BY <1>0, <1>1
    <3> QED
      BY <1>0, <1>1, <1>4, <2>1, <2>2, <3>1, <3>2 DEF d
  <2>3. CASE q > MaxClips
    <3>1. ClipCount(ms) = MaxClips
      BY <1>0, <1>1, <1>2, <1>4, <2>1, <2>3 DEF MaxOf, MinOf
    <3>2. d * MaxClips <= d * q
      BY <1>0, <1>1, <2>3
    <3>3. MaxClips * d = d * MaxClips
      BY <1>0
    <3> QED
      BY <1>0, <1>1, <1>4, <3>1, <3>2, <3>3 DEF d
  <2> QED
    BY <1>0, <1>1, <2>2, <2>3
<1> QED
  BY <1>0, <1>3, <1>4

\* Two clips whose exact starts are a video's n-th part apart, or more, do not
\* overlap after rounding, and neither does the last pass the end.
LEMMA RoundedApart ==
  ASSUME NEW n \in Nat \ {0}, NEW L \in Nat, NEW ms \in Nat, n * L <= ms,
         NEW i \in 1..n, NEW k \in 1..n, i < k,
         NEW a \in Nearest((i - 1) * ms, n), NEW b \in Nearest((k - 1) * ms, n)
  PROVE  a + L <= b
<1> DEFINE x == (i - 1) * ms
<1> DEFINE y == (k - 1) * ms
<1>0. i \in Nat \ {0} /\ k \in Nat \ {0} /\ x \in Nat /\ y \in Nat
  OBVIOUS
<1>1. /\ a \in Nat /\ b \in Nat
      /\ 2 * (a * n - x) <= n /\ 2 * (y - b * n) <= n
  BY <1>0 DEF Nearest
<1>2. x + ms <= y
  <2>1. i * ms <= (k - 1) * ms
    BY <1>0
  <2>2. i * ms = x + ms
    BY <1>0
  <2> QED
    BY <2>1, <2>2
<1>3. CASE ms > n * L
  <2> HIDE DEF x, y
  <2>1. n * (L - 1) = n * L - n /\ n * (b - a) = b * n - a * n
    BY <1>1
  <2>2. a * n \in Int /\ b * n \in Int /\ n * L \in Int
    BY <1>1
  <2>3. n * (L - 1) < n * (b - a)
    BY <1>0, <1>1, <1>2, <1>3, <2>1, <2>2
  <2>4. L - 1 < b - a
    BY <1>1, <2>3, ProductLess
  <2> QED
    BY <1>1, <2>4
<1>4. CASE ms = n * L
  <2> DEFINE u == (i - 1) * L
  <2> DEFINE v == (k - 1) * L
  <2>0. u \in Int /\ v \in Int
    BY <1>0
  <2>1. x = n * u /\ y = n * v
    BY <1>0, <1>4
  <2>2. u + L <= v
    <3>1. i * L <= (k - 1) * L
      BY <1>0
    <3>2. i * L = u + L
      BY <1>0
    <3> QED
      BY <3>1, <3>2
  <2> HIDE DEF u, v, x, y
  <2>3. n * a < n * (u + 1)
    BY <1>0, <1>1, <2>0, <2>1
  <2>4. n * v < n * (b + 1)
    BY <1>0, <1>1, <2>0, <2>1
  <2>5. a < u + 1
    BY <1>1, <2>0, <2>3, ProductLess
  <2>6. v < b + 1
    BY <1>1, <2>0, <2>4, ProductLess
  <2> QED
    BY <1>1, <2>0, <2>2, <2>5, <2>6
<1> QED
  BY <1>3, <1>4

LEMMA RoundedInside ==
  ASSUME NEW n \in Nat \ {0}, NEW L \in Nat, NEW ms \in Nat, n * L <= ms,
         NEW i \in 1..n, NEW a \in Nearest((i - 1) * ms, n)
  PROVE  a + L <= ms
<1> DEFINE x == (i - 1) * ms
<1>0. i \in Nat \ {0} /\ x \in Nat
  OBVIOUS
<1>1. a \in Nat /\ 2 * (a * n - x) <= n
  BY <1>0 DEF Nearest
<1>2. x <= n * ms - ms
  <2>1. (i - 1) * ms <= (n - 1) * ms
    BY <1>0
  <2>2. (n - 1) * ms = n * ms - ms
    OBVIOUS
  <2> QED
    BY <2>1, <2>2
<1> HIDE DEF x
<1>3. n * (ms - L + 1) = n * ms - n * L + n
  OBVIOUS
<1>4. n * ms \in Int /\ n * L \in Int /\ n * a \in Int /\ n * a = a * n
  BY <1>1
<1>5. n * a < n * (ms - L + 1)
  BY <1>0, <1>1, <1>2, <1>3, <1>4
<1>6. a < ms - L + 1
  BY <1>1, <1>5, ProductLess
<1> QED
  BY <1>1, <1>6

LEMMA HalfInside ==
  ASSUME NEW ms \in Nat, NEW a \in Nearest(ms, 2)
  PROVE  a \in Nat /\ a <= ms
  BY DEF Nearest

LEMMA CutsFit ==
  ASSUME duration \in Nat \ {0}, clips \in ClipStarts(duration),
         thumbnail \in ThumbnailTimes(duration)
  PROVE  ClipsFit
<1> DEFINE n == ClipCount(duration)
<1> DEFINE L == ClipLength(duration)
<1>0. ClipMs \in Nat \ {0} /\ MaxClips \in Nat \ {0}
      /\ ThumbnailMs \in Nat \ {0}
  BY MediaAssumption
<1>1. n \in 1..MaxClips /\ n \in Nat \ {0} /\ L \in Nat
  BY <1>0, ClipCountBounds DEF ClipLength, MinOf
<1>2. n * L <= duration
  <2>1. CASE duration >= ClipMs
    BY <1>0, <1>1, <2>1, ClipCountBounds DEF ClipLength, MinOf
  <2>2. CASE duration < ClipMs
    BY <1>0, <1>1, <2>2, ClipCountBounds DEF ClipLength, MinOf
  <2> QED
    BY <1>0, <2>1, <2>2
<1>3. DOMAIN clips = 1..n
      /\ \A i \in 1..n : clips[i] \in Nearest((i - 1) * duration, n)
  BY DEF ClipStarts
<1>4. n > 1 => n * ClipMs <= duration
  BY <1>0, <1>1, ClipCountBounds
<1>5. n < MaxClips => (n + 1) * ClipMs > duration
  BY ClipCountBounds
<1> HIDE DEF n, L
<1>6. \A i, k \in DOMAIN clips : i < k => clips[i] + L <= clips[k]
  BY <1>1, <1>2, <1>3, RoundedApart
<1>7. \A i \in DOMAIN clips : clips[i] + L <= duration
  BY <1>1, <1>2, <1>3, RoundedInside
<1>8. thumbnail <= duration
  BY <1>0, HalfInside DEF ThumbnailTimes
<1> QED
  BY <1>1, <1>3, <1>4, <1>5, <1>6, <1>7, <1>8 DEF ClipsFit, L

-----------------------------------------------------------------------------
(* The samples *)

LEMMA SampledFits ==
  ASSUME size \in Nat, samples = Samples(size)
  PROVE  SamplesFit
<1> DEFINE d == SampleBytes
<1>0. d \in Nat \ {0}
  BY MediaAssumption
<1> HIDE DEF d
<1>1. CASE size <= d
  <2>1. samples.first = 0..size - 1 /\ samples.last = 0..size - 1
    BY <1>0, <1>1 DEF Samples, MinOf, MaxOf, d
  <2> QED
    BY <1>0, <1>1, <2>1 DEF SamplesFit, d
<1>2. CASE size > d
  <2>1. samples.first = 0..d - 1 /\ samples.last = size - d .. size - 1
    BY <1>0, <1>2 DEF Samples, MinOf, MaxOf, d
  <2> QED
    BY <1>0, <1>2, <2>1 DEF SamplesFit, d
<1> QED
  BY <1>0, <1>1, <1>2

-----------------------------------------------------------------------------
(* The percentage *)

LEMMA PercentBounds ==
  ASSUME duration \in Nat \ {0}, NEW time \in Int
  PROVE  /\ Percent(time) \in 0..999
         /\ Percent(time) * duration <= MaxOf(0, time)
<1> DEFINE q == time \div duration
<1>1. q \in Int /\ duration * q <= time
  BY Division
<1>2. Percent(time) = MinOf(999, MaxOf(0, q))
  BY DEF Percent
<1> HIDE DEF q
<1>3. CASE q <= 0
  BY <1>1, <1>2, <1>3 DEF MinOf, MaxOf
<1>4. CASE q > 0
  <2>1. Percent(time) \in 0..999 /\ Percent(time) <= q
    BY <1>1, <1>2, <1>4 DEF MinOf, MaxOf
  <2>2. duration * Percent(time) <= duration * q
    BY <1>1, <2>1
  <2>3. duration * Percent(time) = Percent(time) * duration
    BY <2>1
  <2>4. time <= MaxOf(0, time)
    BY DEF MaxOf
  <2> QED
    BY <1>1, <2>1, <2>2, <2>3, <2>4 DEF MaxOf
<1> QED
  BY <1>1, <1>3, <1>4

LEMMA PercentMonotone ==
  ASSUME duration \in Nat \ {0}, NEW s \in Int, NEW t \in Int, MaxOf(0, t) >= s
  PROVE  Percent(s) <= Percent(t)
<1> DEFINE p == s \div duration
<1> DEFINE q == t \div duration
<1> DEFINE z == 0 \div duration
<1>1. p \in Int /\ q \in Int /\ z \in Int
  BY Division
<1>2. z = 0
  <2>1. duration * 0 <= 0 /\ 0 < duration * 0 + duration
    OBVIOUS
  <2> QED
    BY <2>1, Quotient
<1>3. CASE s <= t
  <2>1. p <= q
    BY <1>3, DivisionMonotone
  <2> HIDE DEF p, q
  <2>2. MinOf(999, MaxOf(0, p)) <= MinOf(999, MaxOf(0, q))
    BY <1>1, <2>1 DEF MinOf, MaxOf
  <2> QED
    BY <2>2 DEF Percent, p, q
<1>4. CASE s > t
  <2>1. s <= 0
    BY <1>4 DEF MaxOf
  <2>2. p <= z
    BY <2>1, DivisionMonotone
  <2> HIDE DEF p, q, z
  <2>3. MinOf(999, MaxOf(0, p)) <= MinOf(999, MaxOf(0, q))
    BY <1>1, <1>2, <2>2 DEF MinOf, MaxOf
  <2> QED
    BY <2>3 DEF Percent, p, q
<1> QED
  BY <1>3, <1>4

\* What is known of the shown percentage at each stage.
ShownOK ==
  /\ stage \in {"uploading", "uploaded", "submitted"} => shown = 0 /\ ~ended
  /\ shown < 1000 => shown * duration <= MaxOf(0, out)
  /\ stage = "processing" => shown <= Percent(out) /\ ~ended
  /\ shown = 1000 => ended \/ stage \notin {"processing", "drained"}

\* What each finished stage leaves behind.
StagesOK ==
  /\ stage # "uploading" => sent = 1..PartCount(size)
  /\ stage \notin {"uploading", "uploaded"} => samples = Samples(size)
  /\ stage = "done" => clips \in ClipStarts(duration)
                       /\ thumbnail \in ThumbnailTimes(duration)

\* The inductive invariant.
MediaOK == TypeOK /\ ShownOK /\ StagesOK

LEMMA InitMediaOK == Init => MediaOK
<1> SUFFICES ASSUME Init PROVE MediaOK
  OBVIOUS
<1>1. TypeOK
  <2>1. DOMAIN clips = {} /\ samples \in [first : SUBSET Int, last : SUBSET Int]
    BY DEF Init
  <2>2. due \in BOOLEAN /\ ended \in BOOLEAN
    BY DEF Init
  <2> QED
    BY <2>1, <2>2 DEF Init, TypeOK, Graded
<1>2. ShownOK
  BY DEF Init, ShownOK, MaxOf
<1>3. StagesOK
  BY DEF Init, StagesOK
<1> QED
  BY <1>1, <1>2, <1>3 DEF MediaOK

\* The steps that leave the percentage and the cuts alone.
LEMMA FileStep ==
  ASSUME MediaOK, UNCHANGED <<encodeVars, cutVars>>,
         \/ \E n \in 1..PartCount(size) : SendPart(n)
         \/ CompleteUpload \/ Fingerprint
  PROVE  MediaOK'
<1> USE DEF encodeVars, cutVars, fileVars
<1>1. ASSUME NEW n \in 1..PartCount(size), SendPart(n) PROVE MediaOK'
  <2>1. TypeOK'
    BY <1>1 DEF MediaOK, SendPart, TypeOK, Graded
  <2> QED
    BY <1>1, <2>1 DEF MediaOK, SendPart, ShownOK, StagesOK
<1>2. CASE CompleteUpload
  <2>1. TypeOK'
    BY <1>2 DEF MediaOK, CompleteUpload, TypeOK, Graded
  <2> QED
    BY <1>2, <2>1 DEF MediaOK, CompleteUpload, ShownOK, StagesOK
<1>3. CASE Fingerprint
  <2>1. Samples(size) \in [first : SUBSET Int, last : SUBSET Int]
    BY MediaAssumption DEF Samples, MinOf, MaxOf, MediaOK, TypeOK
  <2>2. TypeOK'
    BY <1>3, <2>1 DEF MediaOK, Fingerprint, TypeOK, Graded
  <2> QED
    BY <1>3, <2>2 DEF MediaOK, Fingerprint, ShownOK, StagesOK
<1> QED
  BY <1>1, <1>2, <1>3

LEMMA ProbeKeeps ==
  ASSUME MediaOK, NEW time \in Durations, Probe(time)
  PROVE  MediaOK' /\ shown' = 0 /\ shown = 0
<1> DEFINE q == time \div 1000
<1>1. q \in Nat
  BY MediaAssumption
<1>2. /\ duration' = q /\ shown = 0 /\ shown' = 0 /\ stage = "submitted"
      /\ IF q > 0 THEN stage' = "processing" /\ due' = TRUE
         ELSE stage' = "failed" /\ due' = due
      /\ UNCHANGED <<size, sent, samples, out, ended, thumbnail, clips>>
  BY DEF Probe, MediaOK, ShownOK, fileVars, cutVars
<1> HIDE DEF q
<1>3. TypeOK'
  <2>1. due' \in BOOLEAN
    BY <1>2 DEF MediaOK, TypeOK
  <2>2. /\ stage' \in {"uploading", "uploaded", "submitted", "failed"} \cup Graded
        /\ stage' \in Graded => q > 0
    BY <1>2 DEF Graded
  <2>3. ended' \in BOOLEAN
    BY <1>2 DEF MediaOK, TypeOK
  <2> QED
    BY <1>1, <1>2, <2>1, <2>2, <2>3 DEF MediaOK, TypeOK
<1>4. StagesOK'
  BY <1>1, <1>2 DEF MediaOK, StagesOK
<1>5. MaxOf(0, out') >= 0
  BY <1>3 DEF MaxOf, TypeOK
<1>6. ASSUME stage' = "processing" PROVE Percent(out)' \in 0..999
  <2>1. duration' \in Nat \ {0} /\ out' \in Int
    BY <1>3, <1>6 DEF TypeOK, Graded
  <2>2. (out' \div duration') \in Int
    BY <2>1, Division
  <2> QED
    BY <2>2 DEF Percent, MinOf, MaxOf
<1>7. ~ended'
  BY <1>2 DEF MediaOK, ShownOK
<1>8. ShownOK'
  BY <1>1, <1>2, <1>5, <1>6, <1>7 DEF ShownOK
<1> QED
  BY <1>2, <1>3, <1>4, <1>8 DEF MediaOK

\* A step that touches only stage, out, due, ended and shown keeps the rest.
LEMMA GradeFrame ==
  ASSUME MediaOK, UNCHANGED <<fileVars, duration, cutVars>>,
         stage \in Graded, stage' \in (Graded \ {"done"}) \cup {"failed"},
         out' \in Int, due' \in BOOLEAN, ended' \in BOOLEAN, shown' \in 0..1000
  PROVE  TypeOK' /\ StagesOK' /\ duration \in Nat \ {0} /\ out \in Int
<1> USE DEF fileVars, cutVars
<1>1. duration \in Nat \ {0} /\ out \in Int
  BY DEF MediaOK, TypeOK
<1>2. stage' \in {"uploading", "uploaded", "submitted", "failed"} \cup Graded
  OBVIOUS
<1>3. TypeOK'
  BY <1>1, <1>2 DEF MediaOK, TypeOK
<1>4. StagesOK'
  BY DEF MediaOK, StagesOK, Graded
<1> QED
  BY <1>1, <1>3, <1>4

LEMMA ProgressLineStep ==
  ASSUME MediaOK, NEW time \in OutTimes, ProgressLine(time)
  PROVE  MediaOK' /\ shown' >= shown
<1>1. /\ stage = "processing" /\ stage' = stage /\ out' = time
      /\ ended' = ended /\ duration' = duration
      /\ UNCHANGED <<fileVars, duration, cutVars>>
  BY DEF ProgressLine
<1>2. time \in Int /\ MaxOf(0, time) >= out
  BY MediaAssumption DEF ProgressLine
<1>3. stage \in Graded /\ stage' \in (Graded \ {"done"}) \cup {"failed"}
  BY <1>1 DEF Graded
<1>4. duration \in Nat \ {0} /\ out \in Int /\ shown \in 0..1000
  BY <1>3 DEF MediaOK, TypeOK
<1>5. /\ Percent(time) \in 0..999
      /\ Percent(time) * duration <= MaxOf(0, time)
  BY <1>2, <1>4, PercentBounds
<1>6. Percent(out) <= Percent(time) /\ Percent(out) \in 0..999
  BY <1>2, <1>4, PercentMonotone, PercentBounds
<1>7. shown <= Percent(out) /\ ~ended
  BY <1>1 DEF MediaOK, ShownOK
<1>8. \/ shown' = Percent(time) /\ due' = FALSE
      \/ shown' = shown /\ due' = due
  BY DEF ProgressLine, Report
<1>9. shown' \in 0..999 /\ shown <= shown' /\ shown' <= Percent(time)
  <2> DEFINE p == Percent(time)
  <2> DEFINE q == Percent(out)
  <2>1. p \in 0..999 /\ q \in 0..999 /\ q <= p /\ shown <= q
    BY <1>5, <1>6, <1>7
  <2>2. shown' = p \/ shown' = shown
    BY <1>8
  <2> HIDE DEF p, q
  <2>3. shown \in 0..999 /\ shown <= p
    BY <1>4, <2>1
  <2>4. shown' \in 0..999 /\ shown <= shown' /\ shown' <= p
    <3>1. CASE shown' = p
      BY <2>1, <2>3, <3>1
    <3>2. CASE shown' = shown
      BY <2>3, <3>2
    <3> QED
      BY <2>2, <3>1, <3>2
  <2> QED
    BY <2>4 DEF p
<1>10. due' \in BOOLEAN /\ ended' \in BOOLEAN
  BY <1>1, <1>8 DEF MediaOK, TypeOK
<1>11. TypeOK' /\ StagesOK'
  BY <1>1, <1>2, <1>3, <1>9, <1>10, GradeFrame
<1>12. Percent(out)' = Percent(time)
  BY <1>1 DEF Percent
<1>13. shown' * duration' <= MaxOf(0, out')
  <2> DEFINE p == Percent(time)
  <2> DEFINE s == shown'
  <2>1. /\ p \in Int /\ s \in Int /\ s <= p /\ duration \in Nat
        /\ p * duration <= MaxOf(0, time)
    BY <1>4, <1>5, <1>9
  <2>2. MaxOf(0, time) \in Int
    BY <1>2 DEF MaxOf
  <2>3. duration' = duration /\ out' = time
    BY <1>1
  <2> HIDE DEF p, s
  <2>4. duration * s <= duration * p
    BY <2>1, ProductMonotone
  <2>5. duration * s = s * duration /\ duration * p = p * duration
    BY <2>1
  <2>6. s * duration \in Int /\ p * duration \in Int
    BY <2>1
  <2>7. s * duration <= MaxOf(0, time)
    BY <2>1, <2>2, <2>4, <2>5, <2>6
  <2> QED
    BY <2>3, <2>7 DEF s
<1>14. ShownOK'
  BY <1>1, <1>7, <1>9, <1>12, <1>13 DEF ShownOK
<1> QED
  BY <1>4, <1>9, <1>11, <1>14 DEF MediaOK

\* The interval, the end of the stream and the end of the encoder.
LEMMA EncodeKeeps ==
  ASSUME MediaOK,
         IntervalPasses \/ ProgressEnd \/ StreamEnds \/ ExitOK \/ ExitFails
  PROVE  MediaOK' /\ shown' >= shown
<1> USE DEF encodeVars
<1>0. shown \in 0..1000
  BY DEF MediaOK, TypeOK
<1>1. CASE IntervalPasses
  <2>1. /\ stage = "processing" /\ stage' = stage /\ due' = TRUE
        /\ UNCHANGED <<fileVars, duration, out, ended, shown, cutVars>>
    BY <1>1 DEF IntervalPasses
  <2>2. stage \in Graded /\ stage' \in (Graded \ {"done"}) \cup {"failed"}
    BY <2>1 DEF Graded
  <2>3. out' \in Int /\ due' \in BOOLEAN /\ ended' \in BOOLEAN
    BY <2>1 DEF MediaOK, TypeOK
  <2>4. TypeOK' /\ StagesOK'
    BY <1>0, <2>1, <2>2, <2>3, GradeFrame
  <2>5. ShownOK'
    BY <2>1 DEF MediaOK, ShownOK, Percent
  <2> QED
    BY <1>0, <2>1, <2>4, <2>5 DEF MediaOK
<1>2. CASE ProgressEnd
  <2>1. /\ stage = "processing" /\ stage' = "drained"
        /\ shown' = 1000 /\ due' = FALSE /\ ended' = TRUE
        /\ UNCHANGED <<fileVars, duration, out, cutVars>>
    BY <1>2 DEF ProgressEnd, Report
  <2>2. stage \in Graded /\ stage' \in (Graded \ {"done"}) \cup {"failed"}
    BY <2>1 DEF Graded
  <2>3. out' \in Int /\ due' \in BOOLEAN /\ ended' \in BOOLEAN
    BY <2>1 DEF MediaOK, TypeOK
  <2>4. TypeOK' /\ StagesOK'
    BY <2>1, <2>2, <2>3, GradeFrame
  <2>5. ShownOK'
    BY <2>1 DEF ShownOK
  <2> QED
    BY <1>0, <2>1, <2>4, <2>5 DEF MediaOK
<1>3. CASE StreamEnds
  <2>1. /\ stage = "processing" /\ stage' = "drained"
        /\ UNCHANGED <<fileVars, duration, out, due, ended, shown, cutVars>>
    BY <1>3 DEF StreamEnds
  <2>2. stage \in Graded /\ stage' \in (Graded \ {"done"}) \cup {"failed"}
    BY <2>1 DEF Graded
  <2>3. out' \in Int /\ due' \in BOOLEAN /\ ended' \in BOOLEAN
    BY <2>1 DEF MediaOK, TypeOK
  <2>4. TypeOK' /\ StagesOK'
    BY <1>0, <2>1, <2>2, <2>3, GradeFrame
  <2>5. ShownOK'
    BY <2>1 DEF MediaOK, ShownOK
  <2> QED
    BY <1>0, <2>1, <2>4, <2>5 DEF MediaOK
<1>4. CASE ExitOK
  <2>1. /\ stage = "drained" /\ stage' = "uploading_result" /\ shown' = 1000
        /\ UNCHANGED <<fileVars, duration, out, due, ended, cutVars>>
    BY <1>4 DEF ExitOK
  <2>2. stage \in Graded /\ stage' \in (Graded \ {"done"}) \cup {"failed"}
    BY <2>1 DEF Graded
  <2>3. out' \in Int /\ due' \in BOOLEAN /\ ended' \in BOOLEAN
    BY <2>1 DEF MediaOK, TypeOK
  <2>4. TypeOK' /\ StagesOK'
    BY <2>1, <2>2, <2>3, GradeFrame
  <2>5. ShownOK'
    BY <2>1 DEF ShownOK
  <2> QED
    BY <1>0, <2>1, <2>4, <2>5 DEF MediaOK
<1>5. CASE ExitFails
  <2>1. /\ stage = "drained" /\ stage' = "failed"
        /\ UNCHANGED <<fileVars, duration, out, due, ended, shown, cutVars>>
    BY <1>5 DEF ExitFails
  <2>2. stage \in Graded /\ stage' \in (Graded \ {"done"}) \cup {"failed"}
    BY <2>1 DEF Graded
  <2>3. out' \in Int /\ due' \in BOOLEAN /\ ended' \in BOOLEAN
    BY <2>1 DEF MediaOK, TypeOK
  <2>4. TypeOK' /\ StagesOK'
    BY <1>0, <2>1, <2>2, <2>3, GradeFrame
  <2>5. ShownOK'
    BY <2>1 DEF MediaOK, ShownOK
  <2> QED
    BY <1>0, <2>1, <2>4, <2>5 DEF MediaOK
<1> QED
  BY <1>1, <1>2, <1>3, <1>4, <1>5

LEMMA CutStep ==
  ASSUME MediaOK, Cut \/ CutFails
  PROVE  MediaOK' /\ shown' = shown
<1> USE DEF encodeVars
<1>1. CASE Cut
  <2>1. /\ stage = "uploading_result" /\ stage' = "done"
        /\ clips' \in ClipStarts(duration)
        /\ thumbnail' \in ThumbnailTimes(duration)
        /\ UNCHANGED <<fileVars, duration, out, due, ended, shown>>
    BY <1>1 DEF Cut
  <2>2. duration \in Nat \ {0}
    BY <2>1 DEF MediaOK, TypeOK, Graded
  <2>3. thumbnail' \in Nat
    BY <2>1, <2>2, HalfInside, MediaAssumption DEF ThumbnailTimes
  <2>4. /\ DOMAIN clips' \subseteq Nat
        /\ \A i \in DOMAIN clips' : clips'[i] \in Nat
    <3>1. ClipCount(duration) \in Nat
      BY <2>2, ClipCountBounds, MediaAssumption
    <3>2. clips' \in [1..ClipCount(duration) -> 0..duration]
      BY <2>1 DEF ClipStarts
    <3> QED
      BY <2>2, <3>1, <3>2
  <2>5. stage' \in {"uploading", "uploaded", "submitted", "failed"} \cup Graded
    BY <2>1 DEF Graded
  <2>6. due' \in BOOLEAN /\ ended' \in BOOLEAN
    BY <2>1 DEF MediaOK, TypeOK
  <2>7. TypeOK'
    BY <2>1, <2>2, <2>3, <2>4, <2>5, <2>6 DEF MediaOK, TypeOK, fileVars
  <2>8. StagesOK' /\ ShownOK'
    BY <2>1 DEF MediaOK, StagesOK, ShownOK, fileVars
  <2> QED
    BY <2>1, <2>7, <2>8 DEF MediaOK
<1>2. CASE CutFails
  <2>1. /\ stage = "uploading_result" /\ stage' = "failed"
        /\ UNCHANGED <<fileVars, duration, out, due, ended, shown, cutVars>>
    BY <1>2 DEF CutFails
  <2>2. stage \in Graded /\ stage' \in (Graded \ {"done"}) \cup {"failed"}
    BY <2>1 DEF Graded
  <2>3. /\ out' \in Int /\ due' \in BOOLEAN /\ ended' \in BOOLEAN
        /\ shown' \in 0..1000
    BY <2>1 DEF MediaOK, TypeOK
  <2>4. TypeOK' /\ StagesOK'
    BY <2>1, <2>2, <2>3, GradeFrame
  <2>5. ShownOK'
    BY <2>1 DEF MediaOK, ShownOK
  <2> QED
    BY <2>1, <2>4, <2>5 DEF MediaOK
<1> QED
  BY <1>1, <1>2

LEMMA StutterStep == MediaOK /\ UNCHANGED mediaVars => MediaOK'
<1> SUFFICES ASSUME MediaOK, UNCHANGED mediaVars PROVE MediaOK'
  OBVIOUS
<1>1. TypeOK'
  BY DEF MediaOK, mediaVars, TypeOK
<1>2. ShownOK' /\ StagesOK'
  BY DEF MediaOK, mediaVars, ShownOK, StagesOK, Percent
<1> QED
  BY <1>1, <1>2 DEF MediaOK

LEMMA NextKeeps ==
  ASSUME MediaOK, [Next]_mediaVars
  PROVE  MediaOK' /\ shown' >= shown
<1>0. shown \in 0..1000
  BY DEF MediaOK, TypeOK
<1>1. CASE (\E n \in 1..PartCount(size) : SendPart(n)) \/ CompleteUpload
           \/ Fingerprint
  <2>1. UNCHANGED <<encodeVars, cutVars>>
    BY <1>1 DEF SendPart, CompleteUpload, Fingerprint
  <2> QED
    BY <1>0, <1>1, <2>1, FileStep DEF encodeVars
<1>2. CASE \E time \in Durations : Probe(time)
  BY <1>2, ProbeKeeps
<1>3. CASE \E time \in OutTimes : ProgressLine(time)
  BY <1>3, ProgressLineStep
<1>4. CASE IntervalPasses \/ ProgressEnd \/ StreamEnds \/ ExitOK \/ ExitFails
  BY <1>4, EncodeKeeps
<1>5. CASE Cut \/ CutFails
  BY <1>0, <1>5, CutStep
<1>6. CASE UNCHANGED mediaVars
  BY <1>0, <1>6, StutterStep DEF mediaVars
<1> QED
  BY <1>1, <1>2, <1>3, <1>4, <1>5, <1>6 DEF Next

THEOREM AlwaysMediaOK == Spec => []MediaOK
<1>1. Init => MediaOK
  BY InitMediaOK
<1>2. MediaOK /\ [Next]_mediaVars => MediaOK'
  BY NextKeeps
<1> QED
  BY <1>1, <1>2, PTL DEF Spec

-----------------------------------------------------------------------------

\* Every amount keeps its type, for all sizes and durations, and nothing is
\* graded without a duration (TypeOK).
THEOREM MediaTypeOK == Spec => []TypeOK
<1>1. MediaOK => TypeOK
  BY DEF MediaOK
<1> QED
  BY <1>1, AlwaysMediaOK, PTL

\* The parts of every file cut it up, whatever the size of a part (PartsTile).
THEOREM PartsAreTheFile == Spec => []PartsTile
<1>1. MediaOK => PartsTile
  BY TypedParts DEF MediaOK, StagesOK
<1> QED
  BY <1>1, AlwaysMediaOK, PTL

\* Every fingerprint reads the two ends of its file and nothing else
\* (SamplesFit).
THEOREM SamplesAreTheEnds == Spec => []SamplesFit
<1>1. MediaOK => SamplesFit
  <2>1. MediaOK => size \in Nat
    BY MediaAssumption DEF MediaOK, TypeOK
  <2> QED
    BY <2>1, SampledFits DEF MediaOK, StagesOK, SamplesFit
<1> QED
  BY <1>1, AlwaysMediaOK, PTL

\* The clips of every video fit in it side by side, rounding included
\* (ClipsFit).
THEOREM ClipsAreApart == Spec => []ClipsFit
<1>1. MediaOK => ClipsFit
  <2>1. MediaOK /\ stage = "done" => duration \in Nat \ {0}
    BY DEF MediaOK, TypeOK, Graded
  <2> QED
    BY <2>1, CutsFit DEF MediaOK, StagesOK, ClipsFit
<1> QED
  BY <1>1, AlwaysMediaOK, PTL

\* The shown percentage never falls, runs ahead or reaches 100 too early
\* (ProgressIsTrue).
THEOREM PercentageIsTrue == Spec => ProgressIsTrue
<1> DEFINE A == /\ shown' >= shown
                /\ shown' < 1000 => shown' * duration' <= MaxOf(0, out')
                /\ shown' = 1000
                     => ended' \/ stage' \notin {"processing", "drained"}
<1>1. MediaOK /\ [Next]_mediaVars => [A]_mediaVars
  <2> SUFFICES ASSUME MediaOK, [Next]_mediaVars PROVE A
    OBVIOUS
  <2>1. MediaOK' /\ shown' >= shown
    BY NextKeeps
  <2> QED
    BY <2>1 DEF MediaOK, ShownOK, MaxOf
<1> QED
  BY <1>1, AlwaysMediaOK, PTL DEF Spec, ProgressIsTrue
=============================================================================
