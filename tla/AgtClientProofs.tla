--------------------------- MODULE AgtClientProofs ---------------------------
(***************************************************************************)
(* The program learns what the client predicts, for every precision,       *)
(* tolerance, learning rate and observation.  Both are compared with the   *)
(* exact average over AlphaScale: the program loses less than two units an *)
(* axis there and gives the lost ones back to some axis, the client rounds *)
(* once, and an observation off the simplex moves both by what it misses.  *)
(***************************************************************************)
EXTENDS AgtClient, VaultAgtProofs

-----------------------------------------------------------------------------
(* What projecting a tensor adds to an axis: a part of what the tensor     *)
(* misses the simplex by, or a unit when the first two axes are rounded.   *)

Moved(n, m, missing) ==
  IF missing >= 0 THEN n <= m /\ m <= n + missing ELSE n + missing <= m /\ m <= n + 1

LEMMA ShareMoves ==
  ASSUME NEW v \in Nat, NEW p \in Nat, NEW s \in Nat \ {0}, v <= s
  PROVE  LET q == (v * p) \div s IN
         IF p >= s THEN v <= q /\ q <= v + (p - s) ELSE v + (p - s) <= q /\ q <= v
<1> DEFINE q == (v * p) \div s
           d == p - s
<1>1. v * p \in Nat /\ d \in Int /\ p = s + d
  OBVIOUS
<1>2. q \in Nat /\ s * q <= v * p /\ v * p < s * q + s
  BY <1>1, DivBounds
<1>3. v * p = s * v + v * d
  BY <1>1
<1> HIDE DEF q, d
<1>4. CASE d >= 0
  <2>1. 0 <= v * d /\ v * d <= s * d /\ s * (v + d) = s * v + s * d
    BY <1>1, <1>4
  <2>2. s * q <= s * (v + d) /\ s * v < s * (q + 1)
    BY <1>1, <1>2, <1>3, <2>1
  <2>3. q <= v + d /\ v < q + 1
    <3>1. q <= v + d
      BY <1>1, <1>2, <2>2, Cancel
    <3>2. ~(q + 1 <= v)
      BY <1>2, <2>2
    <3> QED
      BY <1>2, <3>1, <3>2
  <2> QED
    BY <1>1, <1>2, <1>4, <2>3 DEF q, d
<1>5. CASE d < 0
  <2>1. v * d <= 0 /\ s * d <= v * d /\ s * (v + d) = s * v + s * d
    BY <1>1, <1>5
  <2>2. s * q <= s * v /\ s * (v + d) < s * (q + 1)
    BY <1>1, <1>2, <1>3, <2>1
  <2>3. q <= v /\ v + d < q + 1
    <3>1. q <= v
      BY <1>2, <2>2, Cancel
    <3>2. ~(q + 1 <= v + d)
      BY <1>1, <1>2, <2>2
    <3> QED
      BY <1>1, <1>2, <3>1, <3>2
  <2> QED
    BY <1>1, <1>2, <1>5, <2>3 DEF q, d
<1> QED
  BY <1>1, <1>4, <1>5

(* What the two rounded axes leave for the third.                          *)
LEMMA LeftForThird ==
  ASSUME NEW a \in Nat, NEW b \in Nat, NEW c \in Nat, NEW p \in Nat, NEW s \in Nat \ {0},
         a + b + c = s
  PROVE  LET left == p - ((a * p) \div s + (b * p) \div s) IN
         IF p >= s THEN c <= left /\ left <= c + (p - s)
         ELSE c + (p - s) <= left /\ left <= c + 1
<1> DEFINE x == (a * p) \div s
           y == (b * p) \div s
           left == p - (x + y)
<1>1. a * p \in Nat /\ b * p \in Nat /\ a <= s /\ b <= s
  OBVIOUS
<1>2. /\ x \in Nat /\ s * x <= a * p /\ a * p < s * x + s
      /\ y \in Nat /\ s * y <= b * p /\ b * p < s * y + s
  BY <1>1, DivBounds
<1>3. /\ IF p >= s THEN a <= x /\ x <= a + (p - s) ELSE a + (p - s) <= x /\ x <= a
      /\ IF p >= s THEN b <= y /\ y <= b + (p - s) ELSE b + (p - s) <= y /\ y <= b
  BY <1>1, ShareMoves
<1> HIDE DEF x, y
<1>4. s * p = a * p + b * p + c * p /\ s * left = s * p - s * x - s * y /\ left \in Int
  BY <1>2
<1>5. /\ c * p \in Nat /\ s * p \in Nat /\ s * x \in Nat /\ s * y \in Nat
      /\ c * p <= s * left /\ s * left < c * p + 2 * s
  <2>1. c * p \in Nat /\ s * p \in Nat /\ s * x \in Nat /\ s * y \in Nat
    BY <1>2
  <2> QED
    BY <1>1, <1>2, <1>4, <2>1
<1>6. CASE p >= s
  <2>1. c * s <= c * p /\ s * c = c * s
    BY <1>6
  <2>2. s * c <= s * left
    BY <1>4, <1>5, <2>1
  <2>3. c <= left
    BY <1>4, <2>2, Cancel
  <2> QED
    BY <1>2, <1>3, <1>6, <2>3 DEF x, y
<1>7. CASE p < s
  <2>1. c * p <= c * s /\ s * (c + 2) = c * s + 2 * s
    BY <1>7
  <2>2. s * left < s * (c + 2)
    BY <1>4, <1>5, <2>1
  <2>3. ~(c + 2 <= left)
    BY <1>4, <2>2
  <2> QED
    BY <1>2, <1>3, <1>4, <1>7, <2>3 DEF x, y
<1> QED
  BY <1>6, <1>7

LEMMA ProjectionMoves ==
  ASSUME NEW v \in Tensor, Total(v) # 0
  PROVE  \A i \in Axes : Moved(v[i], SimplexProject(v)[i], Precision - Total(v))
<1> DEFINE s == v[1] + v[2] + v[3]
           x == (v[1] * Precision) \div s
           y == (v[2] * Precision) \div s
           z == SimplexProject(v)
<1>1. /\ v[1] \in Nat /\ v[2] \in Nat /\ v[3] \in Nat /\ Precision \in Nat
      /\ s \in Nat \ {0} /\ Total(v) = s /\ v[1] <= s /\ v[2] <= s
      /\ v[1] + v[2] + v[3] = s
  BY AgtAssumption DEF Tensor, Axes, Total
<1>2. z \in Tensor /\ z[1] + z[2] + z[3] = Precision
  BY ProjectionOnSimplex DEF Total
<1>3. z[1] = x /\ z[2] = y
  <2> DEFINE left == SaturatingSub(Precision, Scaled(v)[1] + Scaled(v)[2])
  <2>1. z = [Scaled(v) EXCEPT ![3] = left]
    BY DEF SimplexProject, Normalized
  <2>2. Scaled(v) = [i \in Axes |-> (v[i] * Precision) \div s]
    BY <1>1 DEF Scaled
  <2> HIDE DEF left, z
  <2> QED
    BY <2>1, <2>2 DEF Axes
<1>4. z[3] = Precision - (x + y)
  <2>1. z[1] \in Nat /\ z[2] \in Nat /\ z[3] \in Nat
    BY <1>2 DEF Tensor, Axes
  <2> HIDE DEF z, x, y
  <2> QED
    BY <1>1, <1>2, <1>3, <2>1
<1>5. Moved(v[1], x, Precision - s) /\ Moved(v[2], y, Precision - s)
  <2>1. x \in Nat /\ y \in Nat
    <3>1. v[1] * Precision \in Nat /\ v[2] * Precision \in Nat
      BY <1>1
    <3> HIDE DEF s
    <3> QED
      BY <1>1, <3>1, DivBounds
  <2>2. /\ IF Precision >= s THEN v[1] <= x /\ x <= v[1] + (Precision - s)
           ELSE v[1] + (Precision - s) <= x /\ x <= v[1]
        /\ IF Precision >= s THEN v[2] <= y /\ y <= v[2] + (Precision - s)
           ELSE v[2] + (Precision - s) <= y /\ y <= v[2]
    <3> HIDE DEF s
    <3> QED
      BY <1>1, ShareMoves
  <2> HIDE DEF s, x, y
  <2> QED
    BY <1>1, <2>1, <2>2 DEF Moved
<1>6. Moved(v[3], Precision - (x + y), Precision - s)
  <2>1. IF Precision >= s
        THEN v[3] <= Precision - (x + y) /\ Precision - (x + y) <= v[3] + (Precision - s)
        ELSE v[3] + (Precision - s) <= Precision - (x + y) /\ Precision - (x + y) <= v[3] + 1
    <3> HIDE DEF s
    <3>1. \A a, b, c \in Nat : a + b + c = s =>
            LET left == Precision - ((a * Precision) \div s + (b * Precision) \div s) IN
            IF Precision >= s THEN c <= left /\ left <= c + (Precision - s)
            ELSE c + (Precision - s) <= left /\ left <= c + 1
      BY <1>1, LeftForThird
    <3> QED
      BY <1>1, <3>1
  <2> HIDE DEF s, x, y
  <2> QED
    BY <1>1, <2>1 DEF Moved
<1>7. \A i \in Axes : i = 1 \/ i = 2 \/ i = 3
  BY DEF Axes
<1> HIDE DEF s, x, y, z
<1> QED
  BY <1>1, <1>3, <1>4, <1>5, <1>6, <1>7 DEF z

-----------------------------------------------------------------------------
(* What the client computes.  The precision cancels out of the fraction it *)
(* rounds.                                                                 *)

LEMMA RoundedFraction ==
  ASSUME NEW x \in Nat, NEW y \in Nat \ {0}, NEW p \in Nat \ {0}
  PROVE  LET r == Rounded(x * p, y * p) IN
         r \in Nat /\ 2 * (y * r) <= 2 * x + y /\ 2 * x + y < 2 * (y * r) + 2 * y
<1> DEFINE n == 2 * (x * p) + y * p
           d == 2 * (y * p)
           r == n \div d
<1>1. n \in Nat /\ d \in Nat /\ d # 0
  <2>1. x * p \in Nat /\ y * p \in Nat /\ y * p # 0
    OBVIOUS
  <2> QED
    BY <2>1
<1>2. r \in Nat /\ d * r <= n /\ n < d * r + d
  <2> HIDE DEF n, d
  <2> QED
    BY <1>1, DivBounds
<1>3. Rounded(x * p, y * p) = r
  BY DEF Rounded
<1> HIDE DEF r
<1>4. /\ n = p * (2 * x + y) /\ d * r = p * (2 * (y * r)) /\ d * r + d = p * (2 * (y * r) + 2 * y)
  BY <1>2
<1> HIDE DEF n, d
<1>5. 2 * (y * r) \in Nat /\ 2 * x + y \in Nat /\ 2 * (y * r) + 2 * y \in Nat
  BY <1>2
<1>6. 2 * (y * r) <= 2 * x + y
  BY <1>2, <1>4, <1>5, Cancel
<1>7. ~(2 * (y * r) + 2 * y <= 2 * x + y)
  <2> DEFINE l == 2 * (y * r) + 2 * y
             m == 2 * x + y
  <2>1. p * m < p * l /\ l \in Nat /\ m \in Nat
    BY <1>2, <1>4, <1>5
  <2> HIDE DEF l, m
  <2>2. ~(l <= m)
    BY <2>1
  <2> QED
    BY <2>2 DEF l, m
<1> QED
  BY <1>2, <1>3, <1>5, <1>6, <1>7

(* A prediction is within half a unit of the exact average n / s, when the *)
(* part an observation misses the simplex by is allowed for.               *)
Predicted(r, n, s, part, missed) ==
  IF missed >= 0
  THEN 2 * (s * r) <= 2 * n + s /\ 2 * n - 2 * part + s < 2 * (s * r) + 2 * s
  ELSE 2 * (s * r) <= 2 * n - 2 * part + s /\ 2 * n + s < 2 * (s * r) + 2 * s

LEMMA PredictedFrom ==
  ASSUME NEW r \in Nat, NEW n \in Int, NEW s \in Nat \ {0}, NEW t \in Nat \ {0},
         NEW part \in Int, NEW missed \in Int, NEW g \in Nat, NEW x \in Int, g <= t,
         IF missed >= 0 THEN part >= 0 ELSE part <= 0,
         x = t * n - g * part,
         2 * ((s * t) * r) <= 2 * x + s * t,
         2 * x + s * t < 2 * ((s * t) * r) + 2 * (s * t)
  PROVE  Predicted(r, n, s, part, missed)
<1> DEFINE q == s * r
<1>1. q \in Nat /\ (s * t) * r = t * q /\ s * t = t * s
  OBVIOUS
<1> HIDE DEF q
<1>2. /\ g * part \in Int /\ t * part \in Int /\ t * n \in Int /\ t * q \in Nat /\ t * s \in Nat
  BY <1>1
<1>3. /\ 2 * (t * q) <= 2 * (t * n) - 2 * (g * part) + t * s
      /\ 2 * (t * n) - 2 * (g * part) + t * s < 2 * (t * q) + 2 * (t * s)
  BY <1>1, <1>2
<1>4. /\ t * (2 * q) = 2 * (t * q) /\ t * (2 * n + s) = 2 * (t * n) + t * s
      /\ t * (2 * n - 2 * part + s) = 2 * (t * n) - 2 * (t * part) + t * s
      /\ t * (2 * q + 2 * s) = 2 * (t * q) + 2 * (t * s)
  BY <1>1
<1>5. \A l, m \in Int : t * l < t * m => l < m
  OBVIOUS
<1>6. CASE missed >= 0
  <2>1. 0 <= g * part /\ g * part <= t * part
    BY <1>6
  <2>2. t * (2 * q) <= t * (2 * n + s) /\ t * (2 * n - 2 * part + s) < t * (2 * q + 2 * s)
    BY <1>2, <1>3, <1>4, <2>1
  <2>3. 2 * q <= 2 * n + s /\ 2 * n - 2 * part + s < 2 * q + 2 * s
    BY <1>1, <1>5, <2>2, Cancel
  <2> QED
    BY <1>6, <2>3 DEF Predicted, q
<1>7. CASE missed < 0
  <2>1. g * part <= 0 /\ t * part <= g * part
    BY <1>7
  <2>2. t * (2 * q) <= t * (2 * n - 2 * part + s) /\ t * (2 * n + s) < t * (2 * q + 2 * s)
    BY <1>2, <1>3, <1>4, <2>1
  <2>3. 2 * q <= 2 * n - 2 * part + s /\ 2 * n + s < 2 * q + 2 * s
    BY <1>1, <1>5, <2>2, Cancel
  <2> QED
    BY <1>7, <2>3 DEF Predicted, q
<1> QED
  BY <1>6, <1>7

(* Where the program's weight and the client's prediction meet: `loss` is  *)
(* what the program rounds off this axis, `others` off the two others, in  *)
(* parts of s.                                                             *)
LEMMA WithinError ==
  ASSUME NEW s \in Nat \ {0}, NEW n \in Int, NEW a \in Int, NEW w \in Int, NEW r \in Nat,
         NEW loss \in Nat, NEW others \in Nat, NEW part \in Int, NEW missed \in Int,
         NEW back \in Int, NEW off \in Nat,
         loss <= 2 * s, others <= 4 * s,
         n = s * a + loss, s * back = loss + others - part,
         Moved(a, w, back), Predicted(r, n, s, part, missed),
         off = IF missed >= 0 THEN missed ELSE -missed,
         IF missed >= 0 THEN 0 <= part /\ part <= s * off ELSE part <= 0 /\ -part <= s * off
  PROVE  Near(w, r, RoundingError + off)
<1>1. /\ s * a \in Int /\ s * w \in Int /\ s * r \in Int /\ s * back \in Int /\ s * off \in Int
  OBVIOUS
<1>2. IF back >= 0 THEN s * a <= s * w /\ s * w <= s * a + s * back
      ELSE s * a + s * back <= s * w /\ s * w <= s * a + s
  <2>1. CASE back >= 0
    <3>1. a <= w /\ w <= a + back
      BY <2>1 DEF Moved
    <3>2. s * a <= s * w /\ s * w <= s * (a + back) /\ s * (a + back) = s * a + s * back
      BY <3>1
    <3> QED
      BY <2>1, <3>2
  <2>2. CASE back < 0
    <3>1. a + back <= w /\ w <= a + 1
      BY <2>2 DEF Moved
    <3>2. /\ s * (a + back) <= s * w /\ s * w <= s * (a + 1)
          /\ s * (a + back) = s * a + s * back /\ s * (a + 1) = s * a + s
      BY <3>1
    <3> QED
      BY <2>2, <3>2
  <2> QED
    BY <2>1, <2>2
<1> DEFINE sa == s * a
           sw == s * w
           sr == s * r
           sb == s * back
           so == s * off
<1>3. 2 * sw - 2 * sr <= 9 * s + 2 * so /\ 2 * sr - 2 * sw <= 9 * s + 2 * so
  <2>1. /\ sa \in Int /\ sw \in Int /\ sr \in Int /\ sb \in Int /\ so \in Int
        /\ n = sa + loss /\ sb = loss + others - part
        /\ IF back >= 0 THEN sa <= sw /\ sw <= sa + sb ELSE sa + sb <= sw /\ sw <= sa + s
        /\ IF missed >= 0 THEN 0 <= part /\ part <= so ELSE part <= 0 /\ -part <= so
        /\ IF missed >= 0
           THEN 2 * sr <= 2 * n + s /\ 2 * n - 2 * part + s < 2 * sr + 2 * s
           ELSE 2 * sr <= 2 * n - 2 * part + s /\ 2 * n + s < 2 * sr + 2 * s
    BY <1>1, <1>2 DEF Predicted
  <2> HIDE DEF sa, sw, sr, sb, so
  <2> QED
    BY <2>1
<1>4. s * (w - r - off) = sw - sr - so /\ s * (r - w - off) = sr - sw - so
  OBVIOUS
<1>5. 2 * (s * (w - r - off)) <= 9 * s /\ 2 * (s * (r - w - off)) <= 9 * s
  <2>1. sw \in Int /\ sr \in Int /\ so \in Int
    BY <1>1
  <2> HIDE DEF sw, sr, so
  <2> QED
    BY <1>3, <1>4, <2>1
<1>6. ASSUME NEW m \in Int, 2 * (s * m) <= 9 * s PROVE m <= 4
  <2>1. CASE m >= 5
    <3>1. s * m >= s * 5
      BY <2>1
    <3> QED
      BY <1>6, <3>1
  <2> QED
    BY <2>1
<1>7. w - r - off <= 4 /\ r - w - off <= 4
  BY <1>5, <1>6
<1> QED
  BY <1>7 DEF Near, RoundingError

-----------------------------------------------------------------------------
(* The first observation: client and program normalize it, each in its way.*)

Off(g) == IF Total(g) >= Precision THEN Total(g) - Precision ELSE Precision - Total(g)

LEMMA ObservationOff ==
  ASSUME NEW g \in Tensor, NearSimplex(g)
  PROVE  /\ Total(g) \in Nat \ {0} /\ Precision \in Nat \ {0}
         /\ Off(g) \in 0 .. Tolerance /\ Near(Total(g), Precision, Off(g))
         /\ \A i \in Axes : g[i] \in Nat /\ g[i] <= Total(g)
<1>1. g[1] \in Nat /\ g[2] \in Nat /\ g[3] \in Nat
  BY DEF Tensor, Axes
<1>2. Total(g) \in Nat /\ g[1] <= Total(g) /\ g[2] <= Total(g) /\ g[3] <= Total(g)
  BY <1>1 DEF Total
<1>3. Total(g) # 0 /\ Off(g) \in 0 .. Tolerance /\ Near(Total(g), Precision, Off(g))
  BY <1>2, AgtAssumption, PrecisionAssumption DEF NearSimplex, Off, Near
<1> QED
  BY <1>1, <1>2, <1>3, AgtAssumption DEF Axes

LEMMA FirstPredicted ==
  ASSUME NEW g \in Tensor, NearSimplex(g), NEW alpha
  PROVE  \A i \in Axes : Near(SimplexProject(g)[i], Prediction(NoAccount, g, alpha)[i],
                              RoundingError + Off(g))
<1> DEFINE t == Total(g)
           missed == t - Precision
<1>1. /\ t \in Nat \ {0} /\ Precision \in Nat \ {0} /\ Off(g) \in Nat /\ missed \in Int
      /\ \A i \in Axes : g[i] \in Nat /\ g[i] <= t
  BY ObservationOff, AgtAssumption
<1>2. SUFFICES ASSUME NEW i \in Axes
               PROVE  Near(SimplexProject(g)[i], Prediction(NoAccount, g, alpha)[i],
                           RoundingError + Off(g))
  OBVIOUS
<1> DEFINE r == Rounded(g[i] * Precision, t)
           w == SimplexProject(g)[i]
<1>3. Prediction(NoAccount, g, alpha)[i] = r
  <2>1. FromOnChain(g) = g
    BY <1>1 DEF FromOnChain, FromGaze
  <2> QED
    BY <2>1 DEF Prediction, ToOnChain
<1>4. r \in Nat /\ 2 * (t * r) <= 2 * (g[i] * Precision) + t
      /\ 2 * (g[i] * Precision) + t < 2 * (t * r) + 2 * t
  <2> DEFINE x == g[i] * Precision
             one == 1
  <2>1. x \in Nat /\ one \in Nat \ {0} /\ x * one = x /\ t * one = t
    BY <1>1
  <2> HIDE DEF x, t, one
  <2>2. LET q == Rounded(x * one, t * one) IN
        q \in Nat /\ 2 * (t * q) <= 2 * x + t /\ 2 * x + t < 2 * (t * q) + 2 * t
    BY <1>1, <2>1, RoundedFraction
  <2> QED
    BY <2>1, <2>2 DEF x
<1>5. Moved(g[i], w, Precision - t) /\ w \in Int
  BY <1>1, ProjectionMoves, ObservationProjects DEF Tensor
<1>6. Predicted(r, g[i], 1, missed, missed)
  <2> DEFINE x == g[i] * Precision
             one == 1
  <2>1. /\ x \in Int /\ x = t * g[i] - g[i] * missed /\ one \in Nat \ {0} /\ one * t = t
        /\ IF missed >= 0 THEN missed >= 0 ELSE missed <= 0
    BY <1>1
  <2>2. 2 * ((one * t) * r) <= 2 * x + one * t /\ 2 * x + one * t < 2 * ((one * t) * r) + 2 * (one * t)
    BY <1>4, <2>1
  <2>3. g[i] \in Nat /\ g[i] \in Int /\ g[i] <= t
    BY <1>1
  <2> HIDE DEF x, r, missed, t, one
  <2>4. Predicted(r, g[i], one, missed, missed)
    BY <1>1, <1>4, <2>1, <2>2, <2>3, PredictedFrom
  <2> QED
    BY <2>4 DEF one
<1>7. Near(w, r, RoundingError + Off(g))
  <2> DEFINE back == Precision - t
             one == 1
             none == 0
  <2>1. /\ Off(g) = IF missed >= 0 THEN missed ELSE -missed
        /\ IF missed >= 0 THEN 0 <= missed /\ missed <= one * Off(g)
           ELSE missed <= 0 /\ -missed <= one * Off(g)
    BY <1>1 DEF Off
  <2>2. /\ one \in Nat \ {0} /\ none \in Nat /\ back \in Int
        /\ none <= 2 * one /\ none <= 4 * one
        /\ g[i] = one * g[i] + none /\ one * back = none + none - missed
    BY <1>1
  <2>3. Moved(g[i], w, back) /\ Predicted(r, g[i], one, missed, missed) /\ g[i] \in Int
    BY <1>1, <1>5, <1>6
  <2> HIDE DEF back, one, none, missed, t, r, w
  <2> QED
    BY <1>1, <1>4, <1>5, <2>1, <2>2, <2>3, WithinError
<1> QED
  BY <1>3, <1>7

-----------------------------------------------------------------------------
(* A later observation: the exact average n / s of each axis, what the     *)
(* program loses of it, and what the client makes of it.                   *)

Exact(w, g, alpha, i) == w[i] * (AlphaScale - alpha) + g[i] * alpha

LEMMA AverageLoses ==
  ASSUME NEW w \in Tensor, NEW g \in Tensor, NEW alpha \in 0 .. AlphaScale, NEW i \in Axes
  PROVE  /\ Exact(w, g, alpha, i) \in Nat /\ MovingAverage(w, g, alpha)[i] \in Nat
         /\ Exact(w, g, alpha, i) - AlphaScale * MovingAverage(w, g, alpha)[i]
              \in 0 .. 2 * AlphaScale
<1> DEFINE b == AlphaScale - alpha
           p == (w[i] * b) \div AlphaScale
           q == (g[i] * alpha) \div AlphaScale
<1>1. AlphaScale \in Nat \ {0} /\ alpha \in Nat /\ b \in Nat /\ w[i] \in Nat /\ g[i] \in Nat
  BY AgtAssumption DEF Tensor
<1>2. w[i] * b \in Nat /\ g[i] * alpha \in Nat
  BY <1>1
<1>3. /\ p \in Nat /\ AlphaScale * p <= w[i] * b
      /\ q \in Nat /\ AlphaScale * q <= g[i] * alpha
  BY <1>1, <1>2, DivBounds
<1>4. MovingAverage(w, g, alpha)[i] = p + q
  BY DEF MovingAverage
<1>5. Exact(w, g, alpha, i) < AlphaScale * (p + q) + 2 * AlphaScale
  BY <1>4, AverageIsTensor DEF Exact
<1>6. Exact(w, g, alpha, i) = w[i] * b + g[i] * alpha
  BY DEF Exact
<1> HIDE DEF b, p, q
<1>7. AlphaScale * (p + q) = AlphaScale * p + AlphaScale * q /\ AlphaScale * p \in Nat
      /\ AlphaScale * q \in Nat
  BY <1>1, <1>3
<1> DEFINE n == Exact(w, g, alpha, i)
           k == AlphaScale * (p + q)
<1>8. n \in Nat /\ k \in Nat /\ k <= n /\ n < k + 2 * AlphaScale
  BY <1>1, <1>2, <1>3, <1>5, <1>6, <1>7
<1>9. n - k \in 0 .. 2 * AlphaScale
  <2> HIDE DEF n, k
  <2> QED
    BY <1>1, <1>8
<1> QED
  BY <1>3, <1>4, <1>8, <1>9

LEMMA TotalTimes ==
  ASSUME NEW v \in Tensor, NEW c \in Nat
  PROVE  v[1] * c + v[2] * c + v[3] * c = Total(v) * c
<1>1. v[1] \in Nat /\ v[2] \in Nat /\ v[3] \in Nat
  BY DEF Tensor, Axes
<1>2. \A x, y, z \in Nat : x * c + y * c + z * c = (x + y + z) * c
  OBVIOUS
<1> QED
  BY <1>1, <1>2 DEF Total

(* The exact averages sum to the simplex, plus alpha times what the        *)
(* observation misses it by.                                               *)
LEMMA ExactTotal ==
  ASSUME NEW w \in Tensor, NEW g \in Tensor, NEW alpha \in 0 .. AlphaScale, Total(w) = Precision
  PROVE  Exact(w, g, alpha, 1) + Exact(w, g, alpha, 2) + Exact(w, g, alpha, 3)
           = AlphaScale * Precision + alpha * (Total(g) - Precision)
<1> DEFINE b == AlphaScale - alpha
<1>1. /\ w[1] \in Nat /\ w[2] \in Nat /\ w[3] \in Nat /\ w[1] + w[2] + w[3] = Precision
      /\ g[1] \in Nat /\ g[2] \in Nat /\ g[3] \in Nat /\ Total(g) = g[1] + g[2] + g[3]
      /\ alpha \in Nat /\ b \in Nat /\ AlphaScale = b + alpha /\ Precision \in Nat
  BY AgtAssumption DEF Tensor, Axes, Total
<1>2. /\ Exact(w, g, alpha, 1) = w[1] * b + g[1] * alpha
      /\ Exact(w, g, alpha, 2) = w[2] * b + g[2] * alpha
      /\ Exact(w, g, alpha, 3) = w[3] * b + g[3] * alpha
  BY DEF Exact
<1> HIDE DEF b
<1>3. /\ w[1] * b + w[2] * b + w[3] * b = Precision * b
      /\ g[1] * alpha + g[2] * alpha + g[3] * alpha = Total(g) * alpha
  BY <1>1, TotalTimes
<1>4. Total(g) \in Nat
  BY <1>1
<1>5. AlphaScale * Precision + alpha * (Total(g) - Precision) = Precision * b + Total(g) * alpha
  BY <1>1, <1>4
<1>6. /\ w[1] * b \in Nat /\ w[2] * b \in Nat /\ w[3] * b \in Nat
      /\ g[1] * alpha \in Nat /\ g[2] * alpha \in Nat /\ g[3] * alpha \in Nat
  BY <1>1
<1> QED
  BY <1>2, <1>3, <1>5, <1>6

(* The fraction the client rounds is the exact average, less the part of   *)
(* the observation that normalizing it takes away.                         *)
LEMMA LaterPrediction ==
  ASSUME NEW w \in Tensor, NEW g \in Tensor, NEW alpha \in 0 .. AlphaScale, NEW i \in Axes,
         Total(w) = Precision, NearSimplex(g)
  PROVE  LET r == ToOnChain(Update(FromOnChain(w), FromOnChain(g), alpha))[i] IN
         /\ r \in Nat
         /\ Predicted(r, Exact(w, g, alpha, i), AlphaScale,
                      alpha * (Total(g) - Precision), Total(g) - Precision)
<1> DEFINE b == AlphaScale - alpha
           t == Total(g)
           x(j) == b * w[j] * t + alpha * g[j] * Precision
           y == AlphaScale * t
           missed == t - Precision
           part == alpha * missed
<1>1. /\ alpha \in Nat /\ b \in Nat /\ AlphaScale = b + alpha /\ Precision \in Nat \ {0}
      /\ t \in Nat \ {0} /\ AlphaScale \in Nat \ {0} /\ missed \in Int /\ part \in Int
  <2>1. t \in Nat \ {0} /\ Precision \in Nat \ {0}
    BY ObservationOff
  <2> HIDE DEF t
  <2> QED
    BY <2>1, AgtAssumption
<1>2. \A j \in Axes : w[j] \in Nat /\ g[j] \in Nat /\ g[j] <= t
  BY ObservationOff DEF Tensor
<1>3. \A j \in Axes : x(j) \in Nat
  <2> HIDE DEF b, t
  <2> QED
    BY <1>1, <1>2
<1>4. FromOnChain(w) = w /\ FromOnChain(g) = g
  BY <1>1 DEF FromOnChain, FromGaze
<1>5. x(1) + x(2) + x(3) = y * Precision
  <2>1. /\ w[1] \in Nat /\ w[2] \in Nat /\ w[3] \in Nat /\ w[1] + w[2] + w[3] = Precision
        /\ g[1] \in Nat /\ g[2] \in Nat /\ g[3] \in Nat /\ g[1] + g[2] + g[3] = t
    BY DEF Tensor, Axes, Total
  <2> HIDE DEF b, t
  <2> DEFINE bt == b * t
             ap == alpha * Precision
  <2>2. /\ bt \in Nat /\ ap \in Nat
        /\ x(1) = w[1] * bt + g[1] * ap /\ x(2) = w[2] * bt + g[2] * ap
        /\ x(3) = w[3] * bt + g[3] * ap
    BY <1>1, <2>1
  <2>3. Precision * bt + t * ap = y * Precision
    BY <1>1
  <2> HIDE DEF bt, ap, x, y
  <2>4. /\ w[1] * bt + w[2] * bt + w[3] * bt = Precision * bt
        /\ g[1] * ap + g[2] * ap + g[3] * ap = t * ap
    BY <2>2, TotalTimes DEF t
  <2>5. /\ w[1] * bt \in Nat /\ w[2] * bt \in Nat /\ w[3] * bt \in Nat
        /\ g[1] * ap \in Nat /\ g[2] * ap \in Nat /\ g[3] * ap \in Nat
    BY <2>1, <2>2
  <2> QED
    BY <2>2, <2>3, <2>4, <2>5
<1>6. y \in Nat \ {0} /\ y * Precision # 0
  <2> HIDE DEF t
  <2> QED
    BY <1>1
<1> DEFINE u == [j \in Axes |-> x(j)]
           r == Rounded(x(i) * Precision, y * Precision)
<1>7. ToOnChain(Update(FromOnChain(w), FromOnChain(g), alpha))[i] = r
  <2>1. Update(w, g, alpha) = FromGaze(u)
    BY DEF Update
  <2>2. Total(u) = y * Precision
    <3>1. u[1] = x(1) /\ u[2] = x(2) /\ u[3] = x(3)
      BY DEF Axes
    <3> HIDE DEF u, x, y
    <3> QED
      BY <1>5, <3>1 DEF Total
  <2>3. FromGaze(u) = u
    BY <1>6, <2>2 DEF FromGaze
  <2>4. u[i] = x(i)
    OBVIOUS
  <2> HIDE DEF u, x, y
  <2> QED
    BY <1>4, <2>1, <2>2, <2>3, <2>4 DEF ToOnChain
<1> DEFINE xi == x(i)
           n == Exact(w, g, alpha, i)
<1>8. r \in Nat /\ 2 * (y * r) <= 2 * xi + y /\ 2 * xi + y < 2 * (y * r) + 2 * y
  <2>1. xi \in Nat /\ r = Rounded(xi * Precision, y * Precision)
    BY <1>3
  <2> HIDE DEF xi, y, r
  <2> QED
    BY <1>1, <1>6, <2>1, RoundedFraction
<1>9. n \in Int /\ xi = t * n - g[i] * part
  <2>1. n = w[i] * b + g[i] * alpha /\ Precision = t - missed
    BY <1>1 DEF Exact
  <2>2. xi = b * w[i] * t + alpha * g[i] * Precision
    OBVIOUS
  <2> HIDE DEF n, xi, b, t, missed
  <2> DEFINE gi == g[i]
             wi == w[i]
  <2>3. /\ gi \in Nat /\ wi \in Nat /\ n = wi * b + gi * alpha /\ part = alpha * missed
        /\ xi = b * wi * t + alpha * gi * (t - missed)
    BY <1>2, <2>1, <2>2
  <2> HIDE DEF gi, wi, part
  <2>4. /\ alpha * gi * (t - missed) = t * (gi * alpha) - gi * (alpha * missed)
        /\ t * (wi * b + gi * alpha) = b * wi * t + t * (gi * alpha)
    BY <1>1, <2>3
  <2>5. /\ b * wi * t \in Nat /\ t * (gi * alpha) \in Nat /\ gi * (alpha * missed) \in Int
        /\ wi * b + gi * alpha \in Nat
    BY <1>1, <2>3
  <2>6. n \in Int /\ xi = t * n - gi * part
    BY <2>3, <2>4, <2>5
  <2> QED
    BY <2>6 DEF gi
<1>10. IF missed >= 0 THEN part >= 0 ELSE part <= 0
  <2> HIDE DEF missed
  <2> QED
    BY <1>1
<1>11. Predicted(r, n, AlphaScale, part, missed)
  <2>1. xi \in Int /\ g[i] \in Nat /\ g[i] <= t /\ y = AlphaScale * t
    BY <1>2, <1>3
  <2>2. 2 * ((AlphaScale * t) * r) <= 2 * xi + AlphaScale * t
        /\ 2 * xi + AlphaScale * t < 2 * ((AlphaScale * t) * r) + 2 * (AlphaScale * t)
    BY <1>8
  <2> HIDE DEF xi, r, n, part, missed, t, y
  <2> QED
    BY <1>1, <1>8, <1>9, <1>10, <2>1, <2>2, PredictedFrom
<1> QED
  BY <1>7, <1>8, <1>11

LEMMA LaterPredicted ==
  ASSUME NEW w \in Tensor, NEW g \in Tensor, NEW alpha \in 0 .. AlphaScale,
         Total(w) = Precision, NearSimplex(g)
  PROVE  \A i \in Axes :
           Near(SimplexProject(MovingAverage(w, g, alpha))[i],
                ToOnChain(Update(FromOnChain(w), FromOnChain(g), alpha))[i],
                RoundingError + Off(g))
<1> DEFINE m == MovingAverage(w, g, alpha)
           n(i) == Exact(w, g, alpha, i)
           loss(i) == n(i) - AlphaScale * m[i]
           missed == Total(g) - Precision
           part == alpha * missed
           back == Precision - Total(m)
           z == SimplexProject(m)
           lost == loss(1) + loss(2) + loss(3)
<1>1. /\ AlphaScale \in Nat \ {0} /\ Precision \in Nat /\ alpha \in Nat /\ alpha <= AlphaScale
      /\ Total(g) \in Nat /\ missed \in Int
  BY ObservationOff, AgtAssumption
<1>2. \A i \in Axes : n(i) \in Nat /\ m[i] \in Nat /\ loss(i) \in 0 .. 2 * AlphaScale
  BY AverageLoses
<1>3. m \in Tensor /\ Total(m) # 0
  BY AverageIsTensor, AverageNotZero
<1>4. z \in Tensor /\ \A i \in Axes : Moved(m[i], z[i], back)
  <2> HIDE DEF m
  <2> QED
    BY <1>3, ProjectionOnSimplex, ProjectionMoves
<1>5. n(1) + n(2) + n(3) = AlphaScale * Precision + part
  BY ExactTotal
<1> HIDE DEF m, n, z
<1>6. Off(g) \in Nat /\ Off(g) = IF missed >= 0 THEN missed ELSE -missed
  BY <1>1 DEF Off
<1>7. part \in Int /\ IF missed >= 0 THEN 0 <= part /\ part <= AlphaScale * Off(g)
                      ELSE part <= 0 /\ -part <= AlphaScale * Off(g)
  <2> HIDE DEF missed
  <2>1. CASE missed >= 0
    <3>1. 0 <= alpha * missed /\ alpha * missed <= AlphaScale * missed
      BY <1>1, <2>1
    <3> QED
      BY <1>1, <1>6, <2>1, <3>1
  <2>2. CASE missed < 0
    <3> DEFINE short == -missed
    <3>1. short \in Nat /\ alpha * missed = -(alpha * short)
      BY <1>1, <2>2
    <3>2. 0 <= alpha * short /\ alpha * short <= AlphaScale * short
      <4> HIDE DEF short
      <4> QED
        BY <1>1, <3>1
    <3> QED
      BY <1>1, <1>6, <2>2, <3>1, <3>2
  <2> QED
    BY <1>1, <2>1, <2>2
<1>8. 1 \in Axes /\ 2 \in Axes /\ 3 \in Axes /\ \A i \in Axes : i = 1 \/ i = 2 \/ i = 3
  BY DEF Axes
<1>9. back \in Int /\ AlphaScale * back = lost - part
  <2> HIDE DEF part
  <2>1. /\ m[1] \in Nat /\ m[2] \in Nat /\ m[3] \in Nat /\ Total(m) = m[1] + m[2] + m[3]
        /\ n(1) \in Nat /\ n(2) \in Nat /\ n(3) \in Nat
    BY <1>2, <1>8 DEF Total
  <2>2. AlphaScale * back =
          AlphaScale * Precision - AlphaScale * m[1] - AlphaScale * m[2] - AlphaScale * m[3]
    BY <1>1, <2>1
  <2>3. /\ AlphaScale * m[1] \in Int /\ AlphaScale * m[2] \in Int /\ AlphaScale * m[3] \in Int
        /\ AlphaScale * Precision \in Int /\ back \in Int
    BY <1>1, <2>1
  <2> QED
    BY <1>5, <1>7, <2>1, <2>2, <2>3
<1>10. SUFFICES ASSUME NEW i \in Axes
                PROVE  Near(z[i], ToOnChain(Update(FromOnChain(w), FromOnChain(g), alpha))[i],
                            RoundingError + Off(g))
  BY DEF m, z
<1> DEFINE r == ToOnChain(Update(FromOnChain(w), FromOnChain(g), alpha))[i]
           others == lost - loss(i)
<1>11. r \in Nat /\ Predicted(r, n(i), AlphaScale, part, missed)
  BY LaterPrediction DEF n
<1>12. /\ n(i) \in Int /\ m[i] \in Int /\ z[i] \in Int /\ loss(i) \in Nat /\ loss(i) <= 2 * AlphaScale
       /\ n(i) = AlphaScale * m[i] + loss(i)
  <2>1. n(i) \in Nat /\ m[i] \in Nat /\ loss(i) \in 0 .. 2 * AlphaScale /\ z[i] \in Nat
    BY <1>2, <1>4 DEF Tensor
  <2> QED
    BY <1>1, <2>1
<1>13. others \in Nat /\ others <= 4 * AlphaScale /\ AlphaScale * back = loss(i) + others - part
  <2>1. /\ loss(1) \in 0 .. 2 * AlphaScale /\ loss(2) \in 0 .. 2 * AlphaScale
        /\ loss(3) \in 0 .. 2 * AlphaScale /\ loss(i) \in 0 .. 2 * AlphaScale
        /\ loss(i) = loss(1) \/ loss(i) = loss(2) \/ loss(i) = loss(3)
    BY <1>2, <1>8
  <2> HIDE DEF loss, part, back
  <2> QED
    BY <1>1, <1>7, <1>9, <2>1
<1> HIDE DEF r, others, loss, lost, part, missed, back
<1>14. Near(z[i], r, RoundingError + Off(g))
  <2> DEFINE ni == n(i)
             mi == m[i]
             zi == z[i]
             li == loss(i)
             off == Off(g)
  <2>1. /\ ni \in Int /\ mi \in Int /\ zi \in Int /\ li \in Nat /\ li <= 2 * AlphaScale
        /\ ni = AlphaScale * mi + li /\ Moved(mi, zi, back)
        /\ Predicted(r, ni, AlphaScale, part, missed) /\ AlphaScale * back = li + others - part
        /\ off \in Nat /\ off = IF missed >= 0 THEN missed ELSE -missed
        /\ IF missed >= 0 THEN 0 <= part /\ part <= AlphaScale * off
           ELSE part <= 0 /\ -part <= AlphaScale * off
    BY <1>4, <1>6, <1>7, <1>11, <1>12, <1>13
  <2>2. /\ AlphaScale \in Nat \ {0} /\ r \in Nat /\ others \in Nat /\ others <= 4 * AlphaScale
        /\ part \in Int /\ missed \in Int /\ back \in Int
    BY <1>1, <1>7, <1>9, <1>11, <1>13
  <2> HIDE DEF ni, mi, zi, li, off
  <2>3. Near(zi, r, RoundingError + off)
    BY <2>1, <2>2, WithinError
  <2> QED
    BY <2>3 DEF zi, off
<1> QED
  BY <1>14 DEF r

-----------------------------------------------------------------------------
(* The steps that learn. *)

Followed(u) ==
  Learns(u) =>
    LET gaze == agt'[u].gaze_tensor IN
    \E alpha \in Alphas, off \in 0 .. Tolerance :
      /\ Near(Total(gaze), Precision, off)
      /\ \A i \in Axes : Near(agt'[u].agt_weights[i], Prediction(agt[u], gaze, alpha)[i],
                              RoundingError + off)

LEMMA CreationFollowed ==
  ASSUME AgtSound, NEW u \in Users, NEW gaze \in Gazes, NEW seed \in Seeds, NEW phi \in Factors,
         CreateAgtAttestation(u, gaze, seed, phi)
  PROVE  Followed(u)
<1>1. /\ NearSimplex(gaze) /\ agt[u] = NoAccount
      /\ agt' = [agt EXCEPT ![u] = NewAttestation(u, gaze, seed, phi)]
  BY DEF CreateAgtAttestation
<1>2. /\ agt'[u].gaze_tensor = gaze /\ agt'[u].agt_weights = SimplexProject(gaze)
  <2>1. agt'[u] = NewAttestation(u, gaze, seed, phi)
    BY <1>1 DEF AgtSound, AgtTypeOK
  <2> QED
    BY <2>1 DEF NewAttestation
<1>3. gaze \in Tensor
  BY AgtAssumption
<1>4. PICK alpha \in Alphas : TRUE
  BY SomeAlpha
<1>5. /\ Off(gaze) \in 0 .. Tolerance /\ Near(Total(gaze), Precision, Off(gaze))
      /\ \A i \in Axes : Near(SimplexProject(gaze)[i], Prediction(NoAccount, gaze, alpha)[i],
                              RoundingError + Off(gaze))
  BY <1>1, <1>3, ObservationOff, FirstPredicted
<1> QED
  BY <1>1, <1>2, <1>4, <1>5 DEF Followed

LEMMA UpdateFollowed ==
  ASSUME AgtSound, NEW u \in Users, NEW gaze \in Gazes, NEW alpha \in Alphas,
         UpdateAgtWeights(u, gaze, alpha)
  PROVE  Followed(u)
<1> DEFINE w == agt[u].agt_weights
           z == SimplexProject(MovingAverage(w, gaze, alpha))
           key == InnerProduct(z, gaze)
<1>1. NearSimplex(gaze) /\ agt' = [agt EXCEPT ![u] = Updated(agt[u], u, z, gaze, key)]
      /\ agt[u] # NoAccount
  BY DEF UpdateAgtWeights, Valid, AgtSound, AgtTypeOK
<1>2. agt[u] \in AgtAttestation /\ Total(w) = Precision /\ w \in Tensor
  BY <1>1 DEF AgtSound, AgtTypeOK, Attested, Sound, AgtAttestation
<1>3. gaze \in Tensor /\ alpha \in 0 .. AlphaScale
  BY AgtAssumption
<1>4. \A i \in Axes : Near(z[i], ToOnChain(Update(FromOnChain(w), FromOnChain(gaze), alpha))[i],
                           RoundingError + Off(gaze))
  BY <1>1, <1>2, <1>3, LaterPredicted
<1> HIDE DEF z, key
<1>5. agt'[u].gaze_tensor = gaze /\ agt'[u].agt_weights = z
  <2>1. agt'[u] = Updated(agt[u], u, z, gaze, key)
    BY <1>1 DEF AgtSound, AgtTypeOK
  <2> QED
    BY <1>2, <2>1 DEF Updated, AgtAttestation
<1>6. \A i \in Axes : Prediction(agt[u], gaze, alpha)[i] =
         ToOnChain(Update(FromOnChain(w), FromOnChain(gaze), alpha))[i]
  BY <1>1 DEF Prediction
<1>7. Off(gaze) \in 0 .. Tolerance /\ Near(Total(gaze), Precision, Off(gaze))
  BY <1>1, <1>3, ObservationOff
<1> QED
  BY <1>4, <1>5, <1>6, <1>7 DEF Followed

LEMMA OthersLearnNothing ==
  ASSUME AgtSound, NEW u \in Users, NEW x,
         agt' = [agt EXCEPT ![u] = x],
         agt[u] # NoAccount, x.agt_weights = agt[u].agt_weights
  PROVE  \A v \in Users : Followed(v)
BY DEF AgtSound, AgtTypeOK, Followed, Learns

LEMMA FollowedStep ==
  ASSUME AgtSound, [AgtNext]_agtVars
  PROVE  \A v \in Users : Followed(v)
<1>1. ASSUME NEW u \in Users, NEW x, agt' = [agt EXCEPT ![u] = x], NEW v \in Users \ {u}
      PROVE  Followed(v)
  BY <1>1 DEF AgtSound, AgtTypeOK, Followed, Learns
<1>2. ASSUME NEW u \in Users, Observing(u) PROVE \A v \in Users : Followed(v)
  <2>1. ASSUME NEW gaze \in Gazes, NEW seed \in Seeds, NEW phi \in Factors,
               CreateAgtAttestation(u, gaze, seed, phi)
        PROVE  \A v \in Users : Followed(v)
    <3>1. agt' = [agt EXCEPT ![u] = NewAttestation(u, gaze, seed, phi)]
      BY <2>1 DEF CreateAgtAttestation
    <3> QED
      BY <1>1, <2>1, <3>1, CreationFollowed
  <2>2. ASSUME NEW gaze \in Gazes, NEW alpha \in Alphas, UpdateAgtWeights(u, gaze, alpha)
        PROVE  \A v \in Users : Followed(v)
    <3>1. PICK x : agt' = [agt EXCEPT ![u] = x]
      BY <2>2, UpdateSound
    <3> QED
      BY <1>1, <2>2, <3>1, UpdateFollowed
  <2> QED
    BY <1>2, <2>1, <2>2 DEF Observing
<1>3. ASSUME NEW u \in Users, Auditing(u) PROVE \A v \in Users : Followed(v)
  <2>1. ASSUME NEW hash \in AuditHashes, NEW risk \in RiskScores, AaronAudit(u, hash, risk)
        PROVE  \A v \in Users : Followed(v)
    <3>1. agt' = [agt EXCEPT ![u] = Stamped(agt[u], hash)] /\ agt[u] # NoAccount
      BY <2>1 DEF AaronAudit, Valid, AgtSound, AgtTypeOK
    <3>2. Stamped(agt[u], hash).agt_weights = agt[u].agt_weights
      BY <3>1, StampedType DEF AgtSound, AgtTypeOK
    <3> QED
      BY <3>1, <3>2, OthersLearnNothing
  <2>2. ASSUME NEW hash \in AuditHashes, NEW risk \in RiskScores, RefreshAaronAudit(u, hash, risk)
        PROVE  \A v \in Users : Followed(v)
    BY <2>2 DEF RefreshAaronAudit, Followed, Learns
  <2>3. ASSUME RevokeAttestation(u) PROVE \A v \in Users : Followed(v)
    <3> DEFINE x == [agt[u] EXCEPT !.is_valid = FALSE]
    <3>1. agt' = [agt EXCEPT ![u] = x] /\ agt[u] # NoAccount
      BY <2>3 DEF RevokeAttestation, Valid, AgtSound, AgtTypeOK
    <3>2. x.agt_weights = agt[u].agt_weights
      BY <3>1 DEF AgtSound, AgtTypeOK, AgtAttestation
    <3> HIDE DEF x
    <3> QED
      BY <3>1, <3>2, OthersLearnNothing
  <2> QED
    BY <1>3, <2>1, <2>2, <2>3 DEF Auditing
<1>4. ASSUME UNCHANGED agt PROVE \A v \in Users : Followed(v)
  BY <1>4 DEF Followed, Learns
<1> QED
  BY <1>2, <1>3, <1>4 DEF AgtNext, SetPaused, Tick, agtVars

(* On every axis, for every precision and learning rate, the fixed-point   *)
(* weights the program learns are within four units of the client's        *)
(* floating-point prediction, plus what the observation misses the simplex *)
(* by (simplex_project, update_agt_weights; AgtTensor.update).             *)
THEOREM ClientIsFollowed == AgtSpec => ChainFollowsClient
<1>1. AgtSound /\ [AgtNext]_agtVars =>
        [\A u \in Users : Learns(u) =>
           LET gaze == agt'[u].gaze_tensor IN
           \E alpha \in Alphas, off \in 0 .. Tolerance :
             /\ Near(Total(gaze), Precision, off)
             /\ \A i \in Axes : Near(agt'[u].agt_weights[i], Prediction(agt[u], gaze, alpha)[i],
                                     RoundingError + off)]_agtVars
  BY FollowedStep DEF Followed
<1> QED
  BY <1>1, AlwaysSound, PTL DEF AgtSpec, ChainFollowsClient
=============================================================================
