------------------------ MODULE PositionSizing_proofs ------------------------
(* For every account, campaign, settings and intent with numbers in them: a *)
(* size stays inside the ceilings of the risk engine, and of two accounts   *)
(* with the same past the poorer one never risks more.                      *)
EXTENDS PositionSizing, FiniteSetTheorems, TLAPS

(* A sizing state of an account with a readable equity.                      *)
IsSizingState(st) ==
  /\ st.equity \in Int
  /\ st.high_water_mark \in MaybeInt
  /\ st.start_of_day_equity \in MaybeInt
  /\ st.campaign_start_equity \in MaybeInt
  /\ st.sessions_remaining \in MaybeInt
  /\ st.is_first_session \in BOOLEAN
  /\ st.conviction_reliability \in Int

Solvent(st) == IsSizingState(st) /\ st.equity > 0

SamePast(a, b) ==
  /\ a.high_water_mark = b.high_water_mark
  /\ a.start_of_day_equity = b.start_of_day_equity
  /\ a.campaign_start_equity = b.campaign_start_equity
  /\ a.sessions_remaining = b.sessions_remaining
  /\ a.is_first_session = b.is_first_session
  /\ a.conviction_reliability = b.conviction_reliability

------------------------------------------------------------------------------
(* Numbers, selections and sums.  Induction is on a set of numbers: one that *)
(* is not empty has a least member.                                         *)

LEMMA LeastNumber ==
  ASSUME NEW T \in SUBSET Nat, T # {}
  PROVE  \E n \in T : \A m \in T : n <= m
<1> DEFINE below == {1..n : n \in T}
           R == StrictSubsetOrdering(Nat)
<1>1. \A n \in T : 1..n \in FiniteSubsetsOf(Nat)
  BY FS_Interval DEF FiniteSubsetsOf
<1>2. below \subseteq FiniteSubsetsOf(Nat) /\ below # {}
  BY <1>1
<1>3. IsWellFoundedOn(R, FiniteSubsetsOf(Nat))
  BY FS_StrictSubsetOrderingWellFounded
<1>4. \E x \in below : \A y \in below : ~(<<y, x>> \in R)
  <2> HIDE DEF below, R
  <2> QED BY <1>2, <1>3, WFMin
<1>5. PICK n \in T : \A m \in T : ~(<<1..m, 1..n>> \in R)
  BY <1>4
<1>6. ASSUME NEW m \in T, m < n PROVE FALSE
  <2>1. 1..m \subseteq 1..n /\ n \in 1..n /\ n \notin 1..m
    BY <1>6
  <2>2. 1..m \in SUBSET Nat /\ 1..n \in SUBSET Nat /\ 1..m # 1..n
    BY <2>1
  <2> QED BY <1>5, <2>1, <2>2 DEF StrictSubsetOrdering
<1>7. \A m \in T : n <= m
  BY <1>6
<1> QED BY <1>7

LEMMA SmallestIn ==
  ASSUME NEW T \in SUBSET Nat, T # {}
  PROVE  Smallest(T) \in T /\ \A m \in T : Smallest(T) <= m
BY LeastNumber DEF Smallest

LEMMA LargestIn ==
  ASSUME NEW T \in SUBSET Int, IsFiniteSet(T), T # {}
  PROVE  Largest(T) \in T /\ \A m \in T : m <= Largest(T)
<1> DEFINE Over(n) == {m \in T : n < m}
           overs == {Over(n) : n \in T}
           R == StrictSubsetOrdering(T)
<1>1. \A n \in T : Over(n) \in FiniteSubsetsOf(T)
  BY FS_Subset DEF FiniteSubsetsOf
<1>2. overs \subseteq FiniteSubsetsOf(T) /\ overs # {}
  BY <1>1
<1>3. IsWellFoundedOn(R, FiniteSubsetsOf(T))
  BY FS_StrictSubsetOrderingWellFounded
<1>4. \E x \in overs : \A y \in overs : ~(<<y, x>> \in R)
  <2> HIDE DEF overs, R
  <2> QED BY <1>2, <1>3, WFMin
<1>5. PICK n \in T : \A m \in T : ~(<<Over(m), Over(n)>> \in R)
  BY <1>4
<1>6. ASSUME NEW m \in T, n < m PROVE FALSE
  <2>0. n \in Int /\ m \in Int /\ \A k \in T : k \in Int
    OBVIOUS
  <2>1. Over(m) \subseteq Over(n) /\ m \in Over(n) /\ m \notin Over(m)
    <3>1. \A k \in Int : m < k => n < k
      BY <1>6, <2>0
    <3>2. ~(m < m)
      BY <2>0
    <3> QED BY <1>6, <2>0, <3>1, <3>2
  <2>2. Over(m) \in SUBSET T /\ Over(n) \in SUBSET T /\ Over(m) # Over(n)
    BY <2>1
  <2> HIDE DEF Over
  <2> QED BY <1>5, <2>1, <2>2 DEF StrictSubsetOrdering
<1>7. \A m \in T : m <= n
  BY <1>6
<1> QED BY <1>7 DEF Largest

LEMMA RootIs ==
  ASSUME NEW n \in Nat
  PROVE  /\ Root(n) \in 0..n
         /\ n > 0 => Root(n) > 0
<1> DEFINE T == {k \in Nat : (k + 1) * (k + 1) > n}
<1>1. n \in T
  BY DEF T
<1>2. PICK k \in T : \A m \in T : k <= m
  BY <1>1, LeastNumber
<1>3. k <= n /\ k \in Nat /\ (k + 1) * (k + 1) > n
  BY <1>1, <1>2
<1>4. k * k <= n
  <2>1. CASE k = 0
    BY <2>1
  <2>2. CASE k # 0
    <3>1. k - 1 \in Nat /\ k - 1 \notin T
      BY <1>2, <1>3, <2>2
    <3>2. ((k - 1) + 1) * ((k - 1) + 1) <= n
      BY <3>1
    <3> QED BY <3>2, <1>3
  <2> QED BY <2>1, <2>2
<1>5. \E j \in 0..n : j * j <= n /\ (j + 1) * (j + 1) > n
  BY <1>3, <1>4
<1>6. Root(n) \in 0..n /\ Root(n) * Root(n) <= n /\ (Root(n) + 1) * (Root(n) + 1) > n
  BY <1>5 DEF Root
<1> QED BY <1>6

LEMMA TotalIs ==
  ASSUME NEW f \in Seq(Int),
         NEW g, g = [i \in 0..Len(f) |-> IF i = 0 THEN 0 ELSE g[i - 1] + f[i]]
  PROVE  Total(f) = g[Len(f)]
<1> DEFINE sum == CHOOSE h : h = [i \in 0..Len(f) |-> IF i = 0 THEN 0 ELSE h[i - 1] + f[i]]
<1>1. sum = [i \in 0..Len(f) |-> IF i = 0 THEN 0 ELSE sum[i - 1] + f[i]]
  OBVIOUS
<1>2. Total(f) = sum[Len(f)]
  BY DEF Total
<1>3. Len(f) \in Nat
  OBVIOUS
<1> HIDE DEF sum
<1> DEFINE T == {i \in 0..Len(f) : sum[i] # g[i]}
<1>4. T = {}
  <2> SUFFICES ASSUME T # {} PROVE FALSE
    OBVIOUS
  <2>1. PICK n \in T : \A m \in T : n <= m
    <3>1. T \in SUBSET Nat
      BY <1>3
    <3> HIDE DEF T
    <3> QED BY <3>1, LeastNumber
  <2>2. CASE n = 0
    BY <1>1, <2>1, <2>2
  <2>3. CASE n # 0
    <3>0. n \in 0..Len(f) /\ n \in Nat
      BY <1>3
    <3>1. n - 1 \in 0..Len(f) /\ n - 1 \notin T
      <4>1. n - 1 \in 0..Len(f) /\ ~(n <= n - 1)
        BY <1>3, <2>3, <3>0
      <4> QED BY <2>1, <4>1
    <3>2. sum[n - 1] = g[n - 1]
      BY <3>1
    <3>3. sum[n] = sum[n - 1] + f[n] /\ g[n] = g[n - 1] + f[n]
      BY <1>1, <2>3, <3>0, <3>1
    <3> QED BY <2>1, <3>2, <3>3
  <2> QED BY <2>2, <2>3
<1> QED BY <1>2, <1>3, <1>4

(* The running sums of a sequence of numbers exist, and are numbers.        *)
LEMMA RunningSums ==
  ASSUME NEW f \in Seq(Int)
  PROVE  \E g \in [0..Len(f) -> Int] :
           g = [i \in 0..Len(f) |-> IF i = 0 THEN 0 ELSE g[i - 1] + f[i]]
<1> DEFINE Sums(n, g) == g = [i \in 0..n |-> IF i = 0 THEN 0 ELSE g[i - 1] + f[i]]
           T == {n \in 0..Len(f) : ~\E g \in [0..n -> Int] : Sums(n, g)}
<1>0. Len(f) \in Nat /\ \A i \in 1..Len(f) : f[i] \in Int
  OBVIOUS
<1>1. T = {}
  <2> SUFFICES ASSUME T # {} PROVE FALSE
    OBVIOUS
  <2>1. PICK n \in T : \A m \in T : n <= m
    <3>1. T \in SUBSET Nat
      BY <1>0
    <3> HIDE DEF T
    <3> QED BY <3>1, LeastNumber
  <2>2. n \in 0..Len(f) /\ n \in Nat /\ ~\E g \in [0..n -> Int] : Sums(n, g)
    BY <1>0
  <2>3. CASE n = 0
    <3> DEFINE g == [i \in 0..0 |-> 0]
    <3>1. g \in [0..0 -> Int] /\ Sums(0, g)
      OBVIOUS
    <3> QED BY <2>2, <2>3, <3>1
  <2>4. CASE n # 0
    <3>1. n - 1 \in 0..Len(f) /\ ~(n <= n - 1)
      BY <1>0, <2>2, <2>4
    <3>2. \E g \in [0..(n - 1) -> Int] : Sums(n - 1, g)
      BY <2>1, <3>1
    <3>3. PICK g \in [0..(n - 1) -> Int] : Sums(n - 1, g)
      BY <3>2
    <3> DEFINE h == [i \in 0..n |-> IF i = n THEN g[n - 1] + f[n] ELSE g[i]]
    <3>4. h \in [0..n -> Int]
      BY <1>0, <2>2, <2>4
    <3>5. ASSUME NEW i \in 0..n
          PROVE  h[i] = IF i = 0 THEN 0 ELSE h[i - 1] + f[i]
      <4>1. CASE i = 0
        <5>1. h[0] = g[0] /\ g[0] = 0
          BY <2>2, <2>4, <3>3
        <5> QED BY <4>1, <5>1
      <4>2. CASE i # 0 /\ i = n
        BY <2>2, <4>2
      <4>3. CASE i # 0 /\ i # n
        <5>1. i \in 0..(n - 1) /\ i - 1 \in 0..n /\ i - 1 # n
          BY <2>2, <4>3
        <5>2. h[i] = g[i] /\ h[i - 1] = g[i - 1]
          BY <2>2, <4>3, <5>1
        <5>3. g[i] = g[i - 1] + f[i]
          BY <3>3, <4>3, <5>1
        <5> QED BY <4>3, <5>2, <5>3
      <4> QED BY <4>1, <4>2, <4>3
    <3>6. Sums(n, h)
      BY <3>5
    <3> QED BY <2>2, <3>4, <3>6
  <2> QED BY <2>3, <2>4
<1>2. Len(f) \in 0..Len(f)
  BY <1>0
<1> QED BY <1>1, <1>2

LEMMA TotalInt ==
  ASSUME NEW f \in Seq(Int)
  PROVE  Total(f) \in Int
<1>1. PICK g \in [0..Len(f) -> Int] :
        g = [i \in 0..Len(f) |-> IF i = 0 THEN 0 ELSE g[i - 1] + f[i]]
  BY RunningSums
<1>2. Len(f) \in 0..Len(f)
  OBVIOUS
<1> QED BY <1>1, <1>2, TotalIs

LEMMA TotalOfOne ==
  ASSUME NEW a \in Int PROVE Total(<<a>>) = a
<1> DEFINE f == <<a>>
<1>1. f \in Seq(Int) /\ Len(f) = 1 /\ f[1] = a
  OBVIOUS
<1> HIDE DEF f
<1>2. PICK g \in [0..Len(f) -> Int] :
        g = [i \in 0..Len(f) |-> IF i = 0 THEN 0 ELSE g[i - 1] + f[i]]
  BY <1>1, RunningSums
<1>3. g[1] = a
  BY <1>1, <1>2
<1> QED BY <1>1, <1>2, <1>3, TotalIs DEF f

LEMMA TotalOfTwo ==
  ASSUME NEW a \in Int, NEW b \in Int PROVE Total(<<a, b>>) = a + b
<1> DEFINE f == <<a, b>>
<1>1. f \in Seq(Int) /\ Len(f) = 2 /\ f[1] = a /\ f[2] = b
  OBVIOUS
<1> HIDE DEF f
<1>2. PICK g \in [0..Len(f) -> Int] :
        g = [i \in 0..Len(f) |-> IF i = 0 THEN 0 ELSE g[i - 1] + f[i]]
  BY <1>1, RunningSums
<1>3. g[1] = a
  BY <1>1, <1>2
<1>4. g[2] = a + b
  BY <1>1, <1>2, <1>3
<1> QED BY <1>1, <1>2, <1>4, TotalIs DEF f

LEMMA TotalOfFour ==
  ASSUME NEW a \in Int, NEW b \in Int, NEW c \in Int, NEW d \in Int
  PROVE  Total(<<a, b, c, d>>) = a + b + c + d
<1> DEFINE f == <<a, b, c, d>>
<1>1. f \in Seq(Int) /\ Len(f) = 4 /\ f[1] = a /\ f[2] = b /\ f[3] = c /\ f[4] = d
  OBVIOUS
<1> HIDE DEF f
<1>2. PICK g \in [0..Len(f) -> Int] :
        g = [i \in 0..Len(f) |-> IF i = 0 THEN 0 ELSE g[i - 1] + f[i]]
  BY <1>1, RunningSums
<1>3. g[1] = a
  BY <1>1, <1>2
<1>4. g[2] = a + b
  BY <1>1, <1>2, <1>3
<1>5. g[3] = a + b + c
  BY <1>1, <1>2, <1>4
<1>6. g[4] = a + b + c + d
  BY <1>1, <1>2, <1>5
<1> QED BY <1>1, <1>2, <1>6, TotalIs DEF f

LEMMA EarliestIs ==
  ASSUME NEW cs, DOMAIN cs \in SUBSET Nat, DOMAIN cs # {}
  PROVE  \E n \in DOMAIN cs : Earliest(cs) = cs[n]
BY SmallestIn DEF Earliest

(* The first by a key is one of them, and none has a smaller key.           *)
LEMMA FirstIs ==
  ASSUME NEW cs, DOMAIN cs \in SUBSET Nat, DOMAIN cs # {},
         NEW key \in [DOMAIN cs -> Nat]
  PROVE  \E n \in DOMAIN cs : /\ First(cs, key) = cs[n]
                              /\ \A m \in DOMAIN cs : key[n] <= key[m]
<1> DEFINE keys == {key[n] : n \in DOMAIN cs}
           best == Smallest(keys)
           T == {n \in DOMAIN cs : key[n] = best}
           chosen == [n \in T |-> cs[n]]
<1>1. best \in keys /\ \A k \in keys : best <= k
  <2>1. keys \in SUBSET Nat /\ keys # {}
    OBVIOUS
  <2> HIDE DEF keys
  <2> QED BY <2>1, SmallestIn
<1>2. First(cs, key) = Earliest(chosen)
  BY DEF First, RestrictDomain, Restrict
<1>3. T \in SUBSET Nat /\ T # {}
  BY <1>1
<1>4. \E n \in T : Earliest(chosen) = cs[n]
  <2>1. DOMAIN chosen = T /\ \A n \in T : chosen[n] = cs[n]
    OBVIOUS
  <2> HIDE DEF chosen, T
  <2> QED BY <1>3, <2>1, EarliestIs
<1>5. PICK n \in T : Earliest(chosen) = cs[n]
  BY <1>4
<1>6. \A m \in DOMAIN cs : key[n] <= key[m]
  BY <1>1, <1>5
<1> HIDE DEF chosen, keys, best
<1> QED BY <1>2, <1>5, <1>6

------------------------------------------------------------------------------
(* Arithmetic of rounded-down percentages.                                  *)

LEMMA DivBounds ==
  ASSUME NEW x \in Int, NEW d \in Nat \ {0}
  PROVE  x \div d \in Int /\ d * (x \div d) <= x /\ x < d * (x \div d) + d
OBVIOUS

LEMMA DivMono ==
  ASSUME NEW x \in Int, NEW y \in Int, NEW d \in Nat \ {0}, x <= y
  PROVE  x \div d <= y \div d
<1> DEFINE p == x \div d
           q == y \div d
<1>1. p \in Int /\ q \in Int /\ d * p <= x /\ y < d * q + d
  BY DivBounds
<1>2. SUFFICES ASSUME q + 1 <= p PROVE FALSE
  BY <1>1
<1> HIDE DEF p, q
<1>3. d * (q + 1) <= d * p
  BY <1>1, <1>2
<1> QED BY <1>1, <1>3

LEMMA DivNat ==
  ASSUME NEW x \in Nat, NEW d \in Nat \ {0}
  PROVE  x \div d \in Nat
OBVIOUS

LEMMA TimesMono ==
  ASSUME NEW x \in Nat, NEW y \in Nat, NEW k \in Nat, NEW l \in Nat, x <= y, k <= l
  PROVE  x * k \in Nat /\ y * l \in Nat /\ x * k <= y * l
<1>1. x * k <= y * k
  OBVIOUS
<1>2. y * k <= y * l
  OBVIOUS
<1> QED BY <1>1, <1>2

(* Scaling by a percentage is monotone in both.                             *)
LEMMA ScaleMono ==
  ASSUME NEW x \in Nat, NEW y \in Nat, NEW k \in Nat, NEW l \in Nat, x <= y, k <= l
  PROVE  /\ (x * k) \div 100 \in Nat /\ (y * l) \div 100 \in Nat
         /\ (x * k) \div 100 <= (y * l) \div 100
<1>1. x * k \in Nat /\ y * l \in Nat /\ x * k <= y * l
  BY TimesMono
<1> QED BY <1>1, DivMono, DivNat

------------------------------------------------------------------------------
(* Each scalar is a number, and none grows as equity falls.                 *)

LEMMA TaperMono ==
  ASSUME NEW less \in Int, NEW more \in Int, less <= more,
         NEW base \in Nat \ {0}, NEW halt \in Nat \ {0}, NEW floor \in 0..100
  PROVE  /\ Taper(less, base, halt, floor) \in Nat
         /\ Taper(more, base, halt, floor) \in Nat
         /\ Taper(more, base, halt, floor) <= Taper(less, base, halt, floor)
<1> DEFINE Reached(n) == MinOf(100, (n * 100 * 100) \div (base * halt))
           Taken(n) == (Reached(n) * (100 - floor)) \div 100
<1>1. base * halt \in Nat \ {0}
  OBVIOUS
<1>2. ASSUME NEW n \in Nat PROVE Reached(n) \in Nat
  BY <1>1, <1>2, DivNat DEF MinOf
<1>3. ASSUME NEW n \in Nat PROVE Taken(n) \in Nat
  BY <1>2, <1>3, ScaleMono
<1>4. ASSUME NEW n \in Nat, n > 0
      PROVE  Taper(n, base, halt, floor) = MaxOf(floor, 100 - Taken(n))
  BY <1>4 DEF Taper
<1>5. ASSUME NEW n \in Int, ~(n > 0) PROVE Taper(n, base, halt, floor) = 100
  BY <1>5 DEF Taper
<1>6. ASSUME NEW n \in Int
      PROVE  Taper(n, base, halt, floor) \in Nat /\ Taper(n, base, halt, floor) <= 100
  <2>1. CASE n > 0
    <3>1. n \in Nat /\ Taken(n) \in Nat
      BY <1>3, <2>1
    <3> HIDE DEF Taken
    <3> QED BY <1>4, <2>1, <3>1 DEF MaxOf
  <2>2. CASE ~(n > 0)
    BY <1>5, <2>2
  <2> QED BY <2>1, <2>2
<1>7. Taper(more, base, halt, floor) <= Taper(less, base, halt, floor)
  <2>1. CASE ~(less > 0)
    BY <1>5, <1>6, <2>1
  <2>2. CASE less > 0
    <3>1. less \in Nat /\ more \in Nat /\ more > 0
      BY <2>2
    <3>2. less * 100 * 100 \in Int /\ more * 100 * 100 \in Int
          /\ less * 100 * 100 <= more * 100 * 100
      BY <3>1
    <3>3. (less * 100 * 100) \div (base * halt) <= (more * 100 * 100) \div (base * halt)
      BY <1>1, <3>2, DivMono
    <3>4. Reached(less) <= Reached(more)
      BY <1>1, <3>2, <3>3, DivBounds DEF MinOf
    <3>5. Taken(less) <= Taken(more) /\ Taken(less) \in Nat /\ Taken(more) \in Nat
      <4>1. Reached(less) \in Nat /\ Reached(more) \in Nat /\ 100 - floor \in Nat
        BY <1>2, <3>1
      <4> HIDE DEF Reached
      <4> QED BY <3>4, <4>1, ScaleMono
    <3> HIDE DEF Taken
    <3>6. MaxOf(floor, 100 - Taken(more)) <= MaxOf(floor, 100 - Taken(less))
      BY <3>5 DEF MaxOf
    <3> QED BY <1>4, <2>2, <3>1, <3>6
  <2> QED BY <2>1, <2>2
<1> QED BY <1>6, <1>7

(* Against one mark of the past: silent without one.                        *)
LEMMA TaperFromMono ==
  ASSUME NEW s, IsSizingSettings(s), NEW base \in MaybeInt,
         NEW poorer \in Int, NEW richer \in Int, poorer <= richer,
         NEW halt \in Nat \ {0}
  PROVE  /\ TaperFrom(base, poorer, halt, s) \in Nat
         /\ TaperFrom(base, richer, halt, s) \in Nat
         /\ TaperFrom(base, poorer, halt, s) <= TaperFrom(base, richer, halt, s)
<1>1. CASE base = None \/ base <= 0
  BY <1>1 DEF TaperFrom
<1>2. CASE ~(base = None \/ base <= 0)
  <2> DEFINE less == base - richer
             more == base - poorer
             floor == s.drawdown_size_floor
  <2>1. base \in Nat \ {0}
    BY <1>2 DEF MaybeInt
  <2>2. less \in Int /\ more \in Int /\ less <= more
    BY <2>1
  <2>3. floor \in 0..100
    BY DEF IsSizingSettings
  <2>4. /\ TaperFrom(base, poorer, halt, s) = Taper(more, base, halt, floor)
        /\ TaperFrom(base, richer, halt, s) = Taper(less, base, halt, floor)
    BY <1>2 DEF TaperFrom
  <2> HIDE DEF less, more, floor
  <2>5. /\ Taper(less, base, halt, floor) \in Nat
        /\ Taper(more, base, halt, floor) \in Nat
        /\ Taper(more, base, halt, floor) <= Taper(less, base, halt, floor)
    BY <2>1, <2>2, <2>3, TaperMono
  <2> QED BY <2>4, <2>5
<1> QED BY <1>1, <1>2

LEMMA DrawdownMono ==
  ASSUME NEW s, IsSizingSettings(s), NEW a, NEW b, Solvent(a), Solvent(b),
         SamePast(a, b), a.equity <= b.equity
  PROVE  /\ DrawdownScalar(a, s) \in Nat /\ DrawdownScalar(b, s) \in Nat
         /\ DrawdownScalar(a, s) <= DrawdownScalar(b, s)
<1> DEFINE Peak(st) == TaperFrom(st.high_water_mark, st.equity, s.drawdown_halt_pct, s)
           Close(st) == TaperFrom(st.start_of_day_equity, st.equity, s.daily_loss_halt_pct, s)
<1>1. /\ a.equity \in Int /\ b.equity \in Int /\ a.equity > 0 /\ b.equity > 0
      /\ a.equity # None /\ b.equity # None
      /\ a.high_water_mark \in MaybeInt /\ a.start_of_day_equity \in MaybeInt
      /\ b.high_water_mark = a.high_water_mark
      /\ b.start_of_day_equity = a.start_of_day_equity
      /\ s.drawdown_halt_pct \in Nat \ {0} /\ s.daily_loss_halt_pct \in Nat \ {0}
  BY NoneIsNoNumber DEF Solvent, IsSizingState, SamePast, IsSizingSettings
<1>2. Peak(a) \in Nat /\ Peak(b) \in Nat /\ Peak(a) <= Peak(b)
  BY <1>1, TaperFromMono
<1>3. Close(a) \in Nat /\ Close(b) \in Nat /\ Close(a) <= Close(b)
  BY <1>1, TaperFromMono
<1>4. DrawdownScalar(a, s) = MinOf(Peak(a), Close(a)) /\ DrawdownScalar(b, s) = MinOf(Peak(b), Close(b))
  BY <1>1 DEF DrawdownScalar
<1> HIDE DEF Peak, Close
<1> QED BY <1>2, <1>3, <1>4 DEF MinOf

LEMMA GainMono ==
  ASSUME NEW s, IsSizingSettings(s), NEW a, NEW b, Solvent(a), Solvent(b),
         SamePast(a, b), a.equity <= b.equity
  PROVE  /\ GainScalar(a, s) \in Nat /\ GainScalar(b, s) \in Nat
         /\ GainScalar(a, s) <= GainScalar(b, s)
<1> DEFINE base == IF a.campaign_start_equity # None
                   THEN a.campaign_start_equity ELSE a.start_of_day_equity
           ref == base * s.gain_size_reference_pct
           Reached(st) == MinOf(100, ((st.equity - base) * 100 * 100) \div ref)
           More(st) == (Reached(st) * (s.gain_size_cap - 100)) \div 100
           Flat(st) == base = None \/ base <= 0 \/ st.equity <= base
<1>1. /\ a.equity \in Int /\ b.equity \in Int /\ a.equity # None /\ b.equity # None
      /\ base \in MaybeInt
      /\ b.campaign_start_equity = a.campaign_start_equity
      /\ b.start_of_day_equity = a.start_of_day_equity
      /\ s.gain_size_reference_pct \in Nat \ {0} /\ s.gain_size_cap - 100 \in Nat
  BY NoneIsNoNumber DEF Solvent, IsSizingState, SamePast, IsSizingSettings
<1>2. /\ GainScalar(a, s) = IF Flat(a) THEN 100 ELSE 100 + More(a)
      /\ GainScalar(b, s) = IF Flat(b) THEN 100 ELSE 100 + More(b)
  BY <1>1 DEF GainScalar
<1>3. CASE base = None \/ base <= 0
  BY <1>2, <1>3
<1>4. CASE ~(base = None \/ base <= 0)
  <2>1. base \in Nat \ {0} /\ ref \in Nat \ {0}
    BY <1>1, <1>4 DEF MaybeInt
  <2> HIDE DEF base
  <2>2. ASSUME NEW st \in {a, b}, ~Flat(st)
        PROVE  Reached(st) \in Nat /\ (st.equity - base) * 100 * 100 \in Nat
    <3>1. (st.equity - base) * 100 * 100 \in Nat
      BY <1>1, <2>1, <2>2
    <3> QED BY <2>1, <3>1, DivNat DEF MinOf
  <2>3. ASSUME NEW st \in {a, b}, ~Flat(st) PROVE More(st) \in Nat
    <3>1. Reached(st) \in Nat
      BY <2>2, <2>3
    <3> HIDE DEF Reached
    <3> QED BY <1>1, <3>1, ScaleMono
  <2>4. ASSUME ~Flat(a), ~Flat(b) PROVE More(a) <= More(b)
    <3>1. /\ (a.equity - base) * 100 * 100 \in Nat
          /\ (b.equity - base) * 100 * 100 \in Nat
          /\ (a.equity - base) * 100 * 100 <= (b.equity - base) * 100 * 100
      BY <1>1, <2>1, <2>2, <2>4
    <3>2. ((a.equity - base) * 100 * 100) \div ref <= ((b.equity - base) * 100 * 100) \div ref
      <4> DEFINE x == (a.equity - base) * 100 * 100
                 y == (b.equity - base) * 100 * 100
      <4>1. x \in Int /\ y \in Int /\ x <= y
        BY <3>1
      <4> HIDE DEF x, y, ref
      <4>2. x \div ref <= y \div ref
        BY <2>1, <4>1, DivMono
      <4> QED BY <4>2 DEF x, y
    <3>3. Reached(a) <= Reached(b) /\ Reached(a) \in Nat /\ Reached(b) \in Nat
      BY <2>1, <2>2, <2>4, <3>1, <3>2, DivBounds DEF MinOf
    <3> HIDE DEF Reached
    <3> QED BY <1>1, <3>3, ScaleMono
  <2>5. Flat(b) => Flat(a)
    BY <1>1, <2>1
  <2> HIDE DEF Flat, More
  <2> QED BY <1>2, <2>3, <2>4, <2>5
<1> QED BY <1>3, <1>4

(* Shrunk between the two multipliers, so never negative.                   *)
LEMMA ConvictionNat ==
  ASSUME NEW s, IsSizingSettings(s), NEW conviction \in Int, NEW reliability \in Int
  PROVE  ConvictionScalar(conviction, s, reliability) \in Nat
<1> DEFINE span == 100 - s.conviction_floor
           low == s.conviction_size_min_mult
           high == s.conviction_size_max_mult
           reached == IF span <= 0 THEN 100
                      ELSE MinOf(100, MaxOf(0, ((conviction - s.conviction_floor) * 100) \div span))
           raw == low + (reached * (high - low)) \div 100
           trust == MinOf(100, MaxOf(0, reliability))
<1>1. s.conviction_floor \in Int /\ low \in Nat /\ high \in Nat
  BY DEF IsSizingSettings
<1>2. reached \in 0..100
  <2>1. CASE span <= 0
    BY <2>1
  <2>2. CASE ~(span <= 0)
    <3>1. span \in Nat \ {0} /\ (conviction - s.conviction_floor) * 100 \in Int
      BY <1>1, <2>2
    <3>2. ((conviction - s.conviction_floor) * 100) \div span \in Int
      BY <3>1, DivBounds
    <3> QED BY <2>2, <3>2 DEF MinOf, MaxOf
  <2> QED BY <2>1, <2>2
<1>3. trust \in 0..100
  BY DEF MinOf, MaxOf
<1>4. ConvictionScalar(conviction, s, reliability) = 100 + (trust * (raw - 100)) \div 100
  BY DEF ConvictionScalar
<1> HIDE DEF span, low, high, reached, trust
<1>5. raw \in Nat
  <2> DEFINE step == reached * (high - low)
  <2>1. step \in Int /\ step >= -(100 * low)
    <3>1. step = reached * high - reached * low
      BY <1>1, <1>2
    <3>2. reached * high >= 0 /\ reached * low <= 100 * low
      BY <1>1, <1>2
    <3> QED BY <1>1, <1>2, <3>1, <3>2
  <2> HIDE DEF step
  <2>2. step \div 100 \in Int /\ step < 100 * (step \div 100) + 100
    BY <2>1, DivBounds
  <2>3. step \div 100 >= -low
    BY <1>1, <2>1, <2>2
  <2> QED BY <1>1, <2>2, <2>3 DEF step
<1> HIDE DEF raw
<1>6. trust * (raw - 100) \in Int /\ trust * (raw - 100) >= -10000
  <2>1. trust * (raw - 100) = trust * raw - trust * 100
    BY <1>3, <1>5
  <2>2. trust * raw >= 0 /\ trust * 100 <= 10000
    BY <1>3, <1>5
  <2> QED BY <1>3, <1>5, <2>1, <2>2
<1> DEFINE shift == trust * (raw - 100)
<1>7. shift \in Int /\ shift >= -10000
  BY <1>6
<1> HIDE DEF shift
<1>8. shift \div 100 \in Int /\ shift \div 100 >= -100
  BY <1>7, DivBounds
<1> QED BY <1>4, <1>8 DEF shift

LEMMA HorizonNat ==
  ASSUME NEW s, IsSizingSettings(s), NEW st, Solvent(st)
  PROVE  HorizonScalar(st, s) \in Nat
BY DEF HorizonScalar, IsSizingSettings, Solvent, IsSizingState

(* The four scalars, applied one after the other.                           *)
LEMMA FractionMono ==
  ASSUME NEW s, IsSizingSettings(s), NEW a, NEW b, Solvent(a), Solvent(b),
         SamePast(a, b), a.equity <= b.equity, NEW conviction \in Int
  PROVE  /\ ScaledFraction(conviction, a, s) \in Nat
         /\ ScaledFraction(conviction, b, s) \in Nat
         /\ ScaledFraction(conviction, a, s) <= ScaledFraction(conviction, b, s)
<1> DEFINE base == s.base_risk_pct_per_trade
           drawn(st) == (base * DrawdownScalar(st, s)) \div 100
           gained(st) == (drawn(st) * GainScalar(st, s)) \div 100
           conv(st) == ConvictionScalar(conviction, s, st.conviction_reliability)
           believed(st) == (gained(st) * conv(st)) \div 100
           hor(st) == HorizonScalar(st, s)
<1>1. base \in Nat
  BY DEF IsSizingSettings
<1>2. drawn(a) \in Nat /\ drawn(b) \in Nat /\ drawn(a) <= drawn(b)
  BY <1>1, DrawdownMono, ScaleMono
<1> HIDE DEF drawn
<1>3. gained(a) \in Nat /\ gained(b) \in Nat /\ gained(a) <= gained(b)
  BY <1>2, GainMono, ScaleMono
<1>4. conv(a) \in Nat /\ conv(b) = conv(a)
  <2>1. a.conviction_reliability \in Int /\ b.conviction_reliability = a.conviction_reliability
    BY DEF Solvent, IsSizingState, SamePast
  <2> QED BY <2>1, ConvictionNat
<1> HIDE DEF gained, conv
<1>5. believed(a) \in Nat /\ believed(b) \in Nat /\ believed(a) <= believed(b)
  BY <1>3, <1>4, ScaleMono
<1>6. hor(a) \in Nat /\ hor(b) = hor(a)
  BY HorizonNat DEF SamePast, HorizonScalar
<1> HIDE DEF believed, hor
<1>7. /\ (believed(a) * hor(a)) \div 100 \in Nat /\ (believed(b) * hor(b)) \div 100 \in Nat
      /\ (believed(a) * hor(a)) \div 100 <= (believed(b) * hor(b)) \div 100
  BY <1>5, <1>6, ScaleMono
<1> QED BY <1>7 DEF ScaledFraction, believed, gained, drawn, conv, hor

LEMMA RiskFractionBounds ==
  ASSUME NEW s, IsSizingSettings(s), NEW st, Solvent(st), NEW conviction \in Int
  PROVE  /\ RiskFraction(conviction, st, s) \in Nat
         /\ RiskFraction(conviction, st, s) <= 100 * s.max_premium_pct_per_trade
<1>1. ScaledFraction(conviction, st, s) \in Nat
  <2>1. SamePast(st, st) /\ st.equity <= st.equity
    BY DEF SamePast, Solvent, IsSizingState
  <2> QED BY <2>1, FractionMono
<1>2. 100 * s.max_premium_pct_per_trade \in Nat
  BY DEF IsSizingSettings
<1> QED BY <1>1, <1>2 DEF RiskFraction, MinOf

(* An account with nothing left is sized as if it had lost nothing, and to    *)
(* nothing.                                                                 *)
LEMMA BrokeFraction ==
  ASSUME NEW s, IsSizingSettings(s), NEW st, IsSizingState(st), st.equity <= 0,
         NEW conviction \in Int
  PROVE  LET kept == (((s.base_risk_pct_per_trade * 100) \div 100) * 100) \div 100
             conv == ConvictionScalar(conviction, s, st.conviction_reliability)
         IN /\ ScaledFraction(conviction, st, s)
                 = (((kept * conv) \div 100) * HorizonScalar(st, s)) \div 100
            /\ RiskFraction(conviction, st, s) \in Nat
<1> DEFINE base == s.base_risk_pct_per_trade
           conv == ConvictionScalar(conviction, s, st.conviction_reliability)
           hor == HorizonScalar(st, s)
           kept == (((base * 100) \div 100) * 100) \div 100
<1>1. DrawdownScalar(st, s) = 100
  BY NoneIsNoNumber DEF DrawdownScalar, IsSizingState
<1>2. GainScalar(st, s) = 100
  BY NoneIsNoNumber DEF GainScalar, IsSizingState, MaybeInt
<1>3. ScaledFraction(conviction, st, s) = (((kept * conv) \div 100) * hor) \div 100
  BY <1>1, <1>2 DEF ScaledFraction
<1>4. base \in Nat /\ conv \in Nat /\ hor \in Nat
  <2>1. conv \in Nat
    BY ConvictionNat DEF IsSizingState
  <2>2. hor \in Nat
    BY DEF HorizonScalar, IsSizingSettings, IsSizingState
  <2> QED BY <2>1, <2>2 DEF IsSizingSettings
<1> HIDE DEF base, conv, hor
<1>5. kept \in Nat
  BY <1>4
<1> HIDE DEF kept
<1>6. (kept * conv) \div 100 \in Nat
  BY <1>4, <1>5, ScaleMono
<1>7. (((kept * conv) \div 100) * hor) \div 100 \in Nat
  <2> DEFINE believed == (kept * conv) \div 100
  <2>1. believed \in Nat
    BY <1>6
  <2> HIDE DEF believed
  <2>2. (believed * hor) \div 100 \in Nat
    BY <1>4, <2>1, ScaleMono
  <2> QED BY <2>2 DEF believed
<1>8. RiskFraction(conviction, st, s) \in Nat
  BY <1>3, <1>7 DEF RiskFraction, MinOf, IsSizingSettings
<1> QED BY <1>3, <1>8 DEF base, conv, hor, kept

------------------------------------------------------------------------------
(* Of two accounts with the same past, the one with less equity never risks *)
(* more: neither the peak, nor yesterday's close, nor the opening mark of   *)
(* the campaign, nor conviction turns a loss into a bigger trade            *)
(* (sizing.py:20-24, size_position).                                        *)
THEOREM LossNeverSizesUp ==
  ASSUME NEW s, IsSizingSettings(s), NEW poorer, NEW richer,
         IsSizingState(poorer), IsSizingState(richer), SamePast(poorer, richer),
         poorer.equity <= richer.equity, NEW conviction \in Int
  PROVE  poorer.equity * RiskFraction(conviction, poorer, s)
           <= richer.equity * RiskFraction(conviction, richer, s)
<1> DEFINE p == RiskFraction(conviction, poorer, s)
           r == RiskFraction(conviction, richer, s)
<1>1. poorer.equity \in Int /\ richer.equity \in Int
  BY DEF IsSizingState
<1>2. p \in Nat /\ r \in Nat
  BY <1>1, RiskFractionBounds, BrokeFraction DEF Solvent
<1>3. CASE poorer.equity > 0
  <2>1. Solvent(poorer) /\ Solvent(richer)
    BY <1>1, <1>3 DEF Solvent
  <2>2. p <= r
    <3>1. 100 * s.max_premium_pct_per_trade \in Nat
      BY DEF IsSizingSettings
    <3> QED BY <2>1, <3>1, FractionMono DEF RiskFraction, MinOf
  <2> HIDE DEF p, r
  <2>3. poorer.equity * p <= richer.equity * r
    BY <1>1, <1>2, <1>3, <2>2, TimesMono
  <2> QED BY <2>3 DEF p, r
<1>4. CASE poorer.equity <= 0 /\ richer.equity > 0
  <2> HIDE DEF p, r
  <2>1. poorer.equity * p <= 0 /\ richer.equity * r >= 0
    BY <1>1, <1>2, <1>4
  <2>2. poorer.equity * p \in Int /\ richer.equity * r \in Int
    BY <1>1, <1>2
  <2>3. poorer.equity * p <= richer.equity * r
    BY <2>1, <2>2
  <2> QED BY <2>3 DEF p, r
<1>5. CASE richer.equity <= 0
  <2>1. poorer.equity <= 0
    BY <1>1, <1>5
  <2>2. /\ poorer.conviction_reliability = richer.conviction_reliability
        /\ HorizonScalar(poorer, s) = HorizonScalar(richer, s)
    BY DEF SamePast, HorizonScalar
  <2>3. ScaledFraction(conviction, poorer, s) = ScaledFraction(conviction, richer, s)
    BY <1>5, <2>1, <2>2, BrokeFraction
  <2>4. p = r
    BY <2>3 DEF RiskFraction
  <2> HIDE DEF p, r
  <2>5. poorer.equity * p <= richer.equity * r
    <3> DEFINE less == -poorer.equity
               more == -richer.equity
    <3>1. less \in Nat /\ more \in Nat /\ more <= less
      BY <1>1, <1>5, <2>1
    <3>2. more * r <= less * r
      <4> HIDE DEF less, more
      <4> QED BY <1>2, <3>1, TimesMono
    <3> QED BY <1>1, <1>2, <2>4, <3>2
  <2> QED BY <2>5 DEF p, r
<1> QED BY <1>1, <1>3, <1>4, <1>5

(* A whole number of contracts of a budget costs no more than the budget.   *)
LEMMA FitsBudget ==
  ASSUME NEW money \in Nat, NEW price \in Nat \ {0}, NEW n \in Nat, n <= money \div price
  PROVE  price * n <= money
<1>1. money \div price \in Int /\ price * (money \div price) <= money
  BY DivBounds
<1> DEFINE q == money \div price
<1>2. q \in Int /\ price * q <= money /\ n <= q
  BY <1>1
<1> HIDE DEF q
<1>3. price * n <= price * q
  BY <1>2
<1> QED BY <1>2, <1>3

(* A trade that is sized at all loses, at worst, no more than the per-trade *)
(* ceiling of the risk engine on the same equity, and no more than the      *)
(* usable part of the buying power, which a covered call does not use       *)
(* (sizing.py:386-515, risk.py:234-275).                                    *)
THEOREM SizeFitsTheCeilings ==
  ASSUME NEW s, IsSizingSettings(s), NEW st, IsSizingState(st),
         st.options_buying_power \in MaybeInt, st.cash \in MaybeInt,
         NEW strategy, NEW conviction \in Int, NEW loss \in Int, NEW strike,
         strategy = "cash_secured_put" => strike \in Nat \ {0} /\ loss <= strike,
         Sized(strategy, conviction, loss, strike, st, s) # 0
  PROVE  LET n == Sized(strategy, conviction, loss, strike, st, s)
         IN /\ n \in Nat
            /\ 100 * loss * n <= s.max_premium_pct_per_trade * st.equity
            /\ strategy # "covered_call" =>
                 100 * loss * n <= s.buying_power_utilization_cap * st.options_buying_power
<1> DEFINE n == Sized(strategy, conviction, loss, strike, st, s)
           collateral == Collateral(strategy, loss, strike)
           put == strategy = "cash_secured_put"
           money == RiskFraction(conviction, st, s) * st.equity
           budget == money \div (BasisPoints * loss)
           power == IF collateral = 0 THEN budget ELSE BuyingPowerCap(st, s, collateral)
           cash == IF put THEN MaxOf(0, st.cash) \div strike ELSE budget
<1>1. loss > 0 /\ collateral # None /\ (collateral # 0 => st.options_buying_power # None)
      /\ (put => st.cash # None) /\ n = MaxOf(0, MinOf(budget, MinOf(power, cash)))
  BY DEF Sized
<1>2. st.equity \in Nat /\ Solvent(st) /\ s.max_premium_pct_per_trade \in Nat
      /\ s.buying_power_utilization_cap \in Nat
  <2>1. ~(st.equity <= 0)
    BY DEF Sized
  <2> QED BY <2>1 DEF Solvent, IsSizingState, IsSizingSettings
<1>3. money \in Nat /\ money <= 100 * s.max_premium_pct_per_trade * st.equity
  <2> DEFINE f == RiskFraction(conviction, st, s)
  <2>1. f \in Nat /\ f <= 100 * s.max_premium_pct_per_trade
    BY <1>2, RiskFractionBounds
  <2> HIDE DEF f
  <2>2. f * st.equity <= (100 * s.max_premium_pct_per_trade) * st.equity
    BY <1>2, <2>1, TimesMono
  <2> QED BY <1>2, <2>1, <2>2 DEF f
<1>4. budget \in Nat
  <2>1. BasisPoints * loss \in Nat \ {0}
    BY <1>1 DEF BasisPoints
  <2> HIDE DEF money
  <2> QED BY <1>3, <2>1, DivNat
<1>5. /\ collateral = 0 => strategy = "covered_call"
      /\ strategy # "covered_call" => collateral \in Nat \ {0} /\ loss <= collateral
  BY <1>1 DEF Collateral
<1>6. collateral # 0 => power = BuyingPowerCap(st, s, collateral) /\ power \in Nat
  <2> SUFFICES ASSUME collateral # 0 PROVE BuyingPowerCap(st, s, collateral) \in Nat
    OBVIOUS
  <2>1. collateral \in Nat \ {0}
    BY <1>5 DEF Collateral
  <2>2. st.options_buying_power \in Int
    BY <1>1 DEF MaybeInt
  <2> HIDE DEF collateral
  <2>3. MaxOf(0, st.options_buying_power) * s.buying_power_utilization_cap \in Nat
    BY <1>2, <2>2 DEF MaxOf
  <2> QED BY <2>1, <2>3, DivNat DEF BuyingPowerCap
<1>7. power \in Nat
  BY <1>4, <1>6
<1>8. cash \in Nat
  <2>1. CASE put
    <3>1. st.cash \in Int /\ strike \in Nat \ {0}
      BY <1>1, <2>1 DEF MaybeInt
    <3>2. MaxOf(0, st.cash) \in Nat
      BY <3>1 DEF MaxOf
    <3> QED BY <2>1, <3>1, <3>2, DivNat
  <2>2. CASE ~put
    BY <1>4, <2>2
  <2> QED BY <2>1, <2>2
<1> HIDE DEF power, cash, budget
<1>9. n \in Nat /\ n # 0 /\ n <= budget /\ n <= power
  BY <1>1, <1>4, <1>7, <1>8 DEF MaxOf, MinOf
<1> HIDE DEF n, collateral, money
<1>10. 100 * loss * n <= s.max_premium_pct_per_trade * st.equity
  <2>1. (BasisPoints * loss) * n <= money
    <3>1. BasisPoints * loss \in Nat \ {0}
      BY <1>1 DEF BasisPoints
    <3> QED BY <1>3, <1>9, <3>1, FitsBudget DEF budget
  <2>2. 100 * (100 * loss * n) <= 100 * (s.max_premium_pct_per_trade * st.equity)
    BY <1>2, <1>3, <1>9, <2>1 DEF BasisPoints
  <2> QED BY <1>2, <1>9, <2>2
<1>11. ASSUME strategy # "covered_call"
       PROVE  100 * loss * n <= s.buying_power_utilization_cap * st.options_buying_power
  <2> DEFINE usable == MaxOf(0, st.options_buying_power) * s.buying_power_utilization_cap
  <2>1. collateral \in Nat \ {0} /\ loss <= collateral /\ st.options_buying_power \in Int
    BY <1>1, <1>5, <1>11 DEF MaybeInt
  <2>2. usable \in Nat
    BY <1>2, <2>1 DEF MaxOf
  <2>3. n <= usable \div (100 * collateral)
    BY <1>6, <1>9, <2>1 DEF BuyingPowerCap
  <2>4. (100 * collateral) * n <= usable
    <3> HIDE DEF usable
    <3> QED BY <1>9, <2>1, <2>2, <2>3, FitsBudget
  <2>5. 100 * loss * n <= (100 * collateral) * n /\ (100 * collateral) * n > 0
    <3>1. 100 * loss \in Nat /\ 100 * collateral \in Nat /\ 100 * loss <= 100 * collateral
      BY <1>1, <2>1
    <3> QED BY <1>9, <2>1, <3>1, TimesMono
  <2>6. usable = st.options_buying_power * s.buying_power_utilization_cap
    <3>1. usable > 0
      <4> DEFINE used == (100 * collateral) * n
      <4>1. used > 0 /\ used <= usable /\ used \in Nat
        BY <1>9, <2>1, <2>4, <2>5
      <4> HIDE DEF used, usable
      <4> QED BY <2>2, <4>1
    <3>2. st.options_buying_power > 0
      <4>1. ASSUME ~(st.options_buying_power > 0) PROVE usable = 0
        BY <1>2, <2>1, <4>1 DEF MaxOf
      <4> HIDE DEF usable
      <4> QED BY <3>1, <4>1
    <3> QED BY <2>1, <3>2 DEF MaxOf
  <2> QED BY <1>1, <1>2, <1>9, <2>1, <2>4, <2>5, <2>6
<1> QED BY <1>9, <1>10, <1>11 DEF n

------------------------------------------------------------------------------
(* What the closed trades have taught about conviction is a number.         *)
LEMMA ReliabilityInt ==
  ASSUME NEW s, IsSizingSettings(s), NEW outcomes \in Seq(ClosedTrades)
  PROVE  Reliability(outcomes, s) \in Int
<1> DEFINE n == Len(outcomes)
           places == DOMAIN outcomes
           X == [i \in places |-> outcomes[i].conviction]
           Y == [i \in places |-> outcomes[i].pnl]
           XX == [i \in places |-> outcomes[i].conviction * outcomes[i].conviction]
           YY == [i \in places |-> outcomes[i].pnl * outcomes[i].pnl]
           XY == [i \in places |-> outcomes[i].conviction * outcomes[i].pnl]
           cXX == n * Total(XX) - Total(X) * Total(X)
           cYY == n * Total(YY) - Total(Y) * Total(Y)
           cXY == n * Total(XY) - Total(X) * Total(Y)
<1>1. Reliability(outcomes, s)
        = IF n < s.conviction_calibration_min_samples \/ cXX <= 0 \/ cYY <= 0
          THEN s.conviction_reliability_prior
          ELSE MaxOf(0, MinOf(100, (100 * cXY) \div (Root(cXX) * Root(cYY))))
  BY DEF Reliability, Each
<1>2. n \in Nat /\ places = 1..n
      /\ \A i \in places : outcomes[i].conviction \in Int /\ outcomes[i].pnl \in Int
  <2>1. n \in Nat /\ places = 1..n /\ \A i \in places : outcomes[i] \in ClosedTrades
    OBVIOUS
  <2>2. \A o \in ClosedTrades : o.conviction \in Int /\ o.pnl \in Int
    BY DEF ClosedTrades
  <2> QED BY <2>1, <2>2
<1>3. X \in Seq(Int) /\ Y \in Seq(Int) /\ XX \in Seq(Int) /\ YY \in Seq(Int) /\ XY \in Seq(Int)
  <2>1. ASSUME NEW f \in [1..n -> Int] PROVE f \in Seq(Int)
    BY <1>2
  <2>2. /\ X \in [1..n -> Int] /\ Y \in [1..n -> Int]
        /\ XX \in [1..n -> Int] /\ YY \in [1..n -> Int] /\ XY \in [1..n -> Int]
    BY <1>2
  <2> HIDE DEF X, Y, XX, YY, XY, n
  <2> QED BY <2>1, <2>2
<1> HIDE DEF X, Y, XX, YY, XY
<1>4. cXX \in Int /\ cYY \in Int /\ cXY \in Int
  <2>1. Total(X) \in Int /\ Total(Y) \in Int /\ Total(XX) \in Int /\ Total(YY) \in Int /\ Total(XY) \in Int
    BY <1>3, TotalInt
  <2> QED BY <1>2, <2>1
<1> HIDE DEF cXX, cYY, cXY, n
<1>5. s.conviction_reliability_prior \in Int
  BY DEF IsSizingSettings
<1>6. CASE n < s.conviction_calibration_min_samples \/ cXX <= 0 \/ cYY <= 0
  BY <1>1, <1>5, <1>6
<1>7. CASE ~(n < s.conviction_calibration_min_samples \/ cXX <= 0 \/ cYY <= 0)
  <2> DEFINE spread == Root(cXX) * Root(cYY)
  <2>1. Root(cXX) \in Nat \ {0} /\ Root(cYY) \in Nat \ {0}
    BY <1>4, <1>7, RootIs
  <2>2. spread \in Nat \ {0} /\ 100 * cXY \in Int
    BY <1>4, <2>1
  <2> HIDE DEF spread
  <2>3. (100 * cXY) \div spread \in Int
    BY <2>2, DivBounds
  <2> QED BY <1>1, <1>7, <2>3 DEF spread, MaxOf, MinOf
<1> QED BY <1>6, <1>7

(* The state a trade is sized in holds numbers where it holds anything.     *)
Snapshots == [equity : Int, day : Nat]

LEMMA SizingStateTyped ==
  ASSUME NEW s, IsSizingSettings(s), NEW account, IsAccount(account),
         NEW history \in Seq(Snapshots), NEW elapsed \in Nat,
         NEW outcomes \in Seq(ClosedTrades)
  PROVE  LET st == SizingState(account, history, [start |-> s.campaign_start, elapsed |-> elapsed],
                               outcomes, s)
         IN /\ st.equity = account.equity
            /\ st.options_buying_power = OptionsBuyingPower(account)
            /\ st.options_buying_power \in MaybeInt
            /\ st.cash \in MaybeInt
            /\ account.equity \in Int => IsSizingState(st)
<1> DEFINE start == s.campaign_start
           campaign == [start |-> start, elapsed |-> elapsed]
           st == SizingState(account, history, campaign, outcomes, s)
           marks == {history[i].equity : i \in DOMAIN history} \ {None}
           since == {i \in DOMAIN history : history[i].equity # None /\ history[i].day >= start}
<1>0. /\ DOMAIN history = 1..Len(history) /\ Len(history) \in Nat
      /\ \A i \in DOMAIN history : history[i] \in Snapshots
  OBVIOUS
<1>1. /\ DOMAIN history = 1..Len(history) /\ Len(history) \in Nat
      /\ \A i \in DOMAIN history : history[i].equity \in Int
  <2>1. \A h \in Snapshots : h.equity \in Int
    BY DEF Snapshots
  <2> QED BY <1>0, <2>1
<1>2. /\ st.equity = account.equity
      /\ st.options_buying_power = OptionsBuyingPower(account)
      /\ st.cash = account.cash
      /\ st.start_of_day_equity = account.last_equity
      /\ st.high_water_mark = IF marks = {} THEN None ELSE Largest(marks)
      /\ st.campaign_start_equity
           = IF start = None \/ since = {} THEN None ELSE history[Largest(since)].equity
      /\ st.sessions_remaining
           = IF start = None THEN None ELSE MaxOf(0, s.campaign_days - MaxOf(1, elapsed) + 1)
      /\ st.is_first_session = (start # None /\ MaxOf(1, elapsed) <= 1)
      /\ st.conviction_reliability = Reliability(outcomes, s)
  BY DEF SizingState
<1> HIDE DEF st
<1>3. st.high_water_mark \in MaybeInt
  <2>1. marks \in SUBSET Int
    BY <1>1
  <2>2. IsFiniteSet(marks)
    <3> DEFINE f == [i \in DOMAIN history |-> history[i].equity]
               T == {f[i] : i \in DOMAIN history}
    <3>1. f \in Surjection(DOMAIN history, T)
      BY DEF Surjection
    <3>2. IsFiniteSet(DOMAIN history)
      BY <1>1, FS_Interval
    <3>3. IsFiniteSet(T)
      <4> HIDE DEF f, T
      <4> QED BY <3>1, <3>2, FS_Surjection
    <3>4. marks \in SUBSET T
      OBVIOUS
    <3> QED BY <3>3, <3>4, FS_Subset
  <2>3. marks # {} => Largest(marks) \in Int
    <3> HIDE DEF marks
    <3> QED BY <2>1, <2>2, LargestIn
  <2> QED BY <1>2, <2>3 DEF MaybeInt
<1>4. st.campaign_start_equity \in MaybeInt
  <2>1. since \in SUBSET DOMAIN history /\ since \in SUBSET Int /\ IsFiniteSet(DOMAIN history)
    BY <1>1, FS_Interval
  <2>2. IsFiniteSet(since)
    <3> HIDE DEF since
    <3> QED BY <2>1, FS_Subset
  <2>3. since # {} => Largest(since) \in DOMAIN history
    <3> HIDE DEF since
    <3> QED BY <2>1, <2>2, LargestIn
  <2> QED BY <1>1, <1>2, <2>3 DEF MaybeInt
<1>5. st.sessions_remaining \in MaybeInt
  BY <1>2 DEF MaxOf, IsSizingSettings, MaybeInt
<1>6. st.conviction_reliability \in Int
  BY <1>2, ReliabilityInt
<1>7. st.options_buying_power \in MaybeInt /\ st.cash \in MaybeInt /\ st.start_of_day_equity \in MaybeInt
  BY <1>2 DEF IsAccount, OptionsBuyingPower
<1>8. account.equity \in Int => IsSizingState(st)
  BY <1>2, <1>3, <1>4, <1>5, <1>6, <1>7, NoneIsNoNumber DEF IsSizingState
<1> QED BY <1>2, <1>7, <1>8 DEF st
==============================================================================
