----------------------- MODULE TransferInTermsProofs -----------------------
(***************************************************************************)
(* The terms of an IN, for every amount, every number of decimals, every   *)
(* time lock and every width of the integers.                              *)
(*                                                                         *)
(* What the loop computes is compared with TenTo, a recursive function, so *)
(* there is induction here.  The induction theorems of the library take a  *)
(* predicate as parameter; the lemma Induct takes a set in its place, and  *)
(* follows from the well-foundedness of the natural numbers.               *)
(***************************************************************************)
EXTENDS TransferInTerms, WellFoundedInduction, TLAPS

-----------------------------------------------------------------------------
(* Induction                                                                 *)

LEMMA HasLeast ==
    ASSUME NEW S \in SUBSET Nat, S # {}
    PROVE  \E n \in S : \A m \in S : n <= m
<1> DEFINE R == OpToRel(<, Nat)
<1>1. IsWellFoundedOn(R, Nat)
  BY NatLessThanWellFounded
<1>2. PICK n \in S : \A m \in S : <<m, n>> \notin R
  <2> HIDE DEF R
  <2> QED BY <1>1, WFMin
<1>3. \A m \in S : <<m, n>> \notin R => n <= m
  BY DEF OpToRel
<1> QED BY <1>2, <1>3

LEMMA Induct ==
    ASSUME NEW S \in SUBSET Nat, 0 \in S, \A n \in S : n + 1 \in S
    PROVE  S = Nat
<1> SUFFICES ASSUME Nat \ S # {} PROVE FALSE
  OBVIOUS
<1>1. PICK n \in Nat \ S : \A m \in Nat \ S : n <= m
  BY HasLeast
<1>2. n - 1 \in Nat /\ n - 1 \in S
  BY <1>1
<1> QED BY <1>2

-----------------------------------------------------------------------------
(* Powers                                                                    *)

\* f holds the powers of b up to the n-th.
Powers(f, b, n) ==
    f \in [0 .. n -> Nat] /\ \A k \in 0 .. n : f[k] = IF k = 0 THEN 1 ELSE b * f[k - 1]

LEMMA PowersExist ==
    ASSUME NEW b \in Nat, NEW n \in Nat
    PROVE  \E f : Powers(f, b, n)
<1> DEFINE S == {m \in Nat : \E f : Powers(f, b, m)}
<1>1. 0 \in S
  <2> DEFINE f == [k \in 0 .. 0 |-> 1]
  <2>1. Powers(f, b, 0)
    BY DEF Powers
  <2> QED BY <2>1
<1>2. ASSUME NEW m \in S
      PROVE  m + 1 \in S
  <2>1. PICK f : Powers(f, b, m)
    OBVIOUS
  <2>2. /\ m \in Nat /\ f \in [0 .. m -> Nat]
        /\ \A k \in 0 .. m : f[k] = IF k = 0 THEN 1 ELSE b * f[k - 1]
    BY <2>1 DEF Powers
  <2> DEFINE g == [k \in 0 .. (m + 1) |-> IF k = m + 1 THEN b * f[m] ELSE f[k]]
  <2>3. g \in [0 .. (m + 1) -> Nat]
    BY <2>2
  <2>4. \A k \in 0 .. (m + 1) : g[k] = IF k = 0 THEN 1 ELSE b * g[k - 1]
    BY <2>2
  <2> HIDE DEF g
  <2>5. Powers(g, b, m + 1)
    BY <2>3, <2>4 DEF Powers
  <2> QED BY <2>2, <2>5
<1> HIDE DEF S
<1>3. S = Nat
  <2>1. S \in SUBSET Nat
    BY DEF S
  <2> QED BY <1>1, <1>2, <2>1, Induct
<1> QED BY <1>3 DEF S

LEMMA PowersUnique ==
    ASSUME NEW b \in Nat, NEW n \in Nat, NEW f, NEW g, Powers(f, b, n), Powers(g, b, n + 1)
    PROVE  \A k \in 0 .. n : f[k] = g[k]
<1> DEFINE S == {k \in Nat : k <= n => f[k] = g[k]}
<1>1. 0 \in S
  BY DEF Powers
<1>2. ASSUME NEW k \in S
      PROVE  k + 1 \in S
  <2>1. CASE k + 1 <= n
    <3>1. f[k + 1] = b * f[k] /\ g[k + 1] = b * g[k]
      <4>1. /\ k + 1 \in 0 .. n /\ k + 1 \in 0 .. (n + 1)
            /\ k + 1 # 0 /\ (k + 1) - 1 = k
        BY <2>1
      <4> QED BY <4>1 DEF Powers
    <3>2. f[k] = g[k]
      BY <2>1
    <3> QED BY <3>1, <3>2
  <2> QED BY <2>1
<1> HIDE DEF S
<1>3. S = Nat
  <2>1. S \in SUBSET Nat
    BY DEF S
  <2> QED BY <1>1, <1>2, <2>1, Induct
<1> QED BY <1>3 DEF S

LEMMA PowersOfAll ==
    ASSUME NEW b \in Nat
    PROVE  \E h : h = [n \in Nat |-> IF n = 0 THEN 1 ELSE b * h[n - 1]] /\ h \in [Nat -> Nat]
<1> DEFINE F(n) == CHOOSE f : Powers(f, b, n)
           h == [n \in Nat |-> F(n)[n]]
<1>1. \A n \in Nat : Powers(F(n), b, n)
  BY PowersExist
<1> HIDE DEF F
<1>2. \A n \in Nat : F(n + 1)[n] = F(n)[n]
  BY <1>1, PowersUnique
<1>3. ASSUME NEW n \in Nat
      PROVE  h[n] \in Nat /\ h[n] = IF n = 0 THEN 1 ELSE b * h[n - 1]
  <2>1. F(n)[n] \in Nat /\ F(n)[n] = IF n = 0 THEN 1 ELSE b * F(n)[n - 1]
    BY <1>1 DEF Powers
  <2>2. n # 0 => n - 1 \in Nat /\ (n - 1) + 1 = n
    OBVIOUS
  <2>3. n # 0 => F(n)[n - 1] = F(n - 1)[n - 1]
    BY <1>2, <2>2
  <2> QED BY <2>1, <2>3
<1>4. h = [n \in Nat |-> IF n = 0 THEN 1 ELSE b * h[n - 1]] /\ h \in [Nat -> Nat]
  BY <1>3
<1> HIDE DEF h
<1> QED BY <1>4

LEMMA PowersAre ==
    ASSUME NEW b \in Nat, NEW h, h = [n \in Nat |-> IF n = 0 THEN 1 ELSE b * h[n - 1]]
    PROVE  /\ h \in [Nat -> Nat] /\ h[0] = 1
           /\ \A n \in Nat : h[n + 1] = b * h[n]
<1>1. h = [n \in DOMAIN h |-> h[n]] /\ DOMAIN h = Nat
  OBVIOUS
<1>2. h[0] = 1
  OBVIOUS
<1>3. \A n \in Nat : h[n + 1] = b * h[n]
  <2> SUFFICES ASSUME NEW n \in Nat
               PROVE  h[n + 1] = b * h[n]
    OBVIOUS
  <2>1. n + 1 \in Nat /\ n + 1 # 0 /\ (n + 1) - 1 = n
    OBVIOUS
  <2> QED BY <2>1
<1> DEFINE S == {n \in Nat : h[n] \in Nat}
<1>4. 0 \in S
  BY <1>2
<1>5. \A n \in S : n + 1 \in S
  BY <1>3
<1>6. S = Nat
  <2> HIDE DEF S
  <2>1. S \in SUBSET Nat
    BY DEF S
  <2> QED BY <1>4, <1>5, <2>1, Induct
<1>7. \A n \in Nat : h[n] \in Nat
  BY <1>6
<1> QED BY <1>1, <1>2, <1>3, <1>7

\* The recursive definitions define what they seem to.
LEMMA TenToIs ==
    /\ TenTo \in [Nat -> Nat] /\ TenTo[0] = 1
    /\ \A n \in Nat : TenTo[n + 1] = 10 * TenTo[n]
<1>1. PICK h : h = [n \in Nat |-> IF n = 0 THEN 1 ELSE 10 * h[n - 1]]
  BY PowersOfAll
<1>2. TenTo = [n \in Nat |-> IF n = 0 THEN 1 ELSE 10 * TenTo[n - 1]]
  BY <1>1 DEF TenTo
<1> QED BY <1>2, PowersAre

LEMMA TwoToIs ==
    /\ TwoTo \in [Nat -> Nat] /\ TwoTo[0] = 1
    /\ \A n \in Nat : TwoTo[n + 1] = 2 * TwoTo[n]
<1>1. PICK h : h = [n \in Nat |-> IF n = 0 THEN 1 ELSE 2 * h[n - 1]]
  BY PowersOfAll
<1>2. TwoTo = [n \in Nat |-> IF n = 0 THEN 1 ELSE 2 * TwoTo[n - 1]]
  BY <1>1 DEF TwoTo
<1> QED BY <1>2, PowersAre

-----------------------------------------------------------------------------
(* Division                                                                  *)

LEMMA DivMod ==
    ASSUME NEW a \in Int, NEW n \in Nat \ {0}
    PROVE  /\ a \div n \in Int /\ a % n \in 0 .. (n - 1)
           /\ a = n * (a \div n) + (a % n)
OBVIOUS

LEMMA ModIs ==
    ASSUME NEW a \in Int, NEW n \in Nat \ {0}, NEW q \in Int, NEW r \in 0 .. (n - 1),
           a = n * q + r
    PROVE  a % n = r /\ a \div n = q
OBVIOUS

LEMMA ModTimes ==
    ASSUME NEW a \in Nat, NEW b \in Nat, NEW n \in Nat \ {0}
    PROVE  ((a % n) * b) % n = (b * a) % n
<1>1. PICK q \in Int : q = a \div n
  BY DivMod
<1>r. PICK r \in Int : r = a % n
  <2>1. a % n \in Int
    BY DivMod
  <2> QED BY <2>1
<1>a. a = n * q + r
  BY <1>1, <1>r, DivMod
<1>t. PICK t \in Int : t = r * b
  OBVIOUS
<1>b. PICK q2 \in Int : q2 = t \div n
  BY DivMod
<1>c. PICK r2 \in 0 .. (n - 1) : r2 = t % n
  BY DivMod
<1>2. r * b = n * q2 + r2 /\ r2 = (r * b) % n
  BY <1>t, <1>b, <1>c, DivMod
<1>3. b * a = n * (q * b + q2) + r2 /\ q * b + q2 \in Int /\ b * a \in Int
  <2>1. b * a = (n * q) * b + r * b
    BY <1>a
  <2>2. (n * q) * b = n * (q * b) /\ q * b \in Int
    OBVIOUS
  <2>3. n * (q * b + q2) = n * (q * b) + n * q2
    BY <2>2
  <2> QED BY <1>2, <2>1, <2>2, <2>3
<1>4. (b * a) % n = r2
  BY <1>3, ModIs
<1> QED BY <1>r, <1>2, <1>4

\* An odd number of times a power of ten is no multiple of a larger power of two.
LEMMA TenIsNoMultiple ==
    ASSUME NEW n \in Nat, NEW w \in Nat, n < w, NEW k \in Nat
    PROVE  TenTo[n] # TwoTo[w] * k
<1> DEFINE S == {m \in Nat : \A d, x, j \in Nat : m < x => (2 * d + 1) * TenTo[m] # TwoTo[x] * j}
<1>0. \A m \in Nat : TenTo[m] \in Nat /\ TwoTo[m] \in Nat
  BY TenToIs, TwoToIs
<1>1. 0 \in S
  <2> SUFFICES ASSUME NEW d \in Nat, NEW x \in Nat, NEW j \in Nat, 0 < x
               PROVE  (2 * d + 1) * TenTo[0] # TwoTo[x] * j
    OBVIOUS
  <2>1. PICK y \in Nat : y + 1 = x
    <3>1. x - 1 \in Nat /\ (x - 1) + 1 = x
      OBVIOUS
    <3> QED BY <3>1
  <2>2. TwoTo[x] = 2 * TwoTo[y]
    BY <2>1, TwoToIs
  <2>3. PICK t \in Nat : t = TwoTo[y] * j
    BY <1>0
  <2>4. TwoTo[x] * j = 2 * t
    BY <1>0, <2>2, <2>3
  <2> QED BY <2>4, TenToIs
<1>2. ASSUME NEW m \in S
      PROVE  m + 1 \in S
  <2> SUFFICES ASSUME NEW d \in Nat, NEW x \in Nat, NEW j \in Nat, m + 1 < x
               PROVE  (2 * d + 1) * TenTo[m + 1] # TwoTo[x] * j
    OBVIOUS
  <2>1. PICK y \in Nat : y + 1 = x /\ m < y
    <3>1. x - 1 \in Nat /\ (x - 1) + 1 = x /\ m < x - 1
      OBVIOUS
    <3> QED BY <3>1
  <2>2. TwoTo[x] = 2 * TwoTo[y] /\ TenTo[m + 1] = 10 * TenTo[m]
    BY <2>1, TwoToIs, TenToIs
  <2>3. PICK c \in Nat : c = 5 * d + 2 /\ 5 * (2 * d + 1) = 2 * c + 1
    OBVIOUS
  <2>4. (2 * d + 1) * TenTo[m + 1] = 2 * ((2 * c + 1) * TenTo[m])
    <3>1. PICK t \in Nat : t = TenTo[m]
      BY <1>0
    <3>2. (2 * d + 1) * (10 * t) = 2 * ((2 * c + 1) * t)
      BY <2>3
    <3> QED BY <2>2, <3>1, <3>2
  <2>5. TwoTo[x] * j = 2 * (TwoTo[y] * j)
    BY <1>0, <2>2
  <2>6. (2 * c + 1) * TenTo[m] # TwoTo[y] * j
    BY <2>1
  <2>7. (2 * c + 1) * TenTo[m] \in Nat /\ TwoTo[y] * j \in Nat
    BY <1>0
  <2> QED BY <2>4, <2>5, <2>6, <2>7
<1>3. S = Nat
  <2> HIDE DEF S
  <2>1. S \in SUBSET Nat
    BY DEF S
  <2> QED BY <1>1, <1>2, <2>1, Induct
<1>4. (2 * 0 + 1) * TenTo[n] # TwoTo[w] * k
  BY <1>3
<1> QED BY <1>0, <1>4

-----------------------------------------------------------------------------
(* The loop                                                                  *)

LEMMA WordTyped ==
    Word \in Nat /\ Word >= 2
<1> DEFINE S == {n \in Nat : TwoTo[n] >= 1}
<1>1. \A n \in Nat : TwoTo[n] \in Nat /\ TwoTo[n + 1] = 2 * TwoTo[n]
  BY TwoToIs
<1>2. S = Nat
  <2>1. 0 \in S
    BY TwoToIs
  <2>2. \A n \in S : n + 1 \in S
    BY <1>1
  <2> HIDE DEF S
  <2>3. S \in SUBSET Nat
    BY DEF S
  <2> QED BY <2>1, <2>2, <2>3, Induct
<1>3. PICK y \in Nat : y + 1 = Width
  <2>1. Width - 1 \in Nat /\ (Width - 1) + 1 = Width
    BY ConversionAssumption
  <2> QED BY <2>1
<1>4. TwoTo[Width] = 2 * TwoTo[y] /\ TwoTo[y] \in Nat /\ TwoTo[y] >= 1
  BY <1>1, <1>2, <1>3
<1> QED BY <1>4 DEF Word

LEMMA GapTyped ==
    srcDecimal \in Decimals /\ dstDecimal \in Decimals => Gap \in Nat
BY ConversionAssumption DEF Gap, Shrinks

LEMMA LoopBegins ==
    Init => LoopInv
<1> SUFFICES ASSUME Init PROVE LoopInv
  OBVIOUS
<1>1. Gap \in Nat
  BY GapTyped DEF Init
<1>2. TypeOK
  BY <1>1, WordTyped, ConversionAssumption DEF Init, TypeOK
<1>3. p = TenTo[i] % Word
  <2>1. 1 = Word * 0 + 1 /\ 1 \in 0 .. (Word - 1)
    BY WordTyped
  <2>2. 1 % Word = 1
    BY <2>1, WordTyped, ModIs
  <2> QED BY <2>2, TenToIs DEF Init
<1> QED BY <1>2, <1>3 DEF Init, LoopInv

LEMMA MultiplyKeepsLoopInv ==
    LoopInv /\ Multiply => LoopInv'
<1> SUFFICES ASSUME LoopInv, Multiply PROVE LoopInv'
  OBVIOUS
<1>1. Gap' = Gap /\ (Shrinks <=> Shrinks')
  BY DEF Multiply, Gap, Shrinks
<1>2. Gap \in Nat /\ i \in 0 .. (Gap - 1)
  BY GapTyped DEF LoopInv, TypeOK, Multiply, MoreDigits
<1>3. p' \in 0 .. (Word - 1) /\ p' = TenTo[i'] % Word
  <2>1. PICK a \in Nat : a = TenTo[i] /\ TenTo[i + 1] = 10 * a
    BY <1>2, TenToIs
  <2>2. ((a % Word) * 10) % Word = (10 * a) % Word
    BY WordTyped, ModTimes
  <2>3. (10 * a) % Word \in 0 .. (Word - 1)
    BY WordTyped, DivMod
  <2> QED BY <2>1, <2>2, <2>3 DEF LoopInv, Multiply
<1>4. TypeOK'
  BY <1>1, <1>2, <1>3 DEF LoopInv, TypeOK, Multiply
<1> QED BY <1>3, <1>4 DEF LoopInv, Multiply

LEMMA ConvertKeepsLoopInv ==
    LoopInv /\ Convert => LoopInv'
<1> SUFFICES ASSUME LoopInv, Convert PROVE LoopInv'
  OBVIOUS
<1>1. Gap' = Gap /\ (Shrinks <=> Shrinks')
  BY DEF Convert, Gap, Shrinks
<1>2. i = Gap
  BY GapTyped DEF LoopInv, TypeOK, Convert, MoreDigits
<1>3. srcAmount \in Nat /\ p \in Nat
  BY ConversionAssumption, WordTyped DEF LoopInv, TypeOK
<1>4. dstAmount' \in Nat
  <2>1. p # 0 => srcAmount \div p \in Nat
    BY <1>3
  <2>2. srcAmount * p \in Nat
    BY <1>3
  <2> QED BY <2>1, <2>2 DEF LoopInv, TypeOK, Convert
<1>5. TypeOK'
  BY <1>1, <1>4 DEF LoopInv, TypeOK, Convert
<1> QED BY <1>1, <1>2, <1>5 DEF LoopInv, Convert

LEMMA UnchangedKeepsLoopInv ==
    LoopInv /\ UNCHANGED vars => LoopInv'
BY DEF LoopInv, TypeOK, vars, Gap, Shrinks

-----------------------------------------------------------------------------
(* The inductive invariant                                                   *)

LEMMA TermsBegin ==
    TermsInit => TermsInv
BY LoopBegins DEF TermsInit, TermsInv

LEMMA TermsStep ==
    TermsInv /\ [TermsNext]_<<vars, termVars>> => TermsInv'
<1> SUFFICES ASSUME TermsInv, [TermsNext]_<<vars, termVars>> PROVE TermsInv'
  OBVIOUS
<1>1. CASE Next /\ UNCHANGED termVars
  <2>1. LoopInv'
    BY <1>1, MultiplyKeepsLoopInv, ConvertKeepsLoopInv DEF Next, TermsInv
  <2> QED BY <1>1, <2>1 DEF TermsInv, termVars, Timeout, Chain2TimeLock
<1>2. CASE SaveIn
  <2>1. LoopInv'
    BY <1>2, UnchangedKeepsLoopInv DEF SaveIn, TermsInv
  <2>2. Timeout' = Timeout /\ Chain2TimeLock' = Chain2TimeLock
    BY <1>2 DEF SaveIn, Timeout, Chain2TimeLock
  <2>3. sent = NoLock
    BY <1>2 DEF SaveIn, TermsInv
  <2> QED BY <1>2, <2>1, <2>2, <2>3 DEF SaveIn, TermsInv
<1>3. ASSUME NEW now \in Clock, SendIn(now)
      PROVE  TermsInv'
  <2>1. LoopInv'
    BY <1>3, UnchangedKeepsLoopInv DEF SendIn, TermsInv
  <2>2. Timeout' = Timeout /\ Chain2TimeLock' = Chain2TimeLock
    BY <1>3 DEF SendIn, Timeout, Chain2TimeLock
  <2> QED BY <1>3, <2>1, <2>2 DEF SendIn, TermsInv
<1>4. CASE UNCHANGED <<vars, termVars>>
  <2>1. LoopInv'
    BY <1>4, UnchangedKeepsLoopInv DEF TermsInv
  <2> QED BY <1>4, <2>1 DEF TermsInv, termVars, Timeout, Chain2TimeLock
<1> QED BY <1>1, <1>2, <1>3, <1>4 DEF TermsNext

\* The row of the IN and the transaction that locks it carry the terms that were
\* computed as the callback began, for all amounts, decimals, clocks and widths.
THEOREM TermsInvHolds == TermsSpec => []TermsInv
<1>1. TermsInit => TermsInv
  BY TermsBegin
<1>2. TermsInv /\ [TermsNext]_<<vars, termVars>> => TermsInv'
  BY TermsStep
<1> QED BY <1>1, <1>2, PTL DEF TermsSpec

-----------------------------------------------------------------------------
(* The amount                                                                *)

LEMMA LoopTyped ==
    ASSUME LoopInv
    PROVE  /\ Gap \in Nat /\ srcAmount \in Nat /\ p \in 0 .. (Word - 1)
           /\ TenTo[Gap] \in Nat /\ dstAmount \in Nat
           /\ stage # "loop" => p = TenTo[Gap] % Word
BY GapTyped, TenToIs, ConversionAssumption DEF LoopInv, TypeOK

LEMMA LoopConvertsExactly ==
    LoopInv => ConvertedExactly
<1> SUFFICES ASSUME LoopInv, stage = "done", PowerFits
             PROVE  IF Shrinks
                    THEN /\ dstAmount * TenTo[Gap] <= srcAmount
                         /\ srcAmount < (dstAmount + 1) * TenTo[Gap]
                    ELSE dstAmount = srcAmount * TenTo[Gap]
  BY DEF ConvertedExactly
<1>1. PICK t \in Nat : t = TenTo[Gap]
  BY LoopTyped
<1>2. p = t
  <2>1. t < Word /\ p = t % Word
    BY <1>1, LoopTyped DEF PowerFits
  <2>2. t = Word * 0 + t /\ t \in 0 .. (Word - 1)
    BY <2>1, WordTyped
  <2> QED BY <2>1, <2>2, WordTyped, ModIs
<1>3. CASE Shrinks
  <2>1. PICK a \in Nat, d \in Nat : a = srcAmount /\ d = dstAmount
    BY LoopTyped
  <2>2. t # 0 /\ d = a \div t
    BY <1>2, <1>3, <2>1 DEF LoopInv
  <2>3. a = t * d + (a % t) /\ a % t \in 0 .. (t - 1)
    BY <2>2, DivMod
  <2>4. d * t <= a /\ a < (d + 1) * t
    <3>1. d * t = t * d /\ (d + 1) * t = t * d + t /\ t * d \in Nat
      OBVIOUS
    <3> QED BY <2>3, <3>1
  <2> QED BY <1>1, <1>3, <2>1, <2>4
<1>4. CASE ~ Shrinks
  BY <1>1, <1>2, <1>4 DEF LoopInv
<1> QED BY <1>3, <1>4

LEMMA LoopPanicsOnlyPastWidth ==
    LoopInv => PanicsOnlyPastWidth
<1> SUFFICES ASSUME LoopInv, stage = "panic", Gap < Width PROVE FALSE
  BY GapTyped, ConversionAssumption DEF PanicsOnlyPastWidth, LoopInv, TypeOK
<1>1. PICK t \in Nat : t = TenTo[Gap]
  BY LoopTyped
<1>2. t % Word = 0
  BY <1>1, LoopTyped DEF LoopInv
<1>3. PICK q \in Int : q = t \div Word
  BY WordTyped, DivMod
<1>4. t = Word * q
  BY <1>2, <1>3, WordTyped, DivMod
<1>5. q \in Nat
  BY <1>4, WordTyped
<1> QED BY <1>1, <1>4, <1>5, LoopTyped, ConversionAssumption, TenIsNoMultiple DEF Word

LEMMA SmallerDivisor ==
    ASSUME NEW a \in Nat, NEW r \in Nat \ {0}, NEW t \in Nat, r <= t
    PROVE  a \div t <= a \div r
<1>1. PICK x \in Int : x = a \div t
  BY DivMod
<1>2. PICK y \in Int : y = a \div r
  BY DivMod
<1>3. t * x <= a
  BY <1>1, DivMod
<1>4. a < r * (y + 1)
  <2>1. PICK c \in 0 .. (r - 1) : c = a % r
    BY DivMod
  <2>2. a = r * y + c
    BY <1>2, <2>1, DivMod
  <2>3. r * (y + 1) = r * y + r
    OBVIOUS
  <2> QED BY <2>1, <2>2, <2>3
<1>5. CASE x >= y + 1
  <2>1. x >= 0
    <3>1. CASE y <= -2
      <4>1. r * (y + 1) <= r * (-1)
        BY <3>1
      <4> QED BY <1>4, <4>1
    <3> QED BY <1>5, <3>1
  <2>2. r * x <= t * x
    BY <2>1
  <2>3. r * (y + 1) <= r * x
    BY <1>5
  <2> QED BY <1>3, <1>4, <2>2, <2>3
<1> QED BY <1>1, <1>2, <1>5

LEMMA LoopOverflowsToOneSide ==
    LoopInv => OverflowHasOneSide
<1> SUFFICES ASSUME LoopInv, stage = "done"
             PROVE  IF Shrinks THEN dstAmount >= srcAmount \div TenTo[Gap]
                               ELSE dstAmount <= srcAmount * TenTo[Gap]
  BY DEF OverflowHasOneSide
<1>1. PICK t \in Nat : t = TenTo[Gap]
  BY LoopTyped
<1>2. PICK q \in Int : q = t \div Word
  BY WordTyped, DivMod
<1>3. PICK r \in Nat : r = p
  BY LoopTyped
<1>4. t = Word * q + r /\ r < Word
  <2>1. r = t % Word /\ r < Word
    BY <1>1, <1>3, WordTyped, LoopTyped
  <2>2. Word \in Nat \ {0}
    BY WordTyped
  <2> QED BY <1>2, <2>1, <2>2, DivMod
<1>5. r <= t
  <2>1. q >= 0
    <3>1. CASE q <= -1
      <4>1. Word * q <= Word * (-1)
        BY <3>1, WordTyped
      <4> QED BY <1>4, <4>1, WordTyped
    <3> QED BY <3>1
  <2>2. Word * q >= 0
    BY <2>1, WordTyped
  <2> QED BY <1>4, <2>2, WordTyped
<1>6. CASE Shrinks
  <2>1. PICK a \in Nat, d \in Nat : a = srcAmount /\ d = dstAmount
    BY LoopTyped
  <2>2. r # 0 /\ d = a \div r
    BY <1>3, <1>6, <2>1 DEF LoopInv
  <2>3. a \div t <= a \div r
    BY <1>5, <2>2, SmallerDivisor
  <2>4. a \div t \in Int
    BY <1>5, <2>2, DivMod
  <2> QED BY <1>1, <1>6, <2>1, <2>2, <2>3, <2>4
<1>7. CASE ~ Shrinks
  <2>1. \A a \in Nat : a * r <= a * t
    BY <1>5
  <2> QED BY <1>1, <1>3, <1>7, <2>1, LoopTyped DEF LoopInv
<1> QED BY <1>6, <1>7

\* The variables of the callback are what they are declared as; the power stays
\* within its word.
THEOREM TypesAreKept == TermsSpec => []TypeOK
<1>1. TermsInv => TypeOK
  BY DEF TermsInv, LoopInv
<1> QED BY <1>1, TermsInvHolds, PTL

\* While the power fits, the amount of the IN is what the OUT is worth, rounded
\* down by less than one unit, for every pair of decimals.
THEOREM AlwaysConvertedExactly == TermsSpec => []ConvertedExactly
<1>1. TermsInv => ConvertedExactly
  BY LoopConvertsExactly DEF TermsInv
<1> QED BY <1>1, TermsInvHolds, PTL

\* The division of the callback never panics for decimals that differ by less than
\* the width of the power, although the power may have wrapped around long before.
THEOREM NeverPanicsWithinWidth == TermsSpec => []PanicsOnlyPastWidth
<1>1. TermsInv => PanicsOnlyPastWidth
  BY LoopPanicsOnlyPastWidth DEF TermsInv
<1> QED BY <1>1, TermsInvHolds, PTL

\* For every difference of decimals and every width: a power that overflows pays the
\* user too little where decimals grow and, at the node's expense, too much where they
\* shrink, never the other way round.
THEOREM OverflowsToOneSide == TermsSpec => []OverflowHasOneSide
<1>1. TermsInv => OverflowHasOneSide
  BY LoopOverflowsToOneSide DEF TermsInv
<1> QED BY <1>1, TermsInvHolds, PTL

-----------------------------------------------------------------------------
(* The time lock                                                             *)

LEMMA SignedIs ==
    ASSUME NEW y \in Int
    PROVE  /\ y \in -Int64 .. Int64 - 1 => Signed(y) = y
           /\ y \in -2 * Int64 .. -Int64 - 1 => Signed(y) = y + 2 * Int64
           /\ y \in Int64 .. 2 * Int64 - 1 => Signed(y) = y - 2 * Int64
           /\ Signed(y) \in Int
           /\ y >= 0 => Signed(y) <= y
<1>1. PICK n \in Nat \ {0} : n = 2 * Int64
  BY TermsAssumption
<1>2. PICK x \in Int : x = y + Int64
  BY TermsAssumption
<1>3. Signed(y) = (x % n) - Int64
  BY <1>1, <1>2 DEF Signed
<1>4. x \in 0 .. n - 1 => x % n = x
  <2>1. x = n * 0 + x
    OBVIOUS
  <2> QED BY <2>1, ModIs
<1>5. x \in -n .. -1 => x % n = x + n
  <2>1. x = n * (-1) + (x + n)
    OBVIOUS
  <2> QED BY <2>1, ModIs
<1>6. x \in n .. 2 * n - 1 => x % n = x - n
  <2>1. x = n * 1 + (x - n)
    OBVIOUS
  <2> QED BY <2>1, ModIs
<1>7. x % n \in 0 .. n - 1
  BY DivMod
<1>8. Int64 \in Nat \ {0}
  BY TermsAssumption
<1>9. y >= 0 => Signed(y) <= y
  BY <1>1, <1>2, <1>3, <1>4, <1>7, <1>8
<1> QED BY <1>1, <1>2, <1>3, <1>4, <1>5, <1>6, <1>7, <1>8, <1>9

LEMMA UnitsTyped ==
    /\ Int64 \in Nat \ {0} /\ Second \in Nat \ {0} /\ Microsecond \in Nat \ {0}
    /\ MinSrcTimeout \in Nat /\ DstTimeLockGap \in Nat /\ DstTimeLockGap <= MinSrcTimeout
    /\ SendMargin \in Nat /\ Clock \subseteq Nat
BY TermsAssumption

\* The time left is what the time lock promises, or so much less that it is negative.
LEMMA TimeoutIs ==
    ASSUME timelock \in 0 .. 2 * Int64 - 1, tsNow \in Clock
    PROVE  /\ Timeout \in {timelock - Unix(tsNow), timelock - Unix(tsNow) - 2 * Int64}
           /\ timelock < Int64 => Timeout = timelock - Unix(tsNow)
           /\ Unix(tsNow) \in 0 .. Int64 - 1
<1>1. PICK u \in Nat : u = Unix(tsNow) /\ u < Int64
  <2>1. tsNow \div Second \in Nat
    BY UnitsTyped
  <2> QED BY <2>1, TermsAssumption DEF Unix
<1>2. PICK t \in Nat : t = timelock /\ t < 2 * Int64
  BY UnitsTyped
<1>3. PICK s \in Int : s = Signed(t) /\ s = IF t < Int64 THEN t ELSE t - 2 * Int64
  BY <1>2, SignedIs, UnitsTyped
<1>4. Timeout = Signed(s - u)
  BY <1>1, <1>2, <1>3 DEF Timeout
<1>5. s - u \in Int /\ s - u \in -2 * Int64 .. Int64 - 1
  BY <1>1, <1>2, <1>3, UnitsTyped
<1>6. Timeout = s - u \/ (s - u < -Int64 /\ Timeout = s - u + 2 * Int64)
  BY <1>4, <1>5, SignedIs, UnitsTyped
<1> QED BY <1>1, <1>2, <1>3, <1>6, UnitsTyped

\* The column moves an instant by less than a unit, and no whole second down.
LEMMA RoundedIs ==
    ASSUME NEW c \in Int
    PROVE  /\ Rounded(c) \in Int /\ Rounded(c) < c + Second
           /\ \A k \in Int : Second * k <= c => Second * k <= Rounded(c)
<1>1. PICK m \in Nat \ {0} : m = Microsecond
  BY UnitsTyped
<1>2. PICK h \in Nat : h = m \div 2 /\ h < m
  OBVIOUS
<1>3. PICK q \in Int : q = (c + h) \div m
  BY DivMod
<1>4. Rounded(c) = m * q
  BY <1>1, <1>2, <1>3 DEF Rounded
<1>5. m * q <= c + h /\ c + h < m * q + m /\ m * q \in Int
  <2>1. PICK r \in 0 .. m - 1 : r = (c + h) % m
    BY DivMod
  <2>2. c + h = m * q + r
    BY <1>3, <2>1, DivMod
  <2> QED BY <2>1, <2>2
<1>6. PICK e \in Int : Second = m * e
  <2>1. PICK e \in Int : e = Second \div m
    BY UnitsTyped, DivMod
  <2>2. Second = m * e + 0
    BY <1>1, <2>1, TermsAssumption, DivMod
  <2> QED BY <2>2
<1>7. m <= Second
  <2>1. e >= 1
    <3>1. CASE e <= 0
      <4>1. m * e <= 0
        BY <3>1
      <4> QED BY <4>1, <1>6, UnitsTyped
    <3> QED BY <3>1
  <2>2. m * e >= m
    BY <2>1
  <2> QED BY <1>6, <2>2
<1>8. ASSUME NEW k \in Int, Second * k <= c
      PROVE  Second * k <= m * q
  <2>1. PICK z \in Int : z = e * k
    OBVIOUS
  <2>2. Second * k = m * z
    BY <1>6, <2>1
  <2>3. CASE z <= q
    <3>1. m * z <= m * q
      BY <2>3
    <3> QED BY <2>2, <3>1
  <2>4. CASE z >= q + 1
    <3>1. m * z >= m * (q + 1) /\ m * (q + 1) = m * q + m
      BY <2>4
    <3> QED BY <1>2, <1>5, <1>8, <2>2, <3>1
  <2> QED BY <2>3, <2>4
<1> QED BY <1>2, <1>4, <1>5, <1>7, <1>8, UnitsTyped

\* Where the row's time lock lies, in seconds: no later than a second past what the
\* time lock of the OUT leaves, and no earlier when the duration fits.
LEMMA RowTimeLock ==
    ASSUME TermsInv, inTimeLock # NoLock
    PROVE  /\ inTimeLock \in Int
           /\ Unix(inTimeLock) \in Int
           /\ Unix(inTimeLock) <= timelock - DstTimeLockGap + 1
           /\ timelock * Second < Int64 => Unix(inTimeLock) >= timelock - DstTimeLockGap
<1>1. PICK g \in Nat : g = DstTimeLockGap
  BY UnitsTyped
<1>2. PICK l \in Nat : l = timelock
  BY UnitsTyped DEF TermsInv
<1>3. PICK now \in Nat : now = tsNow
  BY UnitsTyped DEF TermsInv
<1>4. PICK u \in Nat : u = Unix(tsNow)
  BY TimeoutIs DEF TermsInv
<1>5. PICK s \in Nat \ {0} : s = Second
  BY UnitsTyped
<1>6. PICK f \in 0 .. s - 1 : now = s * u + f
  <2>1. now \div s = u
    BY <1>3, <1>4, <1>5 DEF Unix
  <2>2. PICK f \in 0 .. s - 1 : f = now % s
    BY DivMod
  <2>3. now = s * (now \div s) + (now % s)
    BY DivMod
  <2> QED BY <2>1, <2>2, <2>3
<1>7. PICK t \in Int : t = Timeout
  BY <1>2, <1>4, TimeoutIs, UnitsTyped DEF TermsInv
<1>8. t - g \in Nat /\ u + t <= l
  <2>1. t >= MinSrcTimeout
    BY <1>7 DEF TermsInv
  <2>2. t \in {l - u, l - u - 2 * Int64}
    BY <1>2, <1>4, <1>7, TimeoutIs DEF TermsInv
  <2> QED BY <1>1, <2>1, <2>2, UnitsTyped
<1>9. PICK y \in Nat : y = (t - g) * s
  BY <1>8
<1>10. PICK d \in Int : d = Signed(y) /\ d <= y
  BY SignedIs
<1>11. inTimeLock = Rounded(now + d)
  BY <1>1, <1>3, <1>5, <1>7, <1>9, <1>10 DEF TermsInv, Chain2TimeLock, Duration
<1>12. PICK w \in Int : w = inTimeLock
  BY <1>11, RoundedIs
<1>13. PICK x \in Int : x = Unix(w)
  BY <1>5, DivMod DEF Unix
<1>14. s * x <= w /\ w < s * x + s
  <2>1. PICK r \in 0 .. s - 1 : r = w % s
    BY DivMod
  <2>2. w = s * x + r
    BY <1>5, <1>13, <2>1, DivMod DEF Unix
  <2> QED BY <2>1, <2>2
<1>15. s * (u + t - g) = s * u + y /\ s * (u + t - g) \in Int
  BY <1>9
<1>16. x <= l - g + 1
  <2>1. w < now + d + s
    BY <1>5, <1>11, <1>12, RoundedIs
  <2>2. w < s * (u + t - g) + s + s
    BY <1>6, <1>10, <1>15, <2>1
  <2>3. PICK k \in Int : k = u + t - g
    OBVIOUS
  <2>4. s * x < s * k + s + s
    BY <1>14, <2>2, <2>3
  <2>5. x < k + 2
    <3>1. CASE x >= k + 2
      <4>1. s * x >= s * (k + 2) /\ s * (k + 2) = s * k + s + s
        BY <3>1
      <4> QED BY <2>4, <4>1
    <3> QED BY <3>1
  <2> QED BY <1>8, <2>3, <2>5
<1>17. ASSUME l * s < Int64
       PROVE  x >= l - g
  <2>1. l < Int64
    <3>1. l <= l * s
      OBVIOUS
    <3> QED BY <1>17, <3>1, UnitsTyped
  <2>2. t = l - u
    BY <1>2, <1>4, <1>7, <2>1, TimeoutIs DEF TermsInv
  <2>3. y < Int64
    <3>1. t - g <= l
      BY <2>2
    <3>2. (t - g) * s <= l * s
      BY <1>8, <3>1
    <3> QED BY <1>9, <1>17, <3>2, UnitsTyped
  <2>4. d = y
    BY <1>10, <2>3, SignedIs, UnitsTyped
  <2>5. PICK k \in Int : k = l - g
    OBVIOUS
  <2>6. now + d = s * k + f
    BY <1>6, <1>15, <2>2, <2>4, <2>5
  <2>7. s * k <= w
    <3>1. PICK c \in Int : c = now + d
      OBVIOUS
    <3>2. Second * k <= c
      BY <1>5, <2>6, <3>1
    <3>3. Second * k <= Rounded(c)
      BY <3>2, RoundedIs
    <3> QED BY <1>5, <1>11, <1>12, <3>1, <3>3
  <2>8. s * k < s * x + s
    BY <1>14, <2>7
  <2>9. k < x + 1
    <3>1. CASE k >= x + 1
      <4>1. s * k >= s * (x + 1) /\ s * (x + 1) = s * x + s
        BY <3>1
      <4> QED BY <2>8, <4>1
    <3> QED BY <3>1
  <2> QED BY <2>5, <2>9
<1> QED BY <1>1, <1>2, <1>5, <1>12, <1>13, <1>16, <1>17

\* What is sent is the row's time lock: it is positive, and fits unless it is huge.
LEMMA SentIs ==
    ASSUME TermsInv, sent # NoLock
    PROVE  /\ inTimeLock # NoLock /\ sent <= Unix(inTimeLock)
           /\ Unix(inTimeLock) < 2 * Int64 => sent = Unix(inTimeLock)
<1>1. inTimeLock # NoLock
  BY DEF TermsInv
<1>2. PICK x \in Int : x = Unix(inTimeLock)
  BY <1>1, RowTimeLock
<1>3. x \in Nat
  <2>1. PICK w \in Int, m \in Nat, s \in Nat \ {0} :
            w = inTimeLock /\ m = SendMargin * Second /\ s = Second
    <3>1. SendMargin * Second \in Nat
      BY UnitsTyped
    <3> QED BY <1>1, <3>1, RowTimeLock, UnitsTyped
  <2>2. PICK now \in Nat : w > now + m
    BY <2>1, UnitsTyped DEF TermsInv
  <2>3. w \in Nat
    BY <2>2
  <2> QED BY <1>2, <2>1, <2>3 DEF Unix
<1>4. PICK n \in Nat \ {0} : n = 2 * Int64
  BY UnitsTyped
<1>5. sent = x % n
  BY <1>2, <1>4 DEF TermsInv, Unsigned
<1>6. x % n <= x
  <2>q. PICK q \in Int : q = x \div n
    BY DivMod
  <2>1. PICK r \in 0 .. n - 1 : r = x % n
    BY DivMod
  <2>2. x = n * q + r
    BY <2>q, <2>1, DivMod
  <2>3. q >= 0
    <3>1. CASE q <= -1
      <4>1. n * q <= n * (-1)
        BY <3>1
      <4> QED BY <1>3, <2>2, <4>1
    <3> QED BY <3>1
  <2>4. n * q >= 0
    BY <2>3
  <2> QED BY <2>1, <2>2, <2>4
<1>7. x < n => x % n = x
  <2>1. x = n * 0 + x
    OBVIOUS
  <2> QED BY <1>3, <2>1, ModIs
<1> QED BY <1>1, <1>2, <1>4, <1>5, <1>6, <1>7

\* Whatever the time lock of the OUT is, also one that overflows as a signed number,
\* as a duration or as both: the node locks the IN for eight hours less, give or
\* take the second the present is rounded down to.
THEOREM InAlwaysExpiresBeforeOut == TermsSpec => []InExpiresBeforeOut
<1>1. TermsInv => InExpiresBeforeOut
  <2> SUFFICES ASSUME TermsInv, sent # NoLock
               PROVE  sent <= timelock - DstTimeLockGap + 1
    BY DEF InExpiresBeforeOut
  <2>1. PICK x \in Int : x = Unix(inTimeLock)
    BY SentIs, RowTimeLock
  <2>2. sent <= x /\ x <= timelock - DstTimeLockGap + 1
    BY <2>1, SentIs, RowTimeLock
  <2>3. sent \in Int
    <3>1. PICK n \in Nat \ {0} : n = 2 * Int64
      BY UnitsTyped
    <3>2. sent = x % n
      BY <2>1, <3>1 DEF TermsInv, Unsigned
    <3> QED BY <3>1, <3>2, DivMod
  <2>4. timelock \in Int /\ DstTimeLockGap \in Int
    BY UnitsTyped DEF TermsInv
  <2> QED BY <2>2, <2>3, <2>4
<1> QED BY <1>1, TermsInvHolds, PTL

\* And for no less: as long as the duration can be expressed, neither the division
\* to seconds nor the column's rounding takes a second from the user.
THEOREM InNeverExpiresEarlier == TermsSpec => []InExpiresNoEarlier
<1>1. TermsInv => InExpiresNoEarlier
  <2> SUFFICES ASSUME TermsInv, sent # NoLock, timelock * Second < Int64
               PROVE  sent >= timelock - DstTimeLockGap
    BY DEF InExpiresNoEarlier
  <2>1. PICK x \in Int : x = Unix(inTimeLock)
    BY SentIs, RowTimeLock
  <2>2. x >= timelock - DstTimeLockGap /\ x <= timelock - DstTimeLockGap + 1
    BY <2>1, SentIs, RowTimeLock
  <2>3. PICK l \in Nat, s \in Nat \ {0} : l = timelock /\ s = Second
    BY UnitsTyped DEF TermsInv
  <2>4. l < Int64
    <3>1. l <= l * s /\ l * s < Int64
      BY <2>3
    <3> QED BY <2>3, <3>1, UnitsTyped
  <2>5. x < 2 * Int64
    BY <2>2, <2>3, <2>4, UnitsTyped
  <2>6. sent = x
    BY <2>1, <2>5, SentIs
  <2> QED BY <2>2, <2>6
<1> QED BY <1>1, TermsInvHolds, PTL
=============================================================================
