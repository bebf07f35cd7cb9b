----------------------------- MODULE HtlcProofs -----------------------------
(***************************************************************************)
(* The spend of an HTLC output, for every hash, pair of keys and delay,    *)
(* every spend and age, and every width of the sequence, of a script       *)
(* number and of an amount.                                                *)
(***************************************************************************)
EXTENDS HtlcScript, SpendValues, FiniteSums, SequenceTheorems, TLAPS

(***************************************************************************)
(* Script numbers.  The base is a number with a sign bit.                  *)
(***************************************************************************)
LEMMA BaseFacts ==
    /\ ByteBase \in Nat /\ ByteBase >= 4
    /\ ByteBase \div 2 \in Nat /\ 2 * (ByteBase \div 2) = ByteBase
    /\ SmallMax \in Nat /\ SmallMax < ByteBase \div 2 /\ SmallMax >= 1
<1>1. ByteBase \in Nat /\ ByteBase % 2 = 0 /\ SmallMax \in 1..(ByteBase \div 2 - 1)
    BY ScriptWidths
<1>2. QED
    BY <1>1

LEMMA DivisionFacts ==
    ASSUME NEW n \in Nat \ {0}
    PROVE  /\ n \div ByteBase \in 0..(n - 1)
           /\ n % ByteBase \in 0..(ByteBase - 1)
           /\ n = ByteBase * (n \div ByteBase) + (n % ByteBase)
<1> DEFINE q == n \div ByteBase
           r == n % ByteBase
<1>1. ByteBase \in Nat /\ ByteBase >= 4
    BY BaseFacts
<1>2. q \in Nat /\ r \in 0..(ByteBase - 1) /\ n = ByteBase * q + r
    BY <1>1
<1> HIDE DEF q, r
<1>3. \A b, c \in Nat : b >= 4 => b * c >= 4 * c
    OBVIOUS
<1>4. q < n
  <2>1. ByteBase * q >= 4 * q
    BY <1>1, <1>2, <1>3
  <2> DEFINE p == ByteBase * q
  <2>2. p \in Nat /\ n = p + r /\ p >= 4 * q /\ r \in Nat
    <3>1. ByteBase * q \in Nat
      BY <1>1, <1>2
    <3>2. n = ByteBase * q + r /\ r \in Nat
      BY <1>1, <1>2
    <3>3. QED
      BY <2>1, <3>1, <3>2
  <2> HIDE DEF p
  <2>3. QED
    BY <1>2, <2>2
<1>5. q \in 0..(n - 1) /\ r \in 0..(ByteBase - 1) /\ n = ByteBase * q + r
    BY <1>2, <1>4
<1>6. QED
    BY <1>5 DEF q, r

(***************************************************************************)
(* The recursion for the digits is well defined: below any bound it has a  *)
(* solution, and only one.                                                 *)
(***************************************************************************)
Shifted(g, n) == IF n = 0 THEN <<>> ELSE <<n % ByteBase>> \o g[n \div ByteBase]
DigitsUpTo(g, m) == \A n \in 0..m : g[n] = Shifted(g, n)

LEMMA ShiftedSame ==
    ASSUME NEW n \in Nat, NEW g, NEW h, \A k \in 0..(n - 1) : g[k] = h[k]
    PROVE  Shifted(g, n) = Shifted(h, n)
<1>1. CASE n = 0
    BY <1>1 DEF Shifted
<1>2. CASE n # 0
  <2>1. g[n \div ByteBase] = h[n \div ByteBase]
    BY <1>2, DivisionFacts
  <2>2. QED
    BY <1>2, <2>1 DEF Shifted
<1>3. QED
    BY <1>1, <1>2

LEMMA DigitsUnique ==
    ASSUME NEW g, NEW h, NEW m \in Nat, DigitsUpTo(g, m), DigitsUpTo(h, m)
    PROVE  \A n \in 0..m : g[n] = h[n]
<1> DEFINE Bad == { n \in 0..m : g[n] # h[n] }
<1> SUFFICES ASSUME Bad # {} PROVE FALSE
    OBVIOUS
<1>1. PICK n \in Bad : \A k \in Bad : n =< k
  <2>1. Bad \in SUBSET Nat
    OBVIOUS
  <2> HIDE DEF Bad
  <2>2. QED
    BY <2>1, LeastExists
<1>2. \A k \in 0..(n - 1) : g[k] = h[k]
    BY <1>1
<1>3. Shifted(g, n) = Shifted(h, n)
    BY <1>2, ShiftedSame
<1>4. QED
    BY <1>3 DEF DigitsUpTo

LEMMA DigitsExist ==
    ASSUME NEW m \in Nat
    PROVE  \E g : DigitsUpTo(g, m)
<1> DEFINE Q == { n \in Nat : \E g : DigitsUpTo(g, n) }
<1>1. 0 \in Q
  <2> DEFINE g == [n \in {0} |-> <<>>]
  <2>1. DigitsUpTo(g, 0)
    BY DEF DigitsUpTo, Shifted
  <2>2. QED
    BY <2>1
<1>2. ASSUME NEW n \in Nat, n \in Q
      PROVE  n + 1 \in Q
  <2>1. PICK g : DigitsUpTo(g, n)
    BY <1>2
  <2> DEFINE h == [k \in Nat |-> IF k = n + 1 THEN Shifted(g, n + 1) ELSE g[k]]
  <2>2. ASSUME NEW k \in 0..(n + 1)
        PROVE  h[k] = Shifted(h, k)
    <3>1. \A j \in 0..(k - 1) : h[j] = g[j]
      OBVIOUS
    <3>2. Shifted(h, k) = Shifted(g, k)
      <4> HIDE DEF h
      <4> QED
        BY <3>1, ShiftedSame
    <3>3. h[k] = Shifted(g, k)
      BY <2>1 DEF DigitsUpTo
    <3>4. QED
      BY <3>2, <3>3
  <2>3. DigitsUpTo(h, n + 1)
    <3> HIDE DEF h
    <3> QED
      BY <2>2 DEF DigitsUpTo
  <2>4. QED
    BY <2>3
<1>3. Nat \subseteq Q
  <2> HIDE DEF Q
  <2> QED
    BY <1>1, <1>2, NatInduct
<1>4. QED
    BY <1>3

LEMMA DigitsDef ==
    ASSUME NEW n \in Nat
    PROVE  Digits[n] = IF n = 0 THEN <<>> ELSE <<n % ByteBase>> \o Digits[n \div ByteBase]
<1> DEFINE sol(m) == CHOOSE h : DigitsUpTo(h, m)
           g == [m \in Nat |-> sol(m)[m]]
<1>1. \A m \in Nat : DigitsUpTo(sol(m), m)
    BY DigitsExist
<1>2. ASSUME NEW m \in Nat
      PROVE  g[m] = Shifted(g, m)
  <2>1. ASSUME NEW k \in 0..(m - 1)
        PROVE  g[k] = sol(m)[k]
    <3>1. DigitsUpTo(sol(m), k) /\ DigitsUpTo(sol(k), k)
      <4>1. DigitsUpTo(sol(m), m) /\ DigitsUpTo(sol(k), k)
        BY <1>1
      <4> HIDE DEF sol
      <4>2. QED
        BY <4>1 DEF DigitsUpTo
    <3> HIDE DEF sol
    <3>2. sol(m)[k] = sol(k)[k]
      BY <3>1, DigitsUnique
    <3>3. QED
      BY <3>2
  <2> HIDE DEF sol
  <2>2. sol(m)[m] = Shifted(sol(m), m)
    BY <1>1 DEF DigitsUpTo
  <2>3. g[m] = sol(m)[m]
    OBVIOUS
  <2> HIDE DEF g
  <2>4. Shifted(g, m) = Shifted(sol(m), m)
    BY <2>1, ShiftedSame
  <2>5. QED
    BY <2>2, <2>3, <2>4
<1>3. g = [m \in Nat |-> Shifted(g, m)]
  <2>1. g = [m \in Nat |-> g[m]]
    OBVIOUS
  <2> HIDE DEF g
  <2>2. QED
    BY <1>2, <2>1
<1>4. Digits = [m \in Nat |-> Shifted(Digits, m)]
  <2>1. Digits = CHOOSE f : f = [m \in Nat |-> Shifted(f, m)]
    BY DEF Digits, Shifted
  <2> HIDE DEF g
  <2>2. QED
    BY <1>3, <2>1
<1>5. Digits[n] = Shifted(Digits, n)
    BY <1>4
<1>6. QED
    BY <1>5 DEF Shifted
-----------------------------------------------------------------------------
(***************************************************************************)
(* Any solution of the recursion that reads digits back is the one.        *)
(***************************************************************************)
Counts(bytes, f) ==
    \A i \in 1..(Len(bytes) + 1) :
        f[i] = IF i > Len(bytes) THEN 0 ELSE bytes[i] + ByteBase * f[i + 1]

LEMMA ElementOf ==
    ASSUME NEW S, NEW s \in Seq(S), NEW i \in 1..Len(s)
    PROVE  s[i] \in S
OBVIOUS

LEMMA CountsUnique ==
    ASSUME NEW bytes, Len(bytes) \in Nat, NEW f, NEW g, Counts(bytes, f), Counts(bytes, g)
    PROVE  f[1] = g[1]
<1> DEFINE n == Len(bytes)
           Bad == { k \in 0..n : f[n + 1 - k] # g[n + 1 - k] }
<1>1. CASE Bad # {}
  <2>1. PICK k \in Bad : \A j \in Bad : k =< j
    <3>1. Bad \in SUBSET Nat
      OBVIOUS
    <3> HIDE DEF Bad
    <3>2. QED
      BY <1>1, <3>1, LeastExists
  <2>2. PICK i \in 1..(n + 1) : i = n + 1 - k
    OBVIOUS
  <2>3. f[i] # g[i]
    BY <2>2
  <2>4. i =< n
    BY <2>2, <2>3 DEF Counts
  <2>5. f[i + 1] = g[i + 1]
    <3>1. k - 1 \in 0..n /\ k - 1 \notin Bad /\ n + 1 - (k - 1) = i + 1
      <4>1. k - 1 \in 0..n /\ n + 1 - (k - 1) = i + 1
        BY <2>2, <2>4
      <4>2. k - 1 \notin Bad
        BY <2>1
      <4>3. QED
        BY <4>1, <4>2
    <3>2. QED
      BY <3>1
  <2>6. QED
    BY <2>3, <2>4, <2>5 DEF Counts
<1>2. CASE Bad = {}
  <2>1. n \in 0..n /\ n + 1 - n = 1
    OBVIOUS
  <2>2. QED
    BY <1>2, <2>1
<1>3. QED
    BY <1>1, <1>2

LEMMA MagnitudeIs ==
    ASSUME NEW bytes, Len(bytes) \in Nat, NEW f, Counts(bytes, f)
    PROVE  Magnitude(bytes) = f[1]
<1> DEFINE D == 1..(Len(bytes) + 1)
           step(h, i) == IF i > Len(bytes) THEN 0 ELSE bytes[i] + ByteBase * h[i + 1]
           from == CHOOSE h : h = [i \in D |-> step(h, i)]
           g == [i \in D |-> f[i]]
<1>1. Magnitude(bytes) = from[1]
    BY DEF Magnitude
<1>2. ASSUME NEW i \in D
      PROVE  g[i] = step(g, i)
    BY DEF Counts
<1>3. g = [i \in D |-> step(g, i)]
  <2>1. g = [i \in D |-> g[i]]
    OBVIOUS
  <2> HIDE DEF g, step
  <2>2. QED
    BY <1>2, <2>1
<1>4. from = [i \in D |-> step(from, i)]
  <2> HIDE DEF g, step
  <2> QED
    BY <1>3
<1>5. Counts(bytes, from)
  <2> HIDE DEF from
  <2>1. \A i \in D : from[i] = step(from, i)
    <3> HIDE DEF step
    <3> QED
      BY <1>4
  <2>2. QED
    BY <2>1 DEF Counts
<1>6. from[1] = f[1]
  <2> HIDE DEF from
  <2> QED
    BY <1>5, CountsUnique
<1>7. QED
    BY <1>1, <1>6

(***************************************************************************)
(* The digits of a number, which their last one, not a zero, ends.         *)
(***************************************************************************)
DigitsRead(n) ==
    /\ Digits[n] \in Seq(0..(ByteBase - 1))
    /\ n # 0 => Len(Digits[n]) > 0 /\ Last(Digits[n]) # 0
    /\ \E f \in [Nat -> Nat] : Counts(Digits[n], f) /\ f[1] = n

LEMMA DigitsReadBack ==
    ASSUME NEW n \in Nat
    PROVE  DigitsRead(n)
<1> DEFINE Bad == { m \in Nat : ~DigitsRead(m) }
<1> SUFFICES ASSUME Bad # {} PROVE FALSE
    OBVIOUS
<1>1. PICK m \in Bad : \A k \in Bad : m =< k
  <2>1. Bad \in SUBSET Nat
    OBVIOUS
  <2> HIDE DEF Bad
  <2>2. QED
    BY <2>1, LeastExists
<1>2. m \in Nat /\ ~DigitsRead(m) /\ \A k \in 0..(m - 1) : DigitsRead(k)
    BY <1>1
<1> HIDE DEF Bad
<1>2a. m # 0
  <2>1. Digits[0] = <<>>
    BY DigitsDef
  <2>2. \E f \in [Nat -> Nat] : Counts(Digits[0], f) /\ f[1] = 0
    <3> DEFINE f == [i \in Nat |-> 0]
    <3>1. f \in [Nat -> Nat] /\ Counts(Digits[0], f) /\ f[1] = 0
      BY <2>1 DEF Counts
    <3>2. QED
      BY <3>1
  <2>3. DigitsRead(0)
    BY <2>1, <2>2 DEF DigitsRead
  <2>4. QED
    BY <1>2, <2>3
<1> DEFINE q == m \div ByteBase
           r == m % ByteBase
<1>3. q \in 0..(m - 1) /\ r \in 0..(ByteBase - 1) /\ m = ByteBase * q + r
    BY <1>2, <1>2a, DivisionFacts
<1>4. Digits[m] = <<r>> \o Digits[q]
    BY <1>2, <1>2a, DigitsDef
<1> HIDE DEF q, r
<1>5. DigitsRead(q)
    BY <1>2, <1>3
<1>6. Digits[q] \in Seq(0..(ByteBase - 1)) /\ Len(Digits[q]) \in Nat
    BY <1>5 DEF DigitsRead
<1>6a. PICK l \in Nat : l = Len(Digits[q])
    BY <1>6
<1>7. /\ Digits[m] \in Seq(0..(ByteBase - 1))
      /\ Len(Digits[m]) = l + 1
      /\ Digits[m][1] = r
      /\ \A i \in 2..(l + 1) : Digits[m][i] = Digits[q][i - 1]
    BY <1>3, <1>4, <1>6, <1>6a
<1>8. Last(Digits[m]) # 0
  <2>1. CASE q = 0
    <3>1. l = 0
      <4>1. Digits[0] = <<>>
        BY DigitsDef
      <4>2. QED
        BY <1>6a, <2>1, <4>1
    <3>2. r # 0
      BY <1>2a, <1>3, <2>1, BaseFacts
    <3>3. QED
      BY <1>7, <3>1, <3>2 DEF Last
  <2>2. CASE q # 0
    <3>1. l > 0 /\ Digits[q][l] # 0
      BY <1>5, <1>6a, <2>2 DEF DigitsRead, Last
    <3>2. l + 1 \in 2..(l + 1)
      BY <1>6, <3>1
    <3>3. QED
      BY <1>6, <1>7, <3>1, <3>2 DEF Last
  <2>3. QED
    BY <2>1, <2>2
<1>9. \E f \in [Nat -> Nat] : Counts(Digits[m], f) /\ f[1] = m
  <2>1. PICK f \in [Nat -> Nat] : Counts(Digits[q], f) /\ f[1] = q
    BY <1>5 DEF DigitsRead
  <2>1a. \A k \in 1..(l + 1) :
            f[k] = IF k > l THEN 0 ELSE Digits[q][k] + ByteBase * f[k + 1]
    BY ONLY <1>6a, <2>1, Zenon DEF Counts
  <2> DEFINE g == [i \in Nat |-> IF i =< 1 THEN m ELSE f[i - 1]]
  <2>2. g \in [Nat -> Nat] /\ g[1] = m /\ \A i \in Nat : i > 1 => g[i] = f[i - 1]
    <3>1. \A i \in Nat : i > 1 => i - 1 \in Nat
      OBVIOUS
    <3>2. QED
      BY <1>2, <3>1
  <2> HIDE DEF g
  <2>3. ASSUME NEW i \in 1..(l + 2)
        PROVE  g[i] = IF i > l + 1 THEN 0 ELSE Digits[m][i] + ByteBase * g[i + 1]
    <3>1. CASE i = 1
      <4>1. g[i + 1] = q
        BY <2>1, <2>2, <3>1
      <4>2. g[i] = r + ByteBase * q
        BY <1>3, <2>2, <3>1, BaseFacts
      <4>3. Digits[m][i] = r /\ ~(i > l + 1)
        BY <1>7, <3>1
      <4>4. QED
        BY ONLY <4>1, <4>2, <4>3, Zenon
    <3>2. CASE i > 1
      <4>1. PICK k \in 1..(l + 1) : k = i - 1
        BY <1>6a, <3>2
      <4>2. i \in Nat /\ i + 1 \in Nat /\ i + 1 > 1 /\ i = k + 1 /\ (i + 1) - 1 = k + 1
        BY <4>1
      <4>3. g[i] = f[k] /\ g[i + 1] = f[k + 1]
        BY <2>2, <3>2, <4>1, <4>2
      <4>4. f[k] = IF k > l THEN 0 ELSE Digits[q][k] + ByteBase * f[k + 1]
        BY <2>1a, <4>1, Zenon
      <4>5. i =< l + 1 => Digits[m][i] = Digits[q][k]
        <5>1. i =< l + 1 => i \in 2..(l + 1)
          BY <1>6a, <3>2, <4>2
        <5>2. i \in 2..(l + 1) => Digits[m][i] = Digits[q][i - 1]
          BY <1>7, Zenon
        <5>3. QED
          BY <4>1, <5>1, <5>2, Zenon
      <4>6. /\ k > l <=> i > l + 1
            /\ i =< l + 1 <=> ~(i > l + 1)
        <5>1. l \in Nat /\ k \in Nat /\ i = k + 1
          BY <1>6a, <4>1, <4>2
        <5>2. QED
          BY ONLY <5>1
      <4>7. QED
        BY ONLY <4>3, <4>4, <4>5, <4>6, Zenon
    <3>3. QED
      BY <1>6, <3>1, <3>2
  <2>4. Counts(Digits[m], g)
    <3>1. Len(Digits[m]) = l + 1 /\ (l + 1) + 1 = l + 2
      BY <1>7
    <3>2. QED
      BY <2>3, <3>1 DEF Counts
  <2>5. QED
    BY <2>2, <2>4
<1>10. DigitsRead(m)
  <2>1. Len(Digits[m]) > 0
    BY <1>7
  <2>2. QED
    BY <1>7, <1>8, <1>9, <2>1, Zenon DEF DigitsRead
<1>11. QED
    BY <1>2, <1>10

(***************************************************************************)
(* What push_script_num writes, the interpreter reads back: the number     *)
(* itself and not its negative, in as many bytes as OP_CSV looks at.       *)
(***************************************************************************)
LEMMA NumberReadBack ==
    ASSUME NEW n \in Delays
    PROVE  ScriptNum(PushScriptNum(n)) = n /\ Len(PushScriptNum(n)) =< MaxNumBytes
<1>1. n \in Nat \ {0} /\ Len(Digits[n]) < MaxNumBytes /\ MaxNumBytes \in Nat
    BY ScriptWidths, DelayWidth, LockWidths
<1> DEFINE half == ByteBase \div 2
<1>2. ByteBase \in Nat /\ half \in Nat /\ half > SmallMax /\ half > 0 /\ SmallMax \in Nat
    BY BaseFacts
<1> HIDE DEF half
<1>3. CASE n =< SmallMax
  <2> DEFINE f == [i \in {1, 2} |-> IF i = 1 THEN n ELSE 0]
  <2>1. PushScriptNum(n) = <<n>>
    BY <1>3 DEF PushScriptNum
  <2>2. Counts(<<n>>, f)
    BY <1>1, <1>2 DEF Counts
  <2>3. Magnitude(<<n>>) = n
    <3>1. Magnitude(<<n>>) = f[1]
      <4> HIDE DEF f
      <4> QED
        BY <2>2, MagnitudeIs
    <3>2. QED
      BY <3>1
  <2>4. Last(<<n>>) < half /\ <<n>> # <<>>
    BY <1>1, <1>2, <1>3 DEF Last
  <2>5. QED
    BY <1>1, <2>1, <2>3, <2>4 DEF ScriptNum, half
<1>4. CASE n > SmallMax
  <2>1. /\ Digits[n] \in Seq(0..(ByteBase - 1))
        /\ Len(Digits[n]) > 0 /\ Last(Digits[n]) # 0
    BY <1>1, DigitsReadBack DEF DigitsRead
  <2>2. PICK f \in [Nat -> Nat] : Counts(Digits[n], f) /\ f[1] = n
    BY <1>1, DigitsReadBack DEF DigitsRead
  <2>2a. PICK l \in Nat \ {0} : l = Len(Digits[n])
    BY <2>1
  <2>2b. Last(Digits[n]) = Digits[n][l] /\ Digits[n][l] \in 0..(ByteBase - 1)
    <3>1. Last(Digits[n]) = Digits[n][Len(Digits[n])]
      BY DEF Last
    <3>2. QED
      <4>1. l \in 1..Len(Digits[n])
        BY <2>2a
      <4>2. Digits[n][l] \in 0..(ByteBase - 1)
        BY <2>1, <4>1, ElementOf
      <4>3. QED
        BY <2>2a, <3>1, <4>2
  <2>2d. \A k \in 1..(l + 1) :
            f[k] = IF k > l THEN 0 ELSE Digits[n][k] + ByteBase * f[k + 1]
    BY ONLY <2>2, <2>2a, Zenon DEF Counts
  <2>2c. ~(n =< SmallMax)
    BY <1>1, <1>2, <1>4
  <2>3. CASE Last(Digits[n]) >= half
    <3> DEFINE bytes == Append(Digits[n], 0)
               g == [i \in Nat |-> IF i =< l + 1 THEN f[i] ELSE 0]
    <3>1. PushScriptNum(n) = bytes
      BY <2>2c, <2>3, Zenon DEF PushScriptNum, half
    <3>2. /\ Len(bytes) = l + 1 /\ bytes[l + 1] = 0
          /\ \A i \in 1..l : bytes[i] = Digits[n][i]
      BY <2>1, <2>2a
    <3> HIDE DEF bytes
    <3>3. ASSUME NEW i \in 1..(l + 2)
          PROVE  g[i] = IF i > l + 1 THEN 0 ELSE bytes[i] + ByteBase * g[i + 1]
      <4> i \in Nat /\ l \in Nat /\ i + 1 \in Nat /\ l > 0
        BY <2>2a
      <4>1. CASE i = l + 2
        BY <4>1
      <4>2. CASE i = l + 1
        <5>1. f[i] = 0
          <6>1. i \in 1..(l + 1) /\ i > l
            BY <4>2
          <6>2. QED
            BY <2>2d, <6>1
        <5>2. g[i] = 0 /\ g[i + 1] = 0
          BY <4>2, <5>1
        <5>3. QED
          BY <1>2, <3>2, <4>2, <5>2
      <4>3. CASE i \in 1..l
        <5>1. f[i] = Digits[n][i] + ByteBase * f[i + 1]
          <6>1. i \in 1..(l + 1) /\ ~(i > l)
            BY <4>3
          <6>2. QED
            BY <2>2d, <6>1
        <5>2. g[i] = f[i] /\ g[i + 1] = f[i + 1] /\ ~(i > l + 1)
          BY <4>3
        <5>3. bytes[i] = Digits[n][i]
          BY <3>2, <4>3
        <5>4. QED
          BY ONLY <5>1, <5>2, <5>3, Zenon
      <4>4. QED
        BY <4>1, <4>2, <4>3
    <3>4. Counts(bytes, g)
      <4>1. Len(bytes) = l + 1 /\ (l + 1) + 1 = l + 2
        BY <3>2
      <4> HIDE DEF g
      <4>2. QED
        BY <3>3, <4>1 DEF Counts
    <3>5. g[1] = n
      BY <2>2
    <3>6. Magnitude(bytes) = n
      <4> HIDE DEF g
      <4> QED
        BY <3>2, <3>4, <3>5, MagnitudeIs
    <3>7. Last(bytes) < half /\ bytes # <<>>
      BY <1>2, <3>2 DEF Last
    <3>8. QED
      <4>1. ScriptNum(bytes) = Magnitude(bytes)
        BY <3>7, Zenon DEF ScriptNum, half
      <4>2. QED
        BY <1>1, <2>2a, <3>1, <3>2, <3>6, <4>1
  <2>4. CASE Last(Digits[n]) < half
    <3>1. PushScriptNum(n) = Digits[n]
      <4>1. ~(Last(Digits[n]) >= half)
        BY <1>2, <2>2b, <2>4
      <4>2. QED
        BY <2>2c, <4>1, Zenon DEF PushScriptNum, half
    <3>2. Magnitude(Digits[n]) = n
      BY <2>2, MagnitudeIs
    <3>3. QED
      <4>1. Digits[n] # <<>>
        BY <2>1
      <4>2. ScriptNum(Digits[n]) = Magnitude(Digits[n])
        BY <2>4, <4>1, Zenon DEF ScriptNum, half
      <4>3. QED
        BY <1>1, <3>1, <3>2, <4>2
  <2>5. Last(Digits[n]) >= half \/ Last(Digits[n]) < half
    <3>1. Last(Digits[n]) \in Nat
      BY <1>2, <2>2b
    <3>2. QED
      BY <1>2, <3>1
  <2>6. QED
    BY <2>3, <2>4, <2>5, Zenon
<1>5. QED
    BY <1>1, <1>2, <1>3, <1>4
-----------------------------------------------------------------------------
(***************************************************************************)
(* The script, operation by operation.                                     *)
(***************************************************************************)
LEMMA ItemFacts ==
    ASSUME NEW k, NEW v
    PROVE  /\ Item(k, v).kind = k
           /\ Item(k, v).value = v
           /\ \A l, w : Item(k, v) = Item(l, w) => k = l /\ v = w
<1>1. ASSUME NEW l, NEW w, Item(k, v) = Item(l, w)
      PROVE  k = l /\ v = w
  <2>1. Item(k, v).kind = k /\ Item(k, v).value = v
    BY DEF Item
  <2>2. Item(l, w).kind = l /\ Item(l, w).value = w
    BY DEF Item
  <2>3. QED
    BY <1>1, <2>1, <2>2
<1>2. QED
    BY <1>1 DEF Item

LEMMA OneItem ==
    ASSUME NEW a
    PROVE  /\ Last(<<a>>) = a /\ Front(<<a>>) = <<>> /\ <<a>> # <<>>
           /\ Append(<<>>, a) = <<a>>
<1> DEFINE S == {a}
<1>1. <<a>> \in Seq(S) /\ a \in S /\ <<>> \in Seq(S)
    OBVIOUS
<1> HIDE DEF S
<1>2. Last(<<a>>) = a /\ <<a>> # <<>>
    BY DEF Last
<1>3. Front(<<a>>) = <<>>
    BY <1>1 DEF Front
<1>4. Append(<<>>, a) = <<a>>
    BY <1>1
<1>5. QED
    BY <1>2, <1>3, <1>4

LEMMA TwoItems ==
    ASSUME NEW a, NEW b
    PROVE  /\ Last(<<a, b>>) = b /\ Front(<<a, b>>) = <<a>> /\ <<a, b>> # <<>>
           /\ Len(<<a, b>>) >= 2 /\ Append(<<a>>, b) = <<a, b>>
<1> DEFINE S == {a, b}
<1>1. <<a>> \in Seq(S) /\ <<a, b>> \in Seq(S) /\ a \in S /\ b \in S
    OBVIOUS
<1> HIDE DEF S
<1>2. Last(<<a, b>>) = b /\ <<a, b>> # <<>> /\ Len(<<a, b>>) >= 2
    BY DEF Last
<1>3. Front(<<a, b>>) = <<a>>
  <2> DEFINE s == Front(<<a, b>>)
             t == <<a>>
  <2>1. s \in Seq(S) /\ Len(s) = 1 /\ s[1] = a
    BY <1>1 DEF Front
  <2>2. t \in Seq(S) /\ Len(t) = 1 /\ t[1] = a
    BY <1>1
  <2> HIDE DEF s, t
  <2>3. s = t
    BY <2>1, <2>2, SeqEqual
  <2>4. QED
    BY <2>3 DEF s, t
<1>4. Append(<<a>>, b) = <<a, b>>
  <2> DEFINE s == Append(<<a>>, b)
             t == <<a, b>>
  <2>1. s \in Seq(S) /\ Len(s) = 2 /\ s[1] = a /\ s[2] = b
    BY <1>1
  <2>2. t \in Seq(S) /\ Len(t) = 2 /\ t[1] = a /\ t[2] = b
    BY <1>1
  <2> HIDE DEF s, t
  <2>3. s = t
    BY <2>1, <2>2, SeqEqual
  <2>4. QED
    BY <2>3 DEF s, t
<1>5. QED
    BY <1>2, <1>3, <1>4

LEMMA ThreeItems ==
    ASSUME NEW a, NEW b, NEW c
    PROVE  /\ Last(<<a, b, c>>) = c /\ Front(<<a, b, c>>) = <<a, b>> /\ <<a, b, c>> # <<>>
           /\ Len(<<a, b, c>>) >= 2 /\ Append(<<a, b>>, c) = <<a, b, c>>
<1> DEFINE S == {a, b, c}
<1>1. /\ <<a, b>> \in Seq(S) /\ <<a, b, c>> \in Seq(S)
      /\ a \in S /\ b \in S /\ c \in S
    OBVIOUS
<1> HIDE DEF S
<1>2. Last(<<a, b, c>>) = c /\ <<a, b, c>> # <<>> /\ Len(<<a, b, c>>) >= 2
    BY DEF Last
<1>3. Front(<<a, b, c>>) = <<a, b>>
  <2> DEFINE s == Front(<<a, b, c>>)
             t == <<a, b>>
  <2>1. s \in Seq(S) /\ Len(s) = 2 /\ s[1] = a /\ s[2] = b
    BY <1>1 DEF Front
  <2>2. t \in Seq(S) /\ Len(t) = 2 /\ t[1] = a /\ t[2] = b
    BY <1>1
  <2> HIDE DEF s, t
  <2>3. s = t
    BY <2>1, <2>2, SeqEqual
  <2>4. QED
    BY <2>3 DEF s, t
<1>4. Append(<<a, b>>, c) = <<a, b, c>>
  <2> DEFINE s == Append(<<a, b>>, c)
             t == <<a, b, c>>
  <2>1. s \in Seq(S) /\ Len(s) = 3 /\ s[1] = a /\ s[2] = b /\ s[3] = c
    BY <1>1
  <2>2. t \in Seq(S) /\ Len(t) = 3 /\ t[1] = a /\ t[2] = b /\ t[3] = c
    BY <1>1
  <2> HIDE DEF s, t
  <2>3. s = t
    BY <2>1, <2>2, SeqEqual
  <2>4. QED
    BY <2>3 DEF s, t
<1>5. QED
    BY <1>2, <1>3, <1>4

\* The operations of the funded script, by their position.
OpTable == << "IF", "SHA256", "PUSH", "EQUALVERIFY", "PUSH", "CHECKSIG", "ELSE", "PUSH",
              "CSV", "DROP", "PUSH", "CHECKSIG", "ENDIF" >>

LEMMA ScriptTable ==
    ASSUME spend.args = funded
    PROVE  /\ Len(Script) = 13
           /\ \A p \in 1..13 : Script[p].op = OpTable[p]
           /\ Script[3].item = Item("hash", funded.hash)
           /\ Script[5].item = Item("key", funded.claimer)
           /\ Script[8].item = Item("num", PushScriptNum(funded.csv))
           /\ Script[11].item = Item("key", funded.refund)
<1> DEFINE t == HtlcWitnessScript(funded)
<1>1. Script = t
    BY Zenon DEF Script
<1>2. /\ Len(t) = 13
      /\ t[1].op = "IF" /\ t[2].op = "SHA256" /\ t[3].op = "PUSH"
      /\ t[4].op = "EQUALVERIFY" /\ t[5].op = "PUSH" /\ t[6].op = "CHECKSIG"
      /\ t[7].op = "ELSE" /\ t[8].op = "PUSH" /\ t[9].op = "CSV" /\ t[10].op = "DROP"
      /\ t[11].op = "PUSH" /\ t[12].op = "CHECKSIG" /\ t[13].op = "ENDIF"
    BY DEF HtlcWitnessScript, Op, Push
<1>3. /\ t[3].item = Item("hash", funded.hash)
      /\ t[5].item = Item("key", funded.claimer)
      /\ t[8].item = Item("num", PushScriptNum(funded.csv))
      /\ t[11].item = Item("key", funded.refund)
    BY DEF HtlcWitnessScript, Push
<1> HIDE DEF t
<1>4. \A p \in 1..13 : t[p].op = OpTable[p]
    BY <1>2 DEF OpTable
<1>5. QED
    BY <1>1, <1>2, <1>3, <1>4

(***************************************************************************)
(* The action a step is, by the operation at pc.                           *)
(***************************************************************************)
LEMMA NextAt ==
    ASSUME Next, verdict = "pending", spend.args = funded, pc \in 1..14
    PROVE  /\ pc \in {7} => OpElse
           /\ pc \in {13} => OpEndIf
           /\ pc \in {14} => Finish
           /\ pc \in 1..12 \ {7} /\ cond = "skip" => Skip
           /\ cond # "skip" =>
                 /\ pc \in {1} => OpIf
                 /\ pc \in {2} => OpSha256
                 /\ pc \in {3, 5, 8, 11} => OpPush
                 /\ pc \in {4} => OpEqualVerify
                 /\ pc \in {6, 12} => OpCheckSig
                 /\ pc \in {9} => OpCsv
                 /\ pc \in {10} => OpDrop
<1>1. ~Start
    BY DEF Start
<1>2. CASE pc = 14
  <2>1. pc \notin 1..Len(Script)
    <3>1. Len(Script) = 13
      BY ScriptTable, Zenon
    <3>2. QED
      BY <1>2, <3>1
  <2>2. QED
    BY <1>1, <1>2, <2>1 DEF Next, OpIf, OpElse, OpEndIf, Skip, OpPush, OpSha256,
       OpEqualVerify, OpCsv, OpDrop, OpCheckSig, Executes
<1>3. CASE pc \in 1..13
  <2>1. Script[pc].op = OpTable[pc] /\ ~Finish
    <3>1. Len(Script) = 13 /\ Script[pc].op = OpTable[pc]
      BY <1>3, ScriptTable, Zenon
    <3>2. QED
      BY <1>3, <3>1 DEF Finish
  <2>2. \/ Script[pc].op = "ELSE" /\ OpElse
        \/ Script[pc].op = "ENDIF" /\ OpEndIf
        \/ Script[pc].op \notin {"ELSE", "ENDIF"} /\ cond = "skip" /\ Skip
        \/ cond # "skip" /\ \/ Script[pc].op = "IF" /\ OpIf
                            \/ Script[pc].op = "SHA256" /\ OpSha256
                            \/ Script[pc].op = "PUSH" /\ OpPush
                            \/ Script[pc].op = "EQUALVERIFY" /\ OpEqualVerify
                            \/ Script[pc].op = "CHECKSIG" /\ OpCheckSig
                            \/ Script[pc].op = "CSV" /\ OpCsv
                            \/ Script[pc].op = "DROP" /\ OpDrop
    <3>1. OpElse => Script[pc].op = "ELSE"
      BY DEF OpElse
    <3>2. OpEndIf => Script[pc].op = "ENDIF"
      BY DEF OpEndIf
    <3>3. Skip => Script[pc].op \notin {"ELSE", "ENDIF"} /\ cond = "skip"
      BY DEF Skip
    <3>4. /\ OpIf => Script[pc].op = "IF" /\ cond # "skip"
          /\ OpSha256 => Script[pc].op = "SHA256" /\ cond # "skip"
          /\ OpPush => Script[pc].op = "PUSH" /\ cond # "skip"
          /\ OpEqualVerify => Script[pc].op = "EQUALVERIFY" /\ cond # "skip"
          /\ OpCheckSig => Script[pc].op = "CHECKSIG" /\ cond # "skip"
          /\ OpCsv => Script[pc].op = "CSV" /\ cond # "skip"
          /\ OpDrop => Script[pc].op = "DROP" /\ cond # "skip"
      BY DEF Executes, OpIf, OpSha256, OpPush, OpEqualVerify, OpCheckSig, OpCsv, OpDrop
    <3>5. QED
      BY <1>1, <2>1, <3>1, <3>2, <3>3, <3>4, Zenon DEF Next
  <2>3. /\ OpTable[1] = "IF" /\ OpTable[2] = "SHA256" /\ OpTable[3] = "PUSH"
        /\ OpTable[4] = "EQUALVERIFY" /\ OpTable[5] = "PUSH" /\ OpTable[6] = "CHECKSIG"
        /\ OpTable[7] = "ELSE" /\ OpTable[8] = "PUSH" /\ OpTable[9] = "CSV"
        /\ OpTable[10] = "DROP" /\ OpTable[11] = "PUSH" /\ OpTable[12] = "CHECKSIG"
        /\ OpTable[13] = "ENDIF"
    BY DEF OpTable
  <2>4. QED
    BY <1>3, <2>1, <2>2, <2>3
<1>4. pc \in 1..13 \/ pc = 14
    OBVIOUS
<1>5. QED
    BY <1>2, <1>3, <1>4, Zenon

(***************************************************************************)
(* The script as a symbolic execution: at every position, the stack and    *)
(* the branch of a run that has not failed yet, and what that run has      *)
(* already shown.                                                          *)
(***************************************************************************)
Signature == Item("sig", spend.signer)
Secret == Item("data", spend.preimage)
Digest(p) == Item("hash", p)
KeyOf(k) == Item("key", k)
Timeout == Item("num", PushScriptNum(funded.csv))
Yes == Item("num", <<1>>)
No == Item("num", <<>>)

Ran(p, s, c) == pc = p /\ stack = s /\ cond = c

Presented ==
    /\ spend.args = funded
    /\ SequenceSatisfied(spend.sequence, spend.blocks, spend.periods)

ClaimRun ==
    /\ spend.branch = "claim"
    /\ \/ Ran(1, << Signature, Secret, Yes >>, "none")
       \/ Ran(2, << Signature, Secret >>, "run")
       \/ Ran(3, << Signature, Digest(spend.preimage) >>, "run")
       \/ Ran(4, << Signature, Digest(spend.preimage), Digest(funded.hash) >>, "run")
       \/ /\ spend.preimage = funded.hash
          /\ \/ Ran(5, << Signature >>, "run")
             \/ Ran(6, << Signature, KeyOf(funded.claimer) >>, "run")
             \/ /\ spend.signer = funded.claimer
                /\ \/ Ran(7, << Yes >>, "run")
                   \/ pc \in 8..13 /\ Ran(pc, << Yes >>, "skip")
                   \/ Ran(14, << Yes >>, "none")

RefundRun ==
    /\ spend.branch = "refund"
    /\ \/ Ran(1, << Signature, No >>, "none")
       \/ pc \in 2..7 /\ Ran(pc, << Signature >>, "skip")
       \/ Ran(8, << Signature >>, "run")
       \/ Ran(9, << Signature, Timeout >>, "run")
       \/ /\ CheckSequenceVerify(funded.csv, spend.sequence)
          /\ \/ Ran(10, << Signature, Timeout >>, "run")
             \/ Ran(11, << Signature >>, "run")
             \/ Ran(12, << Signature, KeyOf(funded.refund) >>, "run")
             \/ /\ spend.signer = funded.refund
                /\ \/ Ran(13, << Yes >>, "run")
                   \/ Ran(14, << Yes >>, "none")

\* What the attempt is, and does not stop being.
Attempt ==
    /\ funded \in Params
    /\ spend.args \in Params /\ spend.branch \in Branch
    /\ spend.sequence \in Nat /\ spend.blocks \in Nat /\ spend.periods \in Nat

ScriptInv ==
    /\ Attempt
    /\ verdict \in {"pending", "accept", "reject"}
    /\ verdict = "accept" => Contract
    /\ verdict = "reject" => ~Contract
    /\ verdict = "pending" /\ pc # 0 => Presented /\ (ClaimRun \/ RefundRun)

\* What a step of a run may do.
Goes == verdict' = verdict /\ UNCHANGED <<funded, spend>>
Fails == verdict' = "reject" /\ UNCHANGED <<funded, spend>>
Wins == verdict' = "accept" /\ UNCHANGED <<funded, spend>>
To(p, s, c) == Goes /\ pc' = p /\ stack' = s /\ cond' = c

LEMMA ContinueIs ==
    ASSUME NEW p \in Nat, NEW s, NEW c, NEW t, NEW d, Ran(p, s, c), Continue(t, d)
    PROVE  To(p + 1, t, d)
BY DEF Ran, Continue, To, Goes

(***************************************************************************)
(* What the numbers of the witness select.                                 *)
(***************************************************************************)
LEMMA Selectors == ScriptNum(<<1>>) # 0 /\ ScriptNum(<<>>) = 0
<1>1. ScriptNum(<<>>) = 0
    BY DEF ScriptNum
<1>2. ScriptNum(<<1>>) = 1
  <2> DEFINE f == [i \in {1, 2} |-> IF i = 1 THEN 1 ELSE 0]
  <2>1. Counts(<<1>>, f)
    BY BaseFacts DEF Counts
  <2>2. Magnitude(<<1>>) = f[1]
    <3> HIDE DEF f
    <3> QED
      BY <2>1, MagnitudeIs
  <2>3. 1 < ByteBase \div 2 /\ Last(<<1>>) = 1 /\ <<1>> # <<>>
    BY BaseFacts DEF Last
  <2>4. f[1] = 1
    OBVIOUS
  <2>5. ScriptNum(<<1>>) = Magnitude(<<1>>)
    BY ONLY <2>3, Zenon DEF ScriptNum
  <2>6. QED
    BY <2>2, <2>4, <2>5
<1>3. QED
    BY <1>1, <1>2

(***************************************************************************)
(* The claim branch: the preimage is hashed and compared, the signature is *)
(* checked with the claimer's key, and the other branch is skipped.        *)
(***************************************************************************)
LEMMA ClaimStep ==
    ASSUME Attempt, Presented, ClaimRun, verdict = "pending", Next
    PROVE  \/ Goes /\ pc' # 0 /\ ClaimRun'
           \/ Fails /\ ~Contract
           \/ Wins /\ Contract
<1> USE DEF ClaimRun, Presented
<1> spend.args = funded /\ spend.branch = "claim" /\ spend.branch # "refund"
    BY DEF Presented, ClaimRun
<1>0. ASSUME Goes
      PROVE  /\ Signature' = Signature /\ Secret' = Secret /\ Yes' = Yes
             /\ Digest(spend.preimage)' = Digest(spend.preimage)
             /\ Digest(funded.hash)' = Digest(funded.hash)
             /\ KeyOf(funded.claimer)' = KeyOf(funded.claimer)
             /\ spend' = spend /\ funded' = funded
    BY <1>0 DEF Goes, Signature, Secret, Yes, Digest, KeyOf
<1>1. CASE Ran(1, << Signature, Secret, Yes >>, "none")
  <2>1. OpIf
    BY <1>1, NextAt DEF Ran
  <2>2. Top = Yes /\ Pop = << Signature, Secret >> /\ stack # <<>>
    <3>1. stack = << Signature, Secret, Yes >>
      BY <1>1 DEF Ran
    <3>2. QED
      BY <3>1, ThreeItems DEF Top, Pop
  <2>3. Yes.kind = "num" /\ Yes.value = <<1>>
    BY ItemFacts DEF Yes
  <2>4. Continue(<< Signature, Secret >>, "run")
    BY <2>1, <2>2, <2>3, Selectors DEF OpIf
  <2>5. To(2, << Signature, Secret >>, "run")
    BY <1>1, <2>4, ContinueIs
  <2>6. QED
    BY <1>0, <2>5 DEF To, Ran
<1>2. CASE Ran(2, << Signature, Secret >>, "run")
  <2>1. OpSha256
    BY <1>2, NextAt DEF Ran
  <2>2. Top = Secret /\ Pop = << Signature >> /\ stack # <<>>
    <3>1. stack = << Signature, Secret >>
      BY <1>2 DEF Ran
    <3>2. QED
      BY <3>1, OneItem, TwoItems, ThreeItems, Zenon DEF Top, Pop
  <2>3. Secret.value = spend.preimage
    BY ItemFacts DEF Secret
  <2>4. Continue(Append(<< Signature >>, Digest(spend.preimage)), cond)
    BY <2>1, <2>2, <2>3 DEF OpSha256, Digest
  <2>5. To(3, << Signature, Digest(spend.preimage) >>, "run")
    <3>1. Append(<< Signature >>, Digest(spend.preimage)) = << Signature, Digest(spend.preimage) >>
      BY OneItem, TwoItems, ThreeItems
    <3>2. QED
      BY <1>2, <2>4, <3>1 DEF Ran, Continue, To, Goes
  <2>6. QED
    BY <1>0, <2>5 DEF To, Ran
<1>3. CASE Ran(3, << Signature, Digest(spend.preimage) >>, "run")
  <2>1. OpPush
    BY <1>3, NextAt DEF Ran
  <2>2. Continue(Append(stack, Digest(funded.hash)), cond)
    BY <1>3, <2>1, ScriptTable DEF OpPush, Digest, Ran
  <2>3. To(4, << Signature, Digest(spend.preimage), Digest(funded.hash) >>, "run")
    <3>1. Append(<< Signature, Digest(spend.preimage) >>, Digest(funded.hash)) = << Signature, Digest(spend.preimage), Digest(funded.hash) >>
      BY OneItem, TwoItems, ThreeItems
    <3>2. QED
      BY <1>3, <2>2, <3>1 DEF Ran, Continue, To, Goes
  <2>4. QED
    BY <1>0, <2>3 DEF To, Ran
<1>4. CASE Ran(4, << Signature, Digest(spend.preimage), Digest(funded.hash) >>, "run")
  <2>1. OpEqualVerify
    BY <1>4, NextAt DEF Ran
  <2>2. /\ Top = Digest(funded.hash) /\ Last(Pop) = Digest(spend.preimage)
        /\ Front(Pop) = << Signature >> /\ Len(stack) >= 2
    <3>1. stack = << Signature, Digest(spend.preimage), Digest(funded.hash) >>
      BY <1>4 DEF Ran
    <3>2. /\ Top = Digest(funded.hash) /\ Pop = << Signature, Digest(spend.preimage) >>
          /\ Len(stack) >= 2
      BY <3>1, ThreeItems DEF Top, Pop
    <3>3. QED
      BY <3>2, TwoItems
  <2>3. CASE Top = Last(Pop)
    <3>1. spend.preimage = funded.hash
      BY <2>2, <2>3, ItemFacts DEF Digest
    <3>2. Continue(<< Signature >>, cond)
      BY <2>1, <2>2, <2>3 DEF OpEqualVerify
    <3>3. To(5, << Signature >>, "run")
      BY <1>4, <3>2, ContinueIs DEF Ran
    <3>4. QED
      BY <1>0, <3>1, <3>3 DEF To, Ran
  <2>4. CASE Top # Last(Pop)
    <3>1. spend.preimage # funded.hash
      BY <2>2, <2>4
    <3>2. Reject
      BY <2>1, <2>4 DEF OpEqualVerify
    <3>3. QED
      BY <3>1, <3>2 DEF Reject, Fails, Contract
  <2>5. QED
    BY <2>3, <2>4
<1>5. CASE spend.preimage = funded.hash /\ Ran(5, << Signature >>, "run")
  <2>1. OpPush
    BY <1>5, NextAt DEF Ran
  <2>2. Continue(Append(stack, KeyOf(funded.claimer)), cond)
    BY <1>5, <2>1, ScriptTable DEF OpPush, KeyOf, Ran
  <2>3. To(6, << Signature, KeyOf(funded.claimer) >>, "run")
    <3>1. Append(<< Signature >>, KeyOf(funded.claimer)) = << Signature, KeyOf(funded.claimer) >>
      BY OneItem, TwoItems, ThreeItems
    <3>2. QED
      BY <1>5, <2>2, <3>1 DEF Ran, Continue, To, Goes
  <2>4. QED
    BY <1>0, <1>5, <2>3 DEF To, Ran
<1>6. CASE spend.preimage = funded.hash /\ Ran(6, << Signature, KeyOf(funded.claimer) >>, "run")
  <2>1. OpCheckSig
    BY <1>6, NextAt DEF Ran
  <2>2. /\ Top = KeyOf(funded.claimer) /\ Last(Pop) = Signature
        /\ Front(Pop) = <<>> /\ Len(stack) >= 2
    <3>1. stack = << Signature, KeyOf(funded.claimer) >>
      BY <1>6 DEF Ran
    <3>2. /\ Top = KeyOf(funded.claimer) /\ Pop = << Signature >>
          /\ Len(stack) >= 2
      BY <3>1, TwoItems DEF Top, Pop
    <3>3. QED
      BY <3>2, OneItem
  <2>3. Top.value = funded.claimer
    BY <2>2, ItemFacts DEF KeyOf
  <2>4. CASE spend.signer = funded.claimer
    <3>1. Last(Pop) = Item("sig", Top.value)
      BY <2>2, <2>3, <2>4 DEF Signature
    <3>2. Continue(Append(<<>>, Yes), cond)
      BY <2>1, <2>2, <3>1 DEF OpCheckSig, Yes
    <3>3. To(7, << Yes >>, "run")
      <4>1. Append(<<>>, Yes) = << Yes >>
        BY OneItem, TwoItems, ThreeItems
      <4>2. QED
        BY <1>6, <3>2, <4>1 DEF Ran, Continue, To, Goes
    <3>4. QED
      BY <1>0, <1>6, <2>4, <3>3 DEF To, Ran
  <2>5. CASE spend.signer # funded.claimer
    <3>1. Last(Pop) # Item("sig", Top.value)
      BY <2>2, <2>3, <2>5, ItemFacts DEF Signature
    <3>2. Reject
      BY <2>1, <3>1 DEF OpCheckSig
    <3>3. QED
      BY <2>5, <3>2 DEF Reject, Fails, Contract
  <2>6. QED
    BY <2>4, <2>5
<1>7. CASE /\ spend.preimage = funded.hash /\ spend.signer = funded.claimer
           /\ Ran(7, << Yes >>, "run")
  <2>1. OpElse
    BY <1>7, NextAt DEF Ran
  <2>2. Continue(stack, "skip")
    BY <1>7, <2>1 DEF OpElse, Ran
  <2>3. To(8, << Yes >>, "skip")
    BY <1>7, <2>2, ContinueIs DEF Ran
  <2>4. QED
    BY <1>0, <1>7, <2>3 DEF To, Ran
<1>8. CASE /\ spend.preimage = funded.hash /\ spend.signer = funded.claimer
           /\ pc \in 8..12 /\ Ran(pc, << Yes >>, "skip")
  <2>1. Skip
    BY <1>8, NextAt DEF Ran
  <2>2. Continue(stack, "skip")
    BY <1>8, <2>1 DEF Skip, Ran
  <2>3. To(pc + 1, << Yes >>, "skip") /\ pc + 1 \in 8..13
    BY <1>8, <2>2, ContinueIs DEF Ran
  <2>4. QED
    BY <1>0, <1>8, <2>3 DEF To, Ran
<1>9. CASE /\ spend.preimage = funded.hash /\ spend.signer = funded.claimer
           /\ pc = 13 /\ Ran(pc, << Yes >>, "skip")
  <2>1. OpEndIf
    BY <1>9, NextAt DEF Ran
  <2>2. Continue(stack, "none")
    BY <1>9, <2>1 DEF OpEndIf, Ran
  <2>3. To(14, << Yes >>, "none")
    BY <1>9, <2>2, ContinueIs DEF Ran
  <2>4. QED
    BY <1>0, <1>9, <2>3 DEF To, Ran
<1>10. CASE /\ spend.preimage = funded.hash /\ spend.signer = funded.claimer
            /\ Ran(14, << Yes >>, "none")
  <2>1. Finish
    BY <1>10, NextAt DEF Ran
  <2>2. Wins
    BY <1>10, <2>1 DEF Finish, Ran, Yes, Wins
  <2>3. QED
    BY <1>10, <2>2 DEF Contract
<1>11. QED
  <2>1. pc \in 8..13 => pc \in 8..12 \/ pc = 13
    OBVIOUS
  <2>2. QED
    BY <1>1, <1>2, <1>3, <1>4, <1>5, <1>6, <1>7, <1>8, <1>9, <1>10, <2>1 DEF ClaimRun

(***************************************************************************)
(* The refund branch: the preimage check is skipped, the lock is compared  *)
(* and the signature is checked with the funder's key.                     *)
(***************************************************************************)
LEMMA RefundStep ==
    ASSUME Attempt, Presented, RefundRun, verdict = "pending", Next
    PROVE  \/ Goes /\ pc' # 0 /\ RefundRun'
           \/ Fails /\ ~Contract
           \/ Wins /\ Contract
<1> USE DEF RefundRun, Presented
<1> spend.args = funded /\ spend.branch = "refund" /\ spend.branch # "claim"
    BY DEF Presented, RefundRun
<1>0. ASSUME Goes
      PROVE  /\ Signature' = Signature /\ Yes' = Yes /\ Timeout' = Timeout
             /\ KeyOf(funded.refund)' = KeyOf(funded.refund)
             /\ CheckSequenceVerify(funded.csv, spend.sequence)' =
                    CheckSequenceVerify(funded.csv, spend.sequence)
             /\ spend' = spend /\ funded' = funded
    BY <1>0 DEF Goes, Signature, Timeout, Yes, KeyOf
<1>1. CASE Ran(1, << Signature, No >>, "none")
  <2>1. OpIf
    BY <1>1, NextAt DEF Ran
  <2>2. Top = No /\ Pop = << Signature >> /\ stack # <<>>
    <3>1. stack = << Signature, No >>
      BY <1>1 DEF Ran
    <3>2. QED
      BY <3>1, TwoItems DEF Top, Pop
  <2>3. No.kind = "num" /\ No.value = <<>>
    BY ItemFacts DEF No
  <2>4. Continue(<< Signature >>, "skip")
    BY <2>1, <2>2, <2>3, Selectors DEF OpIf
  <2>5. To(2, << Signature >>, "skip")
    BY <1>1, <2>4 DEF Ran, Continue, To, Goes
  <2>6. QED
    BY <1>0, <2>5 DEF To, Ran
<1>2. CASE pc \in 2..6 /\ Ran(pc, << Signature >>, "skip")
  <2>1. Skip
    BY <1>2, NextAt DEF Ran
  <2>2. Continue(stack, "skip")
    BY <1>2, <2>1 DEF Skip, Ran
  <2>3. To(pc + 1, << Signature >>, "skip") /\ pc + 1 \in 2..7
    BY <1>2, <2>2 DEF Ran, Continue, To, Goes
  <2>4. QED
    BY <1>0, <2>3 DEF To, Ran
<1>3. CASE pc = 7 /\ Ran(pc, << Signature >>, "skip")
  <2>1. OpElse
    BY <1>3, NextAt DEF Ran
  <2>2. Continue(stack, "run")
    BY <1>3, <2>1 DEF OpElse, Ran
  <2>3. To(8, << Signature >>, "run")
    BY <1>3, <2>2 DEF Ran, Continue, To, Goes
  <2>4. QED
    BY <1>0, <2>3 DEF To, Ran
<1>4. CASE Ran(8, << Signature >>, "run")
  <2>1. OpPush
    BY <1>4, NextAt DEF Ran
  <2>2. Continue(Append(stack, Timeout), cond)
    BY <1>4, <2>1, ScriptTable DEF OpPush, Timeout, Ran
  <2>3. To(9, << Signature, Timeout >>, "run")
    <3>1. Append(<< Signature >>, Timeout) = << Signature, Timeout >>
      BY TwoItems
    <3>2. QED
      BY <1>4, <2>2, <3>1 DEF Ran, Continue, To, Goes
  <2>4. QED
    BY <1>0, <2>3 DEF To, Ran
<1>5. CASE Ran(9, << Signature, Timeout >>, "run")
  <2>1. OpCsv
    BY <1>5, NextAt DEF Ran
  <2>2. Top = Timeout
    <3>1. stack = << Signature, Timeout >>
      BY <1>5 DEF Ran
    <3>2. QED
      BY <3>1, TwoItems DEF Top
  <2>3. Top.value = PushScriptNum(funded.csv)
    BY <2>2, ItemFacts DEF Timeout
  <2>4. Len(Top.value) =< MaxNumBytes /\ ScriptNum(Top.value) = funded.csv
    <3>1. funded.csv \in Delays
      BY DEF Attempt, Params
    <3>2. QED
      BY <2>3, <3>1, NumberReadBack
  <2>5. CASE CheckSequenceVerify(funded.csv, spend.sequence)
    <3>1. Continue(stack, cond)
      BY <2>1, <2>4, <2>5 DEF OpCsv
    <3>2. To(10, << Signature, Timeout >>, "run")
      BY <1>5, <3>1 DEF Ran, Continue, To, Goes
    <3>3. QED
      BY <1>0, <2>5, <3>2 DEF To, Ran
  <2>6. CASE ~CheckSequenceVerify(funded.csv, spend.sequence)
    <3>1. Reject
      BY <2>1, <2>4, <2>6 DEF OpCsv
    <3>2. QED
      BY <2>6, <3>1 DEF Reject, Fails, Contract
  <2>7. QED
    BY <2>5, <2>6
<1>6. CASE /\ CheckSequenceVerify(funded.csv, spend.sequence)
           /\ Ran(10, << Signature, Timeout >>, "run")
  <2>1. OpDrop
    BY <1>6, NextAt DEF Ran
  <2>2. Pop = << Signature >>
    <3>1. stack = << Signature, Timeout >>
      BY <1>6 DEF Ran
    <3>2. QED
      BY <3>1, TwoItems DEF Pop
  <2>3. Continue(<< Signature >>, cond)
    BY <2>1, <2>2 DEF OpDrop
  <2>4. To(11, << Signature >>, "run")
    BY <1>6, <2>3 DEF Ran, Continue, To, Goes
  <2>5. QED
    BY <1>0, <1>6, <2>4 DEF To, Ran
<1>7. CASE /\ CheckSequenceVerify(funded.csv, spend.sequence)
           /\ Ran(11, << Signature >>, "run")
  <2>1. OpPush
    BY <1>7, NextAt DEF Ran
  <2>2. Continue(Append(stack, KeyOf(funded.refund)), cond)
    BY <1>7, <2>1, ScriptTable DEF OpPush, KeyOf, Ran
  <2>3. To(12, << Signature, KeyOf(funded.refund) >>, "run")
    <3>1. Append(<< Signature >>, KeyOf(funded.refund)) = << Signature, KeyOf(funded.refund) >>
      BY TwoItems
    <3>2. QED
      BY <1>7, <2>2, <3>1 DEF Ran, Continue, To, Goes
  <2>4. QED
    BY <1>0, <1>7, <2>3 DEF To, Ran
<1>8. CASE /\ CheckSequenceVerify(funded.csv, spend.sequence)
           /\ Ran(12, << Signature, KeyOf(funded.refund) >>, "run")
  <2>1. OpCheckSig
    BY <1>8, NextAt DEF Ran
  <2>2. /\ Top = KeyOf(funded.refund) /\ Last(Pop) = Signature
        /\ Front(Pop) = <<>> /\ Len(stack) >= 2
    <3>1. stack = << Signature, KeyOf(funded.refund) >>
      BY <1>8 DEF Ran
    <3>2. /\ Top = KeyOf(funded.refund) /\ Pop = << Signature >>
          /\ Len(stack) >= 2
      BY <3>1, TwoItems DEF Top, Pop
    <3>3. QED
      BY <3>2, OneItem
  <2>3. Top.value = funded.refund
    BY <2>2, ItemFacts DEF KeyOf
  <2>4. CASE spend.signer = funded.refund
    <3>1. Last(Pop) = Item("sig", Top.value)
      BY <2>2, <2>3, <2>4 DEF Signature
    <3>2. Continue(Append(<<>>, Yes), cond)
      BY <2>1, <2>2, <3>1 DEF OpCheckSig, Yes
    <3>3. To(13, << Yes >>, "run")
      <4>1. Append(<<>>, Yes) = << Yes >>
        BY OneItem
      <4>2. QED
        BY <1>8, <3>2, <4>1 DEF Ran, Continue, To, Goes
    <3>4. QED
      BY <1>0, <1>8, <2>4, <3>3 DEF To, Ran
  <2>5. CASE spend.signer # funded.refund
    <3>1. Last(Pop) # Item("sig", Top.value)
      BY <2>2, <2>3, <2>5, ItemFacts DEF Signature
    <3>2. Reject
      BY <2>1, <3>1 DEF OpCheckSig
    <3>3. QED
      BY <2>5, <3>2 DEF Reject, Fails, Contract
  <2>6. QED
    BY <2>4, <2>5
<1>9. CASE /\ CheckSequenceVerify(funded.csv, spend.sequence)
           /\ spend.signer = funded.refund /\ Ran(13, << Yes >>, "run")
  <2>1. OpEndIf
    BY <1>9, NextAt DEF Ran
  <2>2. Continue(stack, "none")
    BY <1>9, <2>1 DEF OpEndIf, Ran
  <2>3. To(14, << Yes >>, "none")
    BY <1>9, <2>2 DEF Ran, Continue, To, Goes
  <2>4. QED
    BY <1>0, <1>9, <2>3 DEF To, Ran
<1>10. CASE /\ CheckSequenceVerify(funded.csv, spend.sequence)
            /\ spend.signer = funded.refund /\ Ran(14, << Yes >>, "none")
  <2>1. Finish
    BY <1>10, NextAt DEF Ran
  <2>2. Wins
    BY <1>10, <2>1 DEF Finish, Ran, Yes, Wins
  <2>3. QED
    BY <1>10, <2>2 DEF Contract
<1>11. QED
  <2>1. pc \in 2..7 => pc \in 2..6 \/ pc = 7
    OBVIOUS
  <2>2. QED
    BY <1>1, <1>2, <1>3, <1>4, <1>5, <1>6, <1>7, <1>8, <1>9, <1>10, <2>1 DEF RefundRun

(***************************************************************************)
(* The first step hashes the script and looks at the sequence.             *)
(***************************************************************************)
LEMMA StartStep ==
    ASSUME Attempt, verdict = "pending", pc = 0, Next
    PROVE  \/ Goes /\ pc' # 0 /\ Presented' /\ (ClaimRun \/ RefundRun)'
           \/ Fails /\ ~Contract
<1>1. Start
    BY DEF Next, OpIf, OpElse, OpEndIf, Skip, OpPush, OpSha256, OpEqualVerify, OpCsv,
           OpDrop, OpCheckSig, Finish, Executes, Script, HtlcWitnessScript
<1>2. CASE Presented
  <2>1. Continue(HtlcWitnessStack(spend), "none")
    BY <1>1, <1>2 DEF Start, Presented
  <2>2. To(1, HtlcWitnessStack(spend), "none")
    BY <2>1 DEF Continue, To, Goes
  <2>3. spend' = spend /\ funded' = funded
    BY <2>2 DEF To, Goes
  <2>4. Presented'
    BY <1>2, <2>3 DEF Presented
  <2>5. CASE spend.branch = "claim"
    <3>1. HtlcWitnessStack(spend) = << Signature, Secret, Yes >>
      BY <2>5 DEF HtlcWitnessStack, Signature, Secret, Yes
    <3>2. (<< Signature, Secret, Yes >>)' = << Signature, Secret, Yes >>
      BY <2>3 DEF Signature, Secret, Yes
    <3>3. ClaimRun'
      BY <2>2, <2>3, <2>5, <3>1, <3>2 DEF ClaimRun, Ran, To
    <3>4. QED
      BY <2>2, <2>4, <3>3 DEF To
  <2>6. CASE spend.branch = "refund"
    <3>1. HtlcWitnessStack(spend) = << Signature, No >>
      BY <2>6 DEF HtlcWitnessStack, Signature, No
    <3>2. (<< Signature, No >>)' = << Signature, No >>
      BY <2>3 DEF Signature, No
    <3>3. RefundRun'
      BY <2>2, <2>3, <2>6, <3>1, <3>2 DEF RefundRun, Ran, To
    <3>4. QED
      BY <2>2, <2>4, <3>3 DEF To
  <2>7. QED
    BY <2>5, <2>6 DEF Attempt, Branch
<1>3. CASE ~Presented
  <2>1. Reject
    BY <1>1, <1>3 DEF Start, Presented
  <2>2. QED
    BY <1>3, <2>1 DEF Reject, Fails, Contract, Presented
<1>4. QED
    BY <1>2, <1>3

(***************************************************************************)
(* The invariant holds at first and is kept by every step.                 *)
(***************************************************************************)
LEMMA ScriptInit == Init => ScriptInv
<1> SUFFICES ASSUME Init PROVE ScriptInv
    OBVIOUS
<1>1. funded \in Params /\ spend \in Spends(funded) /\ pc = 0 /\ verdict = "pending"
    BY DEF Init
<1>2. PICK a \in {funded} \cup { [funded EXCEPT !.csv = d] : d \in Delays },
           b \in Branch, p \in Preimages, k \in Keys,
           q \in Sequences \cup {HtlcSequence("claim", funded.csv),
                                 HtlcSequence("refund", funded.csv)},
           n \in Ages, t \in Ages :
              spend = [args |-> a, branch |-> b, preimage |-> p, signer |-> k,
                       sequence |-> q, blocks |-> n, periods |-> t]
    BY <1>1 DEF Spends
<1>3. a \in Params
    BY <1>1, <1>2 DEF Params
<1>4. q \in Nat
  <2>1. funded.csv \in Nat
    BY <1>1, ScriptWidths, LockWidths DEF Params
  <2>2. HtlcSequence("claim", funded.csv) \in Nat /\ HtlcSequence("refund", funded.csv) \in Nat
    BY <2>1, LockWidths DEF HtlcSequence
  <2>3. Sequences \subseteq Nat
    BY ScriptWidths, LockWidths
  <2>4. QED
    BY <1>2, <2>2, <2>3
<1>5. n \in Nat /\ t \in Nat
    BY <1>2, ScriptWidths
<1>6. /\ spend.args = a /\ spend.branch = b /\ spend.sequence = q
      /\ spend.blocks = n /\ spend.periods = t
    BY <1>2
<1>7. QED
    BY <1>1, <1>2, <1>3, <1>4, <1>5, <1>6 DEF ScriptInv, Attempt

LEMMA ScriptStep == ScriptInv /\ [Next]_vars => ScriptInv'
<1> SUFFICES ASSUME ScriptInv, [Next]_vars PROVE ScriptInv'
    OBVIOUS
<1>1. ASSUME UNCHANGED <<funded, spend>>
      PROVE  Attempt' /\ Contract' = Contract
    BY <1>1 DEF ScriptInv, Attempt, Contract
<1>2. CASE UNCHANGED vars
  <2>1. /\ UNCHANGED <<funded, spend>>
        /\ pc' = pc /\ stack' = stack /\ cond' = cond /\ verdict' = verdict
    BY <1>2 DEF vars
  <2>2. /\ Presented' = Presented /\ ClaimRun' = ClaimRun /\ RefundRun' = RefundRun
    BY <2>1 DEF Presented, ClaimRun, RefundRun, Ran, Signature, Secret, Digest, KeyOf,
                Timeout, Yes, No
  <2>3. QED
    BY <1>1, <2>1, <2>2 DEF ScriptInv
<1>3. CASE Next
  <2>1. verdict = "pending"
    BY <1>3 DEF Next, Start, OpIf, OpElse, OpEndIf, Skip, OpPush, OpSha256,
       OpEqualVerify, OpCsv, OpDrop, OpCheckSig, Executes, Finish
  <2>2. \/ Goes /\ pc' # 0 /\ Presented' /\ (ClaimRun \/ RefundRun)'
        \/ Fails /\ ~Contract
        \/ Wins /\ Contract
    <3>1. CASE pc = 0
      BY <1>3, <2>1, <3>1, StartStep DEF ScriptInv
    <3>2. CASE pc # 0
      <4>1. Presented /\ (ClaimRun \/ RefundRun)
        BY <2>1, <3>2 DEF ScriptInv
      <4>2. Goes => Presented'
        BY <4>1 DEF Goes, Presented
      <4>3. QED
        BY <1>3, <2>1, <4>1, <4>2, ClaimStep, RefundStep DEF ScriptInv
    <3>3. QED
      BY <3>1, <3>2
  <2>3. CASE Goes /\ pc' # 0 /\ Presented' /\ (ClaimRun \/ RefundRun)'
    BY <1>1, <2>1, <2>3 DEF Goes, ScriptInv
  <2>4. CASE Fails /\ ~Contract
    BY <1>1, <2>4 DEF Fails, ScriptInv
  <2>5. CASE Wins /\ Contract
    BY <1>1, <2>5 DEF Wins, ScriptInv
  <2>6. QED
    BY <2>2, <2>3, <2>4, <2>5
<1>4. QED
    BY <1>2, <1>3

(***************************************************************************)
(* A number within the 16 bits of BIP-68 has no flag and is its own value. *)
(***************************************************************************)
LEMMA NoFlags ==
    ASSUME NEW n \in Nat, n < ValueMod
    PROVE  ~HasFlag(n, TypeFlag) /\ ~HasFlag(n, DisableFlag) /\ n % ValueMod = n
<1>1. /\ ValueMod \in Nat /\ TypeFlag \in Nat /\ DisableFlag \in Nat
      /\ ValueMod < TypeFlag /\ TypeFlag < DisableFlag
    BY LockWidths
<1>2. ASSUME NEW d \in Nat, n < d
      PROVE  n \div d = 0 /\ n % d = n
  <2> DEFINE q == n \div d
             r == n % d
  <2>1. q \in Nat /\ r \in 0..(d - 1) /\ n = d * q + r
    BY <1>2
  <2> HIDE DEF q, r
  <2>2. q = 0
    <3>1. q >= 1 => d * q >= d
      BY <2>1
    <3>2. QED
      BY <1>2, <2>1, <3>1
  <2>3. r = n
    BY <1>2, <2>1, <2>2
  <2>4. QED
    BY <2>2, <2>3 DEF q, r
<1>3. n % ValueMod = n /\ n \div TypeFlag = 0 /\ n \div DisableFlag = 0
    BY <1>1, <1>2
<1>4. QED
    BY <1>3 DEF HasFlag

(***************************************************************************)
(* htlc.rs: the bytes of the script and of the witness mean the documented *)
(* contract, for every delay a script number can carry.                    *)
(***************************************************************************)
THEOREM ScriptMeansContract == Spec => []ScriptIsContract
<1>1. ScriptInv => ScriptIsContract
    BY DEF ScriptInv, ScriptIsContract
<1>2. QED
    BY <1>1, ScriptInit, ScriptStep, PTL DEF Spec

(***************************************************************************)
(* htlc.rs: nobody takes the timeout branch before csv_delay blocks, for   *)
(* every delay that fits the 16 bits of BIP-68 and any sequence at all.    *)
(***************************************************************************)
THEOREM RefundsWait == Spec => []NoEarlyRefund
<1>1. ScriptInv => NoEarlyRefund
  <2> SUFFICES ASSUME ScriptInv, verdict = "accept", spend.branch = "refund",
                      funded.csv < ValueMod
               PROVE  spend.blocks >= funded.csv
    BY DEF NoEarlyRefund
  <2>1. /\ SequenceSatisfied(spend.sequence, spend.blocks, spend.periods)
        /\ CheckSequenceVerify(funded.csv, spend.sequence)
    BY DEF ScriptInv, Contract
  <2>2. funded.csv \in Nat /\ spend.blocks \in Nat /\ spend.sequence \in Nat
    <3>1. funded \in Params /\ spend.blocks \in Nat /\ spend.sequence \in Nat
      BY DEF ScriptInv, Attempt
    <3>2. funded.csv \in Delays
      BY <3>1 DEF Params
    <3>3. Delays \subseteq Nat
      BY ScriptWidths, LockWidths
    <3>4. QED
      BY <3>1, <3>2, <3>3
  <2>3. /\ ~HasFlag(funded.csv, TypeFlag) /\ ~HasFlag(funded.csv, DisableFlag)
        /\ funded.csv % ValueMod = funded.csv
    BY <2>2, NoFlags
  <2>4. /\ ~HasFlag(spend.sequence, DisableFlag) /\ ~HasFlag(spend.sequence, TypeFlag)
        /\ funded.csv <= spend.sequence % ValueMod
    BY <2>1, <2>3 DEF CheckSequenceVerify
  <2>5. spend.blocks >= spend.sequence % ValueMod
    BY <2>1, <2>4 DEF SequenceSatisfied
  <2>6. spend.sequence % ValueMod \in Nat
    BY <2>2, LockWidths
  <2>7. QED
    BY <2>2, <2>4, <2>5, <2>6
<1>2. QED
    BY <1>1, ScriptInit, ScriptStep, PTL DEF Spec

(***************************************************************************)
(* htlc.rs: the refund build_btc_htlc_spend makes is accepted from         *)
(* csv_delay blocks on.                                                    *)
(***************************************************************************)
THEOREM RefundsAreServed == Spec => []RefundAvailable
<1>1. ScriptInv => RefundAvailable
  <2> SUFFICES ASSUME ScriptInv, spend.args = funded, spend.branch = "refund",
                      spend.signer = funded.refund,
                      spend.sequence = HtlcSequence("refund", funded.csv),
                      funded.csv < ValueMod, spend.blocks >= funded.csv
               PROVE  Contract
    BY DEF ScriptInv, RefundAvailable
  <2>1. funded.csv \in Nat /\ spend.sequence = funded.csv
    BY ScriptWidths, LockWidths DEF ScriptInv, Attempt, Params, HtlcSequence
  <2>2. /\ ~HasFlag(funded.csv, TypeFlag) /\ ~HasFlag(funded.csv, DisableFlag)
        /\ funded.csv % ValueMod = funded.csv
    BY <2>1, NoFlags
  <2>3. SequenceSatisfied(spend.sequence, spend.blocks, spend.periods)
    BY <2>1, <2>2 DEF SequenceSatisfied
  <2>4. CheckSequenceVerify(funded.csv, spend.sequence)
    BY <2>1, <2>2 DEF CheckSequenceVerify
  <2>5. QED
    BY <2>3, <2>4 DEF Contract
<1>2. QED
    BY <1>1, ScriptInit, ScriptStep, PTL DEF Spec
-----------------------------------------------------------------------------
(***************************************************************************)
(* The satoshis: a spend that is mined costs the fee it was asked to cost, *)
(* wrapped sums included.                                                  *)
(***************************************************************************)
\* A printed transaction is what the checks of the command let through.
PrintedFits ==
    stage \in {"printed", "mined", "rejected"} =>
        /\ Leaves(call) /\ Fits(call)
        /\ tx = [anchor |-> call.anchor, dest |-> OutputValue(call),
                 fee |-> IF Chain = "liquid" THEN call.fee ELSE 0]

MinedAccepted == stage = "mined" => NodeAccepts

OnlyBadCallsFail == stage \in {"refused", "panicked", "rejected"} => ~GoodCall

ValuesInv ==
    /\ TypeOK
    /\ Kind = "hashlock" => call.anchor = None
    /\ PrintedFits
    /\ MinedAccepted
    /\ OnlyBadCallsFail

(***************************************************************************)
(* The arguments of a command.                                             *)
(***************************************************************************)
LEMMA CallParts ==
    ASSUME NEW c \in Call
    PROVE  /\ c.input \in Nat /\ c.input < U64
           /\ c.fee \in Nat /\ c.fee < U64
           /\ Value(c.anchor) \in Nat /\ Value(c.anchor) < U64
           /\ c.anchor # None => Value(c.anchor) = c.anchor
           /\ c.command \in { <<"htlc", "bitcoin">>, <<"htlc", "liquid">>,
                              <<"hashlock", "bitcoin">>, <<"hashlock", "liquid">> }
<1>1. U64 \in Nat /\ U64 > 0 /\ None \notin Nat
    BY AmountWidths
<1>2. c.input \in Amount /\ c.fee \in Amount /\ c.anchor \in Amount \cup {None}
    BY DEF Call
<1>3. /\ c.command \in { <<"htlc", "bitcoin">>, <<"htlc", "liquid">>,
                         <<"hashlock", "bitcoin">>, <<"hashlock", "liquid">> }
    BY DEF Call, Commands
<1>4. QED
    BY <1>1, <1>2, <1>3 DEF Amount, Value

(***************************************************************************)
(* What is left for the destination is an amount.                          *)
(***************************************************************************)
LEMMA OutputInRange ==
    ASSUME NEW c \in Call, Leaves(c)
    PROVE  OutputValue(c) \in Amount
<1>1. U64 \in Nat
    BY AmountWidths
<1>2. QED
    BY <1>1, CallParts DEF Leaves, OutputValue, Taken, Wrap, Amount

(***************************************************************************)
(* A good call leaves something, fits, overflows nowhere, and its          *)
(* transaction is one the node accepts.                                    *)
(***************************************************************************)
LEMMA GoodCallFits ==
    ASSUME TypeOK, Kind = "hashlock" => call.anchor = None, GoodCall
    PROVE  /\ Leaves(call) /\ Fits(call) /\ ~Overflows(call)
           /\ OutputValue(call) =
                 IF Pays(call) THEN call.input ELSE coin - call.fee - Value(call.anchor)
<1>1. /\ U64 \in Nat /\ MaxMoney \in Nat /\ MaxMoney < U64
      /\ coin \in Nat /\ coin <= MaxMoney /\ coin > 0
      /\ call \in Call
    BY AmountWidths DEF TypeOK
<1>2. CASE Pays(call)
    BY <1>1, <1>2 DEF Pays, Leaves, Fits, Overflows, OutputValue, Kind
<1>3. CASE ~Pays(call)
  <2>1. call.input = coin /\ Taken(call) < coin
    BY <1>3 DEF GoodCall
  <2>2. Taken(call) = call.fee + Value(call.anchor) /\ Taken(call) \in Nat
    BY <1>1, CallParts DEF Taken
  <2>3. Wrap(Taken(call)) = Taken(call)
    BY <1>1, <2>1, <2>2 DEF Wrap
  <2>4. OutputValue(call) = coin - Taken(call) /\ Leaves(call)
    BY <1>1, <1>3, <2>1, <2>2, <2>3 DEF OutputValue, Leaves
  <2>5. Outputs(call) = coin - call.fee /\ call.fee > 0
    BY <1>1, <2>2, <2>4, CallParts DEF Outputs, GoodCall
  <2>6. Wrap(Outputs(call)) = coin - call.fee /\ Wrap(Wrap(Outputs(call)) + call.fee) = coin
    BY <1>1, <2>1, <2>2, <2>5, CallParts DEF Wrap
  <2>7. Fits(call)
    BY <1>1, <1>3, <2>1, <2>5, <2>6, CallParts DEF Fits, Pays
  <2>8. ~Overflows(call)
    BY <1>1, <2>1, <2>2, <2>5, <2>6, CallParts DEF Overflows
  <2>9. QED
    BY <1>1, <1>3, <2>2, <2>4, <2>7, <2>8, CallParts
<1>4. QED
    BY <1>2, <1>3

LEMMA GoodCallAccepted ==
    ASSUME TypeOK, Kind = "hashlock" => call.anchor = None, PrintedFits, GoodCall,
           stage = "printed"
    PROVE  NodeAccepts
<1>1. /\ U64 \in Nat /\ MaxMoney \in Nat /\ MaxMoney < U64
      /\ coin \in Nat /\ coin <= MaxMoney /\ coin > 0
      /\ call \in Call
    BY AmountWidths DEF TypeOK
<1>2. tx = [anchor |-> call.anchor, dest |-> OutputValue(call),
            fee |-> IF Chain = "liquid" THEN call.fee ELSE 0]
    BY DEF PrintedFits
<1>3. /\ tx.anchor = call.anchor
      /\ tx.dest = OutputValue(call)
      /\ tx.fee = IF Chain = "liquid" THEN call.fee ELSE 0
    BY <1>2
<1>4. OutputValue(call) =
          IF Pays(call) THEN call.input ELSE coin - call.fee - Value(call.anchor)
    BY GoodCallFits
<1>5. CASE Pays(call)
  <2>1. Kind = "hashlock" /\ Chain = "liquid" /\ Value(call.anchor) = 0
    BY <1>5 DEF Pays, Kind, Chain, Value
  <2>2. call.input > 0 /\ call.input + call.fee = coin /\ call.fee > 0 /\ call.anchor # 0
    BY <1>5 DEF GoodCall
  <2>3. QED
    BY <1>1, <1>3, <1>4, <1>5, <2>1, <2>2, CallParts DEF NodeAccepts
<1>6. CASE ~Pays(call)
  <2>1. /\ call.input = coin /\ call.fee + Value(call.anchor) < coin
        /\ call.fee > 0 /\ call.anchor # 0
    BY <1>6 DEF GoodCall, Taken
  <2>2. /\ call.fee \in Nat /\ Value(call.anchor) \in Nat
    BY <1>1, CallParts
  <2>3. /\ tx.dest = coin - call.fee - Value(call.anchor)
        /\ tx.dest > 0 /\ tx.dest <= MaxMoney
        /\ tx.fee <= MaxMoney /\ Value(tx.anchor) <= MaxMoney
    BY <1>1, <1>3, <1>4, <1>6, <2>1, <2>2
  <2>4. QED
    BY <1>1, <1>3, <2>1, <2>2, <2>3 DEF NodeAccepts
<1>7. QED
    BY <1>5, <1>6

(***************************************************************************)
(* A mined spend costs what was asked.  A sum that wrapped would make the  *)
(* outputs exceed the input by the width of an amount.                     *)
(***************************************************************************)
LEMMA MinedFeeExact ==
    ASSUME ValuesInv, stage = "mined"
    PROVE  tx.anchor = call.anchor /\ FeePaid = call.fee + Misstated
<1>1. /\ U64 \in Nat /\ MaxMoney \in Nat /\ MaxMoney < U64
      /\ coin \in Nat /\ coin <= MaxMoney /\ coin > 0
      /\ call \in Call
    BY AmountWidths DEF ValuesInv, TypeOK
<1>2. /\ tx.anchor = call.anchor
      /\ tx.dest = OutputValue(call)
      /\ tx.fee = IF Chain = "liquid" THEN call.fee ELSE 0
      /\ Leaves(call)
    BY DEF ValuesInv, PrintedFits
<1>3. NodeAccepts
    BY DEF ValuesInv, MinedAccepted
<1>4. CASE call.command = <<"hashlock", "liquid">>
  <2>1. Chain = "liquid" /\ Kind = "hashlock" /\ call.command # <<"hashlock", "bitcoin">>
    BY <1>4 DEF Chain, Kind
  <2>2. Value(tx.anchor) + tx.dest + tx.fee = coin /\ tx.fee = call.fee
    BY <1>2, <1>3, <2>1 DEF NodeAccepts
  <2>3. tx.dest = call.input
    BY <1>2, <1>4 DEF OutputValue, Pays
  <2>4. QED
    BY <1>1, <1>2, <2>1, <2>2, <2>3, CallParts DEF FeePaid, Misstated
<1>5. CASE call.command = <<"htlc", "liquid">>
  <2>1. Chain = "liquid" /\ call.command # <<"hashlock", "bitcoin">>
    BY <1>5 DEF Chain
  <2>2. Value(tx.anchor) + tx.dest + tx.fee = coin /\ tx.fee = call.fee
    BY <1>2, <1>3, <2>1 DEF NodeAccepts
  <2>3. tx.dest \in Nat
    BY <1>1, <1>2, OutputInRange DEF Amount
  <2>4. QED
    BY <1>1, <1>2, <2>1, <2>2, <2>3, CallParts DEF FeePaid, Misstated
<1>6. CASE call.command \in {<<"htlc", "bitcoin">>, <<"hashlock", "bitcoin">>}
  <2>1. /\ Chain = "bitcoin" /\ ~Pays(call)
        /\ call.command = <<"htlc", "bitcoin">> => Kind = "htlc"
    BY <1>6 DEF Chain, Pays, Kind
  <2>2. /\ Value(tx.anchor) + tx.dest <= coin
        /\ tx.dest <= MaxMoney
        /\ Kind = "htlc" => call.input = coin
    BY <1>3, <2>1 DEF NodeAccepts
  <2>3. tx.dest = call.input - Wrap(Taken(call))
    BY <1>2, <2>1 DEF OutputValue
  <2>4. Taken(call) = call.fee + Value(call.anchor) /\ Taken(call) \in Nat
    BY <1>1, CallParts DEF Taken
  <2>5. Taken(call) < U64
    <3>1. CASE call.command = <<"htlc", "bitcoin">>
      <4> SUFFICES ASSUME Taken(call) >= U64 PROVE FALSE
        BY <1>1, <2>4
      <4>1. Wrap(Taken(call)) = Taken(call) - U64
        BY <1>1, <2>4 DEF Wrap
      <4>2. Value(call.anchor) + tx.dest = coin - call.fee + U64
        BY <1>1, <2>1, <2>2, <2>3, <2>4, <3>1, <4>1, CallParts
      <4>3. QED
        BY <1>1, <1>2, <2>2, <4>2, CallParts
    <3>2. CASE call.command = <<"hashlock", "bitcoin">>
      <4>1. Value(call.anchor) = 0
        BY <3>2 DEF ValuesInv, Kind, Value
      <4>2. QED
        BY <1>1, <2>4, <4>1, CallParts
    <3>3. QED
      BY <1>6, <3>1, <3>2
  <2>6. tx.dest = call.input - call.fee - Value(call.anchor)
    BY <1>1, <2>3, <2>4, <2>5, CallParts DEF Wrap
  <2>7. CASE call.command = <<"htlc", "bitcoin">>
    BY <1>1, <1>2, <2>1, <2>2, <2>6, <2>7, CallParts DEF FeePaid, Misstated
  <2>8. CASE call.command = <<"hashlock", "bitcoin">>
    BY <1>1, <1>2, <2>6, <2>8, CallParts DEF FeePaid, Misstated
  <2>9. QED
    BY <1>6, <2>7, <2>8
<1>7. QED
    BY <1>1, <1>4, <1>5, <1>6, CallParts

(***************************************************************************)
(* The invariant holds at first and is kept by every step.                 *)
(***************************************************************************)
LEMMA ValuesInit == ValueInit => ValuesInv
<1>1. U64 \in Nat /\ U64 > 0
    BY AmountWidths
<1>2. NoTx \in [anchor : Amount \cup {None}, dest : Amount, fee : Amount]
    BY <1>1 DEF NoTx, Amount
<1>3. QED
    BY <1>2 DEF ValueInit, ValuesInv, TypeOK, Kind, PrintedFits, MinedAccepted, OnlyBadCallsFail

LEMMA ValuesStep == ValuesInv /\ [ValueNext]_ValueVars => ValuesInv'
<1> SUFFICES ASSUME ValuesInv, [ValueNext]_ValueVars PROVE ValuesInv'
    OBVIOUS
<1> USE DEF ValuesInv
<1>1. CASE Panic
  <2>1. ~GoodCall
    BY <1>1, GoodCallFits DEF Panic, Panics
  <2>2. QED
    BY <1>1, <2>1 DEF Panic, TypeOK, Kind, PrintedFits, MinedAccepted, OnlyBadCallsFail,
                      GoodCall, Pays, Taken
<1>2. CASE Refuse
  <2>1. ~GoodCall
    BY <1>2, GoodCallFits DEF Refuse
  <2>2. QED
    BY <1>2, <2>1 DEF Refuse, TypeOK, Kind, PrintedFits, MinedAccepted, OnlyBadCallsFail,
                      GoodCall, Pays, Taken
<1>3. CASE Build
  <2>1. /\ stage' = "printed"
        /\ UNCHANGED <<coin, build, call>>
        /\ Leaves(call) /\ Fits(call)
        /\ tx' = [anchor |-> call.anchor, dest |-> OutputValue(call),
                  fee |-> IF Chain = "liquid" THEN call.fee ELSE 0]
    BY <1>3 DEF Build
  <2>2. /\ call.anchor \in Amount \cup {None} /\ call.fee \in Amount /\ 0 \in Amount
        /\ OutputValue(call) \in Amount
    BY <2>1, OutputInRange, AmountWidths DEF TypeOK, Call, Amount
  <2>3. TypeOK'
    BY <2>1, <2>2 DEF TypeOK
  <2>4. PrintedFits'
    BY <2>1 DEF PrintedFits, Leaves, Fits, Pays, Taken, Outputs, OutputValue, Chain
  <2>5. QED
    BY <2>1, <2>3, <2>4 DEF Kind, MinedAccepted, OnlyBadCallsFail
<1>4. CASE Send
  <2>1. /\ stage = "printed"
        /\ stage' = IF NodeAccepts THEN "mined" ELSE "rejected"
        /\ UNCHANGED <<coin, build, call, tx>>
    BY <1>4 DEF Send
  <2>2. GoodCall => NodeAccepts
    BY <2>1, GoodCallAccepted
  <2>3. NodeAccepts' = NodeAccepts /\ GoodCall' = GoodCall
    BY <2>1 DEF NodeAccepts, GoodCall, Kind, Chain, Pays, Taken
  <2>4. TypeOK'
    BY <2>1 DEF TypeOK
  <2>5. PrintedFits'
    BY <2>1 DEF PrintedFits, Leaves, Fits, Pays, Taken, Outputs, OutputValue, Chain
  <2>6. MinedAccepted' /\ OnlyBadCallsFail'
    BY <2>1, <2>2, <2>3 DEF MinedAccepted, OnlyBadCallsFail
  <2>7. QED
    BY <2>1, <2>4, <2>5, <2>6 DEF Kind
<1>5. CASE UNCHANGED ValueVars
    BY <1>5 DEF ValueVars, TypeOK, PrintedFits, Leaves, Fits, Pays, Taken, Outputs,
                OutputValue, Chain, Kind, MinedAccepted, NodeAccepts, OnlyBadCallsFail, GoodCall
<1>6. QED
    BY <1>1, <1>2, <1>3, <1>4, <1>5 DEF ValueNext

(***************************************************************************)
(* The type invariant: a printed transaction holds amounts.                *)
(***************************************************************************)
THEOREM ValuesTypeCorrect == ValueSpec => []TypeOK
<1>1. ValuesInv => TypeOK
    BY DEF ValuesInv
<1>2. QED
    BY <1>1, ValuesInit, ValuesStep, PTL DEF ValueSpec

(***************************************************************************)
(* htlc-spend and swap-claim: a mined spend costs the fee asked for.       *)
(***************************************************************************)
THEOREM FeesAreAsAsked == ValueSpec => []FeeAsAsked
<1>1. ValuesInv => FeeAsAsked
    BY MinedFeeExact DEF FeeAsAsked
<1>2. QED
    BY <1>1, ValuesInit, ValuesStep, PTL DEF ValueSpec

(***************************************************************************)
(* htlc-spend and swap-claim: what can be paid is paid.                    *)
(***************************************************************************)
THEOREM GoodCallsAreServed == ValueSpec => []GoodCallsSucceed
<1>1. ValuesInv => GoodCallsSucceed
    BY DEF ValuesInv, TypeOK, OnlyBadCallsFail, GoodCallsSucceed
<1>2. QED
    BY <1>1, ValuesInit, ValuesStep, PTL DEF ValueSpec
=============================================================================
