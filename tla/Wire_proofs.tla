------------------------------ MODULE Wire_proofs ------------------------------
(***************************************************************************)
(* What is proved of the reader and the writer, for every width of the     *)
(* integers and messages of any length: a message is read back as it was   *)
(* sent, what the schema does not have is skipped wherever it stands, and  *)
(* the record of what was skipped stays within its limits and keeps no     *)
(* text.                                                                   *)
(*                                                                         *)
(* The loops are recursive functions.  Of each one is shown, by induction  *)
(* on how far it has to go, that its definition has a solution (...Exists) *)
(* and so what one turn of the loop does (...Is); the rest of the proofs   *)
(* uses these turns only.                                                  *)
(***************************************************************************)
EXTENDS WirePieces, RecordedFields, UnknownRecord, SequenceTheorems, FiniteSetTheorems,
        WellFoundedInduction, TLAPS

\* Induction, of sets instead of predicates.
LEMMA LeastNumber ==
  ASSUME NEW T \in SUBSET Nat, T # {}
  PROVE  \E n \in T : \A m \in T : n <= m
<1> DEFINE R == {ss \in Nat \X Nat : ss[1] < ss[2]}
<1>1. IsWellFoundedOn(R, Nat)
  BY NatLessThanWellFounded DEF OpToRel
<1>2. PICK n \in T : \A m \in T : <<m, n>> \notin R
  <2> HIDE DEF R
  <2> QED BY <1>1, WFMin
<1>3. ASSUME NEW m \in T PROVE n <= m
  <2>1. <<m, n>> \in Nat \X Nat
    OBVIOUS
  <2>2. ~(m < n)
    BY <1>2, <2>1
  <2> QED BY <2>2
<1> QED BY <1>3

LEMMA Induction ==
  ASSUME NEW S, 0 \in S, \A n \in Nat : n \in S => n + 1 \in S
  PROVE  \A n \in Nat : n \in S
<1> DEFINE T == {n \in Nat : n \notin S}
<1>1. CASE T # {}
  <2>1. PICK n \in T : \A m \in T : n <= m
    BY <1>1, LeastNumber
  <2>2. n - 1 \in Nat /\ n - 1 \notin T
    BY <2>1
  <2>3. (n - 1) + 1 \in S
    BY <2>2
  <2> QED BY <2>3
<1> QED BY <1>1

-----------------------------------------------------------------------------
(* Varints.                                                                *)

\* The value of the bytes from the i-th on.
Digits(bytes, f, i) == IF i > Len(bytes) THEN 0 ELSE (bytes[i] % 128) + 128 * f[i + 1]

IsValue(bytes, f) == f = [i \in 1..(Len(bytes) + 1) |-> Digits(bytes, f, i)]

LEMMA ValueExists ==
  ASSUME NEW bytes \in Seq(Byte)
  PROVE  \E f : IsValue(bytes, f)
<1> DEFINE last == Len(bytes) + 1
           Solves(f, k) == f = [i \in (last - k)..last |-> Digits(bytes, f, i)]
           S == {k \in Nat : \E f : Solves(f, k)}
<1>0. last \in Nat /\ Len(bytes) \in Nat
  OBVIOUS
<1>1. 0 \in S
  <2> DEFINE f == [i \in (last - 0)..last |-> 0]
  <2>1. \A i \in (last - 0)..last : Digits(bytes, f, i) = 0
    BY <1>0 DEF Digits
  <2>2. Solves(f, 0)
    BY <2>1
  <2> QED BY <2>2
<1>2. ASSUME NEW k \in Nat, k \in S PROVE k + 1 \in S
  <2>1. PICK f : Solves(f, k)
    BY <1>2
  <2> DEFINE first == last - (k + 1)
             g == [i \in first..last |-> IF i = first THEN Digits(bytes, f, i) ELSE f[i]]
  <2>2. \A i \in (last - k)..last : g[i] = f[i] /\ i # first
    BY <1>0
  <2>3. \A i \in first..last : i <= Len(bytes) => i + 1 \in (last - k)..last
    BY <1>0
  <2>4. \A i \in first..last : Digits(bytes, g, i) = Digits(bytes, f, i)
    <3> SUFFICES ASSUME NEW i \in first..last, i <= Len(bytes)
                 PROVE  g[i + 1] = f[i + 1]
      BY <1>0 DEF Digits
    <3> QED BY <2>2, <2>3
  <2>5. \A i \in first..last : g[i] = Digits(bytes, f, i)
    <3> SUFFICES ASSUME NEW i \in first..last, i # first
                 PROVE  f[i] = Digits(bytes, f, i)
      OBVIOUS
    <3>1. i \in (last - k)..last
      BY <1>0
    <3> QED BY <2>1, <3>1
  <2>6. Solves(g, k + 1)
    BY <2>4, <2>5
  <2> HIDE DEF g, Solves
  <2>7. k + 1 \in Nat /\ \E h : Solves(h, k + 1)
    BY <2>6
  <2> QED BY <2>7
<1>3. \A k \in Nat : k \in S
  <2> HIDE DEF S
  <2> QED BY <1>1, <1>2, Induction
<1>4. Len(bytes) \in Nat /\ last - Len(bytes) = 1
  BY <1>0
<1>5. PICK f : Solves(f, Len(bytes))
  BY <1>3, <1>4
<1> QED BY <1>4, <1>5 DEF IsValue

\* The value of a varint, with the values of its ends.
IsValueOf(bytes, f) ==
  /\ f[Len(bytes) + 1] = 0
  /\ \A i \in 1..Len(bytes) : f[i] = (bytes[i] % 128) + 128 * f[i + 1]

LEMMA ValueIs ==
  ASSUME NEW bytes \in Seq(Byte)
  PROVE  \E f : IsValueOf(bytes, f) /\ VarintValue(bytes) = f[1]
<1> DEFINE from[i \in 1..(Len(bytes) + 1)] ==
             IF i > Len(bytes) THEN 0 ELSE (bytes[i] % 128) + 128 * from[i + 1]
<1>1. VarintValue(bytes) = from[1]
  BY DEF VarintValue
<1>2. from = CHOOSE f : IsValue(bytes, f)
  BY DEF IsValue, Digits
<1> HIDE DEF from
<1>3. IsValue(bytes, from)
  BY <1>2, ValueExists
<1>4. IsValueOf(bytes, from)
  BY <1>3 DEF IsValue, IsValueOf, Digits
<1> QED BY <1>1, <1>4

\* Two solutions that agree on the bytes agree on the values, wherever the bytes stand.
LEMMA ValueMoves ==
  ASSUME NEW a \in Seq(Byte), NEW b \in Seq(Byte), NEW f, NEW g,
         IsValueOf(a, f), IsValueOf(b, g), Len(a) <= Len(b),
         \A i \in 1..Len(a) : a[i] = b[i + (Len(b) - Len(a))]
  PROVE  /\ \A i \in 1..(Len(a) + 1) : f[i] = g[i + (Len(b) - Len(a))]
         /\ \A i \in 1..(Len(a) + 1) : f[i] \in Nat
<1> DEFINE d == Len(b) - Len(a)
           last == Len(a) + 1
           S == {k \in Nat : k < last => /\ f[last - k] = g[(last - k) + d]
                                         /\ f[last - k] \in Nat}
<1>0. Len(a) \in Nat /\ Len(b) \in Nat /\ last \in Nat /\ d \in Nat
  OBVIOUS
<1>1. 0 \in S
  <2>1. f[last] = 0 /\ g[last + d] = 0
    BY <1>0 DEF IsValueOf
  <2> QED BY <1>0, <2>1
<1>2. ASSUME NEW k \in Nat, k \in S PROVE k + 1 \in S
  <2> SUFFICES ASSUME k + 1 < last
               PROVE  /\ f[last - (k + 1)] = g[(last - (k + 1)) + d]
                      /\ f[last - (k + 1)] \in Nat
    OBVIOUS
  <2> DEFINE i == last - (k + 1)
  <2>1. i \in 1..Len(a) /\ i + d \in 1..Len(b) /\ i + 1 = last - k /\ (i + d) + 1 = (last - k) + d
    BY <1>0
  <2>2. f[i] = (a[i] % 128) + 128 * f[last - k]
    BY <2>1 DEF IsValueOf
  <2>3. g[i + d] = (b[i + d] % 128) + 128 * g[(last - k) + d]
    BY <2>1 DEF IsValueOf
  <2>4. a[i] = b[i + d] /\ a[i] \in Nat
    <3>1. a[i] \in Byte
      BY <2>1, ElementOfSeq
    <3>2. a[i] = b[i + d]
      BY <2>1
    <3>3. \A x \in Byte : x \in Nat
      BY DEF Byte
    <3> QED BY <3>1, <3>2, <3>3
  <2>5. f[last - k] = g[(last - k) + d] /\ f[last - k] \in Nat
    BY <1>0, <1>2
  <2> HIDE DEF i, d, last
  <2> QED BY <2>2, <2>3, <2>4, <2>5 DEF i
<1>3. \A k \in Nat : k \in S
  <2> HIDE DEF S
  <2> QED BY <1>1, <1>2, Induction
<1>4. ASSUME NEW i \in 1..(Len(a) + 1)
      PROVE  f[i] = g[i + (Len(b) - Len(a))] /\ f[i] \in Nat
  <2>1. last - i \in Nat /\ last - i < last /\ last - (last - i) = i
    BY <1>0
  <2>2. last - i \in S
    BY <1>3, <2>1
  <2> QED BY <2>1, <2>2
<1> QED BY <1>4

LEMMA ValueIsNat ==
  ASSUME NEW bytes \in Seq(Byte)
  PROVE  VarintValue(bytes) \in Nat
<1>1. PICK f : IsValueOf(bytes, f) /\ VarintValue(bytes) = f[1]
  BY ValueIs
<1>2. \A i \in 1..(Len(bytes) + 1) : f[i] \in Nat
  BY <1>1, ValueMoves
<1> QED BY <1>1, <1>2

LEMMA ValueOfOne ==
  ASSUME NEW b \in Byte
  PROVE  VarintValue(<<b>>) = b % 128
<1>1. <<b>> \in Seq(Byte) /\ Len(<<b>>) = 1 /\ <<b>>[1] = b
  OBVIOUS
<1>2. PICK f : IsValueOf(<<b>>, f) /\ VarintValue(<<b>>) = f[1]
  BY <1>1, ValueIs
<1>3. f[1 + 1] = 0 /\ f[1] = (b % 128) + 128 * f[1 + 1]
  BY <1>1, <1>2 DEF IsValueOf
<1> QED BY <1>2, <1>3 DEF Byte

LEMMA ValueOfMore ==
  ASSUME NEW b \in Byte, NEW rest \in Seq(Byte)
  PROVE  VarintValue(<<b>> \o rest) = (b % 128) + 128 * VarintValue(rest)
<1> DEFINE all == <<b>> \o rest
<1>1. /\ all \in Seq(Byte) /\ Len(all) = Len(rest) + 1 /\ all[1] = b
      /\ \A i \in 1..Len(rest) : all[i + 1] = rest[i]
  BY ConcatProperties
<1> HIDE DEF all
<1>2. PICK f : IsValueOf(rest, f) /\ VarintValue(rest) = f[1]
  BY ValueIs
<1>3. PICK g : IsValueOf(all, g) /\ VarintValue(all) = g[1]
  BY <1>1, ValueIs
<1>4. Len(all) - Len(rest) = 1 /\ Len(rest) <= Len(all)
  BY <1>1
<1>5. \A i \in 1..(Len(rest) + 1) : f[i] = g[i + 1]
  BY <1>1, <1>2, <1>3, <1>4, ValueMoves
<1>6. g[1] = (b % 128) + 128 * g[1 + 1]
  BY <1>1, <1>3 DEF IsValueOf
<1>7. f[1] = g[1 + 1]
  BY <1>5
<1> QED BY <1>2, <1>3, <1>6, <1>7 DEF all

-----------------------------------------------------------------------------
(* What is encoded is decoded.                                             *)

Septets(f, m) == IF Fits(m) THEN <<m>> ELSE <<128 + (m % 128)>> \o f[m \div 128]

IsVarint(n, f) == f = [m \in 0..n |-> Septets(f, m)]

LEMMA Septet ==
  ASSUME NEW m \in Nat, ~Fits(m)
  PROVE  /\ m \div 128 \in Nat /\ m \div 128 < m /\ m % 128 \in 0..127
         /\ m = 128 * (m \div 128) + (m % 128)
BY DEF Fits

LEMMA VarintExists ==
  \A n \in Nat : \E f : IsVarint(n, f)
<1> DEFINE S == {n \in Nat : \E f : IsVarint(n, f)}
<1>1. 0 \in S
  <2> DEFINE f == [m \in 0..0 |-> <<m>>]
  <2>1. \A m \in 0..0 : Septets(f, m) = <<m>>
    BY DEF Septets, Fits
  <2>2. IsVarint(0, f)
    BY <2>1 DEF IsVarint
  <2> QED BY <2>2
<1>2. ASSUME NEW n \in Nat, n \in S PROVE n + 1 \in S
  <2>1. PICK f : IsVarint(n, f)
    BY <1>2
  <2> DEFINE g == [m \in 0..(n + 1) |-> IF m = n + 1 THEN Septets(f, m) ELSE f[m]]
  <2>2. \A m \in 0..n : g[m] = f[m] /\ m # n + 1
    OBVIOUS
  <2>3. \A m \in 0..(n + 1) : Septets(g, m) = Septets(f, m)
    <3>1. ASSUME NEW m \in 0..(n + 1), ~Fits(m) PROVE g[m \div 128] = f[m \div 128]
      <4>1. m \div 128 \in 0..n
        BY <3>1, Septet
      <4> QED BY <2>2, <4>1
    <3> HIDE DEF g
    <3> QED BY <3>1 DEF Septets
  <2>4. \A m \in 0..(n + 1) : g[m] = Septets(f, m)
    <3> SUFFICES ASSUME NEW m \in 0..(n + 1), m # n + 1 PROVE f[m] = Septets(f, m)
      OBVIOUS
    <3>1. m \in 0..n
      OBVIOUS
    <3> QED BY <2>1, <3>1 DEF IsVarint
  <2>5. IsVarint(n + 1, g)
    BY <2>3, <2>4 DEF IsVarint
  <2> HIDE DEF g
  <2> QED BY <2>5
<1>3. \A n \in Nat : n \in S
  <2> HIDE DEF S
  <2> QED BY <1>1, <1>2, Induction
<1> QED BY <1>3

\* A number is written as a varint that stands for it.
LEMMA VarintIsRead ==
  ASSUME NEW n \in Nat
  PROVE  Varint(n) \in Varints /\ VarintValue(Varint(n)) = n
<1> DEFINE septets[m \in 0..n] ==
             IF Fits(m) THEN <<m>> ELSE <<128 + (m % 128)>> \o septets[m \div 128]
<1>1. Varint(n) = septets[n]
  BY DEF Varint
<1>2. septets = CHOOSE f : IsVarint(n, f)
  BY DEF IsVarint, Septets
<1> HIDE DEF septets
<1>3. \A m \in 0..n : septets[m] = Septets(septets, m)
  <2>1. IsVarint(n, septets)
    BY <1>2, VarintExists
  <2> QED BY <2>1 DEF IsVarint
<1> DEFINE Good(m) == septets[m] \in Varints /\ VarintValue(septets[m]) = m
           S == {k \in Nat : \A m \in 0..n : m <= k => Good(m)}
<1>4. ASSUME NEW m \in 0..n, Fits(m) PROVE Good(m)
  <2>1. septets[m] = <<m>> /\ m \in Byte /\ m % 128 = m
    <3>1. septets[m] = <<m>>
      BY <1>3, <1>4 DEF Septets
    <3> QED BY <1>4, <3>1 DEF Fits, Byte
  <2>2. <<m>> \in Varints
    BY <1>4, <2>1 DEF Varints, Fits
  <2> QED BY <2>1, <2>2, ValueOfOne
<1>5. ASSUME NEW m \in 0..n, ~Fits(m), Good(m \div 128) PROVE Good(m)
  <2> DEFINE b == 128 + (m % 128)
             rest == septets[m \div 128]
  <2>1. m % 128 \in 0..127 /\ m = 128 * (m \div 128) + (m % 128)
    BY <1>5, Septet
  <2>2. septets[m] = <<b>> \o rest /\ b \in Byte /\ b % 128 = m % 128 /\ ~(b < 128)
    <3>1. septets[m] = <<b>> \o rest
      BY <1>3, <1>5 DEF Septets
    <3> HIDE DEF rest
    <3> QED BY <2>1, <3>1 DEF Byte
  <2>3. /\ rest \in Seq(Byte) /\ rest # <<>> /\ VarintValue(rest) = m \div 128
        /\ \A i \in 1..Len(rest) : (rest[i] < 128) <=> (i = Len(rest))
    BY <1>5 DEF Varints
  <2> HIDE DEF b, rest
  <2>4. VarintValue(septets[m]) = m
    BY <2>1, <2>2, <2>3, ValueOfMore
  <2>5. /\ <<b>> \o rest \in Seq(Byte) /\ Len(<<b>> \o rest) = Len(rest) + 1
        /\ (<<b>> \o rest)[1] = b
        /\ \A i \in 1..Len(rest) : (<<b>> \o rest)[i + 1] = rest[i]
    BY <2>2, <2>3, ConcatProperties
  <2>6. Len(rest) \in Nat \ {0}
    BY <2>3, EmptySeq
  <2>7. ASSUME NEW i \in 1..Len(<<b>> \o rest)
        PROVE  ((<<b>> \o rest)[i] < 128) <=> (i = Len(<<b>> \o rest))
    <3>1. CASE i = 1
      BY <2>2, <2>5, <2>6, <3>1
    <3>2. CASE i # 1
      <4>1. i - 1 \in 1..Len(rest) /\ (i - 1) + 1 = i
        BY <2>5, <2>6, <3>2
      <4> QED BY <2>3, <2>5, <2>6, <4>1
    <3> QED BY <3>1, <3>2
  <2>8. <<b>> \o rest # <<>>
    BY <2>5, <2>6
  <2> QED BY <2>2, <2>4, <2>5, <2>7, <2>8 DEF Varints
<1> HIDE DEF Good
<1>6. 0 \in S
  BY <1>4 DEF Fits
<1>7. ASSUME NEW k \in Nat, k \in S PROVE k + 1 \in S
  <2> SUFFICES ASSUME NEW m \in 0..n, m = k + 1 PROVE Good(m)
    BY <1>7
  <2>1. CASE Fits(m)
    BY <1>4, <2>1
  <2>2. CASE ~Fits(m)
    <3>1. m \div 128 \in 0..n /\ m \div 128 <= k
      BY <2>2, Septet
    <3>2. Good(m \div 128)
      BY <1>7, <3>1
    <3> QED BY <1>5, <2>2, <3>2
  <2> QED BY <2>1, <2>2
<1>8. \A k \in Nat : k \in S
  <2> HIDE DEF S
  <2> QED BY <1>6, <1>7, Induction
<1>9. Good(n)
  BY <1>8
<1> QED BY <1>1, <1>9 DEF Good

-----------------------------------------------------------------------------
(* Reading at a position.                                                  *)

Positions == Nat \ {0}

\* The bytes x stand at a position.
At(data, pos, x) ==
  \A i \in 1..Len(x) : (pos - 1) + i \in 1..Len(data) /\ data[(pos - 1) + i] = x[i]

LEMMA AtConcat ==
  ASSUME NEW data \in Seq(Byte), NEW pos \in Positions, NEW x \in Seq(Byte), NEW y \in Seq(Byte),
         At(data, pos, x \o y)
  PROVE  At(data, pos, x) /\ At(data, pos + Len(x), y) /\ pos + Len(x) \in Positions
<1> DEFINE xy == x \o y
<1>1. /\ Len(xy) = Len(x) + Len(y) /\ Len(x) \in Nat /\ Len(y) \in Nat
      /\ \A i \in 1..Len(x) + Len(y) : xy[i] = IF i <= Len(x) THEN x[i] ELSE y[i - Len(x)]
  BY ConcatProperties
<1>2. \A i \in 1..Len(xy) : (pos - 1) + i \in 1..Len(data) /\ data[(pos - 1) + i] = xy[i]
  BY DEF At
<1> HIDE DEF xy
<1>3. ASSUME NEW i \in 1..Len(x)
      PROVE  (pos - 1) + i \in 1..Len(data) /\ data[(pos - 1) + i] = x[i]
  <2>1. i \in 1..Len(xy) /\ xy[i] = x[i]
    BY <1>1
  <2> QED BY <1>2, <2>1
<1>4. ASSUME NEW i \in 1..Len(y)
      PROVE  /\ ((pos + Len(x)) - 1) + i \in 1..Len(data)
             /\ data[((pos + Len(x)) - 1) + i] = y[i]
  <2>1. Len(x) + i \in 1..Len(xy) /\ xy[Len(x) + i] = y[i]
    BY <1>1
  <2>2. (pos - 1) + (Len(x) + i) = ((pos + Len(x)) - 1) + i
    BY <1>1 DEF Positions
  <2> QED BY <1>2, <2>1, <2>2
<1> QED BY <1>1, <1>3, <1>4 DEF At, Positions

LEMMA AtWhole ==
  ASSUME NEW a \in Seq(Byte), NEW x \in Seq(Byte), NEW b \in Seq(Byte)
  PROVE  At(a \o (x \o b), Len(a) + 1, x)
<1> DEFINE xb == x \o b
           all == a \o xb
<1>1. /\ xb \in Seq(Byte) /\ Len(xb) = Len(x) + Len(b)
      /\ \A i \in 1..Len(x) + Len(b) : xb[i] = IF i <= Len(x) THEN x[i] ELSE b[i - Len(x)]
  BY ConcatProperties
<1> HIDE DEF xb
<1>2. /\ Len(all) = Len(a) + Len(xb)
      /\ \A i \in 1..Len(a) + Len(xb) : all[i] = IF i <= Len(a) THEN a[i] ELSE xb[i - Len(a)]
  <2>1. xb \in Seq(Byte)
    BY <1>1
  <2> QED BY <2>1, ConcatProperties
<1> HIDE DEF all
<1>3. Len(a) \in Nat /\ Len(x) \in Nat /\ Len(b) \in Nat
  OBVIOUS
<1>4. ASSUME NEW i \in 1..Len(x)
      PROVE  /\ ((Len(a) + 1) - 1) + i \in 1..Len(all)
             /\ all[((Len(a) + 1) - 1) + i] = x[i]
  <2>1. xb[i] = x[i] /\ all[Len(a) + i] = xb[i]
    <3>1. xb[i] = x[i]
      BY <1>1, <1>3
    <3>2. Len(a) + i \in 1..Len(a) + Len(xb) /\ ~(Len(a) + i <= Len(a)) /\ (Len(a) + i) - Len(a) = i
      BY <1>1, <1>3
    <3> QED BY <1>2, <3>1, <3>2
  <2> QED BY <1>1, <1>2, <1>3, <2>1
<1> QED BY <1>4 DEF At, all, xb

LEMMA ByteIsNat == \A b \in Byte : b \in Nat
BY DEF Byte

LEMMA LeastIsMin ==
  ASSUME NEW T \in SUBSET Nat, NEW n \in T, \A m \in T : n <= m
  PROVE  Min(T) = n
<1>1. ASSUME NEW x \in T, \A y \in T : x <= y PROVE x = n
  <2>1. x <= n /\ n <= x
    BY <1>1
  <2>2. x \in Nat /\ n \in Nat
    OBVIOUS
  <2> QED BY <2>1, <2>2
<1> QED BY <1>1 DEF Min

\* A varint that stands at a position is what is read there.
LEMMA VarintAt ==
  ASSUME NEW data \in Seq(Byte), NEW pos \in Positions, NEW v \in Varints, At(data, pos, v)
  PROVE  DecodeVarint(data, pos) = [error |-> "none", next |-> pos + Len(v),
                                    value |-> VarintValue(v)]
<1> DEFINE ends == {i \in pos..Len(data) : data[i] < 128}
           last == (pos - 1) + Len(v)
<1>1. /\ v \in Seq(Byte) /\ Len(v) \in Nat \ {0}
      /\ \A i \in 1..Len(v) : (v[i] < 128) <=> (i = Len(v))
  BY EmptySeq DEF Varints
<1>2. pos \in Nat /\ pos > 0 /\ last \in Nat /\ Len(data) \in Nat
  BY <1>1 DEF Positions
<1>3. \A i \in 1..Len(v) : (pos - 1) + i \in 1..Len(data) /\ data[(pos - 1) + i] = v[i]
  BY DEF At
<1>4. last \in ends
  <2>1. last \in 1..Len(data) /\ data[last] = v[Len(v)] /\ v[Len(v)] < 128
    BY <1>1, <1>3
  <2> QED BY <1>1, <1>2, <2>1
<1>5. ASSUME NEW i \in ends PROVE last <= i
  <2> SUFFICES ASSUME i < last PROVE FALSE
    BY <1>2
  <2>1. (i - pos) + 1 \in 1..Len(v) /\ (i - pos) + 1 # Len(v) /\ (pos - 1) + ((i - pos) + 1) = i
    BY <1>1, <1>2
  <2>2. data[i] = v[(i - pos) + 1]
    BY <1>3, <2>1
  <2> QED BY <1>1, <2>1, <2>2
<1>6. Min(ends) = last
  <2>1. ends \in SUBSET Nat
    BY <1>2
  <2> HIDE DEF ends, last
  <2> QED BY <1>4, <1>5, <2>1, LeastIsMin
<1>7. SubSeq(data, pos, last) = v
  <2>1. \A i \in pos..last : data[i] \in Byte
    BY <1>2, <1>4, ElementOfSeq
  <2>2. pos <= last /\ (last - pos) + 1 = Len(v)
    BY <1>1, <1>2
  <2>3. /\ SubSeq(data, pos, last) \in Seq(Byte)
        /\ Len(SubSeq(data, pos, last)) = Len(v)
        /\ \A i \in 1..Len(v) : SubSeq(data, pos, last)[i] = data[(pos + i) - 1]
    BY <1>2, <2>1, <2>2, SubSeqProperties
  <2>4. \A i \in 1..Len(v) : SubSeq(data, pos, last)[i] = v[i]
    <3> TAKE i \in 1..Len(v)
    <3>1. (pos + i) - 1 = (pos - 1) + i
      BY <1>2
    <3> QED BY <1>3, <2>3, <3>1
  <2> HIDE DEF last
  <2> QED BY <1>1, <2>3, <2>4, SeqEqual
<1>8. last + 1 = pos + Len(v) /\ ends # {}
  BY <1>1, <1>2, <1>4
<1> HIDE DEF last
<1>9. DecodeVarint(data, pos)
        = IF ends = {} THEN [error |-> "IndexError"]
          ELSE [error |-> "none", next |-> Min(ends) + 1,
                value |-> VarintValue(SubSeq(data, pos, Min(ends)))]
  BY DEF DecodeVarint
<1> HIDE DEF ends
<1> QED BY <1>6, <1>7, <1>8, <1>9

\* What is read leads forward.
LEMMA VarintAdvances ==
  ASSUME NEW data \in Seq(Byte), NEW pos \in Positions, DecodeVarint(data, pos).error = "none"
  PROVE  /\ DecodeVarint(data, pos).next \in Nat
         /\ DecodeVarint(data, pos).next > pos
         /\ DecodeVarint(data, pos).value \in Nat
<1> DEFINE ends == {i \in pos..Len(data) : data[i] < 128}
<1>0. pos \in Nat /\ pos > 0 /\ Len(data) \in Nat
  BY DEF Positions
<1>1. DecodeVarint(data, pos)
        = IF ends = {} THEN [error |-> "IndexError"]
          ELSE [error |-> "none", next |-> Min(ends) + 1,
                value |-> VarintValue(SubSeq(data, pos, Min(ends)))]
  BY DEF DecodeVarint
<1>2. ends \in SUBSET Nat
  BY <1>0
<1>3. ends # {}
  <2> HIDE DEF ends
  <2> QED BY <1>1
<1>4. PICK last \in ends : Min(ends) = last
  <2>1. \E n \in ends : \A m \in ends : n <= m
    <3> HIDE DEF ends
    <3> QED BY <1>2, <1>3, LeastNumber
  <2>2. PICK n \in ends : \A m \in ends : n <= m
    BY <2>1
  <2> HIDE DEF ends
  <2> QED BY <1>2, <2>2, LeastIsMin
<1>5. last \in Nat /\ last >= pos /\ last <= Len(data)
  BY <1>0
<1>6. SubSeq(data, pos, last) \in Seq(Byte)
  <2>1. \A i \in pos..last : data[i] \in Byte
    BY <1>0, <1>5, ElementOfSeq
  <2> QED BY <1>0, <1>5, <2>1, SubSeqProperties
<1>7. VarintValue(SubSeq(data, pos, last)) \in Nat
  BY <1>6, ValueIsNat
<1> HIDE DEF ends
<1> QED BY <1>0, <1>1, <1>3, <1>4, <1>5, <1>7

-----------------------------------------------------------------------------
(* Groups.                                                                 *)

Places == Nat \X Nat

AfterTag(data, f, tag) ==
  IF OpensGroup(tag.value) THEN f[<<tag.next, tag.value \div 8>>]
  ELSE Step(data, tag.next, tag.value % 8)

\* One turn of the loop inside a group.
SkipTurn(data, f, pos, num) ==
  IF pos = 0 \/ pos > Len(data) THEN pos
  ELSE IF DecodeVarint(data, pos).error # "none" THEN 0
  ELSE IF ClosesGroup(DecodeVarint(data, pos).value, num) THEN DecodeVarint(data, pos).next
  ELSE f[<<AfterTag(data, f, DecodeVarint(data, pos)), num>>]

IsSkip(data, f) == f = [place \in Places |-> SkipTurn(data, f, place[1], place[2])]

\* A position that is reached from another: behind it, or an error.
Onward(from, to) == to \in Nat /\ (to = 0 \/ (from # 0 /\ to >= from))

LEMMA StepAdvances ==
  ASSUME NEW data \in Seq(Byte), NEW pos \in Positions, NEW wire
  PROVE  Onward(pos, Step(data, pos, wire))
<1>0. pos \in Nat /\ pos > 0
  BY DEF Positions
<1>1. CASE wire \in {0, 2}
  <2>1. Step(data, pos, wire) = StepOver(DecodeVarint(data, pos), wire)
    BY <1>1 DEF Step
  <2>2. CASE DecodeVarint(data, pos).error # "none"
    BY <2>1, <2>2 DEF StepOver, Onward
  <2>3. CASE DecodeVarint(data, pos).error = "none"
    <3> DEFINE next == DecodeVarint(data, pos).next
               value == DecodeVarint(data, pos).value
    <3>1. Step(data, pos, wire) = next + (IF wire = 2 THEN value ELSE 0)
      BY <2>1, <2>3 DEF StepOver
    <3>2. next \in Nat /\ next > pos /\ value \in Nat
      BY <2>3, VarintAdvances
    <3> HIDE DEF next, value
    <3> QED BY <1>0, <3>1, <3>2 DEF Onward
  <2> QED BY <2>2, <2>3
<1>2. CASE wire \notin {0, 2}
  BY <1>0, <1>2 DEF Step, Onward
<1> QED BY <1>1, <1>2

\* A turn looks only at what lies ahead.
LEMMA SkipTurnLooksAhead ==
  ASSUME NEW data \in Seq(Byte), NEW pos \in Nat, NEW num \in Nat, NEW f, NEW g,
         \A p, n \in Nat : (p > pos \/ p = 0) => /\ Onward(p, f[<<p, n>>])
                                                /\ g[<<p, n>>] = f[<<p, n>>]
  PROVE  /\ SkipTurn(data, g, pos, num) = SkipTurn(data, f, pos, num)
         /\ Onward(pos, SkipTurn(data, f, pos, num))
<1> DEFINE tag == DecodeVarint(data, pos)
<1>1. CASE pos = 0 \/ pos > Len(data)
  BY <1>1 DEF SkipTurn, Onward
<1>2. CASE ~(pos = 0 \/ pos > Len(data)) /\ tag.error # "none"
  BY <1>2 DEF SkipTurn, Onward
<1>3. CASE ~(pos = 0 \/ pos > Len(data)) /\ tag.error = "none"
  <2>1. /\ pos \in Positions /\ tag.next \in Nat /\ tag.next > pos /\ tag.next \in Positions
        /\ tag.value \in Nat /\ tag.value \div 8 \in Nat
    <3>1. pos \in Positions
      BY <1>3 DEF Positions
    <3>2. tag.next \in Nat /\ tag.next > pos /\ tag.value \in Nat
      BY <1>3, <3>1, VarintAdvances
    <3> HIDE DEF tag
    <3> QED BY <3>1, <3>2 DEF Positions
  <2>2. CASE ClosesGroup(tag.value, num)
    <3>1. SkipTurn(data, f, pos, num) = tag.next /\ SkipTurn(data, g, pos, num) = tag.next
      BY <1>3, <2>2 DEF SkipTurn
    <3> HIDE DEF tag
    <3> QED BY <1>3, <2>1, <3>1 DEF Onward
  <2>3. CASE ~ClosesGroup(tag.value, num)
    <3> DEFINE after == AfterTag(data, f, tag)
    <3>1. AfterTag(data, g, tag) = after /\ Onward(tag.next, after)
      <4>1. CASE OpensGroup(tag.value)
        <5> DEFINE num2 == tag.value \div 8
        <5>1. AfterTag(data, g, tag) = g[<<tag.next, num2>>] /\ after = f[<<tag.next, num2>>]
          BY <4>1 DEF AfterTag
        <5>2. num2 \in Nat /\ tag.next \in Nat /\ tag.next > pos
          BY <2>1
        <5> HIDE DEF tag, num2, after
        <5> QED BY <5>1, <5>2
      <4>2. CASE ~OpensGroup(tag.value)
        <5>1. /\ AfterTag(data, g, tag) = Step(data, tag.next, tag.value % 8)
              /\ after = Step(data, tag.next, tag.value % 8)
          BY <4>2 DEF AfterTag
        <5>2. Onward(tag.next, Step(data, tag.next, tag.value % 8))
          BY <2>1, StepAdvances
        <5> QED BY <5>1, <5>2
      <4> QED BY <4>1, <4>2
    <3>2. /\ SkipTurn(data, f, pos, num) = f[<<after, num>>]
          /\ SkipTurn(data, g, pos, num) = g[<<after, num>>]
      BY <1>3, <2>3, <3>1 DEF SkipTurn
    <3> HIDE DEF tag, after
    <3>3. after \in Nat /\ (after = 0 \/ after > pos)
      BY <2>1, <3>1 DEF Onward
    <3>4. Onward(after, f[<<after, num>>]) /\ g[<<after, num>>] = f[<<after, num>>]
      BY <3>3
    <3> DEFINE end == f[<<after, num>>]
    <3>5. SkipTurn(data, f, pos, num) = end /\ SkipTurn(data, g, pos, num) = end
      BY <3>2, <3>4
    <3>6. Onward(after, end)
      BY <3>4
    <3> HIDE DEF end
    <3>7. Onward(pos, end)
      BY <1>3, <3>3, <3>6 DEF Onward
    <3> QED BY <3>5, <3>7
  <2> QED BY <2>2, <2>3
<1> QED BY <1>1, <1>2, <1>3

Ahead(data, k) == {place \in Places : place[1] = 0 \/ place[1] + k > Len(data)}

SkipsAhead(data, f, k) == 
  /\ f = [place \in Ahead(data, k) |-> SkipTurn(data, f, place[1], place[2])]
  /\ \A place \in Ahead(data, k) : Onward(place[1], f[place])

LEMMA SkipExists ==
  ASSUME NEW data \in Seq(Byte)
  PROVE  \E f : IsSkip(data, f)
<1> DEFINE S == {k \in Nat : \E f : SkipsAhead(data, f, k)}
<1>0. Len(data) \in Nat
  OBVIOUS
<1>1. 0 \in S
  <2> DEFINE f == [place \in Ahead(data, 0) |-> place[1]]
  <2>1. ASSUME NEW place \in Ahead(data, 0)
        PROVE  f[place] = SkipTurn(data, f, place[1], place[2]) /\ Onward(place[1], f[place])
    <3>1. place[1] \in Nat /\ (place[1] = 0 \/ place[1] > Len(data))
      BY <1>0 DEF Ahead, Places
    <3> QED BY <3>1 DEF SkipTurn, Onward
  <2>2. SkipsAhead(data, f, 0)
    <3> DEFINE h == [place \in Ahead(data, 0) |-> SkipTurn(data, f, place[1], place[2])]
    <3>1. f = h
      BY <2>1
    <3> HIDE DEF f
    <3> QED BY <2>1, <3>1 DEF SkipsAhead
  <2> HIDE DEF f
  <2> QED BY <2>2
<1>2. ASSUME NEW k \in Nat, k \in S PROVE k + 1 \in S
  <2>1. PICK f : SkipsAhead(data, f, k)
    BY <1>2
  <2> DEFINE g == [place \in Ahead(data, k + 1) |->
                     IF place \in Ahead(data, k) THEN f[place]
                     ELSE SkipTurn(data, f, place[1], place[2])]
  <2>2. \A place \in Ahead(data, k) : /\ place \in Ahead(data, k + 1)
                                      /\ Onward(place[1], f[place])
    <3>1. \A place \in Ahead(data, k) : place \in Ahead(data, k + 1)
      BY <1>0 DEF Ahead, Places
    <3> QED BY <2>1, <3>1 DEF SkipsAhead
  <2>3. \A place \in Ahead(data, k) : /\ g[place] = f[place]
                                      /\ f[place] = SkipTurn(data, f, place[1], place[2])
    BY <2>1, <2>2 DEF SkipsAhead
  <2>4. ASSUME NEW place \in Ahead(data, k + 1)
        PROVE  /\ g[place] = SkipTurn(data, g, place[1], place[2])
               /\ Onward(place[1], g[place])
    <3>1. /\ place[1] \in Nat /\ place[2] \in Nat
          /\ place[1] = 0 \/ place[1] + (k + 1) > Len(data)
      BY DEF Ahead, Places
    <3>2. g[place] = SkipTurn(data, f, place[1], place[2])
      BY <2>3
    <3> HIDE DEF g
    <3>3. PICK pos \in Nat, num \in Nat : pos = place[1] /\ num = place[2]
      BY <3>1
    <3>4. CASE pos = 0
      BY <3>2, <3>3, <3>4 DEF SkipTurn, Onward
    <3>5. CASE pos # 0
      <4>1. ASSUME NEW p \in Nat, NEW n \in Nat, p > pos \/ p = 0
            PROVE  Onward(p, f[<<p, n>>]) /\ g[<<p, n>>] = f[<<p, n>>]
        <5>1. <<p, n>> \in Ahead(data, k) /\ <<p, n>>[1] = p
          BY <1>0, <3>1, <3>3, <3>5, <4>1 DEF Ahead, Places
        <5> QED BY <2>2, <2>3, <5>1
      <4>2. /\ SkipTurn(data, g, pos, num) = SkipTurn(data, f, pos, num)
            /\ Onward(pos, SkipTurn(data, f, pos, num))
        BY <4>1, SkipTurnLooksAhead
      <4> QED BY <3>2, <3>3, <4>2
    <3> QED BY <3>4, <3>5
  <2>5. SkipsAhead(data, g, k + 1)
    <3> DEFINE h == [place \in Ahead(data, k + 1) |-> SkipTurn(data, g, place[1], place[2])]
    <3>1. g = h
      BY <2>4
    <3> HIDE DEF g
    <3> QED BY <2>4, <3>1 DEF SkipsAhead
  <2> HIDE DEF g
  <2> QED BY <2>5
<1>3. \A k \in Nat : k \in S
  <2> HIDE DEF S
  <2> QED BY <1>1, <1>2, Induction
<1>4. PICK f : SkipsAhead(data, f, Len(data))
  BY <1>0, <1>3
<1>5. Ahead(data, Len(data)) = Places
  BY <1>0 DEF Ahead, Places
<1> QED BY <1>4, <1>5 DEF SkipsAhead, IsSkip

LEMMA SkipIsOnward ==
  ASSUME NEW data \in Seq(Byte), NEW f, IsSkip(data, f)
  PROVE  \A pos, num \in Nat : Onward(pos, f[<<pos, num>>])
<1> DEFINE S == {k \in Nat : \A pos, num \in Nat :
                               (pos = 0 \/ pos + k > Len(data)) => Onward(pos, f[<<pos, num>>])}
<1>0. Len(data) \in Nat
  OBVIOUS
<1>1. \A pos, num \in Nat : f[<<pos, num>>] = SkipTurn(data, f, pos, num)
  BY DEF IsSkip, Places
<1>2. 0 \in S
  <2> SUFFICES ASSUME NEW pos \in Nat, NEW num \in Nat, pos = 0 \/ pos + 0 > Len(data)
               PROVE  Onward(pos, f[<<pos, num>>])
    OBVIOUS
  <2>1. SkipTurn(data, f, pos, num) = pos
    BY <1>0 DEF SkipTurn
  <2> QED BY <1>1, <2>1 DEF Onward
<1>3. ASSUME NEW k \in Nat, k \in S PROVE k + 1 \in S
  <2> SUFFICES ASSUME NEW pos \in Nat, NEW num \in Nat, pos = 0 \/ pos + (k + 1) > Len(data)
               PROVE  Onward(pos, f[<<pos, num>>])
    OBVIOUS
  <2>1. CASE pos = 0
    BY <1>1, <2>1 DEF SkipTurn, Onward
  <2>2. CASE pos # 0
    <3>1. ASSUME NEW p \in Nat, NEW n \in Nat, p > pos \/ p = 0
          PROVE  Onward(p, f[<<p, n>>]) /\ f[<<p, n>>] = f[<<p, n>>]
      BY <1>0, <1>3, <2>2, <3>1
    <3>2. \A p, n \in Nat : (p > pos \/ p = 0) => /\ Onward(p, f[<<p, n>>])
                                                  /\ f[<<p, n>>] = f[<<p, n>>]
      BY <3>1
    <3>3. Onward(pos, SkipTurn(data, f, pos, num))
      BY <3>2, SkipTurnLooksAhead
    <3> QED BY <1>1, <3>3
  <2> QED BY <2>1, <2>2
<1>4. \A k \in Nat : k \in S
  <2> HIDE DEF S
  <2> QED BY <1>2, <1>3, Induction
<1>5. Len(data) \in S
  BY <1>0, <1>4
<1>6. \A pos \in Nat : pos = 0 \/ pos + Len(data) > Len(data)
  BY <1>0
<1>7. \A pos, num \in Nat :
        (pos = 0 \/ pos + Len(data) > Len(data)) => Onward(pos, f[<<pos, num>>])
  BY <1>5
<1> QED BY <1>6, <1>7

\* The position after a group, in terms of the positions after what is in it.
GroupTurn(data, pos, num, tag) ==
  IF OpensGroup(tag.value)
  THEN SkipGroup(data, SkipGroup(data, tag.next, tag.value \div 8), num)
  ELSE SkipGroup(data, Step(data, tag.next, tag.value % 8), num)

LEMMA SkipIs ==
  ASSUME NEW data \in Seq(Byte), NEW pos \in Nat, NEW num \in Nat
  PROVE  /\ Onward(pos, SkipGroup(data, pos, num))
         /\ SkipGroup(data, pos, num) =
              IF pos = 0 \/ pos > Len(data) THEN pos
              ELSE IF DecodeVarint(data, pos).error # "none" THEN 0
              ELSE IF ClosesGroup(DecodeVarint(data, pos).value, num)
              THEN DecodeVarint(data, pos).next
              ELSE GroupTurn(data, pos, num, DecodeVarint(data, pos))
<1> DEFINE skip[place \in Nat \X Nat] ==
             IF place[1] = 0 \/ place[1] > Len(data)
             THEN place[1]
             ELSE LET tag == DecodeVarint(data, place[1])
                      inner == skip[<<tag.next, tag.value \div 8>>]
                      after == IF OpensGroup(tag.value) THEN inner
                               ELSE Step(data, tag.next, tag.value % 8)
                  IN  IF tag.error # "none" THEN 0
                      ELSE IF ClosesGroup(tag.value, place[2]) THEN tag.next
                      ELSE skip[<<after, place[2]>>]
<1>1. \A p, n : SkipGroup(data, p, n) = skip[<<p, n>>]
  BY DEF SkipGroup
<1>2. skip = CHOOSE f : IsSkip(data, f)
  BY DEF IsSkip, SkipTurn, AfterTag, Places
<1> HIDE DEF skip
<1>3. \E f : IsSkip(data, f)
  BY SkipExists
<1>4. IsSkip(data, skip)
  BY <1>2, <1>3
<1>5. <<pos, num>> \in Places /\ <<pos, num>>[1] = pos /\ <<pos, num>>[2] = num
  BY DEF Places
<1>6. skip[<<pos, num>>] = SkipTurn(data, skip, pos, num)
  BY <1>4, <1>5 DEF IsSkip
<1>7. SkipGroup(data, pos, num) = skip[<<pos, num>>]
  BY <1>1
<1>8. Onward(pos, SkipGroup(data, pos, num))
  BY <1>4, <1>7, SkipIsOnward
<1>9. skip[<<AfterTag(data, skip, DecodeVarint(data, pos)), num>>]
        = GroupTurn(data, pos, num, DecodeVarint(data, pos))
  BY <1>1 DEF AfterTag, GroupTurn
<1> QED BY <1>6, <1>7, <1>8, <1>9 DEF SkipTurn

-----------------------------------------------------------------------------
(* Messages.                                                               *)

FieldOf(data, tag) ==
  CASE tag.value % 8 = 3 -> Past(SkipGroup(data, tag.next, tag.value \div 8))
    [] tag.value % 8 = 4 -> Past(tag.next)
    [] OTHER -> FieldBody(data, tag.value, tag.next)

LEMMA FieldIs ==
  ASSUME NEW data, NEW pos
  PROVE  FieldAt(data, pos) = IF DecodeVarint(data, pos).error # "none" THEN DecodeVarint(data, pos)
                              ELSE FieldOf(data, DecodeVarint(data, pos))
BY DEF FieldAt, Then, FieldOf

LEMMA BodyIs ==
  ASSUME NEW data, NEW tag, NEW pos
  PROVE  /\ tag % 8 = 0 =>
              FieldBody(data, tag, pos)
                = IF DecodeVarint(data, pos).error # "none" THEN DecodeVarint(data, pos)
                  ELSE Carries(tag, [type |-> "int", int |-> DecodeVarint(data, pos).value],
                               DecodeVarint(data, pos).next)
         /\ tag % 8 = 1 => FieldBody(data, tag, pos) = Fixed(data, pos, 8, tag)
         /\ tag % 8 = 5 => FieldBody(data, tag, pos) = Fixed(data, pos, 4, tag)
         /\ tag % 8 = 2 =>
              FieldBody(data, tag, pos)
                = IF DecodeVarint(data, pos).error # "none" THEN DecodeVarint(data, pos)
                  ELSE Carries(tag, [type |-> "bytes",
                                     bytes |-> Cut(data, DecodeVarint(data, pos).next,
                                                         DecodeVarint(data, pos).value)],
                               DecodeVarint(data, pos).next + DecodeVarint(data, pos).value)
         /\ tag % 8 \notin {0, 1, 2, 5} => FieldBody(data, tag, pos) = Failure("ValueError")
BY DEF FieldBody, Then

LEMMA BodyAdvances ==
  ASSUME NEW data \in Seq(Byte), NEW tag \in Nat, NEW pos \in Positions,
         FieldBody(data, tag, pos).error = "none"
  PROVE  FieldBody(data, tag, pos).next \in Nat /\ FieldBody(data, tag, pos).next >= pos
<1> DEFINE number == DecodeVarint(data, pos)
           body == FieldBody(data, tag, pos)
<1>0. pos \in Nat /\ pos > 0
  BY DEF Positions
<1>1. ASSUME number.error = "none"
      PROVE  number.next \in Nat /\ number.next > pos /\ number.value \in Nat
  BY <1>1, VarintAdvances
<1>2. CASE tag % 8 \in {0, 2}
  <2>1. number.error = "none"
    BY <1>2, BodyIs
  <2>2. body.next = number.next \/ body.next = number.next + number.value
    BY <1>2, <2>1, BodyIs DEF Carries
  <2> HIDE DEF number, body
  <2>3. body.next \in Nat /\ body.next >= pos
    BY <1>0, <1>1, <2>1, <2>2
  <2> QED BY <2>3 DEF body
<1>3. CASE tag % 8 \in {1, 5}
  <2>1. PICK size \in {4, 8} : body = Fixed(data, pos, size, tag)
    BY <1>3, BodyIs
  <2>2. body.next = pos + size
    <3>1. Fixed(data, pos, size, tag).error = "none"
      BY <2>1
    <3>2. ~(pos + size - 1 > Len(data))
      BY <3>1 DEF Fixed, Failure
    <3> QED BY <2>1, <3>2 DEF Fixed, Carries
  <2> HIDE DEF body
  <2>3. body.next \in Nat /\ body.next >= pos
    BY <1>0, <2>2
  <2> QED BY <2>3 DEF body
<1>4. CASE tag % 8 \notin {0, 1, 2, 5}
  <2>1. body = Failure("ValueError")
    BY <1>4, BodyIs
  <2> QED BY <2>1 DEF Failure
<1> QED BY <1>2, <1>3, <1>4

LEMMA FieldAdvances ==
  ASSUME NEW data \in Seq(Byte), NEW pos \in Positions, FieldAt(data, pos).error = "none"
  PROVE  FieldAt(data, pos).next \in Positions /\ FieldAt(data, pos).next > pos
<1> DEFINE tag == DecodeVarint(data, pos)
           field == FieldAt(data, pos)
<1>1. tag.error = "none" /\ field = FieldOf(data, tag)
  BY FieldIs
<1>2. /\ tag.next \in Nat /\ tag.next > pos /\ tag.value \in Nat
      /\ pos \in Nat /\ tag.next \in Positions /\ tag.value \div 8 \in Nat
  <2>1. tag.next \in Nat /\ tag.next > pos /\ tag.value \in Nat /\ pos \in Nat
    BY <1>1, VarintAdvances DEF Positions
  <2> HIDE DEF tag
  <2> QED BY <2>1 DEF Positions
<1>3. field.next \in Nat /\ field.next >= tag.next
  <2>1. CASE tag.value % 8 \in {3, 4}
    <3>1. PICK to : field = Past(to) /\ Onward(tag.next, to)
      <4>1. CASE tag.value % 8 = 3
        <5>1. field = Past(SkipGroup(data, tag.next, tag.value \div 8))
          BY <1>1, <4>1 DEF FieldOf
        <5> HIDE DEF field
        <5> QED BY <1>2, <5>1, SkipIs
      <4>2. CASE tag.value % 8 = 4
        <5>1. field = Past(tag.next)
          BY <1>1, <4>2 DEF FieldOf
        <5>2. Onward(tag.next, tag.next)
          BY <1>2 DEF Onward, Positions
        <5> HIDE DEF field
        <5> QED BY <5>1, <5>2
      <4> QED BY <2>1, <4>1, <4>2
    <3>2. to # 0 /\ field.next = to
      <4>1. Past(to).error = "none"
        BY <3>1
      <4>2. to # 0
        BY <4>1 DEF Past, Failure
      <4> QED BY <3>1, <4>2 DEF Past
    <3> QED BY <3>1, <3>2 DEF Onward
  <2>2. CASE tag.value % 8 \notin {3, 4}
    <3>1. field = FieldBody(data, tag.value, tag.next)
      BY <1>1, <2>2 DEF FieldOf
    <3> QED BY <1>2, <3>1, BodyAdvances
  <2> QED BY <2>1, <2>2
<1> HIDE DEF tag, field
<1>4. field.next \in Positions /\ field.next > pos
  BY <1>2, <1>3 DEF Positions
<1> QED BY <1>4 DEF field

\* One turn of the loop of decode.
ReadTurn(data, f, pos) ==
  IF pos > Len(data) THEN [error |-> "none", fields |-> <<>>]
  ELSE IF FieldAt(data, pos).error # "none" THEN FieldAt(data, pos)
  ELSE Before(FieldAt(data, pos), f[FieldAt(data, pos).next])

IsRead(data, f) == f = [pos \in Positions |-> ReadTurn(data, f, pos)]

LEMMA ReadExists ==
  ASSUME NEW data \in Seq(Byte)
  PROVE  \E f : IsRead(data, f)
<1> DEFINE From(k) == {pos \in Positions : pos + k > Len(data)}
           Solves(f, k) == f = [pos \in From(k) |-> ReadTurn(data, f, pos)]
           S == {k \in Nat : \E f : Solves(f, k)}
<1>0. Len(data) \in Nat
  OBVIOUS
<1>1. 0 \in S
  <2> DEFINE f == [pos \in From(0) |-> [error |-> "none", fields |-> <<>>]]
  <2>1. \A pos \in From(0) : ReadTurn(data, f, pos) = [error |-> "none", fields |-> <<>>]
    BY <1>0 DEF ReadTurn, Positions
  <2>2. Solves(f, 0)
    BY <2>1
  <2> QED BY <2>2
<1>2. ASSUME NEW k \in Nat, k \in S PROVE k + 1 \in S
  <2>1. PICK f : Solves(f, k)
    BY <1>2
  <2> DEFINE g == [pos \in From(k + 1) |-> IF pos \in From(k) THEN f[pos] ELSE ReadTurn(data, f, pos)]
  <2>2. \A pos \in From(k) : pos \in From(k + 1)
    BY <1>0 DEF Positions
  <2>3. \A pos \in From(k) : g[pos] = f[pos]
    BY <2>2
  <2>4. \A pos \in From(k) : f[pos] = ReadTurn(data, f, pos)
    BY <2>1
  <2>5. ASSUME NEW pos \in From(k + 1)
        PROVE  g[pos] = ReadTurn(data, g, pos)
    <3>1. g[pos] = ReadTurn(data, f, pos)
      BY <2>4
    <3>2. ReadTurn(data, g, pos) = ReadTurn(data, f, pos)
      <4>1. CASE ~(pos > Len(data)) /\ FieldAt(data, pos).error = "none"
        <5> DEFINE next == FieldAt(data, pos).next
        <5>1. next \in Positions /\ next > pos
          BY <4>1, FieldAdvances
        <5> HIDE DEF next
        <5>2. next \in From(k)
          BY <1>0, <5>1 DEF Positions
        <5>3. g[next] = f[next]
          BY <2>3, <5>2
        <5> HIDE DEF g
        <5> QED BY <4>1, <5>3 DEF ReadTurn, next
      <4>2. CASE pos > Len(data) \/ FieldAt(data, pos).error # "none"
        BY <4>2 DEF ReadTurn
      <4> QED BY <4>1, <4>2
    <3> QED BY <3>1, <3>2
  <2>6. Solves(g, k + 1)
    <3> DEFINE h == [pos \in From(k + 1) |-> ReadTurn(data, g, pos)]
    <3>1. g = h
      BY <2>5
    <3> HIDE DEF g
    <3> QED BY <3>1
  <2> HIDE DEF g, Solves
  <2>7. k + 1 \in Nat /\ \E h : Solves(h, k + 1)
    BY <2>6
  <2> QED BY <2>7
<1>3. \A k \in Nat : k \in S
  <2> HIDE DEF S
  <2> QED BY <1>1, <1>2, Induction
<1>4. PICK f : Solves(f, Len(data))
  BY <1>0, <1>3
<1>5. From(Len(data)) = Positions
  BY <1>0 DEF Positions
<1> QED BY <1>4, <1>5 DEF IsRead

LEMMA DecodeIs ==
  ASSUME NEW data \in Seq(Byte)
  PROVE  \E f : /\ Decode(data) = f[1]
                /\ \A pos \in Positions : f[pos] = ReadTurn(data, f, pos)
<1> DEFINE from[pos \in Nat \ {0}] ==
             IF pos > Len(data)
             THEN [error |-> "none", fields |-> <<>>]
             ELSE Then(FieldAt(data, pos), LAMBDA field : Before(field, from[field.next]))
<1>1. Decode(data) = from[1]
  BY DEF Decode
<1>2. from = CHOOSE f : IsRead(data, f)
  BY DEF IsRead, ReadTurn, Positions, Then
<1> HIDE DEF from
<1>3. IsRead(data, from)
  BY <1>2, ReadExists
<1> QED BY <1>1, <1>3 DEF IsRead

-----------------------------------------------------------------------------
(* What the format allows is stepped over.                                 *)

\* What is read at a tag.
TagRead(data, pos, tag, num, wire) ==
  /\ pos <= Len(data)
  /\ DecodeVarint(data, pos).error = "none"
  /\ DecodeVarint(data, pos).next = pos + Len(tag)
  /\ DecodeVarint(data, pos).value = num * 8 + wire
  /\ (num * 8 + wire) % 8 = wire /\ (num * 8 + wire) \div 8 = num

LEMMA TagAt ==
  ASSUME NEW data \in Seq(Byte), NEW pos \in Positions, NEW num \in Nat, NEW wire \in 0..7,
         NEW tag \in Tags(num, wire), At(data, pos, tag)
  PROVE  TagRead(data, pos, tag, num, wire)
<1>1. tag \in Varints /\ VarintValue(tag) = num * 8 + wire
  BY DEF Tags
<1>2. tag \in Seq(Byte) /\ Len(tag) \in Nat \ {0}
  BY <1>1, EmptySeq DEF Varints
<1>3. pos <= Len(data)
  <2>1. 1 \in 1..Len(tag)
    BY <1>2
  <2>2. (pos - 1) + 1 \in 1..Len(data)
    BY <2>1 DEF At
  <2> QED BY <2>2 DEF Positions
<1>4. (num * 8 + wire) % 8 = wire /\ (num * 8 + wire) \div 8 = num
  OBVIOUS
<1>5. DecodeVarint(data, pos) = [error |-> "none", next |-> pos + Len(tag),
                                 value |-> VarintValue(tag)]
  BY <1>1, VarintAt
<1> QED BY <1>1, <1>3, <1>4, <1>5 DEF TagRead

LEMMA TagIsSeq ==
  ASSUME NEW num, NEW wire, NEW tag \in Tags(num, wire)
  PROVE  tag \in Seq(Byte) /\ Len(tag) \in Nat \ {0}
BY EmptySeq DEF Tags, Varints

LEMMA PayloadAt ==
  ASSUME NEW data \in Seq(Byte), NEW pos \in Positions, NEW wire \in {0, 1, 2, 5},
         NEW payload \in Payloads(wire), At(data, pos, payload)
  PROVE  Step(data, pos, wire) = pos + Len(payload)
<1>0. pos \in Nat
  BY DEF Positions
<1>1. CASE wire = 0
  <2>1. payload \in Varints
    BY <1>1 DEF Payloads
  <2>2. DecodeVarint(data, pos) = [error |-> "none", next |-> pos + Len(payload),
                                   value |-> VarintValue(payload)]
    BY <2>1, VarintAt
  <2>3. payload \in Seq(Byte)
    BY DEF Payloads
  <2> QED BY <1>0, <1>1, <2>2, <2>3 DEF Step, StepOver
<1>2. CASE wire = 1
  <2>1. Len(payload) = 8
    BY <1>2 DEF Payloads
  <2>2. Step(data, pos, 1) = pos + 8
    BY DEF Step
  <2> QED BY <1>2, <2>1, <2>2
<1>3. CASE wire = 5
  <2>1. Len(payload) = 4
    BY <1>3 DEF Payloads
  <2>2. Step(data, pos, 5) = pos + 4
    BY DEF Step
  <2> QED BY <1>3, <2>1, <2>2
<1>4. CASE wire = 2
  <2>1. PICK length \in Varints, value \in Seq(Byte) :
               payload = length \o value /\ Len(value) = VarintValue(length)
    BY <1>4 DEF Payloads
  <2>2. length \in Seq(Byte)
    BY DEF Varints
  <2>3. At(data, pos, length)
    BY <2>1, <2>2, AtConcat
  <2>4. DecodeVarint(data, pos) = [error |-> "none", next |-> pos + Len(length),
                                   value |-> VarintValue(length)]
    BY <2>3, VarintAt
  <2>5. Step(data, pos, wire) = (pos + Len(length)) + Len(value)
    BY <1>4, <2>1, <2>4 DEF Step, StepOver
  <2>6. Len(payload) = Len(length) + Len(value)
    BY <2>1, <2>2, ConcatProperties
  <2> QED BY <1>0, <2>2, <2>5, <2>6
<1> QED BY <1>1, <1>2, <1>3, <1>4

\* The bytes x are stepped over inside a group, wherever they stand.
SteppedOver(x) ==
  \A data \in Seq(Byte), pos \in Positions, num \in Nat :
    At(data, pos, x) => SkipGroup(data, pos, num) = SkipGroup(data, pos + Len(x), num)

LEMMA SimpleSteppedOver ==
  ASSUME NEW n \in Nat, NEW field \in SimpleFields(n)
  PROVE  SteppedOver(field)
<1> SUFFICES ASSUME NEW data \in Seq(Byte), NEW pos \in Positions, NEW num \in Nat,
                    At(data, pos, field)
             PROVE  SkipGroup(data, pos, num) = SkipGroup(data, pos + Len(field), num)
  BY DEF SteppedOver
<1>1. PICK wire \in {0, 1, 2, 5} :
             \E tag \in Tags(n, wire), payload \in Payloads(wire) : field = tag \o payload
  BY DEF SimpleFields
<1>2. PICK tag \in Tags(n, wire), payload \in Payloads(wire) : field = tag \o payload
  BY <1>1
<1>3. tag \in Seq(Byte) /\ payload \in Seq(Byte)
  BY TagIsSeq DEF Payloads
<1>4. /\ At(data, pos, tag) /\ At(data, pos + Len(tag), payload)
      /\ pos + Len(tag) \in Positions
  BY <1>2, <1>3, AtConcat
<1>5. TagRead(data, pos, tag, n, wire)
  BY <1>4, TagAt
<1>6. Step(data, pos + Len(tag), wire) = (pos + Len(tag)) + Len(payload)
  BY <1>4, PayloadAt
<1>7. Len(field) = Len(tag) + Len(payload) /\ (pos + Len(tag)) + Len(payload) = pos + Len(field)
  <2>1. Len(field) = Len(tag) + Len(payload)
    BY <1>2, <1>3, ConcatProperties
  <2> QED BY <1>3, <2>1 DEF Positions
<1> DEFINE read == DecodeVarint(data, pos)
<1>8. SkipGroup(data, pos, num) = GroupTurn(data, pos, num, read)
  <2>1. pos \in Nat /\ pos # 0 /\ Len(data) \in Nat
    BY DEF Positions
  <2>2. ~ClosesGroup(read.value, num) /\ read.error = "none" /\ ~(pos > Len(data))
    BY <1>5, <2>1 DEF TagRead, ClosesGroup
  <2> QED BY <2>1, <2>2, SkipIs
<1>9. GroupTurn(data, pos, num, read) = SkipGroup(data, Step(data, pos + Len(tag), wire), num)
  BY <1>5 DEF TagRead, GroupTurn, OpensGroup
<1> HIDE DEF read
<1> QED BY <1>6, <1>7, <1>8, <1>9

LEMMA ConcatSteppedOver ==
  ASSUME NEW x \in Seq(Byte), NEW y \in Seq(Byte), SteppedOver(x), SteppedOver(y)
  PROVE  SteppedOver(x \o y)
<1> SUFFICES ASSUME NEW data \in Seq(Byte), NEW pos \in Positions, NEW num \in Nat,
                    At(data, pos, x \o y)
             PROVE  SkipGroup(data, pos, num) = SkipGroup(data, pos + Len(x \o y), num)
  BY DEF SteppedOver
<1>1. At(data, pos, x) /\ At(data, pos + Len(x), y) /\ pos + Len(x) \in Positions
  BY AtConcat
<1>2. SkipGroup(data, pos, num) = SkipGroup(data, pos + Len(x), num)
  BY <1>1 DEF SteppedOver
<1>3. SkipGroup(data, pos + Len(x), num) = SkipGroup(data, (pos + Len(x)) + Len(y), num)
  BY <1>1 DEF SteppedOver
<1>4. (pos + Len(x)) + Len(y) = pos + Len(x \o y)
  <2>1. Len(x \o y) = Len(x) + Len(y)
    BY ConcatProperties
  <2> QED BY <2>1 DEF Positions
<1> QED BY <1>2, <1>3, <1>4

\* After the start tag of a group, the position after the group is found.
LEMMA GroupIsLeft ==
  ASSUME NEW data \in Seq(Byte), NEW pos \in Positions, NEW n \in Nat,
         NEW inside \in Seq(Byte), SteppedOver(inside), NEW end \in Tags(n, 4),
         At(data, pos, inside \o end)
  PROVE  SkipGroup(data, pos, n) = pos + Len(inside \o end)
<1>1. end \in Seq(Byte)
  BY TagIsSeq
<1>2. /\ At(data, pos, inside) /\ At(data, pos + Len(inside), end)
      /\ pos + Len(inside) \in Positions
  BY <1>1, AtConcat
<1> DEFINE last == pos + Len(inside)
<1>3. SkipGroup(data, pos, n) = SkipGroup(data, last, n)
  BY <1>2 DEF SteppedOver
<1> HIDE DEF last
<1>4. TagRead(data, last, end, n, 4)
  BY <1>2, TagAt DEF last
<1>5. SkipGroup(data, last, n) = last + Len(end)
  <2>1. last \in Nat /\ last # 0 /\ Len(data) \in Nat
    BY <1>2 DEF Positions, last
  <2>2. /\ ClosesGroup(DecodeVarint(data, last).value, n)
        /\ DecodeVarint(data, last).error = "none" /\ ~(last > Len(data))
        /\ DecodeVarint(data, last).next = last + Len(end)
    BY <1>4, <2>1 DEF TagRead, ClosesGroup
  <2> QED BY <2>1, <2>2, SkipIs
<1>6. last + Len(end) = pos + Len(inside \o end)
  <2>1. Len(inside \o end) = Len(inside) + Len(end)
    BY <1>1, ConcatProperties
  <2> QED BY <1>1, <2>1 DEF Positions, last
<1> QED BY <1>3, <1>5, <1>6

LEMMA GroupSteppedOver ==
  ASSUME NEW n \in Nat, NEW start \in Tags(n, 3), NEW inside \in Seq(Byte), SteppedOver(inside),
         NEW end \in Tags(n, 4)
  PROVE  SteppedOver(start \o (inside \o end))
<1> DEFINE body == inside \o end
<1> SUFFICES ASSUME NEW data \in Seq(Byte), NEW pos \in Positions, NEW num \in Nat,
                    At(data, pos, start \o body)
             PROVE  SkipGroup(data, pos, num) = SkipGroup(data, pos + Len(start \o body), num)
  BY DEF SteppedOver
<1>1. start \in Seq(Byte) /\ end \in Seq(Byte) /\ body \in Seq(Byte)
  BY TagIsSeq, ConcatProperties
<1>2. /\ At(data, pos, start) /\ At(data, pos + Len(start), body)
      /\ pos + Len(start) \in Positions
  <2> HIDE DEF body
  <2> QED BY <1>1, AtConcat
<1>3. TagRead(data, pos, start, n, 3)
  BY <1>2, TagAt
<1>4. SkipGroup(data, pos + Len(start), n) = (pos + Len(start)) + Len(body)
  BY <1>2, GroupIsLeft
<1> HIDE DEF body
<1>5. (pos + Len(start)) + Len(body) = pos + Len(start \o body)
  <2>1. Len(start \o body) = Len(start) + Len(body)
    BY <1>1, ConcatProperties
  <2> QED BY <1>1, <2>1 DEF Positions
<1> DEFINE read == DecodeVarint(data, pos)
<1>6. SkipGroup(data, pos, num) = GroupTurn(data, pos, num, read)
  <2>1. pos \in Nat /\ pos # 0 /\ Len(data) \in Nat
    BY DEF Positions
  <2>2. ~ClosesGroup(read.value, num) /\ read.error = "none" /\ ~(pos > Len(data))
    BY <1>3, <2>1 DEF TagRead, ClosesGroup
  <2> QED BY <2>1, <2>2, SkipIs
<1>7. GroupTurn(data, pos, num, read) = SkipGroup(data, SkipGroup(data, pos + Len(start), n), num)
  BY <1>3 DEF TagRead, GroupTurn, OpensGroup
<1> HIDE DEF read
<1> QED BY <1>4, <1>5, <1>6, <1>7

\* What a group may hold is stepped over.
LEMMA ContentsSteppedOver ==
  \A x \in Contents : x \in Seq(Byte) /\ SteppedOver(x)
<1> DEFINE S == {x \in Seq(Byte) : SteppedOver(x)}
<1>1. <<>> \in S
  <2>1. Len(<<>>) = 0 /\ <<>> \in Seq(Byte)
    OBVIOUS
  <2>2. \A pos \in Positions : pos + 0 = pos
    BY DEF Positions
  <2> QED BY <2>1, <2>2 DEF SteppedOver
<1>2. ASSUME NEW num \in Nat, NEW rest \in S, NEW field \in SimpleFields(num)
      PROVE  field \o rest \in S
  <2>1. field \in Seq(Byte) /\ SteppedOver(field)
    BY SimpleSteppedOver DEF SimpleFields
  <2> QED BY <2>1, ConcatSteppedOver, ConcatProperties
<1>3. ASSUME NEW num \in Nat, NEW rest \in S, NEW start \in Tags(num, 3),
             NEW end \in Tags(num, 4), NEW inside \in S
      PROVE  start \o (inside \o (end \o rest)) \in S
  <2> DEFINE group == start \o (inside \o end)
  <2>1. start \in Seq(Byte) /\ end \in Seq(Byte) /\ inside \in Seq(Byte) /\ rest \in Seq(Byte)
    BY TagIsSeq
  <2>2. group \in Seq(Byte) /\ inside \o end \in Seq(Byte)
    <3>1. inside \o end \in Seq(Byte)
      BY <2>1, ConcatProperties
    <3> DEFINE body == inside \o end
    <3> HIDE DEF body
    <3>2. start \o body \in Seq(Byte)
      BY <2>1, <3>1, ConcatProperties DEF body
    <3> QED BY <3>1, <3>2 DEF body
  <2>3. SteppedOver(group)
    BY GroupSteppedOver
  <2>4. group \o rest = start \o (inside \o (end \o rest))
    <3> DEFINE body == inside \o end
    <3>1. (start \o body) \o rest = start \o (body \o rest)
      <4> HIDE DEF body
      <4>1. body \in Seq(Byte)
        BY <2>2 DEF body
      <4> QED BY <2>1, <4>1, ConcatAssociative
    <3>2. (inside \o end) \o rest = inside \o (end \o rest)
      BY <2>1, ConcatAssociative
    <3> QED BY <3>1, <3>2
  <2> HIDE DEF group
  <2>5. group \o rest \in S
    BY <2>1, <2>2, <2>3, ConcatSteppedOver, ConcatProperties
  <2> QED BY <2>4, <2>5
<1>4. Closed(S)
  <2> HIDE DEF S
  <2> QED BY <1>1, <1>2, <1>3 DEF Closed
<1>5. S \in SUBSET Seq(Byte)
  OBVIOUS
<1> HIDE DEF S
<1>6. \A x \in Contents : x \in S
  BY <1>4, <1>5 DEF Contents
<1> QED BY <1>6 DEF S

-----------------------------------------------------------------------------
(* Putting sequences one after the other.                                  *)

Joined(parts, f, n) == IF n = 0 THEN <<>> ELSE f[n - 1] \o parts[n]

IsJoined(parts, f) == f = [n \in 0..Len(parts) |-> Joined(parts, f, n)]

LEMMA JoinedExists ==
  ASSUME NEW X, NEW parts \in Seq(X)
  PROVE  \E f : IsJoined(parts, f)
<1> DEFINE Solves(f, k) == f = [n \in 0..k |-> Joined(parts, f, n)]
           S == {k \in Nat : \E f : Solves(f, k)}
<1>1. 0 \in S
  <2> DEFINE f == [n \in 0..0 |-> <<>>]
  <2>1. \A n \in 0..0 : Joined(parts, f, n) = <<>>
    BY DEF Joined
  <2>2. Solves(f, 0)
    BY <2>1
  <2> QED BY <2>2
<1>2. ASSUME NEW k \in Nat, k \in S PROVE k + 1 \in S
  <2>1. PICK f : Solves(f, k)
    BY <1>2
  <2> DEFINE g == [n \in 0..(k + 1) |-> IF n = k + 1 THEN Joined(parts, f, n) ELSE f[n]]
  <2>2. \A n \in 0..k : g[n] = f[n] /\ n # k + 1
    OBVIOUS
  <2>3. \A n \in 0..(k + 1) : Joined(parts, g, n) = Joined(parts, f, n)
    <3>1. ASSUME NEW n \in 0..(k + 1), n # 0 PROVE g[n - 1] = f[n - 1]
      <4>1. n - 1 \in 0..k
        BY <3>1
      <4> QED BY <2>2, <4>1
    <3> HIDE DEF g
    <3> QED BY <3>1 DEF Joined
  <2>4. \A n \in 0..(k + 1) : g[n] = Joined(parts, f, n)
    <3> SUFFICES ASSUME NEW n \in 0..(k + 1), n # k + 1 PROVE f[n] = Joined(parts, f, n)
      OBVIOUS
    <3>1. n \in 0..k
      OBVIOUS
    <3> QED BY <2>1, <3>1
  <2>5. Solves(g, k + 1)
    BY <2>3, <2>4
  <2> HIDE DEF g, Solves
  <2>6. k + 1 \in Nat /\ \E h : Solves(h, k + 1)
    BY <2>5
  <2> QED BY <2>6
<1>3. \A k \in Nat : k \in S
  <2> HIDE DEF S
  <2> QED BY <1>1, <1>2, Induction
<1>4. PICK f : Solves(f, Len(parts))
  <2>1. Len(parts) \in S
    BY <1>3
  <2> QED BY <2>1
<1> QED BY <1>4 DEF IsJoined

Joins(parts, f) == f[0] = <<>> /\ \A n \in 1..Len(parts) : f[n] = f[n - 1] \o parts[n]

LEMMA ConcatIs ==
  ASSUME NEW X, NEW parts \in Seq(Seq(X))
  PROVE  \E f : /\ Joins(parts, f)
                /\ \A n \in 0..Len(parts) : f[n] \in Seq(X)
                /\ Concat(parts) = f[Len(parts)]
<1> DEFINE upTo[n \in 0..Len(parts)] == IF n = 0 THEN <<>> ELSE upTo[n - 1] \o parts[n]
<1>1. Concat(parts) = upTo[Len(parts)]
  BY DEF Concat
<1>2. upTo = CHOOSE f : IsJoined(parts, f)
  BY DEF IsJoined, Joined
<1> HIDE DEF upTo
<1>3. IsJoined(parts, upTo)
  BY <1>2, JoinedExists
<1>4. Joins(parts, upTo)
  <2>1. \A n \in 0..Len(parts) : upTo[n] = Joined(parts, upTo, n)
    BY <1>3 DEF IsJoined
  <2>2. 0 \in 0..Len(parts) /\ \A n \in 1..Len(parts) : n \in 0..Len(parts) /\ n # 0
    OBVIOUS
  <2> QED BY <2>1, <2>2 DEF Joins, Joined
<1> DEFINE S == {n \in Nat : n <= Len(parts) => upTo[n] \in Seq(X)}
<1>5. 0 \in S
  <2>1. upTo[0] = <<>> /\ <<>> \in Seq(X)
    BY <1>4 DEF Joins
  <2> QED BY <2>1
<1>6. ASSUME NEW n \in Nat, n \in S PROVE n + 1 \in S
  <2> SUFFICES ASSUME n + 1 <= Len(parts) PROVE upTo[n + 1] \in Seq(X)
    OBVIOUS
  <2>1. n + 1 \in 1..Len(parts) /\ (n + 1) - 1 = n
    OBVIOUS
  <2>2. upTo[n + 1] = upTo[n] \o parts[n + 1]
    BY <1>4, <2>1 DEF Joins
  <2>3. upTo[n] \in Seq(X) /\ parts[n + 1] \in Seq(X)
    <3>1. parts[n + 1] \in Seq(X)
      BY <2>1, ElementOfSeq
    <3> QED BY <1>6, <3>1
  <2> QED BY <2>2, <2>3, ConcatProperties
<1>7. \A n \in Nat : n \in S
  <2> HIDE DEF S
  <2> QED BY <1>5, <1>6, Induction
<1>8. \A n \in 0..Len(parts) : upTo[n] \in Seq(X)
  BY <1>7
<1> QED BY <1>1, <1>4, <1>8

LEMMA ConcatOfConcat ==
  ASSUME NEW X, NEW a \in Seq(Seq(X)), NEW b \in Seq(Seq(X))
  PROVE  Concat(a \o b) = Concat(a) \o Concat(b) /\ Concat(a) \in Seq(X)
<1> DEFINE ab == a \o b
<1>1. /\ ab \in Seq(Seq(X)) /\ Len(ab) = Len(a) + Len(b) /\ Len(a) \in Nat /\ Len(b) \in Nat
      /\ \A i \in 1..Len(a) + Len(b) : ab[i] = IF i <= Len(a) THEN a[i] ELSE b[i - Len(a)]
  BY ConcatProperties
<1> HIDE DEF ab
<1>2. PICK f : /\ Joins(a, f) /\ Concat(a) = f[Len(a)]
               /\ \A n \in 0..Len(a) : f[n] \in Seq(X)
  BY ConcatIs
<1>3. PICK g : Joins(ab, g) /\ Concat(ab) = g[Len(ab)]
  BY <1>1, ConcatIs
<1>4. PICK h : /\ Joins(b, h) /\ Concat(b) = h[Len(b)]
               /\ \A n \in 0..Len(b) : h[n] \in Seq(X)
  BY ConcatIs
<1> DEFINE S == {n \in Nat : n <= Len(a) => g[n] = f[n]}
           before == f[Len(a)]
           T == {n \in Nat : n <= Len(b) => g[Len(a) + n] = before \o h[n]}
<1>5. 0 \in S
  BY <1>2, <1>3 DEF Joins
<1>6. ASSUME NEW n \in Nat, n \in S PROVE n + 1 \in S
  <2> SUFFICES ASSUME n + 1 <= Len(a) PROVE g[n + 1] = f[n + 1]
    OBVIOUS
  <2>1. n + 1 \in 1..Len(a) /\ n + 1 \in 1..Len(ab) /\ (n + 1) - 1 = n /\ ab[n + 1] = a[n + 1]
    BY <1>1
  <2>2. f[n + 1] = f[n] \o a[n + 1]
    BY <1>2, <2>1 DEF Joins
  <2>3. g[n + 1] = g[n] \o ab[n + 1]
    BY <1>3, <2>1 DEF Joins
  <2>4. g[n] = f[n]
    <3>1. n <= Len(a)
      BY <1>1
    <3> QED BY <1>6, <3>1
  <2> QED BY <2>1, <2>2, <2>3, <2>4
<1>7. \A n \in Nat : n \in S
  <2> HIDE DEF S
  <2> QED BY <1>5, <1>6, Induction
<1>8. before \in Seq(X) /\ g[Len(a)] = before
  BY <1>1, <1>2, <1>7
<1> HIDE DEF before
<1>9. 0 \in T
  <2>1. before \o <<>> = before
    BY <1>8, ConcatEmptySeq
  <2>2. h[0] = <<>> /\ Len(a) + 0 = Len(a)
    BY <1>1, <1>4 DEF Joins
  <2>3. g[Len(a) + 0] = before \o h[0]
    BY <1>8, <2>1, <2>2
  <2> QED BY <2>3
<1>10. ASSUME NEW n \in Nat, n \in T PROVE n + 1 \in T
  <2>0. n <= Len(b) => g[Len(a) + n] = before \o h[n]
    BY <1>10
  <2> SUFFICES ASSUME n + 1 <= Len(b) PROVE g[Len(a) + (n + 1)] = before \o h[n + 1]
    <3>1. n + 1 \in Nat
      OBVIOUS
    <3> DEFINE right == before \o h[n + 1]
    <3> HIDE DEF right
    <3> QED BY <3>1 DEF right
  <2> DEFINE m == Len(a) + (n + 1)
  <2>1. /\ n + 1 \in 1..Len(b) /\ (n + 1) - 1 = n
        /\ m \in 1..Len(ab) /\ m - 1 = Len(a) + n /\ ab[m] = b[n + 1]
    <3>1. m \in 1..Len(a) + Len(b) /\ ~(m <= Len(a)) /\ m - Len(a) = n + 1
      BY <1>1
    <3>2. ab[m] = b[n + 1]
      BY <1>1, <3>1
    <3> QED BY <1>1, <3>1, <3>2
  <2> HIDE DEF m
  <2>2. h[n + 1] = h[n] \o b[n + 1]
    BY <1>4, <2>1 DEF Joins
  <2>3. g[m] = g[Len(a) + n] \o ab[m]
    BY <1>3, <2>1 DEF Joins
  <2>4. g[Len(a) + n] = before \o h[n]
    <3>1. n <= Len(b)
      BY <1>1
    <3> QED BY <2>0, <3>1
  <2>5. h[n] \in Seq(X) /\ b[n + 1] \in Seq(X)
    <3>1. b[n + 1] \in Seq(X)
      BY <2>1, ElementOfSeq
    <3>2. n \in 0..Len(b)
      BY <2>1
    <3> QED BY <1>4, <3>1, <3>2
  <2> DEFINE x == h[n]
             y == b[n + 1]
  <2> HIDE DEF x, y
  <2>6. (before \o x) \o y = before \o (x \o y)
    <3>1. x \in Seq(X) /\ y \in Seq(X)
      BY <2>5 DEF x, y
    <3> QED BY <1>8, <3>1, ConcatAssociative
  <2>7. g[m] = (before \o x) \o y
    BY <2>1, <2>3, <2>4 DEF x, y
  <2>8. before \o h[n + 1] = before \o (x \o y)
    BY <2>2 DEF x, y
  <2> QED BY <2>6, <2>7, <2>8 DEF m
<1>11. \A n \in Nat : n \in T
  <2> HIDE DEF T
  <2> QED BY <1>9, <1>10, Induction
<1>12. g[Len(a) + Len(b)] = before \o h[Len(b)]
  <2>1. \A n \in Nat : n <= Len(b) => g[Len(a) + n] = before \o h[n]
    BY <1>11
  <2>2. Len(b) \in Nat /\ Len(b) <= Len(b)
    BY <1>1
  <2> HIDE DEF T
  <2> QED BY <2>1, <2>2
<1>13. Concat(ab) = before \o Concat(b) /\ Concat(a) = before
  BY <1>1, <1>2, <1>3, <1>4, <1>12 DEF before
<1> QED BY <1>8, <1>13 DEF ab

LEMMA ConcatOfNone == Concat(<<>>) = <<>>
<1>1. <<>> \in Seq(Seq(Nat)) /\ Len(<<>>) = 0
  OBVIOUS
<1> QED BY <1>1, ConcatIs DEF Joins

LEMMA ConcatOfOne ==
  ASSUME NEW X, NEW p \in Seq(X)
  PROVE  Concat(<<p>>) = p
<1> DEFINE q == <<p>>
<1>1. q \in Seq(Seq(X)) /\ Len(q) = 1 /\ q[1] = p
  OBVIOUS
<1> HIDE DEF q
<1>2. PICK f : Joins(q, f) /\ Concat(q) = f[1]
  BY <1>1, ConcatIs
<1>3. f[0] = <<>> /\ \A n \in 1..1 : f[n] = f[n - 1] \o q[n]
  BY <1>1, <1>2 DEF Joins
<1>4. f[1] = f[1 - 1] \o q[1]
  <2>1. 1 \in 1..1
    OBVIOUS
  <2> QED BY <1>3, <2>1
<1>5. f[1 - 1] = f[0]
  OBVIOUS
<1>6. <<>> \o p = p
  BY ConcatEmptySeq
<1> QED BY <1>1, <1>2, <1>3, <1>4, <1>5, <1>6 DEF q

\* A sequence that is not empty is its first and the rest.
LEMMA FirstAndRest ==
  ASSUME NEW X, NEW s \in Seq(X), NEW k \in Nat, Len(s) = k + 1
  PROVE  /\ s[1] \in X /\ Tail(s) \in Seq(X) /\ Len(Tail(s)) = k
         /\ s = <<s[1]>> \o Tail(s)
         /\ \A i \in 1..k : Tail(s)[i] = s[i + 1]
<1>1. s # <<>> /\ s[1] \in X
  BY ElementOfSeq, EmptySeq
<1>2. /\ Tail(s) \in Seq(X) /\ Len(Tail(s)) = k
      /\ \A i \in 1..k : Tail(s)[i] = s[i + 1]
  <2>1. /\ Tail(s) \in Seq(X) /\ Len(Tail(s)) = Len(s) - 1
        /\ \A i \in 1..Len(Tail(s)) : Tail(s)[i] = s[i + 1]
    BY <1>1, HeadTailProperties
  <2> QED BY <2>1
<1> DEFINE t == Tail(s)
           r == <<s[1]>> \o t
<1> HIDE DEF t
<1>3. /\ r \in Seq(X) /\ Len(r) = k + 1
      /\ r[1] = s[1] /\ \A i \in 1..k : r[i + 1] = t[i]
  <2>1. <<s[1]>> \in Seq(X) /\ Len(<<s[1]>>) = 1 /\ <<s[1]>>[1] = s[1] /\ t \in Seq(X) /\ Len(t) = k
    BY <1>1, <1>2 DEF t
  <2>2. /\ r \in Seq(X) /\ Len(r) = 1 + k
        /\ \A i \in 1..1 + k : r[i] = IF i <= 1 THEN <<s[1]>>[i] ELSE t[i - 1]
    BY <2>1, ConcatProperties
  <2>3. \A i \in 1..k : i + 1 \in 1..1 + k /\ ~(i + 1 <= 1) /\ (i + 1) - 1 = i
    OBVIOUS
  <2> QED BY <2>1, <2>2, <2>3
<1> HIDE DEF r
<1>4. \A i \in 1..Len(s) : s[i] = r[i]
  <2> TAKE i \in 1..Len(s)
  <2>1. CASE i = 1
    BY <1>3, <2>1
  <2>2. CASE i # 1
    <3>1. i - 1 \in 1..k /\ (i - 1) + 1 = i
      BY <2>2
    <3> QED BY <1>2, <1>3, <3>1 DEF t
  <2> QED BY <2>1, <2>2
<1>5. s = r
  BY <1>3, <1>4, SeqEqual
<1> QED BY <1>1, <1>2, <1>5 DEF r, t

\* The first comes first.
LEMMA ConcatFirst ==
  ASSUME NEW X, NEW parts \in Seq(Seq(X)), NEW k \in Nat, Len(parts) = k + 1
  PROVE  /\ parts[1] \in Seq(X) /\ Tail(parts) \in Seq(Seq(X)) /\ Len(Tail(parts)) = k
         /\ \A i \in 1..k : Tail(parts)[i] = parts[i + 1]
         /\ Concat(parts) = parts[1] \o Concat(Tail(parts))
         /\ Concat(Tail(parts)) \in Seq(X)
<1> DEFINE t == Tail(parts)
<1>1. /\ parts[1] \in Seq(X) /\ t \in Seq(Seq(X)) /\ Len(t) = k
      /\ parts = <<parts[1]>> \o t
      /\ \A i \in 1..k : t[i] = parts[i + 1]
  BY FirstAndRest
<1> HIDE DEF t
<1>2. <<parts[1]>> \in Seq(Seq(X)) /\ Concat(<<parts[1]>>) = parts[1]
  BY <1>1, ConcatOfOne
<1>3. Concat(parts) = Concat(<<parts[1]>>) \o Concat(t)
  BY <1>1, <1>2, ConcatOfConcat
<1>4. Concat(t) \in Seq(X)
  BY <1>1, ConcatOfConcat
<1> QED BY <1>1, <1>2, <1>3, <1>4 DEF t

-----------------------------------------------------------------------------
(* What the format allows is read.                                         *)

\* What a field carries, by the Python type the reader gives it.
Values == [type : {"int"}, int : Nat] \cup [type : {"float", "bytes"}, bytes : Seq(Byte)]

RawFields == [num : Nat, value : Values]

Found(fields) == [error |-> "none", fields |-> fields]

\* A piece of a message is read as these fields, wherever it stands.
ReadAs(piece, fields) ==
  /\ Len(piece) > 0
  /\ \A data \in Seq(Byte), pos \in Positions :
       At(data, pos, piece)
         => FieldAt(data, pos) = [error |-> "none", next |-> pos + Len(piece), fields |-> fields]

LEMMA CutAt ==
  ASSUME NEW data \in Seq(Byte), NEW from \in Positions, NEW x \in Seq(Byte),
         At(data, from, x), from - 1 <= Len(data)
  PROVE  Cut(data, from, Len(x)) = x
<1> DEFINE last == from + Len(x) - 1
<1>1. from \in Nat /\ from > 0 /\ Len(x) \in Nat /\ Len(data) \in Nat /\ last \in Nat
  BY DEF Positions
<1>2. \A i \in 1..Len(x) : (from - 1) + i \in 1..Len(data) /\ data[(from - 1) + i] = x[i]
  BY DEF At
<1>3. last <= Len(data)
  <2>1. CASE Len(x) = 0
    BY <1>1, <2>1
  <2>2. CASE Len(x) # 0
    <3>1. Len(x) \in 1..Len(x) /\ (from - 1) + Len(x) = last
      BY <1>1, <2>2
    <3> QED BY <1>1, <1>2, <3>1
  <2> QED BY <2>1, <2>2
<1>4. Min({last, Len(data)}) = last
  <2> DEFINE T == {last, Len(data)}
  <2>1. T \in SUBSET Nat /\ last \in T /\ \A m \in T : last <= m
    BY <1>1, <1>3
  <2> HIDE DEF T, last
  <2> QED BY <2>1, LeastIsMin DEF T
<1>5. Cut(data, from, Len(x)) = SubSeq(data, from, last)
  <2>1. Cut(data, from, Len(x)) = SubSeq(data, from, Min({last, Len(data)}))
    BY DEF Cut
  <2> HIDE DEF last
  <2> QED BY <1>4, <2>1
<1>6. SubSeq(data, from, last) = x
  <2>1. CASE Len(x) = 0
    <3>1. x = <<>> /\ last < from
      BY <1>1, <2>1, EmptySeq
    <3> HIDE DEF last
    <3> QED BY <1>1, <3>1, SubSeqEmpty
  <2>2. CASE Len(x) # 0
    <3>1. \A i \in from..last : data[i] \in Byte
      <4>1. \A i \in from..last : i \in 1..Len(data)
        BY <1>1, <1>3
      <4> QED BY <4>1, ElementOfSeq
    <3>2. from <= last /\ (last - from) + 1 = Len(x)
      BY <1>1, <2>2
    <3>3. /\ SubSeq(data, from, last) \in Seq(Byte)
          /\ Len(SubSeq(data, from, last)) = Len(x)
          /\ \A i \in 1..Len(x) : SubSeq(data, from, last)[i] = data[(from + i) - 1]
      BY <1>1, <3>1, <3>2, SubSeqProperties
    <3>4. \A i \in 1..Len(x) : SubSeq(data, from, last)[i] = x[i]
      <4> TAKE i \in 1..Len(x)
      <4>1. (from + i) - 1 = (from - 1) + i
        BY <1>1
      <4> QED BY <1>2, <3>3, <4>1
    <3> HIDE DEF last
    <3> QED BY <3>3, <3>4, SeqEqual
  <2> QED BY <2>1, <2>2
<1> QED BY <1>5, <1>6

\* A number of fixed width that is all there is not cut short.
LEMMA FixedAt ==
  ASSUME NEW data \in Seq(Byte), NEW pos \in Positions, NEW x \in Seq(Byte), NEW tag,
         NEW size \in {4, 8}, Len(x) = size, At(data, pos, x)
  PROVE  Fixed(data, pos, Len(x), tag)
           = Carries(tag, [type |-> "float", bytes |-> x], pos + Len(x))
<1>0. size \in Nat /\ size # 0
  OBVIOUS
<1>1. pos \in Nat /\ pos > 0 /\ Len(x) \in Nat /\ Len(x) # 0 /\ Len(data) \in Nat
  BY <1>0 DEF Positions
<1>2. (pos - 1) + Len(x) \in 1..Len(data) /\ 1 \in 1..Len(x)
  <2>1. Len(x) \in 1..Len(x) /\ 1 \in 1..Len(x)
    BY <1>1
  <2> QED BY <2>1 DEF At
<1>3. pos - 1 <= Len(data) /\ ~(pos + Len(x) - 1 > Len(data))
  BY <1>1, <1>2
<1>4. Cut(data, pos, Len(x)) = x
  BY <1>3, CutAt
<1>5. Fixed(data, pos, Len(x), tag)
        = Carries(tag, [type |-> "float", bytes |-> Cut(data, pos, Len(x))], pos + Len(x))
  <2> DEFINE carried == Carries(tag, [type |-> "float", bytes |-> Cut(data, pos, Len(x))],
                                pos + Len(x))
  <2>1. Fixed(data, pos, Len(x), tag)
          = IF pos + Len(x) - 1 > Len(data) THEN Failure("struct.error") ELSE carried
    BY DEF Fixed
  <2> HIDE DEF carried
  <2>2. Fixed(data, pos, Len(x), tag) = carried
    BY <1>3, <2>1
  <2> QED BY <2>2 DEF carried
<1> QED BY <1>4, <1>5, Zenon

\* The value that the bytes after a tag stand for.
StandsFor(wire, payload, value) ==
  \/ wire = 0 /\ value = [type |-> "int", int |-> VarintValue(payload)]
  \/ wire \in {1, 5} /\ value = [type |-> "float", bytes |-> payload]
  \/ /\ wire = 2
     /\ \E length \in Varints, bytes \in Seq(Byte) :
          /\ payload = length \o bytes /\ Len(bytes) = VarintValue(length)
          /\ value = [type |-> "bytes", bytes |-> bytes]

LEMMA PayloadHasValue ==
  ASSUME NEW wire \in {0, 1, 2, 5}, NEW payload \in Payloads(wire)
  PROVE  \E value \in Values : StandsFor(wire, payload, value)
<1>0. payload \in Seq(Byte)
  BY DEF Payloads
<1>1. CASE wire = 0
  <2> DEFINE value == [type |-> "int", int |-> VarintValue(payload)]
  <2>1. value \in Values
    BY <1>0, ValueIsNat DEF Values
  <2>2. StandsFor(wire, payload, value)
    BY <1>1 DEF StandsFor
  <2> HIDE DEF value
  <2> QED BY <2>1, <2>2
<1>2. CASE wire \in {1, 5}
  <2> DEFINE value == [type |-> "float", bytes |-> payload]
  <2>1. value \in Values
    BY <1>0 DEF Values
  <2>2. StandsFor(wire, payload, value)
    BY <1>2 DEF StandsFor
  <2> HIDE DEF value
  <2> QED BY <2>1, <2>2
<1>3. CASE wire = 2
  <2>1. PICK length \in Varints, bytes \in Seq(Byte) :
               payload = length \o bytes /\ Len(bytes) = VarintValue(length)
    BY <1>3 DEF Payloads
  <2> DEFINE value == [type |-> "bytes", bytes |-> bytes]
  <2>2. value \in Values
    BY DEF Values
  <2>3. StandsFor(wire, payload, value)
    <3>1. \E l \in Varints, b \in Seq(Byte) :
            /\ payload = l \o b /\ Len(b) = VarintValue(l)
            /\ value = [type |-> "bytes", bytes |-> b]
      BY <2>1
    <3> HIDE DEF value
    <3> QED BY <1>3, <3>1 DEF StandsFor
  <2> HIDE DEF value
  <2> QED BY <2>2, <2>3
<1> QED BY <1>1, <1>2, <1>3

\* What follows a tag is read as its value.
LEMMA PayloadRead ==
  ASSUME NEW wire \in {0, 1, 2, 5}, NEW payload \in Payloads(wire), NEW given,
         StandsFor(wire, payload, given)
  PROVE  \A data \in Seq(Byte), pos \in Positions, tag \in Nat :
           pos - 1 <= Len(data) /\ At(data, pos, payload) /\ tag % 8 = wire
             => FieldBody(data, tag, pos) = Carries(tag, given, pos + Len(payload))
<1>0. payload \in Seq(Byte)
  BY DEF Payloads
<1>1. CASE wire = 0
  <2> DEFINE value == [type |-> "int", int |-> VarintValue(payload)]
  <2>1. payload \in Varints
    BY <1>1 DEF Payloads
  <2>2. value = given
    BY <1>1 DEF StandsFor
  <2>3. ASSUME NEW data \in Seq(Byte), NEW pos \in Positions, NEW tag \in Nat,
               At(data, pos, payload), tag % 8 = 0
        PROVE  FieldBody(data, tag, pos) = Carries(tag, value, pos + Len(payload))
    <3>1. DecodeVarint(data, pos) = [error |-> "none", next |-> pos + Len(payload),
                                     value |-> VarintValue(payload)]
      BY <2>1, <2>3, VarintAt
    <3> DEFINE read == DecodeVarint(data, pos)
    <3>2. /\ read.error = "none" /\ read.next = pos + Len(payload)
          /\ read.value = VarintValue(payload)
      BY <3>1
    <3>3. FieldBody(data, tag, pos)
            = Carries(tag, [type |-> "int", int |-> read.value], read.next)
      BY <2>3, <3>2, BodyIs, Zenon
    <3> QED BY <3>2, <3>3, Zenon
  <2> HIDE DEF value
  <2> QED BY <1>1, <2>2, <2>3
<1>2. CASE wire \in {1, 5}
  <2> DEFINE value == [type |-> "float", bytes |-> payload]
  <2>1. (wire = 1 => Len(payload) = 8) /\ (wire = 5 => Len(payload) = 4)
    <3>1. wire = 1 => Len(payload) = 8
      BY DEF Payloads
    <3>2. wire = 5 => Len(payload) = 4
      BY DEF Payloads
    <3> QED BY <3>1, <3>2
  <2>2. value = given
    BY <1>2 DEF StandsFor
  <2>3. ASSUME NEW data \in Seq(Byte), NEW pos \in Positions, NEW tag \in Nat,
               pos - 1 <= Len(data), At(data, pos, payload), tag % 8 = wire
        PROVE  FieldBody(data, tag, pos) = Carries(tag, value, pos + Len(payload))
    <3>1. FieldBody(data, tag, pos) = Fixed(data, pos, Len(payload), tag)
      <4>1. CASE wire = 1
        <5>1. Len(payload) = 8
          BY <2>1, <4>1
        <5> QED BY <2>3, <4>1, <5>1, BodyIs
      <4>2. CASE wire = 5
        <5>1. Len(payload) = 4
          BY <2>1, <4>2
        <5> QED BY <2>3, <4>2, <5>1, BodyIs
      <4> QED BY <1>2, <4>1, <4>2
    <3> HIDE DEF value
    <3>2. Len(payload) \in {4, 8}
      BY <1>2, <2>1
    <3>3. Fixed(data, pos, Len(payload), tag) = Carries(tag, value, pos + Len(payload))
      BY <1>0, <2>3, <3>2, FixedAt DEF value
    <3> QED BY <3>1, <3>3
  <2> HIDE DEF value
  <2> QED BY <2>2, <2>3
<1>3. CASE wire = 2
  <2>1. PICK length \in Varints, bytes \in Seq(Byte) :
               /\ payload = length \o bytes /\ Len(bytes) = VarintValue(length)
               /\ given = [type |-> "bytes", bytes |-> bytes]
    BY <1>3 DEF StandsFor
  <2> DEFINE value == [type |-> "bytes", bytes |-> bytes]
  <2>2. value = given
    BY <2>1
  <2>3. length \in Seq(Byte) /\ Len(length) \in Nat \ {0}
    BY EmptySeq DEF Varints
  <2>4. ASSUME NEW data \in Seq(Byte), NEW pos \in Positions, NEW tag \in Nat,
               At(data, pos, payload), tag % 8 = 2
        PROVE  FieldBody(data, tag, pos) = Carries(tag, value, pos + Len(payload))
    <3> DEFINE from == pos + Len(length)
    <3>1. At(data, pos, length) /\ At(data, from, bytes) /\ from \in Positions
      BY <2>1, <2>3, <2>4, AtConcat
    <3>2. DecodeVarint(data, pos) = [error |-> "none", next |-> from,
                                     value |-> Len(bytes)]
      BY <2>1, <3>1, VarintAt
    <3>3. from - 1 <= Len(data)
      <4>1. Len(length) \in 1..Len(length)
        BY <2>3
      <4>2. (pos - 1) + Len(length) \in 1..Len(data)
        BY <3>1, <4>1 DEF At
      <4> QED BY <2>3, <4>2 DEF Positions
    <3>4. from + Len(bytes) = pos + Len(payload)
      <4>1. Len(payload) = Len(length) + Len(bytes)
        BY <2>1, <2>3, ConcatProperties
      <4> QED BY <2>3, <4>1 DEF Positions
    <3> HIDE DEF from
    <3>5. Cut(data, from, Len(bytes)) = bytes
      BY <3>1, <3>3, CutAt
    <3>6. FieldBody(data, tag, pos) = Carries(tag, value, from + Len(bytes))
      <4> DEFINE read == DecodeVarint(data, pos)
      <4>1. read.error = "none" /\ read.next = from /\ read.value = Len(bytes)
        BY <3>2
      <4>2. FieldBody(data, tag, pos)
              = Carries(tag, [type |-> "bytes", bytes |-> Cut(data, read.next, read.value)],
                        read.next + read.value)
        BY <2>4, <4>1, BodyIs, Zenon
      <4> QED BY <3>5, <4>1, <4>2, Zenon
    <3> QED BY <3>4, <3>6
  <2> HIDE DEF value
  <2> QED BY <1>3, <2>2, <2>4
<1> QED BY <1>1, <1>2, <1>3

\* A field that is no group is read as one field of its number.
LEMMA FieldIsRead ==
  ASSUME NEW n \in Nat, NEW wire \in {0, 1, 2, 5}, NEW tag \in Tags(n, wire),
         NEW payload \in Payloads(wire), NEW value, StandsFor(wire, payload, value)
  PROVE  ReadAs(tag \o payload, <<[num |-> n, value |-> value]>>)
<1> DEFINE field == tag \o payload
<1>1. tag \in Seq(Byte) /\ payload \in Seq(Byte) /\ Len(tag) \in Nat \ {0}
  BY TagIsSeq DEF Payloads
<1>2. field = tag \o payload
  OBVIOUS
<1> HIDE DEF field
<1>4. \A data \in Seq(Byte), pos \in Positions, t \in Nat :
        pos - 1 <= Len(data) /\ At(data, pos, payload) /\ t % 8 = wire
          => FieldBody(data, t, pos) = Carries(t, value, pos + Len(payload))
  BY PayloadRead
<1>5. Len(field) = Len(tag) + Len(payload)
  BY <1>2, <1>1, ConcatProperties
<1>6. ASSUME NEW data \in Seq(Byte), NEW pos \in Positions, At(data, pos, field)
      PROVE  FieldAt(data, pos) = [error |-> "none", next |-> pos + Len(field),
                                   fields |-> <<[num |-> n, value |-> value]>>]
  <2> DEFINE after == pos + Len(tag)
             t == n * 8 + wire
  <2>1. /\ At(data, pos, tag) /\ At(data, after, payload) /\ after \in Positions
    BY <1>2, <1>1, <1>6, AtConcat
  <2>2. TagRead(data, pos, tag, n, wire)
    BY <2>1, TagAt
  <2>3. after - 1 <= Len(data)
    <3>1. Len(tag) \in 1..Len(tag)
      BY <1>1
    <3>2. (pos - 1) + Len(tag) \in 1..Len(data)
      BY <2>1, <3>1 DEF At
    <3> QED BY <1>1, <3>2 DEF Positions
  <2>4. t \in Nat /\ t % 8 = wire /\ t \div 8 = n /\ wire # 3 /\ wire # 4
    <3>1. t % 8 = wire /\ t \div 8 = n
      BY <2>2 DEF TagRead
    <3> QED BY <3>1
  <2>5. after + Len(payload) = pos + Len(field)
    BY <1>1, <1>5 DEF Positions
  <2> DEFINE read == DecodeVarint(data, pos)
  <2>6. read.error = "none" /\ read.value = t /\ read.next = after
    BY <2>2 DEF TagRead
  <2> HIDE DEF after, t
  <2>7. FieldAt(data, pos) = FieldBody(data, t, after)
    <3>1. FieldAt(data, pos) = FieldOf(data, read)
      BY <2>6, FieldIs
    <3> HIDE DEF read
    <3> QED BY <2>4, <2>6, <3>1 DEF FieldOf
  <2>8. FieldBody(data, t, after) = Carries(t, value, after + Len(payload))
    BY <1>4, <2>1, <2>3, <2>4
  <2> QED BY <2>4, <2>5, <2>7, <2>8 DEF Carries
<1>7. Len(field) > 0
  BY <1>1, <1>5
<1> QED BY <1>6, <1>7 DEF ReadAs, field

LEMMA SimpleIsRead ==
  ASSUME NEW n \in Nat, NEW field \in SimpleFields(n)
  PROVE  \E value \in Values : ReadAs(field, <<[num |-> n, value |-> value]>>)
<1>1. PICK wire \in {0, 1, 2, 5} :
             \E tag \in Tags(n, wire), payload \in Payloads(wire) : field = tag \o payload
  BY DEF SimpleFields
<1>2. PICK tag \in Tags(n, wire), payload \in Payloads(wire) : field = tag \o payload
  BY <1>1
<1>3. PICK value \in Values : StandsFor(wire, payload, value)
  BY PayloadHasValue
<1>4. ReadAs(tag \o payload, <<[num |-> n, value |-> value]>>)
  BY <1>3, FieldIsRead
<1> QED BY <1>2, <1>4

\* A group is read as nothing.
LEMMA GroupIsRead ==
  ASSUME NEW n \in Nat, NEW group \in Groups(n)
  PROVE  ReadAs(group, <<>>)
<1>1. PICK start \in Tags(n, 3), inside \in Contents, end \in Tags(n, 4) :
             group = start \o (inside \o end)
  BY DEF Groups
<1> DEFINE body == inside \o end
<1>2. /\ start \in Seq(Byte) /\ Len(start) \in Nat \ {0}
      /\ inside \in Seq(Byte) /\ SteppedOver(inside) /\ end \in Seq(Byte)
  BY TagIsSeq, ContentsSteppedOver
<1>3. body \in Seq(Byte)
  BY <1>2, ConcatProperties
<1>4. ASSUME NEW data \in Seq(Byte), NEW pos \in Positions, At(data, pos, group)
      PROVE  FieldAt(data, pos) = [error |-> "none", next |-> pos + Len(group), fields |-> <<>>]
  <2> DEFINE after == pos + Len(start)
             read == DecodeVarint(data, pos)
  <2>1. At(data, pos, start) /\ At(data, after, body) /\ after \in Positions
    <3>1. At(data, pos, start \o body)
      BY <1>1, <1>4
    <3> HIDE DEF body
    <3> QED BY <1>2, <1>3, <3>1, AtConcat
  <2>2. TagRead(data, pos, start, n, 3)
    BY <2>1, TagAt
  <2>3. /\ read.error = "none" /\ read.next = after
        /\ read.value % 8 = 3 /\ read.value \div 8 = n
    BY <2>2 DEF TagRead
  <2> HIDE DEF after
  <2>4. FieldAt(data, pos) = Past(SkipGroup(data, after, n))
    <3>1. FieldAt(data, pos) = FieldOf(data, read)
      BY <2>3, FieldIs
    <3> HIDE DEF read
    <3> QED BY <2>3, <3>1 DEF FieldOf
  <2>5. SkipGroup(data, after, n) = after + Len(body)
    BY <1>2, <2>1, GroupIsLeft
  <2>6. after + Len(body) = pos + Len(group) /\ after + Len(body) # 0
    <3> HIDE DEF body
    <3>1. Len(start \o body) = Len(start) + Len(body)
      BY <1>2, <1>3, ConcatProperties
    <3>2. Len(group) = Len(start) + Len(body)
      BY <1>1, <3>1 DEF body
    <3> QED BY <1>2, <1>3, <3>2 DEF Positions, after
  <2> QED BY <2>4, <2>5, <2>6 DEF Past
<1>5. Len(group) > 0
  <2> HIDE DEF body
  <2>1. Len(start \o body) = Len(start) + Len(body)
    BY <1>2, <1>3, ConcatProperties
  <2> QED BY <1>1, <1>2, <1>3, <2>1 DEF body
<1> QED BY <1>4, <1>5 DEF ReadAs

-----------------------------------------------------------------------------
(* A message is read piece by piece.                                       *)

PartReadAs(part, fields) == (part = <<>> /\ fields = <<>>) \/ ReadAs(part, fields)

PartsReadAs(parts, found, k) ==
  /\ parts \in Seq(Seq(Byte)) /\ Len(parts) = k
  /\ found \in Seq(Seq(RawFields)) /\ Len(found) = k
  /\ \A i \in 1..k : PartReadAs(parts[i], found[i])

\* The rest of a message is read as these fields, whatever comes before it.
RestReadAs(rest, fields) ==
  \A before \in Seq(Byte) : \A f :
    (\A pos \in Positions : f[pos] = ReadTurn(before \o rest, f, pos))
      => f[Len(before) + 1] = Found(fields)

LEMMA NothingIsRead == RestReadAs(<<>>, <<>>)
<1> SUFFICES ASSUME NEW before \in Seq(Byte), NEW f,
                    \A pos \in Positions : f[pos] = ReadTurn(before \o <<>>, f, pos)
             PROVE  f[Len(before) + 1] = Found(<<>>)
  BY DEF RestReadAs
<1> DEFINE pos == Len(before) + 1
<1>1. before \o <<>> = before
  BY ConcatEmptySeq
<1>2. pos \in Positions /\ pos > Len(before)
  BY DEF Positions
<1>3. f[pos] = ReadTurn(before, f, pos)
  <2> HIDE DEF pos
  <2> QED BY <1>1, <1>2
<1> HIDE DEF pos
<1>4. f[pos] = Found(<<>>)
  BY <1>2, <1>3 DEF ReadTurn, Found
<1> QED BY <1>4 DEF pos

LEMMA PartIsRead ==
  ASSUME NEW part \in Seq(Byte), NEW fields \in Seq(RawFields), PartReadAs(part, fields),
         NEW rest \in Seq(Byte), NEW others \in Seq(RawFields), RestReadAs(rest, others)
  PROVE  RestReadAs(part \o rest, fields \o others)
<1>0. \A before \in Seq(Byte) : before \o (part \o rest) = (before \o part) \o rest
  BY ConcatAssociative
<1> SUFFICES ASSUME NEW before \in Seq(Byte), NEW f,
                    \A pos \in Positions : f[pos] = ReadTurn(before \o (part \o rest), f, pos)
             PROVE  f[Len(before) + 1] = Found(fields \o others)
  BY DEF RestReadAs
<1> DEFINE pos == Len(before) + 1
           past == before \o part
           partRest == part \o rest
           data == before \o partRest
<1>1. past \in Seq(Byte) /\ partRest \in Seq(Byte)
  BY ConcatProperties
<1>2. data \in Seq(Byte)
  <2> HIDE DEF partRest
  <2> QED BY <1>1, ConcatProperties
<1>3. data = past \o rest
  BY <1>0
<1>4. \A p \in Positions : f[p] = ReadTurn(data, f, p)
  OBVIOUS
<1>5. At(data, pos, part)
  BY AtWhole
<1>6. Len(past) = Len(before) + Len(part)
  BY ConcatProperties
<1> HIDE DEF data
<1>7. f[Len(past) + 1] = Found(others)
  <2> HIDE DEF past
  <2>1. \A p \in Positions : f[p] = ReadTurn(past \o rest, f, p)
    BY <1>3, <1>4
  <2> QED BY <1>1, <2>1 DEF RestReadAs
<1> HIDE DEF past, partRest
<1>8. CASE part = <<>> /\ fields = <<>>
  <2>1. Len(past) = Len(before)
    BY <1>6, <1>8
  <2>2. fields \o others = others
    BY <1>8, ConcatEmptySeq
  <2> QED BY <1>7, <2>1, <2>2
<1>9. CASE ReadAs(part, fields)
  <2>1. pos \in Positions /\ Len(before) \in Nat /\ Len(part) \in Nat
    BY DEF Positions
  <2>2. Len(part) > 0
    BY <1>9 DEF ReadAs
  <2>3. FieldAt(data, pos) = [error |-> "none", next |-> pos + Len(part), fields |-> fields]
    <3> HIDE DEF pos
    <3> QED BY <1>2, <1>5, <1>9, <2>1 DEF ReadAs
  <2>4. ~(pos > Len(data))
    <3>1. 1 \in 1..Len(part)
      BY <2>1, <2>2
    <3>2. (pos - 1) + 1 \in 1..Len(data)
      BY <1>5, <3>1 DEF At
    <3> QED BY <2>1, <3>2
  <2>5. pos + Len(part) = Len(past) + 1
    BY <1>6, <2>1
  <2> DEFINE field == FieldAt(data, pos)
  <2>6. field.error = "none" /\ field.next = Len(past) + 1 /\ field.fields = fields
    BY <2>3, <2>5
  <2> HIDE DEF pos
  <2>7. f[pos] = Before(field, f[field.next])
    <3>1. f[pos] = ReadTurn(data, f, pos)
      BY <1>4, <2>1
    <3> QED BY <2>4, <2>6, <3>1 DEF ReadTurn
  <2> HIDE DEF field
  <2>8. f[field.next] = Found(others)
    BY <1>7, <2>6
  <2>9. Before(field, Found(others)) = Found(field.fields \o others)
    BY DEF Before, Then, Found
  <2> QED BY <2>6, <2>7, <2>8, <2>9 DEF pos
<1> QED BY <1>8, <1>9 DEF PartReadAs

\* Parts that are read as fields are read as these fields one after the other.
LEMMA PartsAreRead ==
  ASSUME NEW parts, NEW found, NEW N \in Nat, PartsReadAs(parts, found, N)
  PROVE  Decode(Concat(parts)) = Found(Concat(found))
<1> DEFINE AreRead(k) == \A ps, fs : PartsReadAs(ps, fs, k) => RestReadAs(Concat(ps), Concat(fs))
           S == {k \in Nat : AreRead(k)}
<1>1. 0 \in S
  <2> SUFFICES ASSUME NEW ps, NEW fs, PartsReadAs(ps, fs, 0)
               PROVE  RestReadAs(Concat(ps), Concat(fs))
    OBVIOUS
  <2>1. ps = <<>> /\ fs = <<>>
    BY EmptySeq DEF PartsReadAs
  <2> QED BY <2>1, ConcatOfNone, NothingIsRead
<1>2. ASSUME NEW k \in Nat, k \in S PROVE k + 1 \in S
  <2>1. AreRead(k)
    BY <1>2
  <2> SUFFICES ASSUME NEW ps, NEW fs, PartsReadAs(ps, fs, k + 1)
               PROVE  RestReadAs(Concat(ps), Concat(fs))
    OBVIOUS
  <2>2. /\ ps \in Seq(Seq(Byte)) /\ Len(ps) = k + 1 /\ fs \in Seq(Seq(RawFields)) /\ Len(fs) = k + 1
        /\ \A i \in 1..(k + 1) : PartReadAs(ps[i], fs[i])
    BY DEF PartsReadAs
  <2>3. /\ ps[1] \in Seq(Byte) /\ Tail(ps) \in Seq(Seq(Byte)) /\ Len(Tail(ps)) = k
        /\ \A i \in 1..k : Tail(ps)[i] = ps[i + 1]
        /\ Concat(ps) = ps[1] \o Concat(Tail(ps)) /\ Concat(Tail(ps)) \in Seq(Byte)
    BY <2>2, ConcatFirst
  <2>4. /\ fs[1] \in Seq(RawFields) /\ Tail(fs) \in Seq(Seq(RawFields)) /\ Len(Tail(fs)) = k
        /\ \A i \in 1..k : Tail(fs)[i] = fs[i + 1]
        /\ Concat(fs) = fs[1] \o Concat(Tail(fs)) /\ Concat(Tail(fs)) \in Seq(RawFields)
    BY <2>2, ConcatFirst
  <2> DEFINE rest == Tail(ps)
             others == Tail(fs)
  <2>5. \A i \in 1..k : i + 1 \in 1..(k + 1)
    OBVIOUS
  <2> HIDE DEF rest, others
  <2>6. PartsReadAs(rest, others, k)
    BY <2>2, <2>3, <2>4, <2>5 DEF PartsReadAs, rest, others
  <2>7. RestReadAs(Concat(rest), Concat(others))
    BY <2>1, <2>6
  <2>8. PartReadAs(ps[1], fs[1])
    BY <2>2
  <2>9. RestReadAs(ps[1] \o Concat(rest), fs[1] \o Concat(others))
    BY <2>3, <2>4, <2>7, <2>8, PartIsRead DEF rest, others
  <2> QED BY <2>3, <2>4, <2>9 DEF rest, others
<1>3. \A k \in Nat : k \in S
  <2> HIDE DEF S
  <2> QED BY <1>1, <1>2, Induction
<1>4. RestReadAs(Concat(parts), Concat(found))
  BY <1>3
<1> DEFINE data == Concat(parts)
<1>5. data \in Seq(Byte)
  <2>1. parts \in Seq(Seq(Byte))
    BY DEF PartsReadAs
  <2> QED BY <2>1, ConcatOfConcat
<1>6. <<>> \o data = data /\ <<>> \in Seq(Byte) /\ Len(<<>>) + 1 = 1
  BY <1>5, ConcatEmptySeq
<1> HIDE DEF data
<1>7. PICK f : Decode(data) = f[1] /\ \A pos \in Positions : f[pos] = ReadTurn(data, f, pos)
  BY <1>5, DecodeIs
<1>8. f[Len(<<>>) + 1] = Found(Concat(found))
  <2>1. RestReadAs(data, Concat(found))
    BY <1>4 DEF data
  <2>2. \A pos \in Positions : f[pos] = ReadTurn(<<>> \o data, f, pos)
    BY <1>6, <1>7
  <2> QED BY <1>6, <2>1, <2>2 DEF RestReadAs
<1> QED BY <1>6, <1>7, <1>8 DEF data

-----------------------------------------------------------------------------
(* The values of a field.                                                  *)

Picked(fields, num) ==
  [n \in DOMAIN fields |-> IF fields[n].num = num THEN <<fields[n].value>> ELSE <<>>]

LEMMA ValuesAre ==
  ASSUME NEW fields \in Seq(RawFields), NEW num
  PROVE  /\ ValuesOf(fields, num) = Concat(Picked(fields, num))
         /\ Picked(fields, num) \in Seq(Seq(Values)) /\ Len(Picked(fields, num)) = Len(fields)
         /\ \A i \in 1..Len(fields) :
              Picked(fields, num)[i] = IF fields[i].num = num THEN <<fields[i].value>> ELSE <<>>
<1>1. ValuesOf(fields, num) = Concat(Picked(fields, num))
  BY DEF ValuesOf, Picked
<1>2. DOMAIN fields = 1..Len(fields) /\ Len(fields) \in Nat
  OBVIOUS
<1>3. \A i \in 1..Len(fields) :
        Picked(fields, num)[i] = IF fields[i].num = num THEN <<fields[i].value>> ELSE <<>>
  BY <1>2 DEF Picked
<1>4. \A i \in 1..Len(fields) : Picked(fields, num)[i] \in Seq(Values)
  <2> TAKE i \in 1..Len(fields)
  <2>1. fields[i] \in RawFields
    BY ElementOfSeq
  <2>2. fields[i].value \in Values
    BY <2>1 DEF RawFields
  <2>3. <<fields[i].value>> \in Seq(Values) /\ <<>> \in Seq(Values)
    BY <2>2
  <2> QED BY <1>3, <2>3
<1>5. DOMAIN Picked(fields, num) = 1..Len(fields)
  BY <1>2 DEF Picked
<1> DEFINE picked == Picked(fields, num)
<1>6. picked = [i \in 1..Len(fields) |-> picked[i]]
  BY <1>2 DEF Picked
<1> HIDE DEF picked
<1>7. picked \in Seq(Seq(Values)) /\ Len(picked) = Len(fields)
  <2>1. picked \in [1..Len(fields) -> Seq(Values)]
    BY <1>4, <1>6 DEF picked
  <2> QED BY <1>2, <2>1
<1> QED BY <1>1, <1>3, <1>7 DEF picked

LEMMA ValuesOfConcat ==
  ASSUME NEW a \in Seq(RawFields), NEW b \in Seq(RawFields), NEW num
  PROVE  ValuesOf(a \o b, num) = ValuesOf(a, num) \o ValuesOf(b, num)
<1> DEFINE ab == a \o b
<1>1. /\ ab \in Seq(RawFields) /\ Len(ab) = Len(a) + Len(b) /\ Len(a) \in Nat /\ Len(b) \in Nat
      /\ \A i \in 1..Len(a) + Len(b) : ab[i] = IF i <= Len(a) THEN a[i] ELSE b[i - Len(a)]
  BY ConcatProperties
<1> HIDE DEF ab
<1> DEFINE p == Picked(a, num)
           q == Picked(b, num)
           pq == p \o q
           r == Picked(ab, num)
           One(field) == IF field.num = num THEN <<field.value>> ELSE <<>>
<1>2. /\ ValuesOf(a, num) = Concat(p) /\ p \in Seq(Seq(Values)) /\ Len(p) = Len(a)
      /\ \A i \in 1..Len(a) : p[i] = One(a[i])
  BY ValuesAre
<1>3. /\ ValuesOf(b, num) = Concat(q) /\ q \in Seq(Seq(Values)) /\ Len(q) = Len(b)
      /\ \A i \in 1..Len(b) : q[i] = One(b[i])
  BY ValuesAre
<1>4. /\ ValuesOf(ab, num) = Concat(r) /\ r \in Seq(Seq(Values)) /\ Len(r) = Len(ab)
      /\ \A i \in 1..Len(ab) : r[i] = One(ab[i])
  <2>1. ab \in Seq(RawFields)
    BY <1>1
  <2> QED BY <2>1, ValuesAre
<1> HIDE DEF p, q, r, One
<1>5. /\ pq \in Seq(Seq(Values)) /\ Len(pq) = Len(a) + Len(b)
      /\ \A i \in 1..Len(a) + Len(b) : pq[i] = IF i <= Len(a) THEN p[i] ELSE q[i - Len(a)]
  <2>1. p \in Seq(Seq(Values)) /\ q \in Seq(Seq(Values))
    BY <1>2, <1>3
  <2>2. /\ pq \in Seq(Seq(Values)) /\ Len(pq) = Len(p) + Len(q)
        /\ \A i \in 1..Len(p) + Len(q) : pq[i] = IF i <= Len(p) THEN p[i] ELSE q[i - Len(p)]
    BY <2>1, ConcatProperties
  <2>3. Len(p) = Len(a) /\ Len(q) = Len(b)
    BY <1>2, <1>3
  <2> HIDE DEF pq
  <2> QED BY <2>2, <2>3
<1> HIDE DEF pq
<1>6. ASSUME NEW i \in 1..Len(r)
      PROVE  r[i] = pq[i]
  <2>1. r[i] = One(ab[i]) /\ i \in 1..Len(a) + Len(b)
    BY <1>1, <1>4
  <2>2. CASE i <= Len(a)
    <3>1. i \in 1..Len(a)
      BY <1>1, <2>1, <2>2
    <3> QED BY <1>1, <1>2, <1>5, <2>1, <2>2, <3>1
  <2>3. CASE ~(i <= Len(a))
    <3>1. i - Len(a) \in 1..Len(b)
      BY <1>1, <2>1, <2>3
    <3> QED BY <1>1, <1>3, <1>5, <2>1, <2>3, <3>1
  <2> QED BY <2>2, <2>3
<1>7. r = pq
  BY <1>1, <1>4, <1>5, <1>6, SeqEqual
<1>8. Concat(p \o q) = Concat(p) \o Concat(q)
  BY <1>2, <1>3, ConcatOfConcat
<1> QED BY <1>2, <1>3, <1>4, <1>7, <1>8 DEF ab, pq

LEMMA ValuesOfNone ==
  ASSUME NEW num
  PROVE  ValuesOf(<<>>, num) = <<>>
<1>1. <<>> \in Seq(RawFields) /\ Len(<<>>) = 0
  OBVIOUS
<1> DEFINE p == Picked(<<>>, num)
<1>2. ValuesOf(<<>>, num) = Concat(p) /\ p \in Seq(Seq(Values)) /\ Len(p) = 0
  BY <1>1, ValuesAre
<1> HIDE DEF p
<1>3. p = <<>>
  BY <1>2, EmptySeq
<1> QED BY <1>2, <1>3, ConcatOfNone

LEMMA ValuesOfOther ==
  ASSUME NEW n \in Nat, NEW value \in Values, NEW num, n # num
  PROVE  ValuesOf(<<[num |-> n, value |-> value]>>, num) = <<>>
<1> DEFINE field == [num |-> n, value |-> value]
           fields == <<field>>
           p == Picked(fields, num)
<1>1. field \in RawFields /\ field.num = n
  BY DEF RawFields
<1> HIDE DEF field
<1>2. fields \in Seq(RawFields) /\ Len(fields) = 1 /\ fields[1] = field
  BY <1>1
<1> HIDE DEF fields
<1>3. /\ ValuesOf(fields, num) = Concat(p) /\ p \in Seq(Seq(Values)) /\ Len(p) = 1
      /\ p[1] = <<>>
  <2>1. 1 \in 1..Len(fields)
    BY <1>2
  <2>2. /\ ValuesOf(fields, num) = Concat(p) /\ p \in Seq(Seq(Values)) /\ Len(p) = Len(fields)
        /\ p[1] = IF fields[1].num = num THEN <<fields[1].value>> ELSE <<>>
    BY <1>2, <2>1, ValuesAre
  <2> HIDE DEF p
  <2> QED BY <1>1, <1>2, <2>2
<1> HIDE DEF p
<1>4. p = << <<>> >>
  BY <1>3
<1>5. Concat(<< <<>> >>) = <<>>
  <2>1. <<>> \in Seq(Nat)
    OBVIOUS
  <2> QED BY <2>1, ConcatOfOne
<1> QED BY <1>3, <1>4, <1>5 DEF fields, field

\* Lists of fields that agree on a field, one by one, agree on it together.
LEMMA ValuesOfAll ==
  ASSUME NEW a \in Seq(Seq(RawFields)), NEW b \in Seq(Seq(RawFields)), NEW num,
         Len(a) = Len(b), \A i \in 1..Len(a) : ValuesOf(a[i], num) = ValuesOf(b[i], num)
  PROVE  ValuesOf(Concat(a), num) = ValuesOf(Concat(b), num)
<1> DEFINE Agree(x, y, k) ==
             /\ x \in Seq(Seq(RawFields)) /\ Len(x) = k
             /\ y \in Seq(Seq(RawFields)) /\ Len(y) = k
             /\ \A i \in 1..k : ValuesOf(x[i], num) = ValuesOf(y[i], num)
           Same(k) == \A x, y : Agree(x, y, k)
                                  => ValuesOf(Concat(x), num) = ValuesOf(Concat(y), num)
           S == {k \in Nat : Same(k)}
<1>1. 0 \in S
  <2> SUFFICES ASSUME NEW x, NEW y, Agree(x, y, 0)
               PROVE  ValuesOf(Concat(x), num) = ValuesOf(Concat(y), num)
    OBVIOUS
  <2>1. x = <<>> /\ y = <<>>
    BY EmptySeq
  <2> QED BY <2>1
<1>2. ASSUME NEW k \in Nat, k \in S PROVE k + 1 \in S
  <2>1. Same(k)
    BY <1>2
  <2> SUFFICES ASSUME NEW x, NEW y, Agree(x, y, k + 1)
               PROVE  ValuesOf(Concat(x), num) = ValuesOf(Concat(y), num)
    OBVIOUS
  <2> DEFINE tx == Tail(x)
             ty == Tail(y)
             cx == Concat(tx)
             cy == Concat(ty)
  <2>2. /\ x[1] \in Seq(RawFields) /\ tx \in Seq(Seq(RawFields)) /\ Len(tx) = k
        /\ \A i \in 1..k : tx[i] = x[i + 1]
        /\ Concat(x) = x[1] \o cx /\ cx \in Seq(RawFields)
    BY ConcatFirst
  <2>3. /\ y[1] \in Seq(RawFields) /\ ty \in Seq(Seq(RawFields)) /\ Len(ty) = k
        /\ \A i \in 1..k : ty[i] = y[i + 1]
        /\ Concat(y) = y[1] \o cy /\ cy \in Seq(RawFields)
    BY ConcatFirst
  <2>4. \A i \in 1..k : i + 1 \in 1..(k + 1)
    OBVIOUS
  <2>5. \A i \in 1..(k + 1) : ValuesOf(x[i], num) = ValuesOf(y[i], num)
    OBVIOUS
  <2> HIDE DEF tx, ty
  <2>6. Agree(tx, ty, k)
    BY <2>2, <2>3, <2>4, <2>5
  <2>7. ValuesOf(cx, num) = ValuesOf(cy, num)
    <3> HIDE DEF Agree
    <3> QED BY <2>1, <2>6
  <2>8. ValuesOf(x[1], num) = ValuesOf(y[1], num)
    BY <2>5
  <2> HIDE DEF cx, cy
  <2>9. ValuesOf(x[1] \o cx, num) = ValuesOf(x[1], num) \o ValuesOf(cx, num)
    BY <2>2, ValuesOfConcat
  <2>10. ValuesOf(y[1] \o cy, num) = ValuesOf(y[1], num) \o ValuesOf(cy, num)
    BY <2>3, ValuesOfConcat
  <2> QED BY <2>2, <2>3, <2>7, <2>8, <2>9, <2>10
<1>3. \A k \in Nat : k \in S
  <2> HIDE DEF S
  <2> QED BY <1>1, <1>2, Induction
<1>4. Len(a) \in Nat /\ Agree(a, b, Len(a))
  OBVIOUS
<1> HIDE DEF Agree
<1>5. Same(Len(a))
  BY <1>3, <1>4
<1> QED BY <1>4, <1>5

-----------------------------------------------------------------------------
(* Unknown fields are skipped.                                             *)

LEMMA NumberIs ==
  ASSUME NEW n \in Nat, NEW wire \in 0..7, NEW tag \in Tags(n, wire), NEW rest \in Seq(Byte)
  PROVE  FieldNumber(tag \o rest) = n /\ tag \o rest \in Seq(Byte)
<1> DEFINE piece == tag \o rest
<1>1. tag \in Seq(Byte)
  BY TagIsSeq
<1>2. piece \in Seq(Byte)
  BY <1>1, ConcatProperties
<1>3. 1 \in Positions
  BY DEF Positions
<1>4. At(piece, 1, piece)
  <2> HIDE DEF piece
  <2>1. \A i \in 1..Len(piece) : (1 - 1) + i = i
    BY <1>2
  <2> QED BY <2>1 DEF At
<1>5. At(piece, 1, tag)
  BY <1>1, <1>2, <1>3, <1>4, AtConcat
<1> HIDE DEF piece
<1>6. TagRead(piece, 1, tag, n, wire)
  BY <1>2, <1>3, <1>5, TagAt
<1>7. FieldNumber(piece) = n
  BY <1>6 DEF TagRead, FieldNumber
<1> QED BY <1>2, <1>7 DEF piece

\* What a piece of a message is read as.
PieceFields(piece, fields) ==
  /\ fields \in Seq(RawFields) /\ ReadAs(piece, fields)
  /\ fields # <<>> => \E value \in Values :
                        /\ FieldNumber(piece) \in Nat
                        /\ fields = <<[num |-> FieldNumber(piece), value |-> value]>>

LEMMA PieceIsRead ==
  ASSUME NEW piece \in Fields
  PROVE  piece \in Seq(Byte) /\ \E fields : PieceFields(piece, fields)
<1>1. PICK num \in Nat : piece \in SimpleFields(num) \/ piece \in Groups(num)
  BY DEF Fields
<1>2. CASE piece \in SimpleFields(num)
  <2>1. PICK wire \in {0, 1, 2, 5} :
               \E tag \in Tags(num, wire), payload \in Payloads(wire) : piece = tag \o payload
    BY <1>2 DEF SimpleFields
  <2>2. PICK tag \in Tags(num, wire), payload \in Payloads(wire) : piece = tag \o payload
    BY <2>1
  <2>3. payload \in Seq(Byte) /\ wire \in 0..7
    BY DEF Payloads
  <2>4. FieldNumber(piece) = num /\ piece \in Seq(Byte)
    BY <2>2, <2>3, NumberIs
  <2>5. PICK value \in Values : ReadAs(piece, <<[num |-> num, value |-> value]>>)
    BY <1>2, SimpleIsRead
  <2> DEFINE field == [num |-> num, value |-> value]
             fields == <<field>>
  <2>6. field \in RawFields
    BY DEF RawFields
  <2> HIDE DEF field
  <2>7. fields \in Seq(RawFields)
    BY <2>6
  <2>8. \E v \in Values : fields = <<[num |-> FieldNumber(piece), value |-> v]>>
    BY <2>4 DEF field
  <2>9. ReadAs(piece, fields)
    BY <2>5 DEF field
  <2> HIDE DEF fields
  <2>10. PieceFields(piece, fields)
    BY <2>4, <2>7, <2>8, <2>9 DEF PieceFields
  <2> QED BY <2>4, <2>10
<1>3. CASE piece \in Groups(num)
  <2>1. PICK start \in Tags(num, 3), inside \in Contents, end \in Tags(num, 4) :
               piece = start \o (inside \o end)
    BY <1>3 DEF Groups
  <2>2. piece \in Seq(Byte)
    BY <1>3 DEF Groups
  <2>3. ReadAs(piece, <<>>) /\ <<>> \in Seq(RawFields)
    BY <1>3, GroupIsRead
  <2>4. PieceFields(piece, <<>>)
    BY <2>3 DEF PieceFields
  <2> QED BY <2>2, <2>4
<1> QED BY <1>1, <1>2, <1>3

\* What is taken depends on the values of the fields that are asked for.
LEMMA TakenIs ==
  ASSUME NEW numbers, NEW x, NEW y, NEW f, NEW g,
         Decode(x) = Found(f), Decode(y) = Found(g),
         \A num \in numbers : ValuesOf(f, num) = ValuesOf(g, num)
  PROVE  Taken(numbers, x) = Taken(numbers, y)
<1> DEFINE Out(fields) ==
             [error |-> "none",
              values |-> [num \in {n \in numbers : ValuesOf(fields, n) # <<>>} |->
                            OnlyValue(ValuesOf(fields, num))]]
<1>1. Taken(numbers, x) = Out(f)
  BY DEF Taken, Then, Found
<1>2. Taken(numbers, y) = Out(g)
  BY DEF Taken, Then, Found
<1>3. {n \in numbers : ValuesOf(f, n) # <<>>} = {n \in numbers : ValuesOf(g, n) # <<>>}
  OBVIOUS
<1>4. [num \in {n \in numbers : ValuesOf(f, n) # <<>>} |-> OnlyValue(ValuesOf(f, num))]
        = [num \in {n \in numbers : ValuesOf(g, n) # <<>>} |-> OnlyValue(ValuesOf(g, num))]
  BY <1>3
<1> QED BY <1>1, <1>2, <1>4, Zenon

LEMMA OthersAreSkipped ==
  ASSUME NEW message \in Seq(Fields)
  PROVE  Taken(KnownNumbers, Concat(message)) = Taken(KnownNumbers, Concat(Known(message)))
<1> DEFINE N == Len(message)
           F == [i \in 1..N |-> CHOOSE fields : PieceFields(message[i], fields)]
           K == {i \in 1..N : FieldNumber(message[i]) \in KnownNumbers}
           G == [i \in 1..N |-> IF i \in K THEN F[i] ELSE <<>>]
           known == Known(message)
<1>0. N \in Nat /\ DOMAIN message = 1..N
  OBVIOUS
<1>1. \A i \in 1..N : message[i] \in Seq(Byte) /\ PieceFields(message[i], F[i])
  <2> TAKE i \in 1..N
  <2>1. message[i] \in Fields
    BY ElementOfSeq
  <2>2. message[i] \in Seq(Byte) /\ \E fields : PieceFields(message[i], fields)
    BY <2>1, PieceIsRead
  <2> QED BY <2>2
<1>2. \A i \in 1..N : F[i] \in Seq(RawFields)
  BY <1>1 DEF PieceFields
<1>3. F \in Seq(Seq(RawFields)) /\ Len(F) = N
  <2>1. F = [i \in 1..N |-> F[i]]
    OBVIOUS
  <2> HIDE DEF F
  <2>2. F \in [1..N -> Seq(RawFields)]
    BY <1>2, <2>1
  <2> QED BY <1>0, <2>2
<1> HIDE DEF F, K
<1>4. G \in Seq(Seq(RawFields)) /\ Len(G) = N
  <2>1. \A i \in 1..N : (IF i \in K THEN F[i] ELSE <<>>) \in Seq(RawFields)
    BY <1>2
  <2>2. G \in [1..N -> Seq(RawFields)]
    BY <2>1
  <2> HIDE DEF G
  <2> QED BY <1>0, <2>2
<1>5. \A i \in 1..N : G[i] = IF i \in K THEN F[i] ELSE <<>>
  OBVIOUS
<1> HIDE DEF G
<1>6. \A i \in 1..N : known[i] = IF i \in K THEN message[i] ELSE <<>>
  BY <1>0 DEF Known, K
<1>7. known \in Seq(Seq(Byte)) /\ Len(known) = N
  <2>1. \A i \in 1..N : known[i] \in Seq(Byte)
    <3>1. <<>> \in Seq(Byte)
      OBVIOUS
    <3> QED BY <1>1, <1>6, <3>1
  <2>2. known = [i \in 1..N |-> known[i]]
    BY <1>0 DEF Known
  <2> HIDE DEF known
  <2>3. known \in [1..N -> Seq(Byte)]
    BY <2>1, <2>2
  <2> QED BY <1>0, <2>3
<1>8. message \in Seq(Seq(Byte))
  <2>1. message \in [1..N -> Seq(Byte)]
    BY <1>0, <1>1
  <2> QED BY <1>0, <2>1
<1> HIDE DEF known, N
<1>9. PartsReadAs(message, F, N)
  <2>1. \A i \in 1..N : PartReadAs(message[i], F[i])
    BY <1>1 DEF PieceFields, PartReadAs
  <2> QED BY <1>3, <1>8, <2>1 DEF PartsReadAs, N
<1>10. PartsReadAs(known, G, N)
  <2>1. \A i \in 1..N : PartReadAs(known[i], G[i])
    BY <1>1, <1>5, <1>6 DEF PieceFields, PartReadAs
  <2> QED BY <1>4, <1>7, <2>1 DEF PartsReadAs
<1>11. Decode(Concat(message)) = Found(Concat(F))
  BY <1>0, <1>9, PartsAreRead
<1>12. Decode(Concat(known)) = Found(Concat(G))
  BY <1>0, <1>10, PartsAreRead
<1>13. ASSUME NEW num \in KnownNumbers
       PROVE  ValuesOf(Concat(F), num) = ValuesOf(Concat(G), num)
  <2>1. ASSUME NEW i \in 1..N
        PROVE  ValuesOf(F[i], num) = ValuesOf(G[i], num)
    <3>1. CASE i \in K
      BY <1>5, <3>1
    <3>2. CASE i \notin K
      <4>1. G[i] = <<>> /\ FieldNumber(message[i]) # num
        BY <1>5, <3>2 DEF K
      <4>2. CASE F[i] = <<>>
        BY <4>1, <4>2
      <4>3. CASE F[i] # <<>>
        <5>1. PieceFields(message[i], F[i])
          BY <1>1
        <5>2. PICK value \in Values :
                     /\ FieldNumber(message[i]) \in Nat
                     /\ F[i] = <<[num |-> FieldNumber(message[i]), value |-> value]>>
          BY <4>3, <5>1 DEF PieceFields
        <5>3. ValuesOf(F[i], num) = <<>>
          BY <4>1, <5>2, ValuesOfOther
        <5> QED BY <4>1, <5>3, ValuesOfNone
      <4> QED BY <4>2, <4>3
    <3> QED BY <3>1, <3>2
  <2>2. \A i \in 1..Len(F) : ValuesOf(F[i], num) = ValuesOf(G[i], num)
    BY <1>3, <2>1
  <2> QED BY <1>3, <1>4, <2>2, ValuesOfAll
<1> QED BY <1>11, <1>12, <1>13, TakenIs DEF known

\* Whatever fields a newer backend adds to a message, and wherever it puts them, what is
\* taken out of the message for the attributes is the same as if they were not there.
THEOREM UnknownSkipped == WireSpec => []UnknownFieldsAreSkipped
<1> DEFINE Inv == pieces \in Seq(Fields)
<1>1. pieces = <<>> => Inv
  OBVIOUS
<1>2. Inv /\ [WireNext]_pieces => Inv'
  BY DEF WireNext
<1>3. Inv => UnknownFieldsAreSkipped
  BY OthersAreSkipped DEF UnknownFieldsAreSkipped
<1> QED BY <1>1, <1>2, <1>3, PTL DEF WireSpec

-----------------------------------------------------------------------------
(* What is sent is read back.                                              *)

\* The values that encode writes: a float is a double or a single.
Written ==
  [type : {"int"}, int : Int] \cup [type : {"bytes"}, bytes : Seq(Byte)]
    \cup {value \in [type : {"float"}, bytes : Seq(Byte)] : Len(value.bytes) \in {4, 8}}

\* What such a value is read as: a negative number as its two's complement.
AsRead(value) ==
  IF value.type = "int" THEN [type |-> "int", int |-> IF value.int < 0 THEN value.int % Modulus
                                                      ELSE value.int]
  ELSE value

LEMMA EncodedNumber ==
  ASSUME NEW n \in Int
  PROVE  /\ EncodeVarint(n) \in Varints
         /\ VarintValue(EncodeVarint(n)) = IF n < 0 THEN n % Modulus ELSE n
         /\ (IF n < 0 THEN n % Modulus ELSE n) \in Nat
<1> DEFINE m == IF n < 0 THEN n % Modulus ELSE n
<1>1. m \in Nat
  BY ModulusAssumption
<1>2. EncodeVarint(n) = Varint(m)
  BY DEF EncodeVarint
<1> HIDE DEF m
<1>3. Varint(m) \in Varints /\ VarintValue(Varint(m)) = m
  BY <1>1, VarintIsRead
<1> QED BY <1>1, <1>2, <1>3 DEF m

LEMMA EncodedTag ==
  ASSUME NEW num \in Nat, NEW wire \in 0..7
  PROVE  EncodeVarint(num * 8 + wire) \in Tags(num, wire)
<1> DEFINE n == num * 8 + wire
<1>1. n \in Int /\ ~(n < 0)
  OBVIOUS
<1> HIDE DEF n
<1>2. EncodeVarint(n) \in Varints /\ VarintValue(EncodeVarint(n)) = n
  BY <1>1, EncodedNumber
<1> QED BY <1>2 DEF Tags, n

LEMMA PayloadWritten ==
  ASSUME NEW num \in Nat, NEW wire \in {0, 1, 2, 5}, NEW payload \in Payloads(wire),
         NEW value \in Values, StandsFor(wire, payload, value)
  PROVE  /\ EncodeField(num, wire, payload) \in Seq(Byte)
         /\ ReadAs(EncodeField(num, wire, payload), <<[num |-> num, value |-> value]>>)
<1> DEFINE tag == EncodeVarint(num * 8 + wire)
<1>1. tag \in Tags(num, wire)
  <2>1. wire \in 0..7
    OBVIOUS
  <2> QED BY <2>1, EncodedTag
<1>2. EncodeField(num, wire, payload) = tag \o payload
  BY DEF EncodeField
<1> HIDE DEF tag
<1>3. payload \in Seq(Byte) /\ tag \in Seq(Byte)
  BY <1>1, TagIsSeq DEF Payloads
<1>4. tag \o payload \in Seq(Byte)
  BY <1>3, ConcatProperties
<1>5. ReadAs(tag \o payload, <<[num |-> num, value |-> value]>>)
  BY <1>1, FieldIsRead
<1> QED BY <1>2, <1>4, <1>5

\* Every value that is written is one the format allows, and is read as it was written.
LEMMA ValueIsWritten ==
  ASSUME NEW num \in Nat, NEW value \in Written
  PROVE  /\ EncodeValue(num, value) \in Seq(Byte) /\ AsRead(value) \in Values
         /\ ReadAs(EncodeValue(num, value), <<[num |-> num, value |-> AsRead(value)]>>)
<1>1. CASE value \in [type : {"int"}, int : Int]
  <2> DEFINE bytes == EncodeVarint(value.int)
             read == AsRead(value)
  <2>1. value.type = "int" /\ value.int \in Int
    BY <1>1
  <2>2. /\ bytes \in Varints
        /\ VarintValue(bytes) = IF value.int < 0 THEN value.int % Modulus ELSE value.int
        /\ (IF value.int < 0 THEN value.int % Modulus ELSE value.int) \in Nat
    BY <2>1, EncodedNumber
  <2>3. EncodeValue(num, value) = EncodeField(num, 0, bytes)
    BY <2>1 DEF EncodeValue, EncodeInt
  <2>4. read = [type |-> "int", int |-> VarintValue(bytes)]
    BY <2>1, <2>2 DEF AsRead
  <2> HIDE DEF bytes, read
  <2>5. read \in Values
    BY <2>2, <2>4 DEF Values
  <2>6. bytes \in Payloads(0)
    BY <2>2 DEF Payloads, Varints
  <2>7. StandsFor(0, bytes, read)
    BY <2>4 DEF StandsFor
  <2> QED BY <2>3, <2>5, <2>6, <2>7, PayloadWritten DEF read
<1>2. CASE value \in [type : {"bytes"}, bytes : Seq(Byte)]
  <2> DEFINE bytes == value.bytes
             length == EncodeVarint(Len(bytes))
             payload == length \o bytes
  <2>1. value.type = "bytes" /\ bytes \in Seq(Byte) /\ value = [type |-> "bytes", bytes |-> bytes]
    BY <1>2
  <2> HIDE DEF bytes
  <2>2. length \in Varints /\ VarintValue(length) = Len(bytes)
    <3>1. Len(bytes) \in Int /\ ~(Len(bytes) < 0)
      BY <2>1
    <3> QED BY <3>1, EncodedNumber
  <2>3. EncodeValue(num, value) = EncodeField(num, 2, payload)
    BY <2>1 DEF EncodeValue, EncodeBytes, bytes
  <2> HIDE DEF length
  <2>4. length \in Seq(Byte)
    BY <2>2 DEF Varints
  <2>5. payload \in Seq(Byte)
    BY <2>1, <2>4, ConcatProperties
  <2>6. payload \in Payloads(2)
    <3>1. \E l \in Varints, v \in Seq(Byte) : payload = l \o v /\ Len(v) = VarintValue(l)
      BY <2>1, <2>2
    <3> DEFINE Long(b) == \E l \in Varints, v \in Seq(Byte) :
                            b = l \o v /\ Len(v) = VarintValue(l)
    <3>2. Payloads(2) = {b \in Seq(Byte) : Long(b)}
      BY DEF Payloads
    <3>3. Long(payload)
      BY <3>1
    <3> HIDE DEF payload, Long
    <3> QED BY <2>5, <3>2, <3>3
  <2>7. StandsFor(2, payload, value)
    <3>1. \E l \in Varints, b \in Seq(Byte) :
            /\ payload = l \o b /\ Len(b) = VarintValue(l)
            /\ value = [type |-> "bytes", bytes |-> b]
      BY <2>1, <2>2
    <3> HIDE DEF payload
    <3> QED BY <3>1 DEF StandsFor
  <2>8. value \in Values /\ AsRead(value) = value
    BY <1>2, <2>1 DEF Values, AsRead
  <2> HIDE DEF payload
  <2> QED BY <2>3, <2>6, <2>7, <2>8, PayloadWritten
<1>3. CASE value \in {v \in [type : {"float"}, bytes : Seq(Byte)] : Len(v.bytes) \in {4, 8}}
  <2> DEFINE bytes == value.bytes
  <2>1. /\ value.type = "float" /\ bytes \in Seq(Byte) /\ Len(bytes) \in {4, 8}
        /\ value = [type |-> "float", bytes |-> bytes]
    BY <1>3
  <2>2. value \in Values /\ AsRead(value) = value
    BY <1>3, <2>1 DEF Values, AsRead
  <2>3. CASE Len(bytes) = 8
    <3>1. EncodeValue(num, value) = EncodeField(num, 1, bytes)
      BY <2>1, <2>3 DEF EncodeValue, EncodeFixed64
    <3> HIDE DEF bytes
    <3>2. bytes \in Payloads(1) /\ StandsFor(1, bytes, value)
      BY <2>1, <2>3 DEF Payloads, StandsFor
    <3> QED BY <2>2, <3>1, <3>2, PayloadWritten
  <2>4. CASE Len(bytes) = 4
    <3>1. EncodeValue(num, value) = EncodeField(num, 5, bytes)
      <4>1. Len(value.bytes) # 8
        BY <2>4
      <4> QED BY <2>1, <2>4, <4>1 DEF EncodeValue, EncodeFixed32
    <3> HIDE DEF bytes
    <3>2. bytes \in Payloads(5) /\ StandsFor(5, bytes, value)
      BY <2>1, <2>4 DEF Payloads, StandsFor
    <3> QED BY <2>2, <3>1, <3>2, PayloadWritten
  <2> HIDE DEF bytes
  <2> QED BY <2>1, <2>3, <2>4
<1> QED BY <1>1, <1>2, <1>3 DEF Written

Ones(s) == [i \in 1..Len(s) |-> <<s[i]>>]

LEMMA OnesAre ==
  ASSUME NEW X, NEW s \in Seq(X)
  PROVE  Ones(s) \in Seq(Seq(X)) /\ Len(Ones(s)) = Len(s) /\ \A i \in 1..Len(s) : Ones(s)[i] = <<s[i]>>
<1>1. \A i \in 1..Len(s) : <<s[i]>> \in Seq(X)
  BY ElementOfSeq
<1>2. Ones(s) \in [1..Len(s) -> Seq(X)] /\ Len(s) \in Nat
  BY <1>1 DEF Ones
<1>3. \A i \in 1..Len(s) : Ones(s)[i] = <<s[i]>>
  BY DEF Ones
<1> QED BY <1>2, <1>3

LEMMA ConcatOfOnes ==
  ASSUME NEW X, NEW s \in Seq(X)
  PROVE  Concat(Ones(s)) = s
<1> DEFINE Same(k) == \A x \in Seq(X) : Len(x) = k => Concat(Ones(x)) = x
           S == {k \in Nat : Same(k)}
<1>1. 0 \in S
  <2> SUFFICES ASSUME NEW x \in Seq(X), Len(x) = 0 PROVE Concat(Ones(x)) = x
    OBVIOUS
  <2>1. x = <<>>
    BY EmptySeq
  <2> DEFINE ones == Ones(x)
  <2>2. ones \in Seq(Seq(X)) /\ Len(ones) = 0
    BY OnesAre
  <2> HIDE DEF ones
  <2>3. ones = <<>>
    BY <2>2, EmptySeq
  <2> QED BY <2>1, <2>3, ConcatOfNone DEF ones
<1>2. ASSUME NEW k \in Nat, k \in S PROVE k + 1 \in S
  <2>1. Same(k)
    BY <1>2
  <2> SUFFICES ASSUME NEW x \in Seq(X), Len(x) = k + 1 PROVE Concat(Ones(x)) = x
    OBVIOUS
  <2> DEFINE ones == Ones(x)
             rest == Tail(ones)
             tail == Tail(x)
             all == Ones(tail)
  <2>2. ones \in Seq(Seq(X)) /\ Len(ones) = k + 1 /\ \A i \in 1..(k + 1) : ones[i] = <<x[i]>>
    BY OnesAre
  <2> HIDE DEF ones
  <2>3. /\ rest \in Seq(Seq(X)) /\ Len(rest) = k
        /\ \A i \in 1..k : rest[i] = ones[i + 1]
        /\ Concat(ones) = ones[1] \o Concat(rest)
    <3>1. ones \in Seq(Seq(X)) /\ Len(ones) = k + 1
      BY <2>2
    <3> QED BY <3>1, ConcatFirst
  <2>4. /\ x = <<x[1]>> \o tail /\ tail \in Seq(X) /\ Len(tail) = k
        /\ \A i \in 1..k : tail[i] = x[i + 1]
    BY FirstAndRest
  <2> HIDE DEF rest, tail
  <2>5. all \in Seq(Seq(X)) /\ Len(all) = k /\ \A i \in 1..k : all[i] = <<tail[i]>>
    <3>1. tail \in Seq(X)
      BY <2>4
    <3>2. all \in Seq(Seq(X)) /\ Len(all) = Len(tail) /\ \A i \in 1..Len(tail) : all[i] = <<tail[i]>>
      BY <3>1, OnesAre
    <3> HIDE DEF all
    <3> QED BY <2>4, <3>2
  <2> HIDE DEF all
  <2>6. \A i \in 1..k : rest[i] = all[i]
    <3> TAKE i \in 1..k
    <3>1. i + 1 \in 1..(k + 1)
      OBVIOUS
    <3> QED BY <2>2, <2>3, <2>4, <2>5, <3>1
  <2>7. rest = all
    BY <2>3, <2>5, <2>6, SeqEqual
  <2>8. Concat(all) = tail
    BY <2>1, <2>4 DEF all
  <2>9. ones[1] = <<x[1]>>
    <3>1. 1 \in 1..(k + 1)
      OBVIOUS
    <3> QED BY <2>2, <3>1
  <2> QED BY <2>3, <2>4, <2>7, <2>8, <2>9 DEF ones
<1>3. \A k \in Nat : k \in S
  <2> HIDE DEF S
  <2> QED BY <1>1, <1>2, Induction
<1>4. Len(s) \in Nat
  OBVIOUS
<1>5. Same(Len(s))
  BY <1>3, <1>4
<1> QED BY <1>5

ReadFields(numbers, values) ==
  [i \in 1..Len(numbers) |-> [num |-> numbers[i], value |-> AsRead(values[numbers[i]])]]

LEMMA ReadFieldsAre ==
  ASSUME NEW numbers \in Seq(Nat), NEW values,
         \A i \in 1..Len(numbers) : values[numbers[i]] \in Written
  PROVE  /\ ReadFields(numbers, values) \in Seq(RawFields)
         /\ Len(ReadFields(numbers, values)) = Len(numbers)
         /\ \A i \in 1..Len(numbers) :
              ReadFields(numbers, values)[i]
                = [num |-> numbers[i], value |-> AsRead(values[numbers[i]])]
<1>1. \A i \in 1..Len(numbers) :
        [num |-> numbers[i], value |-> AsRead(values[numbers[i]])] \in RawFields
  <2> TAKE i \in 1..Len(numbers)
  <2>1. numbers[i] \in Nat
    BY ElementOfSeq
  <2>2. AsRead(values[numbers[i]]) \in Values
    BY <2>1, ValueIsWritten
  <2> QED BY <2>1, <2>2 DEF RawFields
<1>2. ReadFields(numbers, values) \in [1..Len(numbers) -> RawFields] /\ Len(numbers) \in Nat
  BY <1>1 DEF ReadFields
<1>3. \A i \in 1..Len(numbers) :
        ReadFields(numbers, values)[i] = [num |-> numbers[i], value |-> AsRead(values[numbers[i]])]
  BY DEF ReadFields
<1> QED BY <1>2, <1>3

\* A message of any fields, each with any value, is decoded to these fields in their order.
LEMMA EncodedIsDecoded ==
  ASSUME NEW numbers \in Seq(Nat), NEW values,
         \A i \in 1..Len(numbers) : values[numbers[i]] \in Written
  PROVE  Decode(Encode(numbers, values)) = Found(ReadFields(numbers, values))
<1> DEFINE N == Len(numbers)
           parts == [i \in DOMAIN numbers |-> EncodeValue(numbers[i], values[numbers[i]])]
           read == ReadFields(numbers, values)
           found == Ones(read)
<1>0. N \in Nat /\ DOMAIN numbers = 1..N
  OBVIOUS
<1>1. Encode(numbers, values) = Concat(parts)
  BY DEF Encode
<1>2. \A i \in 1..N : /\ numbers[i] \in Nat
                      /\ EncodeValue(numbers[i], values[numbers[i]]) \in Seq(Byte)
                      /\ ReadAs(EncodeValue(numbers[i], values[numbers[i]]),
                                <<[num |-> numbers[i], value |-> AsRead(values[numbers[i]])]>>)
  <2> TAKE i \in 1..N
  <2>1. numbers[i] \in Nat
    BY ElementOfSeq
  <2> QED BY <2>1, ValueIsWritten
<1>3. \A i \in 1..N : parts[i] = EncodeValue(numbers[i], values[numbers[i]])
  BY <1>0
<1>4. parts \in Seq(Seq(Byte)) /\ Len(parts) = N
  <2>1. parts \in [1..N -> Seq(Byte)]
    BY <1>0, <1>2
  <2> HIDE DEF parts
  <2> QED BY <1>0, <2>1
<1> HIDE DEF parts
<1>5. read \in Seq(RawFields) /\ Len(read) = N
  BY ReadFieldsAre
<1>6. \A i \in 1..N : read[i] = [num |-> numbers[i], value |-> AsRead(values[numbers[i]])]
  BY ReadFieldsAre
<1> HIDE DEF read
<1>7. found \in Seq(Seq(RawFields)) /\ Len(found) = N /\ \A i \in 1..N : found[i] = <<read[i]>>
  BY <1>5, OnesAre
<1>8. Concat(found) = read
  BY <1>5, ConcatOfOnes
<1> HIDE DEF found, N
<1>9. PartsReadAs(parts, found, N)
  <2>1. \A i \in 1..N : PartReadAs(parts[i], found[i])
    <3> TAKE i \in 1..N
    <3>1. parts[i] = EncodeValue(numbers[i], values[numbers[i]])
      BY <1>3
    <3>2. found[i] = <<[num |-> numbers[i], value |-> AsRead(values[numbers[i]])]>>
      BY <1>6, <1>7
    <3>3. ReadAs(parts[i], found[i])
      BY <1>2, <3>1, <3>2
    <3> QED BY <3>3 DEF PartReadAs
  <2> QED BY <1>4, <1>7, <2>1 DEF PartsReadAs
<1>10. Decode(Concat(parts)) = Found(Concat(found))
  BY <1>0, <1>9, PartsAreRead
<1> QED BY <1>1, <1>8, <1>10 DEF read

LEMMA ValuesOfOne ==
  ASSUME NEW n \in Nat, NEW value \in Values
  PROVE  ValuesOf(<<[num |-> n, value |-> value]>>, n) = <<value>>
<1> DEFINE field == [num |-> n, value |-> value]
           fields == <<field>>
           p == Picked(fields, n)
<1>1. field \in RawFields /\ field.num = n /\ field.value = value
  BY DEF RawFields
<1> HIDE DEF field
<1>2. fields \in Seq(RawFields) /\ Len(fields) = 1 /\ fields[1] = field
  BY <1>1
<1> HIDE DEF fields
<1>3. /\ ValuesOf(fields, n) = Concat(p) /\ p \in Seq(Seq(Values)) /\ Len(p) = 1
      /\ p[1] = <<value>>
  <2>1. 1 \in 1..Len(fields)
    BY <1>2
  <2>2. /\ ValuesOf(fields, n) = Concat(p) /\ p \in Seq(Seq(Values)) /\ Len(p) = Len(fields)
        /\ p[1] = IF fields[1].num = n THEN <<fields[1].value>> ELSE <<>>
    BY <1>2, <2>1, ValuesAre
  <2> HIDE DEF p
  <2> QED BY <1>1, <1>2, <2>2
<1> HIDE DEF p
<1>4. p = << <<value>> >>
  BY <1>3
<1>5. Concat(<< <<value>> >>) = <<value>>
  <2>1. <<value>> \in Seq(Values)
    OBVIOUS
  <2> QED BY <2>1, ConcatOfOne
<1> QED BY <1>3, <1>4, <1>5 DEF fields, field

LEMMA FirstField ==
  ASSUME NEW x \in Seq(RawFields), NEW k \in Nat, Len(x) = k + 1, NEW num
  PROVE  /\ Tail(x) \in Seq(RawFields) /\ Len(Tail(x)) = k
         /\ \A i \in 1..k : Tail(x)[i] = x[i + 1]
         /\ x[1] \in RawFields
         /\ ValuesOf(x, num) = (IF x[1].num = num THEN <<x[1].value>> ELSE <<>>)
                                 \o ValuesOf(Tail(x), num)
<1>1. /\ Tail(x) \in Seq(RawFields) /\ Len(Tail(x)) = k
      /\ \A i \in 1..k : Tail(x)[i] = x[i + 1]
      /\ x[1] \in RawFields /\ x = <<x[1]>> \o Tail(x)
  BY FirstAndRest
<1> DEFINE tail == Tail(x)
           first == <<x[1]>>
<1>2. first \in Seq(RawFields) /\ tail \in Seq(RawFields)
  BY <1>1
<1>3. ValuesOf(first, num) = IF x[1].num = num THEN <<x[1].value>> ELSE <<>>
  <2>1. /\ x[1].num \in Nat /\ x[1].value \in Values
        /\ x[1] = [num |-> x[1].num, value |-> x[1].value]
    BY <1>1 DEF RawFields
  <2>2. CASE x[1].num = num
    BY <2>1, <2>2, ValuesOfOne
  <2>3. CASE x[1].num # num
    BY <2>1, <2>3, ValuesOfOther
  <2> QED BY <2>2, <2>3
<1> HIDE DEF tail, first
<1>4. ValuesOf(first \o tail, num) = ValuesOf(first, num) \o ValuesOf(tail, num)
  BY <1>2, ValuesOfConcat
<1> QED BY <1>1, <1>3, <1>4 DEF tail, first

LEMMA ValuesOfAbsent ==
  ASSUME NEW s \in Seq(RawFields), NEW num, \A i \in 1..Len(s) : s[i].num # num
  PROVE  ValuesOf(s, num) = <<>>
<1> DEFINE Absent(k) == \A x \in Seq(RawFields) :
                          Len(x) = k /\ (\A i \in 1..k : x[i].num # num)
                            => ValuesOf(x, num) = <<>>
           S == {k \in Nat : Absent(k)}
<1>1. 0 \in S
  <2> SUFFICES ASSUME NEW x \in Seq(RawFields), Len(x) = 0 PROVE ValuesOf(x, num) = <<>>
    OBVIOUS
  <2>1. x = <<>>
    BY EmptySeq
  <2> QED BY <2>1, ValuesOfNone
<1>2. ASSUME NEW k \in Nat, k \in S PROVE k + 1 \in S
  <2>1. Absent(k)
    BY <1>2
  <2> SUFFICES ASSUME NEW x \in Seq(RawFields), Len(x) = k + 1,
                      \A i \in 1..(k + 1) : x[i].num # num
               PROVE  ValuesOf(x, num) = <<>>
    OBVIOUS
  <2> DEFINE tail == Tail(x)
  <2>2. /\ tail \in Seq(RawFields) /\ Len(tail) = k
        /\ \A i \in 1..k : tail[i] = x[i + 1]
        /\ ValuesOf(x, num) = (IF x[1].num = num THEN <<x[1].value>> ELSE <<>>)
                                \o ValuesOf(tail, num)
    BY FirstField
  <2> HIDE DEF tail
  <2>3. \A i \in 1..k : i + 1 \in 1..(k + 1)
    OBVIOUS
  <2>4. \A i \in 1..k : tail[i].num # num
    BY <2>2, <2>3
  <2>5. ValuesOf(tail, num) = <<>>
    BY <2>1, <2>2, <2>4
  <2>6. x[1].num # num
    <3>1. 1 \in 1..(k + 1)
      OBVIOUS
    <3> QED BY <3>1
  <2>7. <<>> \o <<>> = <<>>
    OBVIOUS
  <2> QED BY <2>2, <2>5, <2>6, <2>7
<1>3. \A k \in Nat : k \in S
  <2> HIDE DEF S
  <2> QED BY <1>1, <1>2, Induction
<1>4. Len(s) \in Nat
  OBVIOUS
<1>5. Absent(Len(s))
  BY <1>3, <1>4
<1> QED BY <1>5

\* The values of a field that comes once.
LEMMA ValuesOfSingle ==
  ASSUME NEW s \in Seq(RawFields), NEW at \in 1..Len(s),
         \A i \in 1..Len(s) : (s[i].num = s[at].num) => (i = at)
  PROVE  ValuesOf(s, s[at].num) = <<s[at].value>>
<1> DEFINE num == s[at].num
           Alone(k) == \A x \in Seq(RawFields) : \A j \in 1..k :
                          Len(x) = k /\ (\A i \in 1..k : (x[i].num = num) <=> (i = j))
                            => ValuesOf(x, num) = <<x[j].value>>
           S == {k \in Nat : Alone(k)}
<1>1. 0 \in S
  OBVIOUS
<1>2. ASSUME NEW k \in Nat, k \in S PROVE k + 1 \in S
  <2>1. Alone(k)
    BY <1>2
  <2> HIDE DEF num
  <2> SUFFICES ASSUME NEW x \in Seq(RawFields), NEW j \in 1..(k + 1), Len(x) = k + 1,
                      \A i \in 1..(k + 1) : (x[i].num = num) <=> (i = j)
               PROVE  ValuesOf(x, num) = <<x[j].value>>
    OBVIOUS
  <2> DEFINE tail == Tail(x)
             others == ValuesOf(tail, num)
             one == <<x[j].value>>
  <2>2. /\ tail \in Seq(RawFields) /\ Len(tail) = k
        /\ \A i \in 1..k : tail[i] = x[i + 1]
        /\ x[1] \in RawFields
        /\ ValuesOf(x, num) = (IF x[1].num = num THEN <<x[1].value>> ELSE <<>>) \o others
    BY FirstField
  <2>3. 1 \in 1..(k + 1) /\ \A i \in 1..k : i + 1 \in 1..(k + 1) /\ i + 1 # 1
    OBVIOUS
  <2> HIDE DEF tail
  <2>4. one \in Seq(Values)
    <3>1. x[j] \in RawFields
      BY ElementOfSeq
    <3>2. x[j].value \in Values
      BY <3>1 DEF RawFields
    <3> QED BY <3>2
  <2>5. CASE j = 1
    <3>1. \A i \in 1..k : tail[i].num # num
      BY <2>2, <2>3, <2>5
    <3>2. others = <<>>
      BY <2>2, <3>1, ValuesOfAbsent
    <3>3. x[1].num = num /\ one = <<x[1].value>>
      BY <2>3, <2>5
    <3>4. one \o <<>> = one
      BY <2>4, ConcatEmptySeq
    <3> HIDE DEF one, others
    <3> QED BY <2>2, <3>2, <3>3, <3>4 DEF one
  <2>6. CASE j # 1
    <3> DEFINE m == j - 1
    <3>1. m \in 1..k /\ m + 1 = j /\ \A i \in 1..k : (i = m) <=> (i + 1 = j)
      BY <2>6
    <3>2. \A i \in 1..k : (tail[i].num = num) <=> (i = m)
      BY <2>2, <2>3, <3>1
    <3> HIDE DEF m
    <3>3. others = <<tail[m].value>>
      BY <2>1, <2>2, <3>1, <3>2
    <3>4. others = one
      BY <2>2, <3>1, <3>3
    <3>5. x[1].num # num
      BY <2>3, <2>6
    <3>6. <<>> \o one = one
      BY <2>4, ConcatEmptySeq
    <3> HIDE DEF one, others
    <3> QED BY <2>2, <3>4, <3>5, <3>6 DEF one
  <2> QED BY <2>5, <2>6
<1>3. \A k \in Nat : k \in S
  <2> HIDE DEF S
  <2> QED BY <1>1, <1>2, Induction
<1>4. Len(s) \in Nat /\ \A i \in 1..Len(s) : (s[i].num = num) <=> (i = at)
  OBVIOUS
<1>5. Alone(Len(s))
  BY <1>3, <1>4
<1> HIDE DEF num
<1>6. ValuesOf(s, num) = <<s[at].value>>
  BY <1>4, <1>5
<1> QED BY <1>6 DEF num


\* A message of any fields of the schema, each written once and in any order, is read
\* back as what was sent; of a negative number, as its two's complement (encode, decode,
\* from_bytes).  A nested message is a value of bytes that is read back in the same way.
THEOREM MessageIsReadBack ==
  ASSUME NEW numbers \in Seq(Nat),
         \A i, j \in 1..Len(numbers) : (numbers[i] = numbers[j]) => (i = j),
         NEW values, \A i \in 1..Len(numbers) : values[numbers[i]] \in Written,
         NEW schema, \A i \in 1..Len(numbers) : numbers[i] \in schema
  PROVE  Taken(schema, Encode(numbers, values))
           = [error |-> "none",
              values |-> [num \in {numbers[i] : i \in 1..Len(numbers)} |-> AsRead(values[num])]]
<1> DEFINE N == Len(numbers)
           sent == {numbers[i] : i \in 1..Len(numbers)}
           read == ReadFields(numbers, values)
           present == {n \in schema : ValuesOf(read, n) # <<>>}
<1>1. Decode(Encode(numbers, values)) = Found(read)
  BY EncodedIsDecoded
<1>2. read \in Seq(RawFields) /\ Len(read) = N
  BY ReadFieldsAre
<1>3. \A i \in 1..N : read[i] = [num |-> numbers[i], value |-> AsRead(values[numbers[i]])]
  BY ReadFieldsAre
<1> HIDE DEF read
<1>4. \A i \in 1..N : read[i].num = numbers[i] /\ read[i].value = AsRead(values[numbers[i]])
  <2> TAKE i \in 1..N
  <2> DEFINE value == AsRead(values[numbers[i]])
  <2> HIDE DEF value, N
  <2>1. read[i] = [num |-> numbers[i], value |-> value]
    BY <1>3 DEF value
  <2> QED BY <2>1 DEF value
<1>5. ASSUME NEW i \in 1..N
      PROVE  ValuesOf(read, numbers[i]) = <<AsRead(values[numbers[i]])>>
  <2>1. \A j \in 1..Len(read) : (read[j].num = read[i].num) => (j = i)
    BY <1>2, <1>4
  <2>2. ValuesOf(read, read[i].num) = <<read[i].value>>
    BY <1>2, <2>1, ValuesOfSingle
  <2> QED BY <1>4, <2>2
<1>6. ASSUME NEW num \in schema, num \notin sent
      PROVE  ValuesOf(read, num) = <<>>
  <2>1. \A i \in 1..Len(read) : read[i].num # num
    BY <1>2, <1>4, <1>6
  <2> QED BY <1>2, <2>1, ValuesOfAbsent
<1>7. \A num \in sent : ValuesOf(read, num) = <<AsRead(values[num])>>
  BY <1>5
<1>8. \A num \in sent : num \in schema
  OBVIOUS
<1>9. present = sent
  <2>1. \A num \in sent : ValuesOf(read, num) # <<>>
    <3>1. \A v : <<v>> # <<>>
      OBVIOUS
    <3> QED BY <1>7, <3>1
  <2> HIDE DEF sent
  <2> QED BY <1>6, <1>8, <2>1
<1> HIDE DEF sent
<1>10. \A num \in sent : OnlyValue(ValuesOf(read, num)) = AsRead(values[num])
  <2>1. \A v : OnlyValue(<<v>>) = v
    BY DEF OnlyValue
  <2> QED BY <1>7, <2>1
<1>11. [num \in present |-> OnlyValue(ValuesOf(read, num))]
         = [num \in sent |-> AsRead(values[num])]
  <2> HIDE DEF present
  <2> QED BY <1>9, <1>10
<1>12. Taken(schema, Encode(numbers, values))
         = [error |-> "none", values |-> [num \in present |-> OnlyValue(ValuesOf(read, num))]]
  BY <1>1 DEF Taken, Then, Found
<1> QED BY <1>11, <1>12, Zenon DEF sent

\* A message that was read and is sent again unchanged is the same bytes: a charge timer
\* is edited by sending back the one that was read, with its UTC offset (to_bytes).
THEOREM SentAgainIsTheSame ==
  ASSUME NEW numbers \in Seq(Nat), NEW values,
         \A i \in 1..Len(numbers) : values[numbers[i]] \in Written
  PROVE  Encode(numbers, [num \in {numbers[i] : i \in 1..Len(numbers)} |-> AsRead(values[num])])
           = Encode(numbers, values)
<1> DEFINE sent == {numbers[i] : i \in 1..Len(numbers)}
           read == [num \in sent |-> AsRead(values[num])]
           First(i) == EncodeValue(numbers[i], values[numbers[i]])
           Again(i) == EncodeValue(numbers[i], read[numbers[i]])
<1>1. ASSUME NEW num, NEW value \in Written
      PROVE  EncodeValue(num, AsRead(value)) = EncodeValue(num, value)
  <2>1. CASE value.type = "int"
    <3> DEFINE n == value.int
               m == IF n < 0 THEN n % Modulus ELSE n
               int == [type |-> "int", int |-> m]
    <3>1. n \in Int
      BY <2>1 DEF Written
    <3>2. m \in Int /\ ~(m < 0)
      BY <3>1, ModulusAssumption
    <3>3. EncodeVarint(n) = Varint(m)
      BY DEF EncodeVarint
    <3>4. AsRead(value) = int
      BY <2>1 DEF AsRead
    <3>5. EncodeValue(num, value) = EncodeInt(num, n)
      BY <2>1 DEF EncodeValue
    <3> HIDE DEF m, n
    <3>6. EncodeVarint(m) = Varint(m)
      BY <3>2 DEF EncodeVarint
    <3>7. EncodeValue(num, int) = EncodeInt(num, m)
      BY DEF EncodeValue
    <3>8. EncodeInt(num, m) = EncodeInt(num, n)
      BY <3>3, <3>6 DEF EncodeInt
    <3> QED BY <3>4, <3>5, <3>7, <3>8
  <2>2. CASE value.type # "int"
    BY <2>2 DEF AsRead
  <2> QED BY <2>1, <2>2
<1>2. DOMAIN numbers = 1..Len(numbers)
  OBVIOUS
<1>3. \A i \in DOMAIN numbers : read[numbers[i]] = AsRead(values[numbers[i]])
  BY <1>2
<1>4. \A i \in DOMAIN numbers : Again(i) = First(i)
  <2> HIDE DEF read
  <2> QED BY <1>1, <1>2, <1>3
<1>5. Encode(numbers, values) = Concat([i \in DOMAIN numbers |-> First(i)])
  BY DEF Encode
<1>6. Encode(numbers, read) = Concat([i \in DOMAIN numbers |-> Again(i)])
  BY DEF Encode
<1> HIDE DEF First, Again
<1>7. [i \in DOMAIN numbers |-> First(i)] = [i \in DOMAIN numbers |-> Again(i)]
  BY <1>4
<1> QED BY <1>5, <1>6, <1>7

-----------------------------------------------------------------------------
(* The record of unknown fields: what it may be.                           *)

\* A key of the record: its values are within the limit, and one was turned away
\* only when the limit was reached.
Bounded(slot) ==
  /\ slot = [values |-> slot.values, more |-> slot.more]
  /\ IsFiniteSet(slot.values)
  /\ Cardinality(slot.values) <= MaxValues
  /\ slot.more => Cardinality(slot.values) = MaxValues

\* The limits hold of finite sets, and no key is without a value.
Sound(record) ==
  /\ IsFiniteSet(DOMAIN record)
  /\ Cardinality(DOMAIN record) <= MaxKeys
  /\ \A key \in DOMAIN record : Bounded(record[key]) /\ record[key].values # {}

-----------------------------------------------------------------------------
(* One entry of the record.                                                *)

LEMMA AddedIsBounded ==
  ASSUME NEW old, Bounded(old), NEW value
  PROVE  Bounded(Added(old, value)) /\ Added(old, value).values # {}
<1> DEFINE size == Cardinality(old.values)
           more == Cardinality(old.values \cup {value})
<1>1. size \in Nat /\ size <= MaxValues /\ MaxValues \in Nat \ {0}
  BY FS_CardinalityType, LimitsAssumption DEF Bounded, LimitsAssumption
<1>2. /\ IsFiniteSet(old.values \cup {value})
      /\ more = IF value \in old.values THEN size ELSE size + 1
  BY FS_AddElement DEF Bounded
<1>3. CASE value \notin old.values /\ size >= MaxValues
  <2>1. Added(old, value) = [values |-> old.values, more |-> TRUE]
    BY <1>3 DEF Added
  <2>2. size = MaxValues /\ old.values # {}
    BY <1>1, <1>3, FS_EmptySet
  <2> QED BY <2>1, <2>2 DEF Bounded
<1>4. CASE ~(value \notin old.values /\ size >= MaxValues)
  <2> DEFINE new == [values |-> old.values \cup {value}, more |-> old.more]
  <2>1. Added(old, value) = new
    BY <1>4 DEF Added
  <2>2. more <= MaxValues
    BY <1>1, <1>2, <1>4
  <2>3. ASSUME old.more PROVE more = MaxValues
    BY <1>1, <1>2, <1>4, <2>3 DEF Bounded
  <2>4. Bounded(new) /\ new.values # {}
    BY <1>2, <2>2, <2>3 DEF Bounded
  <2> QED BY <2>1, <2>4
<1> QED BY <1>3, <1>4

LEMMA NothingIsBounded ==
  ASSUME NEW record, Sound(record), NEW key
  PROVE  Bounded(Seen(record, key))
<1>1. Bounded([values |-> {}, more |-> FALSE])
  BY FS_EmptySet, LimitsAssumption DEF Bounded, LimitsAssumption
<1> QED BY <1>1 DEF Sound, Seen

LEMMA StoreIsSound ==
  ASSUME NEW record, Sound(record), NEW entry
  PROVE  Sound(Store(record, entry))
<1> DEFINE room == entry.key \in DOMAIN record \/ ~(Cardinality(DOMAIN record) >= MaxKeys)
           new == Noted(record, entry)
<1>1. CASE ~room
  BY <1>1 DEF Store
<1>2. CASE room
  <2>1. Store(record, entry) = new
    BY <1>2 DEF Store
  <2>2. DOMAIN new = DOMAIN record \cup {entry.key}
    BY DEF Noted
  <2>3. /\ IsFiniteSet(DOMAIN record) /\ Cardinality(DOMAIN record) \in Nat
        /\ Cardinality(DOMAIN record) <= MaxKeys /\ MaxKeys \in Nat
    BY FS_CardinalityType, LimitsAssumption DEF Sound, LimitsAssumption
  <2>4. /\ IsFiniteSet(DOMAIN record \cup {entry.key})
        /\ Cardinality(DOMAIN record \cup {entry.key})
             = IF entry.key \in DOMAIN record THEN Cardinality(DOMAIN record)
               ELSE Cardinality(DOMAIN record) + 1
    BY <2>3, FS_AddElement
  <2>5. Cardinality(DOMAIN record \cup {entry.key}) <= MaxKeys
    BY <1>2, <2>3, <2>4
  <2>6. ASSUME NEW key \in DOMAIN record \cup {entry.key}
        PROVE  Bounded(new[key]) /\ new[key].values # {}
    <3>1. CASE key = entry.key
      <4>1. new[key] = Added(Seen(record, key), entry.value)
        BY <3>1 DEF Noted
      <4> HIDE DEF new
      <4> QED BY <4>1, NothingIsBounded, AddedIsBounded
    <3>2. CASE key # entry.key
      <4>1. new[key] = record[key] /\ key \in DOMAIN record
        BY <3>2 DEF Noted
      <4> HIDE DEF new
      <4> QED BY <4>1 DEF Sound
    <3> QED BY <3>1, <3>2
  <2> HIDE DEF new
  <2> QED BY <2>1, <2>2, <2>4, <2>5, <2>6 DEF Sound
<1> QED BY <1>1, <1>2

-----------------------------------------------------------------------------
(* The entries of a message.                                               *)

IsStored(record, entries, k, f) ==
  f = [n \in 0..k |-> IF n = 0 THEN record ELSE Store(f[n - 1], entries[n])]

\* The recursive definition has a solution.
LEMMA StoredExists ==
  ASSUME NEW record, NEW entries
  PROVE  \A k \in Nat : \E f : IsStored(record, entries, k, f)
<1> DEFINE S == {k \in Nat : \E f : IsStored(record, entries, k, f)}
<1>1. 0 \in S
  <2> DEFINE f == [n \in 0..0 |-> record]
  <2>1. IsStored(record, entries, 0, f)
    BY DEF IsStored
  <2> QED BY <2>1
<1>2. ASSUME NEW k \in Nat, k \in S PROVE k + 1 \in S
  <2>1. PICK f : IsStored(record, entries, k, f)
    BY <1>2
  <2> DEFINE g == [n \in 0..k + 1 |-> IF n = k + 1 THEN Store(f[k], entries[k + 1]) ELSE f[n]]
  <2>2. \A n \in 0..k : g[n] = f[n] /\ n \in 0..k + 1
    OBVIOUS
  <2>3. ASSUME NEW n \in 0..k + 1
        PROVE  g[n] = IF n = 0 THEN record ELSE Store(g[n - 1], entries[n])
    <3>1. CASE n = k + 1
      <4>1. g[n] = Store(f[k], entries[n]) /\ n # 0 /\ g[k] = f[k] /\ n - 1 = k
        BY <2>2, <3>1
      <4> HIDE DEF g
      <4> QED BY <4>1
    <3>2. CASE n # k + 1
      <4>1. n \in 0..k /\ (n # 0 => n - 1 \in 0..k)
        BY <3>2
      <4>2. f[n] = IF n = 0 THEN record ELSE Store(f[n - 1], entries[n])
        BY <2>1, <4>1 DEF IsStored
      <4>3. g[n] = f[n] /\ (n # 0 => g[n - 1] = f[n - 1])
        BY <2>2, <4>1
      <4> HIDE DEF g
      <4> QED BY <4>2, <4>3
    <3> QED BY <3>1, <3>2
  <2>4. IsStored(record, entries, k + 1, g)
    <3> DEFINE h == [n \in 0..k + 1 |-> IF n = 0 THEN record ELSE Store(g[n - 1], entries[n])]
    <3>1. g = h
      BY <2>3
    <3> QED BY <3>1 DEF IsStored
  <2> HIDE DEF g
  <2> QED BY <2>4
<1>3. \A k \in Nat : k \in S
  <2> HIDE DEF S
  <2> QED BY <1>1, <1>2, Induction
<1> QED BY <1>3

LEMMA StoreAllIsSound ==
  ASSUME NEW record, Sound(record), NEW entries, Len(entries) \in Nat
  PROVE  Sound(StoreAll(record, entries))
<1> DEFINE last == Len(entries)
           stored[n \in 0..Len(entries)] ==
             IF n = 0 THEN record ELSE Store(stored[n - 1], entries[n])
           S == {n \in Nat : n <= last => Sound(stored[n])}
<1>1. StoreAll(record, entries) = stored[last]
  BY DEF StoreAll
<1>2. stored = CHOOSE f : IsStored(record, entries, last, f)
  BY DEF IsStored
<1>3. \E f : IsStored(record, entries, last, f)
  BY StoredExists
<1>4. last \in Nat
  OBVIOUS
<1> HIDE DEF stored, last
<1>5. \A n \in 0..last : stored[n] = IF n = 0 THEN record ELSE Store(stored[n - 1], entries[n])
  <2>1. IsStored(record, entries, last, stored)
    BY <1>2, <1>3
  <2> QED BY <2>1 DEF IsStored
<1>6. 0 \in S
  BY <1>4, <1>5
<1>7. ASSUME NEW n \in Nat, n \in S PROVE n + 1 \in S
  <2> SUFFICES ASSUME n + 1 <= last PROVE Sound(stored[n + 1])
    OBVIOUS
  <2>1. Sound(stored[n])
    BY <1>4, <1>7
  <2>2. n + 1 \in 0..last /\ n + 1 # 0 /\ (n + 1) - 1 = n
    BY <1>4
  <2>3. stored[n + 1] = Store(stored[n], entries[n + 1])
    BY <1>5, <2>2
  <2> QED BY <2>1, <2>3, StoreIsSound
<1>8. \A n \in Nat : n \in S
  <2> HIDE DEF S
  <2> QED BY <1>6, <1>7, Induction
<1> QED BY <1>1, <1>4, <1>8

-----------------------------------------------------------------------------
(* The record.                                                             *)

\* However many messages arrive and whatever they hold, the record of unknown fields
\* stays within its limits and says so when it turned a value away (_store).
THEOREM RecordStaysBounded == RecordSpec => []RecordIsBounded
<1> DEFINE Inv == Sound(unknownFields)
<1>1. UnknownInit => Inv
  <2> SUFFICES ASSUME UnknownInit PROVE Inv
    OBVIOUS
  <2>1. DOMAIN unknownFields = {}
    BY DEF UnknownInit
  <2> QED BY <2>1, FS_EmptySet, LimitsAssumption DEF Sound, LimitsAssumption
<1>2. Inv /\ [RecordNext]_unknownFields => Inv'
  <2> SUFFICES ASSUME Inv, [RecordNext]_unknownFields PROVE Inv'
    OBVIOUS
  <2>1. CASE RecordNext
    <3>1. PICK entries : Len(entries) \in Nat /\ unknownFields' = StoreAll(unknownFields, entries)
      <4>1. PICK keys, values : \E entries \in Seq([key : keys, value : values]) : RecordAll(entries)
        BY <2>1 DEF RecordNext
      <4>2. PICK entries \in Seq([key : keys, value : values]) : RecordAll(entries)
        BY <4>1
      <4> QED BY <4>2 DEF RecordAll
    <3>2. Sound(unknownFields')
      BY <3>1, StoreAllIsSound
    <3> QED BY <3>2 DEF Sound, Bounded
  <2>2. CASE UNCHANGED unknownFields
    BY <2>2 DEF Sound, Bounded
  <2> QED BY <2>1, <2>2
<1>3. Inv => RecordIsBounded
  <2> SUFFICES ASSUME Inv, NEW key \in DOMAIN unknownFields
               PROVE  /\ Cardinality(unknownFields[key].values) \in 1..MaxValues
                      /\ unknownFields[key].more
                           => Cardinality(unknownFields[key].values) = MaxValues
    BY DEF RecordIsBounded, Sound
  <2> DEFINE values == unknownFields[key].values
  <2>1. /\ IsFiniteSet(values) /\ values # {} /\ Cardinality(values) <= MaxValues
        /\ unknownFields[key].more => Cardinality(values) = MaxValues
    BY DEF Sound, Bounded
  <2>2. Cardinality(values) \in Nat /\ Cardinality(values) # 0
    BY <2>1, FS_CardinalityType, FS_EmptySet
  <2> QED BY <2>1, <2>2, LimitsAssumption DEF LimitsAssumption
<1> QED BY <1>1, <1>2, <1>3, PTL DEF RecordSpec

-----------------------------------------------------------------------------
(* Sequences that correspond, element by element.                          *)

Paired(R, s, t) == Len(s) = Len(t) /\ \A i \in 1..Len(s) : <<s[i], t[i]>> \in R

LEMMA SameLength ==
  \A m, n \in Nat : (1..m = 1..n) => (m = n)
<1> SUFFICES ASSUME NEW m \in Nat, NEW n \in Nat, 1..m = 1..n
             PROVE  m = n
  OBVIOUS
<1>1. ~(m < n)
  <2>1. m < n => n \in 1..n /\ n \notin 1..m
    OBVIOUS
  <2> QED BY <2>1
<1>2. ~(n < m)
  <2>1. n < m => m \in 1..m /\ m \notin 1..n
    OBVIOUS
  <2> QED BY <2>1
<1> QED BY <1>1, <1>2

LEMMA PairedTogether ==
  ASSUME NEW X, NEW R, NEW a \in Seq(X), NEW b \in Seq(X), NEW c \in Seq(X), NEW d \in Seq(X),
         Paired(R, a, b), Paired(R, c, d)
  PROVE  Paired(R, a \o c, b \o d)
<1> DEFINE ac == a \o c
           bd == b \o d
<1>1. /\ Len(ac) = Len(a) + Len(c) /\ Len(a) \in Nat /\ Len(c) \in Nat
      /\ \A i \in 1..Len(a) + Len(c) : ac[i] = IF i <= Len(a) THEN a[i] ELSE c[i - Len(a)]
  BY ConcatProperties
<1>2. /\ Len(bd) = Len(b) + Len(d)
      /\ \A i \in 1..Len(b) + Len(d) : bd[i] = IF i <= Len(b) THEN b[i] ELSE d[i - Len(b)]
  BY ConcatProperties
<1>3. Len(b) = Len(a) /\ Len(d) = Len(c)
  BY DEF Paired
<1> HIDE DEF ac, bd
<1>4. ASSUME NEW i \in 1..Len(ac)
      PROVE  <<ac[i], bd[i]>> \in R
  <2>1. CASE i <= Len(a)
    <3>1. i \in 1..Len(a)
      BY <1>1, <2>1
    <3> QED BY <1>1, <1>2, <1>3, <2>1, <3>1 DEF Paired
  <2>2. CASE ~(i <= Len(a))
    <3>1. i - Len(a) \in 1..Len(c)
      BY <1>1, <2>2
    <3>2. ac[i] = c[i - Len(a)] /\ bd[i] = d[i - Len(a)]
      BY <1>1, <1>2, <1>3, <2>2
    <3> QED BY <3>1, <3>2 DEF Paired
  <2> QED BY <2>1, <2>2
<1>5. Len(ac) = Len(bd)
  BY <1>1, <1>2, <1>3
<1> QED BY <1>4, <1>5 DEF Paired, ac, bd

LEMMA ConcatIsPaired ==
  ASSUME NEW X, NEW R, NEW a \in Seq(Seq(X)), NEW b \in Seq(Seq(X)), Len(a) = Len(b),
         \A i \in 1..Len(a) : Paired(R, a[i], b[i])
  PROVE  Paired(R, Concat(a), Concat(b))
<1> DEFINE Agree(x, y, k) ==
             /\ x \in Seq(Seq(X)) /\ Len(x) = k
             /\ y \in Seq(Seq(X)) /\ Len(y) = k
             /\ \A i \in 1..k : Paired(R, x[i], y[i])
           Same(k) == \A x, y : Agree(x, y, k) => Paired(R, Concat(x), Concat(y))
           S == {k \in Nat : Same(k)}
<1>1. 0 \in S
  <2> SUFFICES ASSUME NEW x, NEW y, Agree(x, y, 0)
               PROVE  Paired(R, Concat(x), Concat(y))
    OBVIOUS
  <2>1. x = <<>> /\ y = <<>>
    BY EmptySeq
  <2>2. Paired(R, <<>>, <<>>)
    BY DEF Paired
  <2> QED BY <2>1, <2>2, ConcatOfNone
<1>2. ASSUME NEW k \in Nat, k \in S PROVE k + 1 \in S
  <2>1. Same(k)
    BY <1>2
  <2> SUFFICES ASSUME NEW x, NEW y, Agree(x, y, k + 1)
               PROVE  Paired(R, Concat(x), Concat(y))
    OBVIOUS
  <2> DEFINE tx == Tail(x)
             ty == Tail(y)
  <2>2. /\ x[1] \in Seq(X) /\ tx \in Seq(Seq(X)) /\ Len(tx) = k
        /\ \A i \in 1..k : tx[i] = x[i + 1]
        /\ Concat(x) = x[1] \o Concat(tx) /\ Concat(tx) \in Seq(X)
    BY ConcatFirst
  <2>3. /\ y[1] \in Seq(X) /\ ty \in Seq(Seq(X)) /\ Len(ty) = k
        /\ \A i \in 1..k : ty[i] = y[i + 1]
        /\ Concat(y) = y[1] \o Concat(ty) /\ Concat(ty) \in Seq(X)
    BY ConcatFirst
  <2>4. \A i \in 1..k : i + 1 \in 1..(k + 1)
    OBVIOUS
  <2>5. \A i \in 1..(k + 1) : Paired(R, x[i], y[i])
    OBVIOUS
  <2> HIDE DEF tx, ty
  <2>6. Agree(tx, ty, k)
    BY <2>2, <2>3, <2>4, <2>5
  <2>7. Paired(R, Concat(tx), Concat(ty))
    <3> HIDE DEF Agree
    <3> QED BY <2>1, <2>6
  <2>8. Paired(R, x[1], y[1])
    BY <2>5
  <2> QED BY <2>2, <2>3, <2>7, <2>8, PairedTogether
<1>3. \A k \in Nat : k \in S
  <2> HIDE DEF S
  <2> QED BY <1>1, <1>2, Induction
<1>4. Len(a) \in Nat /\ Agree(a, b, Len(a))
  OBVIOUS
<1> HIDE DEF Agree
<1>5. Same(Len(a))
  BY <1>3, <1>4
<1> QED BY <1>4, <1>5

-----------------------------------------------------------------------------
(* Fields that correspond are sorted alike.                                *)

FieldPairs(R) ==
  {pair \in RawFields \X RawFields :
     pair[1].num = pair[2].num /\ <<pair[1].value, pair[2].value>> \in R}

LEMMA ValuesArePaired ==
  ASSUME NEW R, NEW f \in Seq(RawFields), NEW g \in Seq(RawFields), Paired(FieldPairs(R), f, g),
         NEW num
  PROVE  /\ Paired(R, ValuesOf(f, num), ValuesOf(g, num))
         /\ ValuesOf(f, num) \in Seq(Values) /\ ValuesOf(g, num) \in Seq(Values)
<1> DEFINE p == Picked(f, num)
           q == Picked(g, num)
<1>1. /\ ValuesOf(f, num) = Concat(p) /\ p \in Seq(Seq(Values)) /\ Len(p) = Len(f)
      /\ \A i \in 1..Len(f) : p[i] = IF f[i].num = num THEN <<f[i].value>> ELSE <<>>
  BY ValuesAre
<1>2. /\ ValuesOf(g, num) = Concat(q) /\ q \in Seq(Seq(Values)) /\ Len(q) = Len(g)
      /\ \A i \in 1..Len(g) : q[i] = IF g[i].num = num THEN <<g[i].value>> ELSE <<>>
  BY ValuesAre
<1> HIDE DEF p, q
<1>3. Len(f) = Len(g) /\ \A i \in 1..Len(f) : <<f[i], g[i]>> \in FieldPairs(R)
  BY DEF Paired
<1>4. ASSUME NEW i \in 1..Len(p)
      PROVE  Paired(R, p[i], q[i])
  <2>1. f[i].num = g[i].num /\ <<f[i].value, g[i].value>> \in R
    BY <1>1, <1>3 DEF FieldPairs
  <2>2. CASE f[i].num = num
    <3>1. p[i] = <<f[i].value>> /\ q[i] = <<g[i].value>>
      BY <1>1, <1>2, <1>3, <2>1, <2>2
    <3> QED BY <2>1, <3>1 DEF Paired
  <2>3. CASE f[i].num # num
    <3>1. p[i] = <<>> /\ q[i] = <<>>
      BY <1>1, <1>2, <1>3, <2>1, <2>3
    <3> QED BY <3>1 DEF Paired
  <2> QED BY <2>2, <2>3
<1>5. Paired(R, Concat(p), Concat(q))
  BY <1>1, <1>2, <1>3, <1>4, ConcatIsPaired
<1>6. Concat(p) \in Seq(Values) /\ Concat(q) \in Seq(Values)
  BY <1>1, <1>2, ConcatOfConcat
<1> QED BY <1>1, <1>2, <1>5, <1>6

\* The values of a field, as fields again.
Again(fields, num) ==
  [k \in DOMAIN ValuesOf(fields, num) |-> [num |-> num, value |-> ValuesOf(fields, num)[k]]]

Came(fields, n) == \E m \in 1..n - 1 : fields[m].num = fields[n].num

Gathered(fields) ==
  [n \in DOMAIN fields |-> IF Came(fields, n) THEN <<>> ELSE Again(fields, fields[n].num)]

LEMMA GatheredAre ==
  ASSUME NEW f \in Seq(RawFields)
  PROVE  /\ Gathered(f) \in Seq(Seq(RawFields)) /\ Len(Gathered(f)) = Len(f)
         /\ \A n \in 1..Len(f) :
              Gathered(f)[n] = IF Came(f, n) THEN <<>> ELSE Again(f, f[n].num)
         /\ ByNumber(f) = Concat(Gathered(f))
         /\ ByNumber(f) \in Seq(RawFields)
<1> DEFINE all == Gathered(f)
<1>1. DOMAIN f = 1..Len(f) /\ Len(f) \in Nat
  OBVIOUS
<1>2. \A n \in 1..Len(f) : all[n] = IF Came(f, n) THEN <<>> ELSE Again(f, f[n].num)
  BY <1>1 DEF Gathered
<1>3. ASSUME NEW n \in 1..Len(f)
      PROVE  all[n] \in Seq(RawFields)
  <2>1. f[n] \in RawFields
    BY ElementOfSeq
  <2> DEFINE num == f[n].num
             values == ValuesOf(f, num)
  <2>2. num \in Nat
    BY <2>1 DEF RawFields
  <2>3. values \in Seq(Values)
    <3>1. /\ ValuesOf(f, num) = Concat(Picked(f, num)) /\ Picked(f, num) \in Seq(Seq(Values))
      BY ValuesAre
    <3> QED BY <3>1, ConcatOfConcat
  <2> HIDE DEF values
  <2>4. DOMAIN values = 1..Len(values) /\ Len(values) \in Nat
    BY <2>3
  <2>5. [k \in DOMAIN values |-> [num |-> num, value |-> values[k]]] \in Seq(RawFields)
    <3>1. \A k \in 1..Len(values) : [num |-> num, value |-> values[k]] \in RawFields
      <4> TAKE k \in 1..Len(values)
      <4>1. values[k] \in Values
        BY <2>3, ElementOfSeq
      <4> HIDE DEF num
      <4> QED BY <2>2, <4>1 DEF RawFields
    <3> HIDE DEF num
    <3>2. [k \in 1..Len(values) |-> [num |-> num, value |-> values[k]]] \in [1..Len(values) -> RawFields]
      BY <3>1
    <3> QED BY <2>4, <3>2
  <2>6. Again(f, num) \in Seq(RawFields)
    BY <2>5 DEF Again, values
  <2>7. <<>> \in Seq(RawFields)
    OBVIOUS
  <2> HIDE DEF all
  <2> QED BY <1>2, <2>6, <2>7
<1>4. all \in Seq(Seq(RawFields)) /\ Len(all) = Len(f)
  <2>1. all = [n \in 1..Len(f) |-> all[n]]
    BY <1>1 DEF Gathered
  <2> HIDE DEF all
  <2>2. all \in [1..Len(f) -> Seq(RawFields)]
    BY <1>3, <2>1
  <2> QED BY <1>1, <2>2
<1>5. ByNumber(f) = Concat(all)
  BY DEF ByNumber, Gathered, Came, Again
<1>6. Concat(all) \in Seq(RawFields)
  <2> HIDE DEF all
  <2> QED BY <1>4, ConcatOfConcat
<1> QED BY <1>2, <1>4, <1>5, <1>6

LEMMA SortedAlike ==
  ASSUME NEW R, NEW f \in Seq(RawFields), NEW g \in Seq(RawFields), Paired(FieldPairs(R), f, g)
  PROVE  Paired(FieldPairs(R), ByNumber(f), ByNumber(g))
<1> DEFINE p == Gathered(f)
           q == Gathered(g)
<1>1. /\ p \in Seq(Seq(RawFields)) /\ Len(p) = Len(f)
      /\ \A n \in 1..Len(f) : p[n] = IF Came(f, n) THEN <<>> ELSE Again(f, f[n].num)
      /\ ByNumber(f) = Concat(p)
  BY GatheredAre
<1>2. /\ q \in Seq(Seq(RawFields)) /\ Len(q) = Len(g)
      /\ \A n \in 1..Len(g) : q[n] = IF Came(g, n) THEN <<>> ELSE Again(g, g[n].num)
      /\ ByNumber(g) = Concat(q)
  BY GatheredAre
<1> HIDE DEF p, q
<1>3. Len(f) = Len(g) /\ \A i \in 1..Len(f) : <<f[i], g[i]>> \in FieldPairs(R)
  BY DEF Paired
<1>4. \A i \in 1..Len(f) : f[i].num = g[i].num
  BY <1>3 DEF FieldPairs
<1>5. ASSUME NEW n \in 1..Len(p)
      PROVE  Paired(FieldPairs(R), p[n], q[n])
  <2>1. n \in 1..Len(f) /\ Len(f) \in Nat /\ f[n].num = g[n].num
    BY <1>1, <1>4
  <2>2. Came(f, n) <=> Came(g, n)
    <3>1. \A m \in 1..n - 1 : f[m].num = g[m].num
      <4> TAKE m \in 1..n - 1
      <4>1. m \in 1..Len(f)
        BY <2>1
      <4> QED BY <1>4, <4>1
    <3> QED BY <2>1, <3>1 DEF Came
  <2>3. CASE Came(f, n)
    <3>1. p[n] = <<>> /\ q[n] = <<>>
      BY <1>1, <1>2, <1>3, <2>1, <2>2, <2>3
    <3> QED BY <3>1 DEF Paired
  <2>4. CASE ~Came(f, n)
    <3> DEFINE num == f[n].num
               v == ValuesOf(f, num)
               w == ValuesOf(g, num)
    <3>1. p[n] = Again(f, num) /\ q[n] = Again(g, num)
      BY <1>1, <1>2, <1>3, <2>1, <2>2, <2>4
    <3>2. Paired(R, v, w) /\ v \in Seq(Values) /\ w \in Seq(Values)
      BY ValuesArePaired
    <3>3. num \in Nat
      <4>1. f[n] \in RawFields
        BY <2>1, ElementOfSeq
      <4> QED BY <4>1 DEF RawFields
    <3>4. Again(f, num) = [k \in DOMAIN v |-> [num |-> num, value |-> v[k]]]
      BY DEF Again
    <3>5. Again(g, num) = [k \in DOMAIN w |-> [num |-> num, value |-> w[k]]]
      BY DEF Again
    <3> HIDE DEF v, w, num
    <3>6. DOMAIN v = 1..Len(v) /\ DOMAIN w = 1..Len(w) /\ Len(v) = Len(w) /\ Len(v) \in Nat
      BY <3>2 DEF Paired
    <3>7. Len(p[n]) = Len(v) /\ Len(q[n]) = Len(v)
      <4> DEFINE d == 1..Len(v)
      <4>1. p[n] = [k \in d |-> [num |-> num, value |-> v[k]]]
        BY <3>1, <3>4, <3>6
      <4>2. q[n] = [k \in d |-> [num |-> num, value |-> w[k]]]
        BY <3>1, <3>5, <3>6
      <4>3. DOMAIN p[n] = 1..Len(v) /\ DOMAIN q[n] = 1..Len(v)
        BY <4>1, <4>2
      <4>4. p[n] \in Seq(RawFields) /\ q[n] \in Seq(RawFields)
        BY <1>1, <1>2, <1>3, <2>1, ElementOfSeq
      <4>5. DOMAIN p[n] = 1..Len(p[n]) /\ Len(p[n]) \in Nat /\ DOMAIN q[n] = 1..Len(q[n]) /\ Len(q[n]) \in Nat
        BY <4>4
      <4> QED BY <3>6, <4>3, <4>5, SameLength
    <3>8. ASSUME NEW k \in 1..Len(v)
          PROVE  <<p[n][k], q[n][k]>> \in FieldPairs(R)
      <4>1. v[k] \in Values /\ w[k] \in Values /\ <<v[k], w[k]>> \in R
        BY <3>2, <3>6, ElementOfSeq DEF Paired
      <4>2. p[n][k] = [num |-> num, value |-> v[k]] /\ q[n][k] = [num |-> num, value |-> w[k]]
        BY <3>1, <3>4, <3>5, <3>6
      <4>3. p[n][k] \in RawFields /\ q[n][k] \in RawFields
        BY <3>3, <4>1, <4>2 DEF RawFields
      <4>4. /\ p[n][k].num = q[n][k].num /\ p[n][k].value = v[k] /\ q[n][k].value = w[k]
        BY <4>2
      <4> QED BY <4>1, <4>3, <4>4 DEF FieldPairs
    <3> QED BY <3>7, <3>8 DEF Paired
  <2> QED BY <2>3, <2>4
<1>6. Paired(FieldPairs(R), Concat(p), Concat(q))
  BY <1>1, <1>2, <1>3, <1>5, ConcatIsPaired
<1> QED BY <1>1, <1>2, <1>6

-----------------------------------------------------------------------------
(* What is read of any bytes are fields.                                   *)

LEMMA CutIsTyped ==
  ASSUME NEW data \in Seq(Byte), NEW from \in Positions, NEW length \in Nat
  PROVE  Cut(data, from, length) \in Seq(Byte)
<1> DEFINE a == from + length - 1
           T == {a, Len(data)}
<1>1. from \in Nat /\ from > 0 /\ Len(data) \in Nat /\ a \in Nat
  BY DEF Positions
<1>2. \E n \in T : \A m \in T : n <= m
  <2>1. T \in SUBSET Nat /\ T # {}
    BY <1>1
  <2> HIDE DEF T
  <2> QED BY <2>1, LeastNumber
<1>3. PICK last \in T : \A m \in T : last <= m
  BY <1>2
<1>4. Min(T) = last /\ last \in Nat /\ last <= Len(data)
  <2>1. T \in SUBSET Nat /\ last <= Len(data)
    BY <1>1, <1>3
  <2> HIDE DEF T
  <2> QED BY <1>3, <2>1, LeastIsMin
<1>5. Cut(data, from, length) = SubSeq(data, from, last)
  BY <1>4 DEF Cut
<1>6. \A i \in from..last : data[i] \in Byte
  <2>1. \A i \in from..last : i \in 1..Len(data)
    BY <1>1, <1>4
  <2> QED BY <2>1, ElementOfSeq
<1>7. CASE from <= last
  BY <1>1, <1>4, <1>5, <1>6, <1>7, SubSeqProperties
<1>8. CASE ~(from <= last)
  BY <1>1, <1>4, <1>5, <1>8, SubSeqEmpty
<1> QED BY <1>7, <1>8

LEMMA CarriesTyped ==
  ASSUME NEW tag \in Nat, NEW value \in Values, NEW next
  PROVE  Carries(tag, value, next).fields \in Seq(RawFields)
<1>1. tag \div 8 \in Nat
  OBVIOUS
<1>2. [num |-> tag \div 8, value |-> value] \in RawFields
  BY <1>1 DEF RawFields
<1> QED BY <1>2 DEF Carries

LEMMA BodyIsTyped ==
  ASSUME NEW data \in Seq(Byte), NEW tag \in Nat, NEW pos \in Positions,
         FieldBody(data, tag, pos).error = "none"
  PROVE  FieldBody(data, tag, pos).fields \in Seq(RawFields)
<1> DEFINE number == DecodeVarint(data, pos)
           body == FieldBody(data, tag, pos)
<1>1. ASSUME number.error = "none"
      PROVE  number.next \in Positions /\ number.value \in Nat
  BY <1>1, VarintAdvances DEF Positions
<1>2. CASE tag % 8 = 0
  <2>1. number.error = "none" /\ body = Carries(tag, [type |-> "int", int |-> number.value], number.next)
    BY <1>2, BodyIs
  <2>2. [type |-> "int", int |-> number.value] \in Values
    BY <1>1, <2>1 DEF Values
  <2> HIDE DEF number, body
  <2> QED BY <2>1, <2>2, CarriesTyped DEF body
<1>3. CASE tag % 8 = 2
  <2> DEFINE value == [type |-> "bytes", bytes |-> Cut(data, number.next, number.value)]
  <2>1. number.error = "none" /\ body = Carries(tag, value, number.next + number.value)
    BY <1>3, BodyIs
  <2>2. Cut(data, number.next, number.value) \in Seq(Byte)
    BY <1>1, <2>1, CutIsTyped
  <2>3. value \in Values
    BY <2>2 DEF Values
  <2> HIDE DEF number, body, value
  <2> QED BY <2>1, <2>3, CarriesTyped DEF body
<1>4. CASE tag % 8 \in {1, 5}
  <2>1. PICK size \in {4, 8} : body = Fixed(data, pos, size, tag)
    BY <1>4, BodyIs
  <2> DEFINE value == [type |-> "float", bytes |-> Cut(data, pos, size)]
  <2>2. body = Carries(tag, value, pos + size)
    <3>1. Fixed(data, pos, size, tag).error = "none"
      BY <2>1
    <3>2. ~(pos + size - 1 > Len(data))
      BY <3>1 DEF Fixed, Failure
    <3> QED BY <2>1, <3>2 DEF Fixed
  <2>3. Cut(data, pos, size) \in Seq(Byte)
    BY CutIsTyped
  <2>4. value \in Values
    BY <2>3 DEF Values
  <2> HIDE DEF body, value
  <2> QED BY <2>2, <2>4, CarriesTyped DEF body
<1>5. CASE tag % 8 \notin {0, 1, 2, 5}
  <2>1. body = Failure("ValueError")
    BY <1>5, BodyIs
  <2> QED BY <2>1 DEF Failure
<1> QED BY <1>2, <1>3, <1>4, <1>5

LEMMA FieldIsTyped ==
  ASSUME NEW data \in Seq(Byte), NEW pos \in Positions, FieldAt(data, pos).error = "none"
  PROVE  FieldAt(data, pos).fields \in Seq(RawFields)
<1> DEFINE tag == DecodeVarint(data, pos)
           field == FieldAt(data, pos)
<1>1. tag.error = "none" /\ field = FieldOf(data, tag)
  BY FieldIs
<1>2. tag.next \in Positions /\ tag.value \in Nat
  BY <1>1, VarintAdvances DEF Positions
<1>3. CASE tag.value % 8 \in {3, 4}
  <2>1. PICK to : field = Past(to)
    BY <1>1, <1>3 DEF FieldOf
  <2>2. Past(to).error = "none"
    BY <2>1
  <2>3. field.fields = <<>>
    BY <2>1, <2>2 DEF Past, Failure
  <2> QED BY <2>3
<1>4. CASE tag.value % 8 \notin {3, 4}
  <2>1. field = FieldBody(data, tag.value, tag.next)
    BY <1>1, <1>4 DEF FieldOf
  <2> QED BY <1>2, <2>1, BodyIsTyped
<1> QED BY <1>3, <1>4

LEMMA DecodeIsTyped ==
  ASSUME NEW data \in Seq(Byte)
  PROVE  Readable(Decode(data)) \in Seq(RawFields)
<1>1. PICK f : Decode(data) = f[1] /\ \A pos \in Positions : f[pos] = ReadTurn(data, f, pos)
  BY DecodeIs
<1> DEFINE Good(pos) == f[pos].error = "none" => f[pos].fields \in Seq(RawFields)
           S == {k \in Nat : \A pos \in Positions : pos + k > Len(data) => Good(pos)}
<1>2. Len(data) \in Nat
  OBVIOUS
<1>3. ASSUME NEW pos \in Positions, pos > Len(data)
      PROVE  Good(pos)
  <2>1. f[pos] = [error |-> "none", fields |-> <<>>]
    BY <1>1, <1>3 DEF ReadTurn
  <2> QED BY <2>1
<1>4. 0 \in S
  <2>1. \A pos \in Positions : pos + 0 > Len(data) => pos > Len(data)
    BY <1>2 DEF Positions
  <2> HIDE DEF Good
  <2> QED BY <1>3, <2>1
<1>5. ASSUME NEW k \in Nat, k \in S PROVE k + 1 \in S
  <2> SUFFICES ASSUME NEW pos \in Positions, pos + (k + 1) > Len(data)
               PROVE  Good(pos)
    OBVIOUS
  <2>1. CASE pos > Len(data)
    BY <1>3, <2>1
  <2>2. CASE ~(pos > Len(data)) /\ FieldAt(data, pos).error # "none"
    <3>1. f[pos] = FieldAt(data, pos)
      BY <1>1, <2>2 DEF ReadTurn
    <3> QED BY <2>2, <3>1
  <2>3. CASE ~(pos > Len(data)) /\ FieldAt(data, pos).error = "none"
    <3> DEFINE field == FieldAt(data, pos)
    <3>1. field.next \in Positions /\ field.next > pos /\ field.fields \in Seq(RawFields)
      BY <2>3, FieldAdvances, FieldIsTyped
    <3>2. f[pos] = Before(field, f[field.next])
      BY <1>1, <2>3 DEF ReadTurn
    <3> HIDE DEF field
    <3>3. field.next + k > Len(data)
      BY <1>2, <3>1 DEF Positions
    <3>4. Good(field.next)
      BY <1>5, <3>1, <3>3
    <3> DEFINE rest == f[field.next]
    <3>5. CASE rest.error # "none"
      <4>1. f[pos] = rest
        BY <3>2, <3>5 DEF Before, Then
      <4> QED BY <3>5, <4>1
    <3>6. CASE rest.error = "none"
      <4>1. f[pos] = [error |-> "none", fields |-> field.fields \o rest.fields]
        BY <3>2, <3>6 DEF Before, Then
      <4>2. rest.fields \in Seq(RawFields)
        BY <3>4, <3>6
      <4> HIDE DEF rest
      <4>3. field.fields \o rest.fields \in Seq(RawFields)
        BY <3>1, <4>2, ConcatProperties
      <4> QED BY <4>1, <4>3
    <3> QED BY <3>5, <3>6
  <2> QED BY <2>1, <2>2, <2>3
<1>6. \A k \in Nat : k \in S
  <2> HIDE DEF S
  <2> QED BY <1>4, <1>5, Induction
<1>7. 1 \in Positions /\ 1 + Len(data) > Len(data)
  BY <1>2 DEF Positions
<1>8. Good(1)
  BY <1>2, <1>6, <1>7
<1>9. Decode(data).error = "none" => Decode(data).fields \in Seq(RawFields)
  BY <1>1, <1>8
<1> QED BY <1>9 DEF Readable

LEMMA ItemsAreTyped ==
  ASSUME NEW data \in Seq(Byte)
  PROVE  Items(data) \in Seq(RawFields)
  BY DecodeIsTyped, GatheredAre DEF Items

-----------------------------------------------------------------------------
(* The entries of bytes that may be messages, level by level.              *)

Inside(f, k, value) == IF value.type = "bytes" THEN f[<<k - 1, value.bytes>>] ELSE Single(value)

Beneath(f, k, fields) ==
  [i \in DOMAIN fields |-> Below(<<fields[i].num>>, Inside(f, k, fields[i].value))]

\* The entries of the items, put together as they come.
LEMMA EntriesAreBeneath ==
  ASSUME NEW f, NEW k, NEW items \in Seq(RawFields)
  PROVE  EntriesOfAll(items, LAMBDA item : Below(<<item.num>>, Inside(f, k, item.value)))
           = Concat(Beneath(f, k, items))
<1> DEFINE N == Len(items)
           parts == Beneath(f, k, items)
           one(n) == Below(<<items[n].num>>, Inside(f, k, items[n].value))
           turn(g, n) == IF n = 0 THEN <<>> ELSE g[n - 1] \o one(n)
           all[n \in 0..N] == IF n = 0 THEN <<>> ELSE all[n - 1] \o one(n)
           upTo[n \in 0..Len(parts)] == IF n = 0 THEN <<>> ELSE upTo[n - 1] \o parts[n]
<1>1. EntriesOfAll(items, LAMBDA item : Below(<<item.num>>, Inside(f, k, item.value))) = all[N]
  BY DEF EntriesOfAll
<1>2. Concat(parts) = upTo[Len(parts)]
  <2> HIDE DEF parts
  <2> QED BY DEF Concat
<1>3. Len(parts) = N /\ \A n \in 1..N : parts[n] = one(n)
  BY DEF Beneath
<1>4. all = CHOOSE g : g = [n \in 0..N |-> turn(g, n)]
  OBVIOUS
<1>5. upTo = CHOOSE g : IsJoined(parts, g)
  BY DEF IsJoined, Joined
<1>6. \A g : (g = [n \in 0..N |-> turn(g, n)]) <=> IsJoined(parts, g)
  <2> TAKE g
  <2> HIDE DEF one, parts
  <2>1. \A n \in 0..N : turn(g, n) = Joined(parts, g, n)
    <3> TAKE n \in 0..N
    <3>1. n = 0 \/ n \in 1..N
      OBVIOUS
    <3> QED BY <1>3, <3>1 DEF Joined
  <2> HIDE DEF turn, N
  <2> QED BY <1>3, <2>1 DEF IsJoined
<1> HIDE DEF all, upTo, turn, parts, N
<1>7. all = upTo
  BY <1>4, <1>5, <1>6
<1> QED BY <1>1, <1>2, <1>3, <1>7 DEF parts

LevelTurn(f, k, data) ==
  IF k = 0 \/ ~ReadsAsMessage(data) THEN Single(Length(data))
  ELSE IF IsTimestamp(Items(data))
  THEN Single([type |-> "timestamp"])
  ELSE EntriesOfAll(Items(data), LAMBDA item : Below(<<item.num>>, Inside(f, k, item.value)))

IsLevels(f, n) == f = [m \in (0..n) \X Seq(Byte) |-> LevelTurn(f, m[1], m[2])]

\* A turn looks only at the level below.
LEMMA TurnLooksBelow ==
  ASSUME NEW f, NEW g, NEW k \in Nat, NEW data \in Seq(Byte),
         k > 0 => \A bytes \in Seq(Byte) : f[<<k - 1, bytes>>] = g[<<k - 1, bytes>>]
  PROVE  LevelTurn(f, k, data) = LevelTurn(g, k, data)
<1>1. CASE k = 0
  BY <1>1 DEF LevelTurn
<1>2. CASE k # 0
  <2> DEFINE fields == Items(data)
  <2>1. fields \in Seq(RawFields)
    BY ItemsAreTyped
  <2> HIDE DEF fields
  <2>2. \A i \in DOMAIN fields : Inside(f, k, fields[i].value) = Inside(g, k, fields[i].value)
    <3> TAKE i \in DOMAIN fields
    <3>1. fields[i] \in RawFields
      BY <2>1, ElementOfSeq
    <3>2. fields[i].value.type = "bytes" => fields[i].value.bytes \in Seq(Byte)
      BY <3>1 DEF RawFields, Values
    <3> QED BY <1>2, <3>2 DEF Inside
  <2>3. Beneath(f, k, fields) = Beneath(g, k, fields)
    BY <2>2 DEF Beneath
  <2> DEFINE joint(h) == EntriesOfAll(fields, LAMBDA item : Below(<<item.num>>, Inside(h, k, item.value)))
  <2>4. joint(f) = Concat(Beneath(f, k, fields)) /\ joint(g) = Concat(Beneath(g, k, fields))
    BY <2>1, EntriesAreBeneath
  <2>5. joint(f) = joint(g)
    BY <2>3, <2>4
  <2> QED BY <2>5 DEF LevelTurn, fields
<1> QED BY <1>1, <1>2

LEMMA LevelsExist ==
  \A n \in Nat : \E f : IsLevels(f, n)
<1> DEFINE S == {n \in Nat : \E f : IsLevels(f, n)}
<1>1. 0 \in S
  <2> DEFINE f == [m \in (0..0) \X Seq(Byte) |-> Single(Length(m[2]))]
  <2>1. \A m \in (0..0) \X Seq(Byte) : LevelTurn(f, m[1], m[2]) = Single(Length(m[2]))
    BY DEF LevelTurn
  <2>2. IsLevels(f, 0)
    BY <2>1 DEF IsLevels
  <2> QED BY <2>2
<1>2. ASSUME NEW n \in Nat, n \in S PROVE n + 1 \in S
  <2>1. PICK f : IsLevels(f, n)
    BY <1>2
  <2> DEFINE old == (0..n) \X Seq(Byte)
             new == (0..(n + 1)) \X Seq(Byte)
             g == [m \in new |-> IF m \in old THEN f[m] ELSE LevelTurn(f, m[1], m[2])]
  <2>2. \A m \in old : m \in new
    OBVIOUS
  <2>3. \A m \in old : g[m] = f[m] /\ f[m] = LevelTurn(f, m[1], m[2])
    BY <2>1, <2>2 DEF IsLevels
  <2>4. ASSUME NEW m \in new
        PROVE  g[m] = LevelTurn(g, m[1], m[2])
    <3>1. g[m] = LevelTurn(f, m[1], m[2])
      BY <2>3
    <3>2. m[1] \in Nat /\ m[1] <= n + 1 /\ m[2] \in Seq(Byte)
      OBVIOUS
    <3> DEFINE k == m[1]
    <3>3. ASSUME k > 0, NEW bytes \in Seq(Byte)
          PROVE  f[<<k - 1, bytes>>] = g[<<k - 1, bytes>>]
      <4>1. <<k - 1, bytes>> \in old
        BY <3>2, <3>3
      <4> QED BY <2>3, <4>1
    <3> HIDE DEF g
    <3>4. LevelTurn(f, k, m[2]) = LevelTurn(g, k, m[2])
      BY <3>2, <3>3, TurnLooksBelow
    <3> QED BY <3>1, <3>4
  <2>5. IsLevels(g, n + 1)
    <3> DEFINE h == [m \in new |-> LevelTurn(g, m[1], m[2])]
    <3>1. g = h
      BY <2>4
    <3> HIDE DEF g
    <3> QED BY <3>1 DEF IsLevels
  <2> QED BY <2>5
<1> HIDE DEF S
<1>3. \A n \in Nat : n \in S
  BY <1>1, <1>2, Induction
<1> QED BY <1>3 DEF S

Levels == CHOOSE f : IsLevels(f, MaxDepth)

LEMMA LevelsAre ==
  /\ \A data \in Seq(Byte) : EntriesOf(data) = Levels[<<MaxDepth, data>>]
  /\ \A k \in 0..MaxDepth, data \in Seq(Byte) : Levels[<<k, data>>] = LevelTurn(Levels, k, data)
<1>1. IsLevels(Levels, MaxDepth)
  BY LevelsExist DEF Levels, MaxDepth
<1>2. ASSUME NEW data \in Seq(Byte)
      PROVE  EntriesOf(data) = Levels[<<MaxDepth, data>>]
  <2> DEFINE of[m \in (0..MaxDepth) \X Seq(Byte)] ==
               LET fields == Items(m[2])
                   entries(value) == IF value.type = "bytes" THEN of[<<m[1] - 1, value.bytes>>]
                                     ELSE Single(value)
               IN  IF m[1] = 0 \/ ~ReadsAsMessage(m[2])
                   THEN Single(Length(m[2]))
                   ELSE IF IsTimestamp(fields)
                   THEN Single([type |-> "timestamp"])
                   ELSE EntriesOfAll(fields, LAMBDA item : Below(<<item.num>>, entries(item.value)))
  <2>1. EntriesOf(data) = of[<<MaxDepth, data>>]
    BY DEF EntriesOf
  <2>2. of = CHOOSE f : IsLevels(f, MaxDepth)
    BY DEF IsLevels, LevelTurn, Inside, EntriesOfAll
  <2> HIDE DEF of
  <2> QED BY <2>1, <2>2 DEF Levels
<1>3. ASSUME NEW k \in 0..MaxDepth, NEW data \in Seq(Byte)
      PROVE  Levels[<<k, data>>] = LevelTurn(Levels, k, data)
  <2> DEFINE m == <<k, data>>
  <2>1. m \in (0..MaxDepth) \X Seq(Byte) /\ m[1] = k /\ m[2] = data
    OBVIOUS
  <2> HIDE DEF m
  <2>2. Levels[m] = LevelTurn(Levels, m[1], m[2])
    BY <1>1, <2>1 DEF IsLevels
  <2> QED BY <2>1, <2>2 DEF m
<1> QED BY <1>2, <1>3

-----------------------------------------------------------------------------
(* Well-formed bytes.                                                      *)

WellTurn(data, f, pos) ==
  IF pos = 0 \/ pos > Len(data) THEN pos = Len(data) + 1
  ELSE /\ WellFormedTag(DecodeVarint(data, pos))
       /\ f[Step(data, DecodeVarint(data, pos).next, DecodeVarint(data, pos).value % 8)]

IsWell(data, f) == f = [pos \in Nat |-> WellTurn(data, f, pos)]

\* Whether the bytes are well formed from a position on depends on what lies ahead.
LEMMA WellTurnLooksAhead ==
  ASSUME NEW data \in Seq(Byte), NEW pos \in Nat, NEW f, NEW g,
         \A p \in Nat : (p > pos \/ p = 0) => f[p] = g[p]
  PROVE  WellTurn(data, f, pos) = WellTurn(data, g, pos)
<1> DEFINE tag == DecodeVarint(data, pos)
           next == Step(data, tag.next, tag.value % 8)
<1>1. CASE pos = 0 \/ pos > Len(data) \/ ~WellFormedTag(tag)
  BY <1>1 DEF WellTurn
<1>2. CASE ~(pos = 0 \/ pos > Len(data) \/ ~WellFormedTag(tag))
  <2>1. tag.error = "none" /\ pos \in Positions
    BY <1>2 DEF WellFormedTag, Positions
  <2>2. tag.next \in Positions /\ tag.next > pos
    BY <2>1, VarintAdvances DEF Positions
  <2>3. Onward(tag.next, next)
    BY <2>2, StepAdvances
  <2>4. next \in Nat /\ (next > pos \/ next = 0)
    <3> HIDE DEF tag, next
    <3> QED BY <2>2, <2>3 DEF Onward, Positions
  <2>5. f[next] = g[next]
    BY <2>4
  <2> HIDE DEF next
  <2>6. /\ WellTurn(data, f, pos) = (WellFormedTag(tag) /\ f[next])
        /\ WellTurn(data, g, pos) = (WellFormedTag(tag) /\ g[next])
    BY <1>2 DEF WellTurn, next
  <2> QED BY <2>5, <2>6
<1> QED BY <1>1, <1>2

LEMMA WellExists ==
  ASSUME NEW data \in Seq(Byte)
  PROVE  \E f : IsWell(data, f)
<1> DEFINE From(k) == {pos \in Nat : pos = 0 \/ pos + k > Len(data)}
           Solves(f, k) == f = [pos \in From(k) |-> WellTurn(data, f, pos)]
           S == {k \in Nat : \E f : Solves(f, k)}
<1>0. Len(data) \in Nat
  OBVIOUS
<1>1. 0 \in S
  <2> DEFINE f == [pos \in From(0) |-> pos = Len(data) + 1]
  <2>1. \A pos \in From(0) : WellTurn(data, f, pos) = (pos = Len(data) + 1)
    <3> TAKE pos \in From(0)
    <3>1. pos = 0 \/ pos > Len(data)
      BY <1>0
    <3> HIDE DEF f
    <3> QED BY <3>1 DEF WellTurn
  <2>2. Solves(f, 0)
    BY <2>1
  <2> QED BY <2>2
<1>2. ASSUME NEW k \in Nat, k \in S PROVE k + 1 \in S
  <2>1. PICK f : Solves(f, k)
    BY <1>2
  <2> DEFINE g == [pos \in From(k + 1) |-> IF pos \in From(k) THEN f[pos] ELSE WellTurn(data, f, pos)]
  <2>2. \A pos \in From(k) : pos \in From(k + 1)
    BY <1>0
  <2>3. \A pos \in From(k) : g[pos] = f[pos] /\ f[pos] = WellTurn(data, f, pos)
    BY <2>1, <2>2
  <2>4. ASSUME NEW pos \in From(k + 1)
        PROVE  g[pos] = WellTurn(data, g, pos)
    <3>1. g[pos] = WellTurn(data, f, pos)
      BY <2>3
    <3>2. CASE pos # 0
      <4>1. \A p \in Nat : (p > pos \/ p = 0) => p \in From(k)
        BY <1>0, <3>2
      <4>2. \A p \in Nat : (p > pos \/ p = 0) => f[p] = g[p]
        BY <2>3, <4>1
      <4> HIDE DEF g
      <4>3. WellTurn(data, f, pos) = WellTurn(data, g, pos)
        BY <4>2, WellTurnLooksAhead
      <4> QED BY <3>1, <4>3
    <3>3. CASE pos = 0
      <4> HIDE DEF g
      <4> QED BY <3>1, <3>3 DEF WellTurn
    <3> QED BY <3>2, <3>3
  <2>5. Solves(g, k + 1)
    <3> DEFINE h == [pos \in From(k + 1) |-> WellTurn(data, g, pos)]
    <3>1. g = h
      BY <2>4
    <3> HIDE DEF g
    <3> QED BY <3>1
  <2> HIDE DEF g, Solves
  <2>6. k + 1 \in Nat /\ \E h : Solves(h, k + 1)
    BY <2>5
  <2> QED BY <2>6
<1>3. \A k \in Nat : k \in S
  <2> HIDE DEF S
  <2> QED BY <1>1, <1>2, Induction
<1>4. PICK f : Solves(f, Len(data) + 1)
  <2>1. Len(data) + 1 \in S
    <3>1. Len(data) + 1 \in Nat
      BY <1>0
    <3> HIDE DEF S
    <3> QED BY <1>3, <3>1
  <2> HIDE DEF Solves
  <2> QED BY <2>1
<1>5. From(Len(data) + 1) = Nat
  BY <1>0
<1> QED BY <1>4, <1>5 DEF IsWell

LEMMA WellFormedIs ==
  ASSUME NEW data \in Seq(Byte)
  PROVE  \E f : /\ WellFormed(data) = f[1]
                /\ \A pos \in Nat : f[pos] = WellTurn(data, f, pos)
<1> DEFINE from[pos \in Nat] ==
             LET tag == DecodeVarint(data, pos)
             IN  IF pos = 0 \/ pos > Len(data)
                 THEN pos = Len(data) + 1
                 ELSE WellFormedTag(tag) /\ from[Step(data, tag.next, tag.value % 8)]
<1>1. WellFormed(data) = from[1]
  BY DEF WellFormed
<1>2. from = CHOOSE f : IsWell(data, f)
  BY DEF IsWell, WellTurn
<1> HIDE DEF from
<1>3. IsWell(data, from)
  BY <1>2, WellExists
<1> QED BY <1>1, <1>3 DEF IsWell

\* The field starts with a tag that a well-formed message may have.
StartsWell(piece) == WellFormedTag(DecodeVarint(piece, 1))

\* Whether the rest of a message is well formed, whatever comes before it.
RestIsWell(rest, ok) ==
  \A before \in Seq(Byte) : \A f :
    (\A pos \in Nat : f[pos] = WellTurn(before \o rest, f, pos)) => f[Len(before) + 1] = ok

LEMMA NothingIsWell == RestIsWell(<<>>, TRUE)
<1> SUFFICES ASSUME NEW before \in Seq(Byte), NEW f,
                    \A pos \in Nat : f[pos] = WellTurn(before \o <<>>, f, pos)
             PROVE  f[Len(before) + 1] = TRUE
  BY DEF RestIsWell
<1> DEFINE pos == Len(before) + 1
<1>1. before \o <<>> = before
  BY ConcatEmptySeq
<1>2. pos \in Nat /\ pos > Len(before)
  OBVIOUS
<1>3. f[pos] = WellTurn(before, f, pos)
  <2> HIDE DEF pos
  <2> QED BY <1>1, <1>2
<1>4. WellTurn(before, f, pos) = (pos = Len(before) + 1)
  <2> HIDE DEF pos
  <2> QED BY <1>2 DEF WellTurn
<1> QED BY <1>3, <1>4

\* A tag is judged by its number and wire type, wherever it stands.
LEMMA TagIsJudged ==
  ASSUME NEW n \in Nat, NEW wire \in 0..7, NEW tag \in Tags(n, wire), NEW after \in Seq(Byte)
  PROVE  /\ \A data \in Seq(Byte), pos \in Positions :
              At(data, pos, tag) =>
                (WellFormedTag(DecodeVarint(data, pos)) <=> (n # 0 /\ wire \in {0, 1, 2, 5}))
         /\ StartsWell(tag \o after) <=> (n # 0 /\ wire \in {0, 1, 2, 5})
<1>1. ASSUME NEW data \in Seq(Byte), NEW pos \in Positions, At(data, pos, tag)
      PROVE  WellFormedTag(DecodeVarint(data, pos)) <=> (n # 0 /\ wire \in {0, 1, 2, 5})
  <2>1. TagRead(data, pos, tag, n, wire)
    BY <1>1, TagAt
  <2> QED BY <2>1 DEF TagRead, WellFormedTag
<1>2. tag \in Seq(Byte)
  BY TagIsSeq
<1> DEFINE data == tag \o after
<1>3. data \in Seq(Byte) /\ 1 \in Positions
  BY <1>2, ConcatProperties DEF Positions
<1>4. At(data, 1, tag)
  <2>1. <<>> \in Seq(Byte) /\ Len(<<>>) + 1 = 1 /\ <<>> \o data = data
    BY <1>3, ConcatEmptySeq
  <2>2. At(<<>> \o (tag \o after), Len(<<>>) + 1, tag)
    BY <1>2, <2>1, AtWhole
  <2> HIDE DEF data
  <2> QED BY <2>1, <2>2 DEF data
<1> HIDE DEF data
<1>5. StartsWell(data) <=> (n # 0 /\ wire \in {0, 1, 2, 5})
  BY <1>1, <1>3, <1>4 DEF StartsWell
<1> QED BY <1>1, <1>5 DEF data

\* A field starts with its tag, and what is no group ends where its payload does.
LEMMA FieldHasTag ==
  ASSUME NEW piece \in Fields
  PROVE  \E n \in Nat, wire \in 0..7 : \E tag \in Tags(n, wire), after \in Seq(Byte) :
           /\ piece = tag \o after
           /\ wire \in {0, 1, 2, 5} => after \in Payloads(wire)
<1>1. PICK n \in Nat : piece \in SimpleFields(n) \/ piece \in Groups(n)
  BY DEF Fields
<1>2. CASE piece \in SimpleFields(n)
  <2>1. PICK wire \in {0, 1, 2, 5} :
               \E tag \in Tags(n, wire), payload \in Payloads(wire) : piece = tag \o payload
    BY <1>2 DEF SimpleFields
  <2>2. PICK tag \in Tags(n, wire), payload \in Payloads(wire) : piece = tag \o payload
    BY <2>1
  <2>3. payload \in Seq(Byte) /\ wire \in 0..7
    BY DEF Payloads
  <2> QED BY <2>2, <2>3
<1>3. CASE piece \in Groups(n)
  <2>1. PICK start \in Tags(n, 3), inside \in Contents, end \in Tags(n, 4) :
               piece = start \o (inside \o end)
    BY <1>3 DEF Groups
  <2>2. inside \o end \in Seq(Byte)
    <3>1. inside \in Seq(Byte) /\ end \in Seq(Byte)
      BY TagIsSeq DEF Contents
    <3> QED BY <3>1, ConcatProperties
  <2>3. 3 \in 0..7 /\ 3 \notin {0, 1, 2, 5}
    OBVIOUS
  <2> QED BY <2>1, <2>2, <2>3
<1> QED BY <1>1, <1>2, <1>3

LEMMA PieceIsWell ==
  ASSUME NEW piece \in Fields, NEW rest \in Seq(Byte), NEW ok \in BOOLEAN, RestIsWell(rest, ok)
  PROVE  RestIsWell(piece \o rest, StartsWell(piece) /\ ok)
<1> SUFFICES ASSUME NEW before \in Seq(Byte), NEW f,
                    \A pos \in Nat : f[pos] = WellTurn(before \o (piece \o rest), f, pos)
             PROVE  f[Len(before) + 1] = (StartsWell(piece) /\ ok)
  BY DEF RestIsWell
<1>0. PICK n \in Nat, wire \in 0..7 :
             \E tag \in Tags(n, wire), after \in Seq(Byte) :
               /\ piece = tag \o after
               /\ wire \in {0, 1, 2, 5} => after \in Payloads(wire)
  BY FieldHasTag
<1>1. PICK tag \in Tags(n, wire), after \in Seq(Byte) :
             /\ piece = tag \o after
             /\ wire \in {0, 1, 2, 5} => after \in Payloads(wire)
  BY <1>0
<1>2. tag \in Seq(Byte) /\ Len(tag) \in Nat \ {0} /\ piece \in Seq(Byte)
  <2>1. tag \in Seq(Byte) /\ Len(tag) \in Nat \ {0}
    BY TagIsSeq
  <2> QED BY <1>1, <2>1, ConcatProperties
<1>a. before \o (piece \o rest) = (before \o piece) \o rest
  <2>1. piece \in Seq(Byte)
    BY <1>2
  <2> QED BY <2>1, ConcatAssociative
<1> DEFINE pos == Len(before) + 1
           past == before \o piece
           all == piece \o rest
           data == before \o all
<1>3. past \in Seq(Byte) /\ all \in Seq(Byte) /\ data \in Seq(Byte)
  <2>1. past \in Seq(Byte) /\ all \in Seq(Byte)
    BY <1>2, ConcatProperties
  <2> HIDE DEF all
  <2> QED BY <2>1, ConcatProperties
<1>4. data = past \o rest /\ \A p \in Nat : f[p] = WellTurn(data, f, p)
  <2> QED BY <1>a
<1>5. At(data, pos, piece) /\ Len(past) = Len(before) + Len(piece)
  BY <1>2, AtWhole, ConcatProperties
<1>6. Len(piece) = Len(tag) + Len(after) /\ pos \in Positions /\ pos \in Nat /\ pos # 0
  BY <1>1, <1>2, ConcatProperties DEF Positions
<1> HIDE DEF data
<1>7. f[Len(past) + 1] = ok
  <2> HIDE DEF past
  <2>1. \A p \in Nat : f[p] = WellTurn(past \o rest, f, p)
    BY <1>4
  <2> QED BY <1>3, <2>1 DEF RestIsWell
<1>8. Len(past) + 1 = (pos + Len(tag)) + Len(after)
  BY <1>2, <1>5, <1>6
<1> HIDE DEF past, all, pos
<1>9. At(data, pos, tag) /\ At(data, pos + Len(tag), after) /\ pos + Len(tag) \in Positions
  BY <1>1, <1>2, <1>3, <1>5, <1>6, AtConcat
<1>10. TagRead(data, pos, tag, n, wire)
  BY <1>3, <1>6, <1>9, TagAt
<1> DEFINE read == DecodeVarint(data, pos)
<1>11. f[pos] = (WellFormedTag(read) /\ f[Step(data, pos + Len(tag), wire)])
  <2>1. ~(pos = 0 \/ pos > Len(data))
    BY <1>3, <1>6, <1>10 DEF TagRead
  <2>2. f[pos] = WellTurn(data, f, pos)
    BY <1>4, <1>6
  <2>3. read.next = pos + Len(tag) /\ read.value % 8 = wire
    BY <1>10 DEF TagRead
  <2> HIDE DEF read
  <2> QED BY <2>1, <2>2, <2>3 DEF WellTurn, read
<1>12. WellFormedTag(read) <=> StartsWell(piece)
  BY <1>1, <1>3, <1>6, <1>9, TagIsJudged
<1>13. CASE wire \in {0, 1, 2, 5}
  <2>1. Step(data, pos + Len(tag), wire) = (pos + Len(tag)) + Len(after)
    BY <1>1, <1>3, <1>9, <1>13, PayloadAt
  <2>2. f[Step(data, pos + Len(tag), wire)] = ok
    BY <1>7, <1>8, <2>1
  <2> QED BY <1>11, <1>12, <2>2 DEF pos
<1>14. CASE wire \notin {0, 1, 2, 5}
  <2>1. ~StartsWell(piece)
    BY <1>1, <1>14, TagIsJudged
  <2> QED BY <1>11, <1>12, <2>1 DEF pos
<1> QED BY <1>13, <1>14

\* A message is well formed if every field starts as it may.
LEMMA PartsAreWell ==
  ASSUME NEW parts \in Seq(Fields)
  PROVE  WellFormed(Concat(parts)) = (\A i \in 1..Len(parts) : StartsWell(parts[i]))
<1> DEFINE Good(ps, k) == \A i \in 1..k : StartsWell(ps[i])
           AreWell(k) == \A ps \in Seq(Fields) : Len(ps) = k => RestIsWell(Concat(ps), Good(ps, k))
           S == {k \in Nat : AreWell(k)}
<1>0. \A piece \in Fields : piece \in Seq(Byte)
  BY PieceIsRead
<1>1. \A ps \in Seq(Fields) : ps \in Seq(Seq(Byte))
  <2> TAKE ps \in Seq(Fields)
  <2>1. \A i \in 1..Len(ps) : ps[i] \in Seq(Byte)
    BY <1>0, ElementOfSeq
  <2>2. ps \in [1..Len(ps) -> Seq(Byte)] /\ Len(ps) \in Nat
    BY <2>1
  <2> QED BY <2>2
<1>2. 0 \in S
  <2> SUFFICES ASSUME NEW ps \in Seq(Fields), Len(ps) = 0
               PROVE  RestIsWell(Concat(ps), Good(ps, 0))
    OBVIOUS
  <2>1. ps = <<>>
    BY EmptySeq
  <2>2. Good(ps, 0) = TRUE
    OBVIOUS
  <2> QED BY <2>1, <2>2, ConcatOfNone, NothingIsWell
<1>3. ASSUME NEW k \in Nat, k \in S PROVE k + 1 \in S
  <2>1. AreWell(k)
    BY <1>3
  <2> HIDE DEF Good
  <2> SUFFICES ASSUME NEW ps \in Seq(Fields), Len(ps) = k + 1
               PROVE  RestIsWell(Concat(ps), Good(ps, k + 1))
    OBVIOUS
  <2> DEFINE rest == Tail(ps)
             ok == Good(rest, k)
  <2>2. /\ ps[1] \in Fields /\ rest \in Seq(Fields) /\ Len(rest) = k
        /\ \A i \in 1..k : rest[i] = ps[i + 1]
    BY FirstAndRest
  <2>3. /\ Concat(ps) = ps[1] \o Concat(rest) /\ Concat(rest) \in Seq(Byte)
    <3>1. ps \in Seq(Seq(Byte))
      BY <1>1
    <3> QED BY <3>1, ConcatFirst
  <2> HIDE DEF rest
  <2>4. RestIsWell(Concat(rest), ok)
    BY <2>1, <2>2
  <2>5. Good(ps, k + 1) = (StartsWell(ps[1]) /\ ok)
    <3>1. \A i \in 1..k : i + 1 \in 1..(k + 1)
      OBVIOUS
    <3>2. \A i \in 1..(k + 1) : i = 1 \/ i - 1 \in 1..k
      OBVIOUS
    <3>3. \A i \in 1..(k + 1) : i # 1 => ps[i] = rest[i - 1]
      BY <2>2, <3>2
    <3>4. 1 \in 1..(k + 1)
      OBVIOUS
    <3> QED BY <2>2, <3>1, <3>2, <3>3, <3>4 DEF Good
  <2>6. RestIsWell(ps[1] \o Concat(rest), StartsWell(ps[1]) /\ ok)
    <3>1. ok \in BOOLEAN
      BY DEF Good
    <3> HIDE DEF ok
    <3> QED BY <2>2, <2>3, <2>4, <3>1, PieceIsWell
  <2> HIDE DEF ok, Good
  <2> QED BY <2>3, <2>5, <2>6
<1>4. \A k \in Nat : k \in S
  <2> HIDE DEF S
  <2> QED BY <1>2, <1>3, Induction
<1> DEFINE data == Concat(parts)
<1>5. RestIsWell(data, Good(parts, Len(parts)))
  <2>1. Len(parts) \in Nat
    OBVIOUS
  <2>2. AreWell(Len(parts))
    BY <1>4, <2>1
  <2> HIDE DEF Good
  <2> QED BY <2>2
<1>6. data \in Seq(Byte)
  BY <1>1, ConcatOfConcat
<1> HIDE DEF data
<1>7. <<>> \o data = data /\ <<>> \in Seq(Byte) /\ Len(<<>>) + 1 = 1
  BY <1>6, ConcatEmptySeq
<1>8. PICK f : WellFormed(data) = f[1] /\ \A pos \in Nat : f[pos] = WellTurn(data, f, pos)
  BY <1>6, WellFormedIs
<1>9. f[Len(<<>>) + 1] = Good(parts, Len(parts))
  <2>1. \A pos \in Nat : f[pos] = WellTurn(<<>> \o data, f, pos)
    BY <1>7, <1>8
  <2> HIDE DEF Good
  <2> QED BY <1>5, <1>7, <2>1 DEF RestIsWell
<1> QED BY <1>7, <1>8, <1>9 DEF data

-----------------------------------------------------------------------------
(* Messages that differ in nothing but their text.                         *)

\* Fields that are the same, or carry bytes that correspond.
TwinFields(T) ==
  {pair \in Fields \X Fields :
     \/ pair[1] = pair[2]
     \/ \E num \in Nat : \E tag \in Tags(num, 2), length \in Varints, bytes \in T :
          /\ VarintValue(length) = Len(bytes[1])
          /\ pair = <<tag \o (length \o bytes[1]), tag \o (length \o bytes[2])>>}

\* Texts of the same length correspond, and so do messages whose fields do.
ClosedTwins(T) ==
  /\ \A x, y \in Seq(Byte) : IsText(x) /\ IsText(y) /\ Len(x) = Len(y) => <<x, y>> \in T
  /\ \A p, q \in Seq(Fields) : Paired(TwinFields(T), p, q) => <<Concat(p), Concat(q)>> \in T

Twins ==
  {pair \in Seq(Byte) \X Seq(Byte) :
     \A T \in SUBSET (Seq(Byte) \X Seq(Byte)) : ClosedTwins(T) => pair \in T}

\* Bytes that are the same or both printable.
SamePrint ==
  {pair \in Byte \X Byte : pair[1] = pair[2] \/ (pair[1] \in 32..126 /\ pair[2] \in 32..126)}

\* Bytes that leave the same entries, however deep they are looked into.
Indistinct ==
  {pair \in Seq(Byte) \X Seq(Byte) :
     /\ Paired(SamePrint, pair[1], pair[2])
     /\ \A k \in 0..MaxDepth : Levels[<<k, pair[1]>>] = Levels[<<k, pair[2]>>]}

SameValues ==
  {pair \in Values \X Values :
     \/ pair[1] = pair[2]
     \/ /\ pair[1].type = "bytes" /\ pair[2].type = "bytes"
        /\ <<pair[1].bytes, pair[2].bytes>> \in Indistinct}

LEMMA PairedWithItself ==
  ASSUME NEW X, NEW R, NEW s \in Seq(X), \A x \in X : <<x, x>> \in R
  PROVE  Paired(R, s, s)
<1>1. \A i \in 1..Len(s) : s[i] \in X
  BY ElementOfSeq
<1> QED BY <1>1 DEF Paired

LEMMA PrintedAlike ==
  ASSUME NEW x \in Seq(Byte), NEW y \in Seq(Byte), Paired(SamePrint, x, y)
  PROVE  Len(x) = Len(y) /\ (IsText(x) <=> IsText(y)) /\ (x = <<>> <=> y = <<>>)
<1>1. Len(x) = Len(y) /\ \A i \in 1..Len(x) : <<x[i], y[i]>> \in SamePrint
  BY DEF Paired
<1>2. DOMAIN x = 1..Len(x) /\ DOMAIN y = 1..Len(x)
  BY <1>1
<1>3. \A i \in 1..Len(x) : x[i] \in 32..126 <=> y[i] \in 32..126
  BY <1>1 DEF SamePrint
<1>4. IsText(x) <=> IsText(y)
  BY <1>2, <1>3 DEF IsText
<1>5. x = <<>> <=> y = <<>>
  <2>1. x = <<>> <=> Len(x) = 0
    BY EmptySeq
  <2>2. y = <<>> <=> Len(y) = 0
    BY EmptySeq
  <2> QED BY <1>1, <2>1, <2>2
<1> QED BY <1>1, <1>4, <1>5

\* What the reader makes of fields that correspond.
ReadAlike(a, b) ==
  /\ a \in Seq(Byte) /\ b \in Seq(Byte) /\ Paired(SamePrint, a, b)
  /\ StartsWell(a) <=> StartsWell(b)
  /\ \E f, g \in Seq(RawFields) :
       ReadAs(a, f) /\ ReadAs(b, g) /\ Paired(FieldPairs(SameValues), f, g)

LEMMA BytesPrintedAlike ==
  \A b \in Byte : <<b, b>> \in SamePrint
BY DEF SamePrint

LEMMA SameFieldIsReadAlike ==
  ASSUME NEW a \in Fields
  PROVE  ReadAlike(a, a)
<1>1. PICK f : PieceFields(a, f)
  BY PieceIsRead
<1>2. a \in Seq(Byte) /\ f \in Seq(RawFields) /\ ReadAs(a, f)
  BY <1>1, PieceIsRead DEF PieceFields
<1>3. \A field \in RawFields : <<field, field>> \in FieldPairs(SameValues)
  BY DEF FieldPairs, SameValues, RawFields
<1>4. Paired(FieldPairs(SameValues), f, f)
  BY <1>2, <1>3, PairedWithItself
<1>5. Paired(SamePrint, a, a)
  BY <1>2, BytesPrintedAlike, PairedWithItself
<1> QED BY <1>2, <1>4, <1>5 DEF ReadAlike

LEMMA TwinFieldsAreReadAlike ==
  ASSUME NEW pair \in TwinFields(Indistinct)
  PROVE  ReadAlike(pair[1], pair[2])
<1>1. pair \in Fields \X Fields
  BY DEF TwinFields
<1>2. CASE pair[1] = pair[2]
  BY <1>1, <1>2, SameFieldIsReadAlike
<1>3. CASE pair[1] # pair[2]
  <2>1. PICK num \in Nat :
               \E tag \in Tags(num, 2), length \in Varints, bytes \in Indistinct :
                 /\ VarintValue(length) = Len(bytes[1])
                 /\ pair = <<tag \o (length \o bytes[1]), tag \o (length \o bytes[2])>>
    BY <1>3 DEF TwinFields
  <2>2. PICK tag \in Tags(num, 2), length \in Varints, bytes \in Indistinct :
               /\ VarintValue(length) = Len(bytes[1])
               /\ pair = <<tag \o (length \o bytes[1]), tag \o (length \o bytes[2])>>
    BY <2>1
  <2> DEFINE x == bytes[1]
             y == bytes[2]
             c == length \o x
             d == length \o y
             v == [type |-> "bytes", bytes |-> x]
             w == [type |-> "bytes", bytes |-> y]
             field(value) == <<[num |-> num, value |-> value]>>
  <2>3. x \in Seq(Byte) /\ y \in Seq(Byte) /\ Paired(SamePrint, x, y) /\ <<x, y>> \in Indistinct
    <3>1. bytes \in Seq(Byte) \X Seq(Byte) /\ Paired(SamePrint, bytes[1], bytes[2])
      BY DEF Indistinct
    <3>2. bytes = <<bytes[1], bytes[2]>>
      BY <3>1
    <3> QED BY <3>1, <3>2
  <2>4. pair[1] = tag \o c /\ pair[2] = tag \o d /\ VarintValue(length) = Len(x)
    BY <2>2
  <2> HIDE DEF x, y
  <2>5. Len(x) = Len(y)
    BY <2>3, PrintedAlike
  <2>6. tag \in Seq(Byte) /\ length \in Seq(Byte) /\ 2 \in 0..7
    <3>1. tag \in Seq(Byte)
      BY TagIsSeq
    <3> QED BY <3>1 DEF Varints
  <2>7. c \in Seq(Byte) /\ d \in Seq(Byte)
    BY <2>3, <2>6, ConcatProperties
  <2>8. c \in Payloads(2) /\ d \in Payloads(2) /\ StandsFor(2, c, v) /\ StandsFor(2, d, w)
    <3>1. /\ \E l \in Varints, b \in Seq(Byte) : c = l \o b /\ Len(b) = VarintValue(l)
          /\ \E l \in Varints, b \in Seq(Byte) : d = l \o b /\ Len(b) = VarintValue(l)
      BY <2>3, <2>4, <2>5
    <3>2. /\ \E l \in Varints, b \in Seq(Byte) :
               c = l \o b /\ Len(b) = VarintValue(l) /\ v = [type |-> "bytes", bytes |-> b]
          /\ \E l \in Varints, b \in Seq(Byte) :
               d = l \o b /\ Len(b) = VarintValue(l) /\ w = [type |-> "bytes", bytes |-> b]
      BY <2>3, <2>4, <2>5
    <3> HIDE DEF c, d, v, w
    <3> DEFINE Long(bs) == \E l \in Varints, b \in Seq(Byte) : bs = l \o b /\ Len(b) = VarintValue(l)
    <3>3. c \in Payloads(2) /\ d \in Payloads(2)
      <4>1. Payloads(2) = {bs \in Seq(Byte) : Long(bs)}
        BY DEF Payloads
      <4>2. Long(c) /\ Long(d)
        BY <3>1
      <4> HIDE DEF Long
      <4> QED BY <2>7, <4>1, <4>2
    <3>4. StandsFor(2, c, v) /\ StandsFor(2, d, w)
      BY <3>2 DEF StandsFor
    <3> QED BY <3>3, <3>4
  <2>9. Paired(SamePrint, c, d)
    <3>1. Paired(SamePrint, length, length)
      BY <2>6, BytesPrintedAlike, PairedWithItself
    <3> QED BY <2>3, <2>6, <3>1, PairedTogether
  <2>10. v \in Values /\ w \in Values /\ <<v, w>> \in SameValues
    BY <2>3 DEF Values, SameValues
  <2> HIDE DEF c, d, v, w
  <2>11. Paired(SamePrint, tag \o c, tag \o d)
    <3>1. Paired(SamePrint, tag, tag)
      BY <2>6, BytesPrintedAlike, PairedWithItself
    <3> QED BY <2>6, <2>7, <2>9, <3>1, PairedTogether
  <2>12. ReadAs(tag \o c, field(v)) /\ ReadAs(tag \o d, field(w))
    BY <2>8, FieldIsRead
  <2>13. /\ field(v) \in Seq(RawFields) /\ field(w) \in Seq(RawFields)
         /\ Paired(FieldPairs(SameValues), field(v), field(w))
    <3> DEFINE fv == [num |-> num, value |-> v]
               fw == [num |-> num, value |-> w]
    <3>1. fv \in RawFields /\ fw \in RawFields /\ <<fv, fw>> \in FieldPairs(SameValues)
      BY <2>10 DEF RawFields, FieldPairs
    <3> HIDE DEF fv, fw
    <3>2. /\ <<fv>> \in Seq(RawFields) /\ <<fw>> \in Seq(RawFields)
          /\ Paired(FieldPairs(SameValues), <<fv>>, <<fw>>)
      BY <3>1 DEF Paired
    <3> QED BY <3>2 DEF fv, fw
  <2>14. StartsWell(tag \o c) <=> StartsWell(tag \o d)
    BY <2>6, <2>7, TagIsJudged
  <2>15. tag \o c \in Seq(Byte) /\ tag \o d \in Seq(Byte)
    BY <2>6, <2>7, ConcatProperties
  <2> HIDE DEF field
  <2> QED BY <2>4, <2>11, <2>12, <2>13, <2>14, <2>15 DEF ReadAlike
<1> QED BY <1>2, <1>3

LEMMA TwinMessagesAreReadAlike ==
  ASSUME NEW p \in Seq(Fields), NEW q \in Seq(Fields), Paired(TwinFields(Indistinct), p, q)
  PROVE  /\ Concat(p) \in Seq(Byte) /\ Concat(q) \in Seq(Byte)
         /\ Paired(SamePrint, Concat(p), Concat(q))
         /\ WellFormed(Concat(p)) <=> WellFormed(Concat(q))
         /\ Paired(FieldPairs(SameValues), Items(Concat(p)), Items(Concat(q)))
<1> DEFINE N == Len(p)
           R == FieldPairs(SameValues)
           Reads(i, f, g) == ReadAs(p[i], f) /\ ReadAs(q[i], g) /\ Paired(R, f, g)
<1>1. N \in Nat /\ Len(q) = N /\ \A i \in 1..N : <<p[i], q[i]>> \in TwinFields(Indistinct)
  BY DEF Paired
<1>2. \A i \in 1..N : ReadAlike(p[i], q[i])
  <2> TAKE i \in 1..N
  <2> DEFINE pair == <<p[i], q[i]>>
  <2>1. pair \in TwinFields(Indistinct) /\ pair[1] = p[i] /\ pair[2] = q[i]
    BY <1>1
  <2> HIDE DEF pair
  <2> QED BY <2>1, TwinFieldsAreReadAlike
<1> HIDE DEF N
<1>3. p \in [1..N -> Seq(Byte)] /\ q \in [1..N -> Seq(Byte)]
  <2>1. \A i \in 1..N : p[i] \in Seq(Byte) /\ q[i] \in Seq(Byte)
    BY <1>2 DEF ReadAlike
  <2>2. p = [i \in 1..N |-> p[i]] /\ q = [i \in 1..N |-> q[i]]
    <3>1. p \in [1..N -> Fields] /\ q \in [1..N -> Fields]
      BY <1>1 DEF N
    <3> QED BY <3>1
  <2> QED BY <2>1, <2>2
<1>4. p \in Seq(Seq(Byte)) /\ q \in Seq(Seq(Byte))
  BY <1>1, <1>3
<1>5. Concat(p) \in Seq(Byte) /\ Concat(q) \in Seq(Byte)
  BY <1>4, ConcatOfConcat
<1>6. Paired(SamePrint, Concat(p), Concat(q))
  <2>1. \A i \in 1..Len(p) : Paired(SamePrint, p[i], q[i])
    BY <1>2 DEF ReadAlike, N
  <2>2. Len(p) = Len(q)
    BY <1>1 DEF N
  <2> QED BY <1>4, <2>1, <2>2, ConcatIsPaired
<1>7. WellFormed(Concat(p)) <=> WellFormed(Concat(q))
  <2>1. \A i \in 1..N : StartsWell(p[i]) <=> StartsWell(q[i])
    BY <1>2 DEF ReadAlike
  <2>2. /\ WellFormed(Concat(p)) = (\A i \in 1..N : StartsWell(p[i]))
        /\ WellFormed(Concat(q)) = (\A i \in 1..N : StartsWell(q[i]))
    BY <1>1, PartsAreWell DEF N
  <2> QED BY <2>1, <2>2
<1>8. \A i \in 1..N : \E f, g \in Seq(RawFields) : Reads(i, f, g)
  BY <1>2 DEF ReadAlike
<1> HIDE DEF R
<1> DEFINE Pairs == Seq(RawFields) \X Seq(RawFields)
           read == [i \in 1..N |-> CHOOSE pair \in Pairs : Reads(i, pair[1], pair[2])]
           f == [i \in 1..N |-> read[i][1]]
           g == [i \in 1..N |-> read[i][2]]
<1>9. \A i \in 1..N : read[i] \in Pairs /\ Reads(i, read[i][1], read[i][2])
  <2> TAKE i \in 1..N
  <2>1. PICK x \in Seq(RawFields), y \in Seq(RawFields) : Reads(i, x, y)
    BY <1>8
  <2> HIDE DEF Reads
  <2> DEFINE chosen == <<x, y>>
  <2>2. chosen \in Pairs /\ chosen[1] = x /\ chosen[2] = y
    OBVIOUS
  <2> HIDE DEF chosen
  <2>3. \E pair \in Pairs : Reads(i, pair[1], pair[2])
    BY <2>1, <2>2
  <2> DEFINE best == CHOOSE pair \in Pairs : Reads(i, pair[1], pair[2])
  <2>4. best \in Pairs /\ Reads(i, best[1], best[2])
    BY <2>3
  <2>5. read[i] = best
    OBVIOUS
  <2> HIDE DEF best, read
  <2> QED BY <2>4, <2>5
<1> HIDE DEF read
<1>10. \A i \in 1..N : f[i] \in Seq(RawFields) /\ g[i] \in Seq(RawFields) /\ Reads(i, f[i], g[i])
  BY <1>9
<1>11. f \in Seq(Seq(RawFields)) /\ g \in Seq(Seq(RawFields)) /\ Len(f) = N /\ Len(g) = N
  <2>1. f \in [1..N -> Seq(RawFields)] /\ g \in [1..N -> Seq(RawFields)]
    BY <1>9
  <2> HIDE DEF f, g
  <2> QED BY <1>1, <2>1
<1> HIDE DEF f, g
<1>12. Decode(Concat(p)) = Found(Concat(f)) /\ Decode(Concat(q)) = Found(Concat(g))
  <2>1. PartsReadAs(p, f, N) /\ PartsReadAs(q, g, N)
    <3>1. \A i \in 1..N : PartReadAs(p[i], f[i]) /\ PartReadAs(q[i], g[i])
      BY <1>10 DEF PartReadAs
    <3> QED BY <1>1, <1>4, <1>11, <3>1 DEF PartsReadAs, N
  <2> QED BY <1>1, <2>1, PartsAreRead
<1>13. Paired(R, Concat(f), Concat(g))
  BY <1>10, <1>11, ConcatIsPaired
<1>14. Concat(f) \in Seq(RawFields) /\ Concat(g) \in Seq(RawFields)
  BY <1>11, ConcatOfConcat
<1>15. Items(Concat(p)) = ByNumber(Concat(f)) /\ Items(Concat(q)) = ByNumber(Concat(g))
  <2>1. Readable(Found(Concat(f))) = Concat(f) /\ Readable(Found(Concat(g))) = Concat(g)
    BY DEF Readable, Found
  <2> QED BY <1>12, <2>1 DEF Items
<1>16. Paired(R, ByNumber(Concat(f)), ByNumber(Concat(g)))
  BY <1>13, <1>14, SortedAlike DEF R
<1> QED BY <1>5, <1>6, <1>7, <1>15, <1>16 DEF R

\* Items that correspond are the same timestamp or both none.
LEMMA TimestampsAreAlike ==
  ASSUME NEW a \in Seq(RawFields), NEW b \in Seq(RawFields), Paired(FieldPairs(SameValues), a, b)
  PROVE  a = b \/ (~IsTimestamp(a) /\ ~IsTimestamp(b))
<1>1. /\ Len(a) = Len(b) /\ DOMAIN a = 1..Len(a) /\ DOMAIN b = 1..Len(a) /\ Len(a) \in Nat
      /\ \A i \in 1..Len(a) : <<a[i], b[i]>> \in FieldPairs(SameValues)
  BY DEF Paired
<1>2. \A i \in 1..Len(a) : /\ a[i] \in RawFields /\ b[i] \in RawFields /\ a[i].num = b[i].num
                           /\ a[i].value.type = b[i].value.type
                           /\ a[i].value.type = "int" => a[i].value = b[i].value
  BY <1>1 DEF FieldPairs, SameValues
<1>3. CASE \A i \in 1..Len(a) : a[i].value.type = "int"
  <2>1. \A i \in 1..Len(a) : a[i] = b[i]
    <3> TAKE i \in 1..Len(a)
    <3>1. a[i].num = b[i].num /\ a[i].value = b[i].value
      BY <1>2, <1>3
    <3>2. /\ a[i] = [num |-> a[i].num, value |-> a[i].value]
          /\ b[i] = [num |-> b[i].num, value |-> b[i].value]
      BY <1>2 DEF RawFields
    <3> QED BY <3>1, <3>2
  <2>2. a = b
    BY <1>1, <2>1, SeqEqual
  <2> QED BY <2>2
<1>4. CASE \E i \in 1..Len(a) : a[i].value.type # "int"
  BY <1>1, <1>2, <1>4 DEF IsTimestamp
<1> QED BY <1>3, <1>4

LEMMA MessagesAreIndistinct ==
  ASSUME NEW p \in Seq(Fields), NEW q \in Seq(Fields), Paired(TwinFields(Indistinct), p, q)
  PROVE  <<Concat(p), Concat(q)>> \in Indistinct
<1> DEFINE x == Concat(p)
           y == Concat(q)
           a == Items(x)
           b == Items(y)
<1>1. /\ x \in Seq(Byte) /\ y \in Seq(Byte) /\ Paired(SamePrint, x, y)
      /\ WellFormed(x) <=> WellFormed(y)
      /\ Paired(FieldPairs(SameValues), a, b)
  BY TwinMessagesAreReadAlike
<1> HIDE DEF x, y
<1>2. Length(x) = Length(y) /\ (ReadsAsMessage(x) <=> ReadsAsMessage(y))
  BY <1>1, PrintedAlike DEF Length, ReadsAsMessage
<1>3. a \in Seq(RawFields) /\ b \in Seq(RawFields)
  BY <1>1, ItemsAreTyped
<1> HIDE DEF a, b
<1>4. ASSUME NEW k \in 0..MaxDepth, k # 0
      PROVE  Beneath(Levels, k, a) = Beneath(Levels, k, b)
  <2>1. DOMAIN a = DOMAIN b /\ \A i \in DOMAIN a : <<a[i], b[i]>> \in FieldPairs(SameValues)
    BY <1>1, <1>3 DEF Paired
  <2>2. k - 1 \in 0..MaxDepth
    BY <1>4 DEF MaxDepth
  <2>3. ASSUME NEW i \in DOMAIN a
        PROVE  a[i].num = b[i].num /\ Inside(Levels, k, a[i].value) = Inside(Levels, k, b[i].value)
    <3> DEFINE v == a[i].value
               w == b[i].value
    <3>1. a[i].num = b[i].num /\ <<v, w>> \in SameValues
      BY <2>1 DEF FieldPairs
    <3> HIDE DEF v, w
    <3>2. CASE v = w
      BY <3>1, <3>2 DEF v, w
    <3>3. CASE v # w
      <4>1. v.type = "bytes" /\ w.type = "bytes" /\ <<v.bytes, w.bytes>> \in Indistinct
        BY <3>1, <3>3 DEF SameValues
      <4>2. Levels[<<k - 1, v.bytes>>] = Levels[<<k - 1, w.bytes>>]
        BY <2>2, <4>1 DEF Indistinct
      <4>3. Inside(Levels, k, v) = Inside(Levels, k, w)
        BY <4>1, <4>2 DEF Inside
      <4> QED BY <3>1, <4>3 DEF v, w
    <3> QED BY <3>2, <3>3
  <2> QED BY <2>1, <2>3 DEF Beneath
<1>5. ASSUME NEW k \in 0..MaxDepth
      PROVE  LevelTurn(Levels, k, x) = LevelTurn(Levels, k, y)
  <2>1. CASE k = 0 \/ ~ReadsAsMessage(x)
    BY <1>2, <2>1 DEF LevelTurn
  <2>2. CASE ~(k = 0 \/ ~ReadsAsMessage(x)) /\ a = b
    BY <1>2, <2>2 DEF LevelTurn, a, b
  <2>3. CASE ~(k = 0 \/ ~ReadsAsMessage(x)) /\ ~IsTimestamp(a) /\ ~IsTimestamp(b)
    <3> DEFINE joint(items) ==
                 EntriesOfAll(items, LAMBDA item : Below(<<item.num>>, Inside(Levels, k, item.value)))
    <3>1. LevelTurn(Levels, k, x) = joint(a)
      BY <2>3 DEF LevelTurn, a
    <3>2. LevelTurn(Levels, k, y) = joint(b)
      BY <1>2, <2>3 DEF LevelTurn, b
    <3>3. joint(a) = Concat(Beneath(Levels, k, a)) /\ joint(b) = Concat(Beneath(Levels, k, b))
      BY <1>3, EntriesAreBeneath
    <3> HIDE DEF joint
    <3> QED BY <1>4, <2>3, <3>1, <3>2, <3>3
  <2> QED BY <1>1, <1>3, <2>1, <2>2, <2>3, TimestampsAreAlike
<1>6. \A k \in 0..MaxDepth : Levels[<<k, x>>] = Levels[<<k, y>>]
  BY <1>1, <1>5, LevelsAre
<1>7. <<x, y>> \in Indistinct
  BY <1>1, <1>6 DEF Indistinct
<1> QED BY <1>7 DEF x, y

LEMMA TextsAreIndistinct ==
  ASSUME NEW x \in Seq(Byte), NEW y \in Seq(Byte), IsText(x), IsText(y), Len(x) = Len(y)
  PROVE  <<x, y>> \in Indistinct
<1>1. Paired(SamePrint, x, y)
  <2>1. \A i \in 1..Len(x) : x[i] \in Byte /\ y[i] \in Byte
    BY ElementOfSeq
  <2>2. \A i \in 1..Len(x) : x[i] \in 32..126 /\ y[i] \in 32..126
    <3>1. DOMAIN x = 1..Len(x) /\ DOMAIN y = 1..Len(x)
      OBVIOUS
    <3> QED BY <3>1 DEF IsText
  <2> QED BY <2>1, <2>2 DEF Paired, SamePrint
<1>2. ASSUME NEW k \in 0..MaxDepth
      PROVE  Levels[<<k, x>>] = Levels[<<k, y>>]
  <2>1. LevelTurn(Levels, k, x) = Single(Length(x)) /\ LevelTurn(Levels, k, y) = Single(Length(y))
    BY DEF LevelTurn, ReadsAsMessage
  <2>2. Length(x) = Length(y)
    BY DEF Length
  <2> QED BY <2>1, <2>2, LevelsAre
<1> QED BY <1>1, <1>2 DEF Indistinct

LEMMA TwinsAreIndistinct ==
  \A pair \in Twins : pair \in Indistinct
<1>1. ClosedTwins(Indistinct)
  BY TextsAreIndistinct, MessagesAreIndistinct DEF ClosedTwins
<1>2. Indistinct \in SUBSET (Seq(Byte) \X Seq(Byte))
  BY DEF Indistinct
<1> QED BY <1>1, <1>2 DEF Twins

\* Text leaves no trace in the record of the fields the parsers do not map, however deep
\* in a message it stands and whatever stands around it: of two messages that differ in
\* nothing but text of the same length, the same entries are recorded, at every path,
\* for every set of known fields, coarsely or not (record_fields, _summarise).
THEOREM TextIsNotRecorded ==
  ASSUME NEW p \in Seq(Fields), NEW q \in Seq(Fields), Paired(TwinFields(Twins), p, q),
         NEW path, NEW known, NEW coarse \in BOOLEAN
  PROVE  UnknownEntries(path, Concat(p), known, coarse)
           = UnknownEntries(path, Concat(q), known, coarse)
<1>1. Paired(TwinFields(Indistinct), p, q)
  <2>1. \A pair \in TwinFields(Twins) : pair \in TwinFields(Indistinct)
    BY TwinsAreIndistinct DEF TwinFields
  <2> QED BY <2>1 DEF Paired
<1> DEFINE x == Concat(p)
           y == Concat(q)
           a == Items(x)
           b == Items(y)
           Adds(items, i) == IF items[i].num \in known THEN <<>>
                             ELSE Below(Append(path, items[i].num), Entries(items[i].value, coarse))
           turn(items, g, n) == IF n = 0 THEN <<>> ELSE g[n - 1] \o Adds(items, n)
           ofA[n \in 0..Len(a)] == IF n = 0 THEN <<>> ELSE ofA[n - 1] \o Adds(a, n)
           ofB[n \in 0..Len(b)] == IF n = 0 THEN <<>> ELSE ofB[n - 1] \o Adds(b, n)
<1>2. x \in Seq(Byte) /\ y \in Seq(Byte) /\ Paired(FieldPairs(SameValues), a, b)
  BY <1>1, TwinMessagesAreReadAlike
<1>3. /\ UnknownEntries(path, x, known, coarse) = ofA[Len(a)]
      /\ UnknownEntries(path, y, known, coarse) = ofB[Len(b)]
  BY DEF UnknownEntries, EntriesOfAll
<1> HIDE DEF x, y, a, b
<1>4. /\ ofA = CHOOSE g : g = [n \in 0..Len(a) |-> turn(a, g, n)]
      /\ ofB = CHOOSE g : g = [n \in 0..Len(b) |-> turn(b, g, n)]
  OBVIOUS
<1> HIDE DEF ofA, ofB
<1>5. Len(a) = Len(b) /\ \A i \in 1..Len(a) : <<a[i], b[i]>> \in FieldPairs(SameValues)
  BY <1>2 DEF Paired
<1>6. ASSUME NEW i \in 1..Len(a)
      PROVE  Adds(a, i) = Adds(b, i)
  <2> DEFINE v == a[i].value
             w == b[i].value
  <2>1. a[i].num = b[i].num /\ <<v, w>> \in SameValues
    BY <1>5 DEF FieldPairs
  <2> HIDE DEF v, w
  <2>2. Entries(v, coarse) = Entries(w, coarse)
    <3>1. CASE v = w
      BY <3>1
    <3>2. CASE v # w
      <4>1. /\ v.type = "bytes" /\ w.type = "bytes" /\ <<v.bytes, w.bytes>> \in Indistinct
        BY <2>1, <3>2 DEF SameValues
      <4>2. /\ v.bytes \in Seq(Byte) /\ w.bytes \in Seq(Byte)
            /\ Paired(SamePrint, v.bytes, w.bytes)
            /\ Levels[<<MaxDepth, v.bytes>>] = Levels[<<MaxDepth, w.bytes>>]
        <5>1. MaxDepth \in 0..MaxDepth
          BY DEF MaxDepth
        <5> QED BY <4>1, <5>1 DEF Indistinct
      <4>3. EntriesOf(v.bytes) = EntriesOf(w.bytes)
        BY <4>2, LevelsAre
      <4>4. Length(v.bytes) = Length(w.bytes)
        BY <4>2, PrintedAlike DEF Length
      <4> QED BY <4>1, <4>3, <4>4 DEF Entries
    <3> QED BY <3>1, <3>2
  <2> QED BY <2>1, <2>2 DEF v, w
<1>7. ofA = ofB
  <2>1. Len(a) \in Nat
    BY <1>2, ItemsAreTyped DEF a
  <2> HIDE DEF Adds
  <2>2. \A g : [n \in 0..Len(a) |-> turn(a, g, n)] = [n \in 0..Len(b) |-> turn(b, g, n)]
    <3> TAKE g
    <3>1. \A n \in 0..Len(a) : turn(a, g, n) = turn(b, g, n)
      <4> TAKE n \in 0..Len(a)
      <4>1. n = 0 \/ n \in 1..Len(a)
        BY <2>1
      <4> QED BY <1>6, <4>1
    <3> HIDE DEF turn
    <3> QED BY <1>5, <3>1
  <2> HIDE DEF turn
  <2> QED BY <1>4, <2>2
<1> QED BY <1>3, <1>5, <1>7 DEF x, y
=============================================================================
