---------------------------- MODULE CodecProofs ----------------------------
(***************************************************************************)
(* Proofs about Codec.tla and WireCodec.tla: what TLC tries on headers and   *)
(* streams of a few bytes holds of any, for every width of a number that     *)
(* the lengths fit in.                                                      *)
(*                                                                         *)
(* The definitions that iterate (Shifted, Number, Written, Accepted,         *)
(* FramesFrom) are each shown to have the equation they are written with;    *)
(* what they compute follows by Induction, where the property is a set.      *)
(***************************************************************************)
EXTENDS WireCodec, ModuleProofs, WellFoundedInduction

-----------------------------------------------------------------------------
(* Induction, with the property a set.                                       *)

\* A set of numbers with 0 and the successor of each has them all.
LEMMA Induction ==
  ASSUME NEW T \in SUBSET Nat, 0 \in T, \A n \in T : n + 1 \in T
  PROVE  T = Nat
<1>1. SUFFICES ASSUME Nat \ T # {} PROVE FALSE
  OBVIOUS
<1>2. PICK x \in Nat \ T : \A y \in Nat \ T : ~(<<y, x>> \in OpToRel(<, Nat))
  <2>1. Nat \ T \subseteq Nat
    OBVIOUS
  <2> HIDE DEF OpToRel
  <2> QED BY <1>1, <2>1, NatLessThanWellFounded, WFMin
<1>3. x \in Nat /\ x \notin T /\ x # 0
  OBVIOUS
<1>4. x - 1 \in Nat /\ x - 1 < x /\ (x - 1) + 1 = x
  BY <1>3
<1>5. <<x - 1, x>> \in OpToRel(<, Nat)
  BY <1>3, <1>4 DEF OpToRel
<1>6. x - 1 \in T
  BY <1>2, <1>4, <1>5
<1> QED BY <1>3, <1>4, <1>6

\* g has this first value and this step to the next, up to n.
Iterates(g, c, f, n) ==
  /\ g \in [0 .. n -> Nat]
  /\ g[0] = c
  /\ \A i \in 1 .. n : g[i] = f[<<g[i - 1], i>>]

\* A function of numbers may be given by its first value and the step to the next.
LEMMA Iteration ==
  ASSUME NEW c \in Nat, NEW f \in [Nat \X Nat -> Nat], NEW n \in Nat
  PROVE  \E g : Iterates(g, c, f, n)
<1> DEFINE T == {k \in Nat : \E g : Iterates(g, c, f, k)}
<1>1. 0 \in T
  <2> DEFINE g == [i \in 0 .. 0 |-> c]
  <2>1. Iterates(g, c, f, 0)
    BY DEF Iterates
  <2> HIDE DEF g
  <2> QED BY <2>1
<1>2. ASSUME NEW k \in T PROVE k + 1 \in T
  <2>1. k \in Nat
    OBVIOUS
  <2>2. PICK g : Iterates(g, c, f, k)
    OBVIOUS
  <2> DEFINE h == [i \in 0 .. k + 1 |-> IF i = k + 1 THEN f[<<g[k], k + 1>>] ELSE g[i]]
  <2>3. g \in [0 .. k -> Nat] /\ g[0] = c /\ g[k] \in Nat
    BY <2>1, <2>2 DEF Iterates
  <2>4. f[<<g[k], k + 1>>] \in Nat
    BY <2>1, <2>3
  <2>5. h \in [0 .. k + 1 -> Nat] /\ h[0] = c
    BY <2>1, <2>3, <2>4
  <2>6. ASSUME NEW i \in 1 .. k + 1 PROVE h[i] = f[<<h[i - 1], i>>]
    <3>1. h[i - 1] = g[i - 1]
      BY <2>1
    <3>2. CASE i = k + 1
      <4>1. h[i] = f[<<g[k], k + 1>>]
        BY <2>1, <3>2
      <4>2. i - 1 = k
        BY <2>1, <3>2
      <4> QED BY <3>1, <3>2, <4>1, <4>2
    <3>3. CASE i # k + 1
      <4>1. g[i] = f[<<g[i - 1], i>>] /\ h[i] = g[i]
        BY <2>1, <2>2, <3>3 DEF Iterates
      <4> QED BY <3>1, <4>1
    <3> QED BY <3>2, <3>3
  <2> HIDE DEF h
  <2>7. Iterates(h, c, f, k + 1)
    BY <2>5, <2>6 DEF Iterates
  <2> QED BY <2>1, <2>7
<1>3. T = Nat
  <2> HIDE DEF T
  <2>1. T \in SUBSET Nat
    BY DEF T
  <2> QED BY <1>1, <1>2, <2>1, Induction
<1> QED BY <1>3

-----------------------------------------------------------------------------
(* Numbers.                                                                  *)

\* Multiplication keeps the order.
LEMMA Times ==
  ASSUME NEW a \in Nat, NEW q \in Nat, NEW b \in Nat, a >= q
  PROVE  a * b >= q * b
<1>1. a - q \in Nat /\ a = q + (a - q)
  OBVIOUS
<1>2. a * b = q * b + (a - q) * b
  BY <1>1
<1>3. (a - q) * b \in Nat
  BY <1>1
<1>4. a * b \in Nat /\ q * b \in Nat
  OBVIOUS
<1> QED BY <1>2, <1>3, <1>4

\* Quotient and remainder.
LEMMA Division ==
  ASSUME NEW x \in Nat, NEW b \in Nat \ {0}
  PROVE  /\ x \div b \in Nat /\ x % b \in 0 .. b - 1
         /\ x = (x \div b) * b + (x % b)
<1>1. x \div b \in Nat
  OBVIOUS
<1>2. x % b \in 0 .. b - 1
  OBVIOUS
<1>3. x = (x \div b) * b + (x % b)
  OBVIOUS
<1> QED BY <1>1, <1>2, <1>3

\* Division keeps the order.
LEMMA Quotients ==
  ASSUME NEW x \in Nat, NEW y \in Nat, NEW b \in Nat \ {0}, x <= y
  PROVE  x \div b <= y \div b
<1>1. /\ x \div b \in Nat /\ y \div b \in Nat
      /\ x % b \in 0 .. b - 1 /\ y % b \in 0 .. b - 1
      /\ x = (x \div b) * b + (x % b) /\ y = (y \div b) * b + (y % b)
  BY Division
<1>2. SUFFICES ASSUME x \div b >= (y \div b) + 1 PROVE FALSE
  BY <1>1
<1>3. (x \div b) * b >= ((y \div b) + 1) * b
  BY <1>1, <1>2, Times
<1>4. ((y \div b) + 1) * b = (y \div b) * b + b
  BY <1>1
<1>5. (x \div b) * b \in Nat /\ (y \div b) * b \in Nat
  BY <1>1
<1> QED BY <1>1, <1>3, <1>4, <1>5

-----------------------------------------------------------------------------
(* The bytes of a number.                                                    *)

\* Shifted is the iteration it is written as.
LEMMA ShiftedSteps ==
  ASSUME NEW n \in Nat
  PROVE  /\ Shifted(n) \in [0 .. Width -> Nat]
         /\ Shifted(n)[0] = n
         /\ \A i \in 1 .. Width : Shifted(n)[i] = Shifted(n)[i - 1] \div Base
<1>1. Width \in Nat \ {0} /\ Base \in Nat \ {0, 1}
  BY CodecAssumption
<1> DEFINE f == [p \in Nat \X Nat |-> p[1] \div Base]
<1>2. f \in [Nat \X Nat -> Nat]
  <2>1. ASSUME NEW p \in Nat \X Nat PROVE p[1] \div Base \in Nat
    <3>1. p[1] \in Nat /\ Base \in Nat \ {0}
      BY <1>1
    <3> QED BY <3>1, Division
  <2> QED BY <2>1
<1>3. PICK g \in [0 .. Width -> Nat] :
        g[0] = n /\ \A i \in 1 .. Width : g[i] = f[<<g[i - 1], i>>]
  <2>1. Width \in Nat
    BY <1>1
  <2> HIDE DEF f
  <2>2. \E g : Iterates(g, n, f, Width)
    BY <1>2, <2>1, Iteration
  <2> QED BY <2>2 DEF Iterates
<1>4. ASSUME NEW i \in 1 .. Width PROVE g[i] = g[i - 1] \div Base
  <2>1. i - 1 \in 0 .. Width /\ i \in Nat
    BY <1>1
  <2>2. g[i - 1] \in Nat
    BY <2>1
  <2> QED BY <1>3, <2>1, <2>2
<1>5. g = [i \in 0 .. Width |-> IF i = 0 THEN n ELSE g[i - 1] \div Base]
  <2>1. \A i \in 0 .. Width : i = 0 \/ i \in 1 .. Width
    BY <1>1
  <2> QED BY <1>3, <1>4, <2>1
<1>6. Shifted(n) = [i \in 0 .. Width |-> IF i = 0 THEN n ELSE Shifted(n)[i - 1] \div Base]
  BY <1>5, Zenon DEF Shifted
<1> DEFINE T == {i \in Nat : i <= Width => Shifted(n)[i] = g[i]}
<1>7. 0 \in T
  BY <1>1, <1>3, <1>6
<1>8. ASSUME NEW i \in T PROVE i + 1 \in T
  <2>1. SUFFICES ASSUME i + 1 <= Width PROVE Shifted(n)[i + 1] = g[i + 1]
    OBVIOUS
  <2>2. Shifted(n)[i] = g[i] /\ i + 1 \in 1 .. Width /\ (i + 1) - 1 = i
    BY <1>1, <2>1
  <2>3. Shifted(n)[i + 1] = Shifted(n)[i] \div Base
    <3>1. i + 1 \in 0 .. Width /\ i + 1 # 0
      BY <1>1, <2>2
    <3> HIDE DEF T
    <3>2. Shifted(n)[i + 1] = Shifted(n)[(i + 1) - 1] \div Base
      BY <1>6, <3>1
    <3> QED BY <2>2, <3>2
  <2>4. g[i + 1] = g[i] \div Base
    BY <1>4, <2>2
  <2> QED BY <2>2, <2>3, <2>4
<1>9. \A i \in 0 .. Width : Shifted(n)[i] = g[i]
  <2>1. T = Nat
    <3> HIDE DEF T
    <3>1. T \in SUBSET Nat
      BY DEF T
    <3> QED BY <1>7, <1>8, <3>1, Induction
  <2> QED BY <1>1, <2>1
<1>10. Shifted(n) = g
  BY <1>6, <1>9
<1> QED BY <1>3, <1>4, <1>10

\* What is less fits where more does.
LEMMA LessFits ==
  ASSUME NEW y \in Nat, Fits(y), NEW x \in 0 .. y
  PROVE  Fits(x)
<1>1. Width \in Nat \ {0} /\ Base \in Nat \ {0}
  BY CodecAssumption
<1>2. /\ Shifted(x) \in [0 .. Width -> Nat] /\ Shifted(x)[0] = x
      /\ \A i \in 1 .. Width : Shifted(x)[i] = Shifted(x)[i - 1] \div Base
  BY ShiftedSteps
<1>3. /\ Shifted(y) \in [0 .. Width -> Nat] /\ Shifted(y)[0] = y
      /\ \A i \in 1 .. Width : Shifted(y)[i] = Shifted(y)[i - 1] \div Base
  BY ShiftedSteps
<1> DEFINE T == {i \in Nat : i <= Width => Shifted(x)[i] <= Shifted(y)[i]}
<1>4. 0 \in T
  BY <1>2, <1>3
<1>5. ASSUME NEW i \in T PROVE i + 1 \in T
  <2>1. SUFFICES ASSUME i + 1 <= Width PROVE Shifted(x)[i + 1] <= Shifted(y)[i + 1]
    OBVIOUS
  <2>2. Shifted(x)[i] <= Shifted(y)[i] /\ i + 1 \in 1 .. Width /\ (i + 1) - 1 = i
    BY <1>1, <2>1
  <2>3. Shifted(x)[i] \in Nat /\ Shifted(y)[i] \in Nat
    BY <1>1, <1>2, <1>3, <2>2
  <2>4. Shifted(x)[i] \div Base <= Shifted(y)[i] \div Base
    BY <1>1, <2>2, <2>3, Quotients
  <2>5. /\ Shifted(x)[i + 1] = Shifted(x)[i] \div Base
        /\ Shifted(y)[i + 1] = Shifted(y)[i] \div Base
    BY <1>2, <1>3, <2>2
  <2> QED BY <2>4, <2>5
<1>6. T = Nat
  <2> HIDE DEF T
  <2>1. T \in SUBSET Nat
    BY DEF T
  <2> QED BY <1>4, <1>5, <2>1, Induction
<1>7. Shifted(x)[Width] <= Shifted(y)[Width] /\ Shifted(x)[Width] \in Nat
  <2>1. Width \in T /\ Width <= Width /\ Width \in 0 .. Width
    BY <1>1, <1>6
  <2> QED BY <1>2, <2>1
<1> QED BY <1>7 DEF Fits

\* Number is the iteration it is written as.
LEMMA NumberSteps ==
  ASSUME NEW s \in Seq(Nat)
  PROVE  \E g \in [0 .. Len(s) -> Nat] :
           /\ g[0] = 0
           /\ \A i \in 1 .. Len(s) : g[i] = g[i - 1] * Base + s[i]
           /\ Number(s) = g[Len(s)]
<1>1. Len(s) \in Nat /\ Base \in Nat /\ \A i \in 1 .. Len(s) : s[i] \in Nat
  BY CodecAssumption, LenProperties, ElementOfSeq
<1> DEFINE f == [p \in Nat \X Nat |-> IF p[2] \in 1 .. Len(s) THEN p[1] * Base + s[p[2]] ELSE 0]
<1>2. f \in [Nat \X Nat -> Nat]
  <2>1. ASSUME NEW p \in Nat \X Nat, p[2] \in 1 .. Len(s)
        PROVE  p[1] * Base + s[p[2]] \in Nat
    <3>1. p[1] \in Nat /\ s[p[2]] \in Nat
      BY <1>1, <2>1
    <3> QED BY <1>1, <3>1
  <2> QED BY <2>1
<1>3. PICK g \in [0 .. Len(s) -> Nat] :
        g[0] = 0 /\ \A i \in 1 .. Len(s) : g[i] = f[<<g[i - 1], i>>]
  <2>1. 0 \in Nat /\ Len(s) \in Nat
    BY <1>1
  <2> HIDE DEF f
  <2>2. \E g : Iterates(g, 0, f, Len(s))
    BY <1>2, <2>1, Iteration
  <2> QED BY <2>2 DEF Iterates
<1>4. ASSUME NEW i \in 1 .. Len(s) PROVE g[i] = g[i - 1] * Base + s[i]
  <2>1. i - 1 \in 0 .. Len(s) /\ i \in Nat
    BY <1>1
  <2>2. g[i - 1] \in Nat
    BY <2>1
  <2> QED BY <1>3, <2>1, <2>2
<1> DEFINE D(h) == [i \in 0 .. Len(s) |-> IF i = 0 THEN 0 ELSE h[i - 1] * Base + s[i]]
           n == CHOOSE h : h = D(h)
<1>5. g = D(g)
  <2>1. \A i \in 0 .. Len(s) : i = 0 \/ i \in 1 .. Len(s)
    BY <1>1
  <2> QED BY <1>3, <1>4, <2>1
<1>6. n = D(n)
  BY <1>5, Zenon
<1>7. Number(s) = n[Len(s)]
  BY Zenon DEF Number
<1> HIDE DEF n
<1> DEFINE T == {i \in Nat : i <= Len(s) => n[i] = g[i]}
<1>8. 0 \in T
  BY <1>1, <1>3, <1>6
<1>9. ASSUME NEW i \in T PROVE i + 1 \in T
  <2>1. SUFFICES ASSUME i + 1 <= Len(s) PROVE n[i + 1] = g[i + 1]
    OBVIOUS
  <2>2. n[i] = g[i] /\ i + 1 \in 1 .. Len(s) /\ (i + 1) - 1 = i
    BY <1>1, <2>1
  <2>3. n[i + 1] = n[i] * Base + s[i + 1]
    BY <1>6, <2>2
  <2>4. g[i + 1] = g[i] * Base + s[i + 1]
    BY <1>4, <2>2
  <2> QED BY <2>2, <2>3, <2>4
<1>10. T = Nat
  <2> HIDE DEF T
  <2>1. T \in SUBSET Nat
    BY DEF T
  <2> QED BY <1>8, <1>9, <2>1, Induction
<1>11. n[Len(s)] = g[Len(s)]
  BY <1>1, <1>10
<1> QED BY <1>3, <1>4, <1>7, <1>11

\* A number that fits is read back from its bytes.
LEMMA NumberReadsBack ==
  ASSUME NEW x \in Nat, Fits(x)
  PROVE  /\ BigEndian(x) \in Seq(Nat) /\ Len(BigEndian(x)) = Width
         /\ Number(BigEndian(x)) = x
<1>1. Width \in Nat \ {0} /\ Base \in Nat \ {0}
  BY CodecAssumption
<1>2. /\ Shifted(x) \in [0 .. Width -> Nat] /\ Shifted(x)[0] = x
      /\ \A i \in 1 .. Width : Shifted(x)[i] = Shifted(x)[i - 1] \div Base
  BY ShiftedSteps
<1>3. BigEndian(x) \in [1 .. Width -> Nat]
  <2>1. ASSUME NEW i \in 1 .. Width PROVE Shifted(x)[Width - i] % Base \in Nat
    <3>1. Width - i \in 0 .. Width
      BY <1>1
    <3>2. Shifted(x)[Width - i] \in Nat
      BY <1>2, <3>1
    <3>3. Shifted(x)[Width - i] % Base \in 0 .. Base - 1
      BY <1>1, <3>2, Division
    <3> QED BY <1>1, <3>3
  <2> QED BY <2>1 DEF BigEndian
<1>4. BigEndian(x) \in Seq(Nat) /\ Len(BigEndian(x)) = Width
  <2>1. Width \in Nat
    BY <1>1
  <2>2. BigEndian(x) \in Seq(Nat)
    BY <1>3, <2>1, SeqDef
  <2>3. DOMAIN BigEndian(x) = 1 .. Width
    BY <1>3
  <2> QED BY <2>1, <2>2, <2>3, LenProperties
<1>5. PICK g \in [0 .. Width -> Nat] :
        /\ g[0] = 0
        /\ \A i \in 1 .. Width : g[i] = g[i - 1] * Base + BigEndian(x)[i]
        /\ Number(BigEndian(x)) = g[Width]
  BY <1>4, NumberSteps
<1> DEFINE T == {i \in Nat : i <= Width => g[i] = Shifted(x)[Width - i]}
<1>6. 0 \in T
  BY <1>1, <1>5 DEF Fits
<1>7. ASSUME NEW i \in T PROVE i + 1 \in T
  <2>1. SUFFICES ASSUME i + 1 <= Width PROVE g[i + 1] = Shifted(x)[Width - (i + 1)]
    OBVIOUS
  <2> DEFINE j == Width - (i + 1)
  <2>2. /\ g[i] = Shifted(x)[Width - i] /\ i + 1 \in 1 .. Width /\ (i + 1) - 1 = i
        /\ Width - i \in 1 .. Width /\ (Width - i) - 1 = j /\ j \in 0 .. Width
    BY <1>1, <2>1
  <2>3. g[i + 1] = g[i] * Base + BigEndian(x)[i + 1]
    BY <1>5, <2>2
  <2>4. BigEndian(x)[i + 1] = Shifted(x)[j] % Base
    BY <2>2 DEF BigEndian
  <2>5. Shifted(x)[Width - i] = Shifted(x)[j] \div Base
    BY <1>2, <2>2
  <2>6. Shifted(x)[j] \in Nat
    BY <1>2, <2>2
  <2>7. Shifted(x)[j] = (Shifted(x)[j] \div Base) * Base + (Shifted(x)[j] % Base)
    BY <1>1, <2>6, Division
  <2> HIDE DEF j
  <2>8. g[i + 1] = Shifted(x)[j]
    BY <2>2, <2>3, <2>4, <2>5, <2>7
  <2> QED BY <2>8 DEF j
<1>8. T = Nat
  <2> HIDE DEF T
  <2>1. T \in SUBSET Nat
    BY DEF T
  <2> QED BY <1>6, <1>7, <2>1, Induction
<1>9. g[Width] = Shifted(x)[0]
  <2>1. Width \in T
    BY <1>1, <1>8
  <2>2. Width - Width = 0 /\ Width <= Width
    BY <1>1
  <2> QED BY <2>1, <2>2
<1> QED BY <1>2, <1>4, <1>5, <1>9

-----------------------------------------------------------------------------
(* Pieces of data.                                                           *)

\* Where data goes on after p, it goes on with s.
At(data, p, s) == \A i \in 1 .. Len(s) : p + i <= Len(data) => data[p + i] = s[i]

\* A piece that is two is the first, and the second after it.
LEMMA Pieces ==
  ASSUME NEW data \in Seq(Nat), NEW p \in Nat, NEW s \in Seq(Nat), NEW t \in Seq(Nat),
         At(data, p, s \o t)
  PROVE  /\ At(data, p, s) /\ At(data, p + Len(s), t)
         /\ s \o t \in Seq(Nat) /\ Len(s \o t) = Len(s) + Len(t)
<1>1. /\ s \o t \in Seq(Nat) /\ Len(s \o t) = Len(s) + Len(t)
      /\ \A i \in 1 .. Len(s) + Len(t) :
           (s \o t)[i] = IF i <= Len(s) THEN s[i] ELSE t[i - Len(s)]
  BY ConcatProperties
<1>2. Len(s) \in Nat /\ Len(t) \in Nat /\ Len(data) \in Nat
  BY LenProperties
<1>3. ASSUME NEW i \in 1 .. Len(s), p + i <= Len(data) PROVE data[p + i] = s[i]
  <2>1. i \in 1 .. Len(s \o t) /\ i \in 1 .. Len(s) + Len(t) /\ i <= Len(s)
    BY <1>1, <1>2
  <2>2. data[p + i] = (s \o t)[i]
    BY <1>3, <2>1 DEF At
  <2> QED BY <1>1, <2>1, <2>2
<1>4. ASSUME NEW i \in 1 .. Len(t), (p + Len(s)) + i <= Len(data)
      PROVE  data[(p + Len(s)) + i] = t[i]
  <2> DEFINE j == Len(s) + i
  <2>1. /\ j \in 1 .. Len(s \o t) /\ j \in 1 .. Len(s) + Len(t) /\ ~(j <= Len(s))
        /\ j - Len(s) = i /\ (p + Len(s)) + i = p + j
    BY <1>1, <1>2
  <2> HIDE DEF j
  <2>2. data[p + j] = (s \o t)[j]
    BY <1>4, <2>1 DEF At
  <2>3. (s \o t)[j] = t[i]
    BY <1>1, <2>1
  <2> QED BY <2>1, <2>2, <2>3
<1> QED BY <1>1, <1>3, <1>4 DEF At

\* What is read of a piece that is there is the piece.
LEMMA Piece ==
  ASSUME NEW data \in Seq(Nat), NEW p \in Nat, NEW s \in Seq(Nat), At(data, p, s),
         NEW a, NEW b, a = p + 1, b = p + Len(s), b <= Len(data)
  PROVE  SubSeq(data, a, b) = s
<1>1. Len(s) \in Nat /\ Len(data) \in Nat
  BY LenProperties
<1>2. a \in Int /\ b \in Int /\ a \in Nat \ {0} /\ b - a + 1 = Len(s)
  BY <1>1
<1>3. \A i \in a .. b : data[i] \in Nat
  <2>1. \A i \in a .. b : i \in 1 .. Len(data)
    BY <1>1, <1>2
  <2> QED BY <2>1, ElementOfSeq
<1>4. /\ SubSeq(data, a, b) \in Seq(Nat)
      /\ Len(SubSeq(data, a, b)) = IF a <= b THEN b - a + 1 ELSE 0
      /\ \A i \in 1 .. b - a + 1 : SubSeq(data, a, b)[i] = data[a + i - 1]
  <2>1. a \in Int /\ b \in Int
    BY <1>2
  <2> QED BY <1>3, <2>1, SubSeqProperties
<1>5. Len(SubSeq(data, a, b)) = Len(s)
  BY <1>1, <1>2, <1>4
<1>6. ASSUME NEW i \in 1 .. Len(s) PROVE SubSeq(data, a, b)[i] = s[i]
  <2>1. a + i - 1 = p + i /\ p + i <= Len(data) /\ i \in 1 .. b - a + 1
    BY <1>1, <1>2
  <2>2. SubSeq(data, a, b)[i] = data[p + i]
    BY <1>4, <2>1
  <2> QED BY <2>1, <2>2 DEF At
<1> QED BY <1>4, <1>5, <1>6, SeqEqual

\* Data that begins with s, and its beginnings.
LEMMA Beginnings ==
  ASSUME NEW s \in Seq(Nat), NEW t \in Seq(Nat), NEW n \in 0 .. Len(s)
  PROVE  /\ s \o t \in Seq(Nat) /\ Len(s \o t) = Len(s) + Len(t) /\ At(s \o t, 0, s)
         /\ SubSeq(s, 1, n) \in Seq(Nat) /\ Len(SubSeq(s, 1, n)) = n
         /\ At(SubSeq(s, 1, n), 0, s)
<1>1. Len(s) \in Nat /\ Len(t) \in Nat /\ n \in Nat
  BY LenProperties
<1>2. /\ s \o t \in Seq(Nat) /\ Len(s \o t) = Len(s) + Len(t)
      /\ \A i \in 1 .. Len(s) + Len(t) :
           (s \o t)[i] = IF i <= Len(s) THEN s[i] ELSE t[i - Len(s)]
  BY ConcatProperties
<1>3. At(s \o t, 0, s)
  <2>1. ASSUME NEW i \in 1 .. Len(s) PROVE (s \o t)[0 + i] = s[i]
    <3>1. 0 + i = i /\ i \in 1 .. Len(s) + Len(t) /\ i <= Len(s)
      BY <1>1
    <3> QED BY <1>2, <3>1
  <2> QED BY <2>1 DEF At
<1>4. \A i \in 1 .. n : s[i] \in Nat
  <2>1. \A i \in 1 .. n : i \in 1 .. Len(s)
    BY <1>1
  <2> QED BY <2>1, ElementOfSeq
<1>5. /\ SubSeq(s, 1, n) \in Seq(Nat)
      /\ Len(SubSeq(s, 1, n)) = IF 1 <= n THEN n - 1 + 1 ELSE 0
      /\ \A i \in 1 .. n - 1 + 1 : SubSeq(s, 1, n)[i] = s[1 + i - 1]
  <2>1. 1 \in Int /\ n \in Int
    BY <1>1
  <2> QED BY <1>4, <2>1, SubSeqProperties
<1>6. Len(SubSeq(s, 1, n)) = n
  BY <1>1, <1>5
<1>7. At(SubSeq(s, 1, n), 0, s)
  <2>1. ASSUME NEW i \in 1 .. Len(s), 0 + i <= n PROVE SubSeq(s, 1, n)[0 + i] = s[i]
    <3>1. 0 + i = i /\ i \in 1 .. n - 1 + 1 /\ 1 + i - 1 = i
      BY <1>1, <2>1
    <3> QED BY <1>5, <3>1
  <2> QED BY <1>6, <2>1 DEF At
<1> QED BY <1>2, <1>3, <1>5, <1>6, <1>7

-----------------------------------------------------------------------------
(* Headers.                                                                  *)

\* A header of any length a length field can tell.
Headers == {h \in [name : Seq(Nat), isError : BOOLEAN, type : Nat, payload : Seq(Nat)] :
              Fits(Len(h.name)) /\ Fits(Len(h.payload))}

\* The two bytes of the flags.
Flags(h) == <<IF h.isError THEN 1 ELSE 0, h.type>>

\* How long a marshalled header is.
SizeOf(h) == 2 * Width + Len(h.name) + 2 + Len(h.payload)

\* The fields of a marshalled header, each at its place in data that begins with it.
LEMMA Fields ==
  ASSUME NEW h \in Headers, NEW data \in Seq(Nat), At(data, 0, MarshalBinary(h))
  PROVE  /\ At(data, 0, BigEndian(Len(h.name)))
         /\ At(data, Width, h.name)
         /\ At(data, Width + Len(h.name), Flags(h))
         /\ At(data, Width + Len(h.name) + 2, BigEndian(Len(h.payload)))
         /\ At(data, Width + Len(h.name) + 2 + Width, h.payload)
<1> DEFINE a == BigEndian(Len(h.name))
           b == h.name
           c == Flags(h)
           d == BigEndian(Len(h.payload))
           e == h.payload
<1>1. /\ a \in Seq(Nat) /\ Len(a) = Width /\ d \in Seq(Nat) /\ Len(d) = Width
  <2>1. Len(h.name) \in Nat /\ Len(h.payload) \in Nat
    BY LenProperties DEF Headers
  <2> QED BY <2>1, NumberReadsBack DEF Headers
<1>2. b \in Seq(Nat) /\ e \in Seq(Nat)
  BY DEF Headers
<1>3. c \in Seq(Nat) /\ Len(c) = 2
  BY DEF Headers, Flags
<1>4. At(data, 0, (((a \o b) \o c) \o d) \o e)
  BY DEF MarshalBinary, Flags
<1>5. Width \in Nat /\ Len(b) \in Nat /\ 0 \in Nat
  BY <1>2, CodecAssumption, LenProperties
<1> HIDE DEF a, b, c, d, e
<1>6. /\ a \o b \in Seq(Nat) /\ (a \o b) \o c \in Seq(Nat)
      /\ ((a \o b) \o c) \o d \in Seq(Nat)
  BY <1>1, <1>2, <1>3, ConcatProperties
<1>7. At(data, 0, ((a \o b) \o c) \o d) /\ At(data, 0 + Len(((a \o b) \o c) \o d), e)
  BY <1>2, <1>4, <1>5, <1>6, Pieces
<1>8. At(data, 0, (a \o b) \o c) /\ At(data, 0 + Len((a \o b) \o c), d)
  BY <1>1, <1>5, <1>6, <1>7, Pieces
<1>9. At(data, 0, a \o b) /\ At(data, 0 + Len(a \o b), c)
  BY <1>3, <1>5, <1>6, <1>8, Pieces
<1>10. At(data, 0, a) /\ At(data, 0 + Len(a), b)
  BY <1>1, <1>2, <1>5, <1>9, Pieces
<1>11. /\ 0 + Len(a) = Width
       /\ 0 + Len(a \o b) = Width + Len(b)
       /\ 0 + Len((a \o b) \o c) = Width + Len(b) + 2
       /\ 0 + Len(((a \o b) \o c) \o d) = Width + Len(b) + 2 + Width
  <2>1. Len(a \o b) = Len(a) + Len(b)
    BY <1>1, <1>2, ConcatProperties
  <2>2. Len((a \o b) \o c) = Len(a \o b) + Len(c)
    BY <1>3, <1>6, ConcatProperties
  <2>3. Len(((a \o b) \o c) \o d) = Len((a \o b) \o c) + Len(d)
    BY <1>1, <1>6, ConcatProperties
  <2> QED BY <1>1, <1>3, <1>5, <2>1, <2>2, <2>3
<1> QED BY <1>7, <1>8, <1>9, <1>10, <1>11 DEF a, b, c, d, e

\* A marshalled header is this long.
LEMMA Marshalled ==
  ASSUME NEW h \in Headers
  PROVE  MarshalBinary(h) \in Seq(Nat) /\ Len(MarshalBinary(h)) = SizeOf(h)
<1> DEFINE a == BigEndian(Len(h.name))
           b == h.name
           c == Flags(h)
           d == BigEndian(Len(h.payload))
           e == h.payload
<1>1. /\ a \in Seq(Nat) /\ Len(a) = Width /\ d \in Seq(Nat) /\ Len(d) = Width
  <2>1. Len(h.name) \in Nat /\ Len(h.payload) \in Nat
    BY LenProperties DEF Headers
  <2> QED BY <2>1, NumberReadsBack DEF Headers
<1>2. b \in Seq(Nat) /\ e \in Seq(Nat)
  BY DEF Headers
<1>3. c \in Seq(Nat) /\ Len(c) = 2
  BY DEF Headers, Flags
<1>4. /\ MarshalBinary(h) = (((a \o b) \o c) \o d) \o e
      /\ SizeOf(h) = 2 * Width + Len(b) + 2 + Len(e)
  BY DEF MarshalBinary, Flags, SizeOf
<1>5. Width \in Nat /\ Len(b) \in Nat /\ Len(e) \in Nat
  BY <1>2, CodecAssumption, LenProperties
<1> HIDE DEF a, b, c, d, e
<1>6. a \o b \in Seq(Nat) /\ Len(a \o b) = Len(a) + Len(b)
  BY <1>1, <1>2, ConcatProperties
<1>7. (a \o b) \o c \in Seq(Nat) /\ Len((a \o b) \o c) = Len(a \o b) + Len(c)
  BY <1>3, <1>6, ConcatProperties
<1>8. /\ ((a \o b) \o c) \o d \in Seq(Nat)
      /\ Len(((a \o b) \o c) \o d) = Len((a \o b) \o c) + Len(d)
  BY <1>1, <1>7, ConcatProperties
<1>9. /\ (((a \o b) \o c) \o d) \o e \in Seq(Nat)
      /\ Len((((a \o b) \o c) \o d) \o e) = Len(((a \o b) \o c) \o d) + Len(e)
  BY <1>2, <1>8, ConcatProperties
<1>10. Len((((a \o b) \o c) \o d) \o e) = 2 * Width + Len(b) + 2 + Len(e)
  BY <1>1, <1>3, <1>5, <1>6, <1>7, <1>8, <1>9
<1> QED BY <1>4, <1>9, <1>10

\* UnmarshalBinary of data that begins with a marshalled header, as far as the data
\* goes: the header if all of it is there, and an error otherwise.
THEOREM UnmarshalReadsHeader ==
  ASSUME NEW h \in Headers, NEW data \in Seq(Nat), At(data, 0, MarshalBinary(h))
  PROVE  UnmarshalBinary(data) = IF Len(data) >= SizeOf(h) THEN h ELSE NoHeader
<1> DEFINE W == Width
           L == Len(h.name)
           Q == Len(h.payload)
           at == W + L + 2 + W
<1>1. /\ W \in Nat \ {0} /\ L \in Nat /\ Q \in Nat /\ Len(data) \in Nat /\ Fits(L) /\ Fits(Q)
      /\ h.name \in Seq(Nat) /\ h.payload \in Seq(Nat)
  BY CodecAssumption, LenProperties DEF Headers
<1>2. /\ At(data, 0, BigEndian(L)) /\ At(data, W, h.name) /\ At(data, W + L, Flags(h))
      /\ At(data, W + L + 2, BigEndian(Q)) /\ At(data, at, h.payload)
  BY Fields
<1>3. /\ BigEndian(L) \in Seq(Nat) /\ Len(BigEndian(L)) = W /\ Number(BigEndian(L)) = L
      /\ BigEndian(Q) \in Seq(Nat) /\ Len(BigEndian(Q)) = W /\ Number(BigEndian(Q)) = Q
  BY <1>1, NumberReadsBack
<1>4. SizeOf(h) = at + Q
  <2>1. SizeOf(h) = 2 * W + L + 2 + Q
    BY DEF SizeOf
  <2> HIDE DEF W, L, Q
  <2> QED BY <1>1, <2>1
<1> DEFINE n == Number(SubSeq(data, 1, W))
           m == Number(SubSeq(data, W + n + 3, W + n + 2 + W))
<1>5. UnmarshalBinary(data) =
        IF \/ Len(data) < W
           \/ Len(data) < W + n + 2 + W
           \/ ~(Len(data) >= (W + n + 2 + W) + m)
          THEN NoHeader
        ELSE Header(SubSeq(data, W + 1, W + n), data[W + n + 1] = 1, data[W + n + 2],
                    PayloadOf(data, W + n + 2 + W, m))
  BY DEF UnmarshalBinary, HasPayload
<1> HIDE DEF W, L, Q, n, m
<1>6. CASE Len(data) < W
  BY <1>1, <1>4, <1>5, <1>6
<1>7. CASE ~(Len(data) < W)
  <2>1. SubSeq(data, 1, W) = BigEndian(L)
    <3> DEFINE s == BigEndian(L)
    <3>1. /\ 0 \in Nat /\ 1 = 0 + 1 /\ W = 0 + Len(s) /\ W <= Len(data)
          /\ s \in Seq(Nat) /\ At(data, 0, s)
      BY <1>1, <1>2, <1>3, <1>7
    <3> HIDE DEF s
    <3>2. SubSeq(data, 1, W) = s
      BY <3>1, Piece
    <3> QED BY <3>2 DEF s
  <2>2. n = L
    BY <1>3, <2>1 DEF n
  <2>3. CASE Len(data) < at
    BY <1>1, <1>4, <1>5, <2>2, <2>3
  <2>4. CASE ~(Len(data) < at)
    <3>1. SubSeq(data, W + L + 3, at) = BigEndian(Q)
      <4> DEFINE s == BigEndian(Q)
                 p == W + L + 2
      <4>1. /\ p \in Nat /\ W + L + 3 = p + 1 /\ at = p + Len(s) /\ at <= Len(data)
            /\ s \in Seq(Nat) /\ At(data, p, s)
        BY <1>1, <1>2, <1>3, <2>4
      <4> HIDE DEF at, s, p
      <4>2. SubSeq(data, W + L + 3, at) = s
        BY <4>1, Piece
      <4> QED BY <4>2 DEF s
    <3>2. m = Q
      BY <1>3, <2>2, <3>1 DEF m
    <3>3. CASE Len(data) < at + Q
      BY <1>1, <1>4, <1>5, <2>2, <3>2, <3>3
    <3>4. CASE ~(Len(data) < at + Q)
      <4>1. UnmarshalBinary(data) =
              Header(SubSeq(data, W + 1, W + L), data[W + L + 1] = 1, data[W + L + 2],
                     PayloadOf(data, at, Q))
        BY <1>1, <1>5, <1>7, <2>2, <2>4, <3>2, <3>4
      <4>2. SubSeq(data, W + 1, W + L) = h.name
        <5>1. W \in Nat /\ W + L = W + Len(h.name) /\ W + L <= Len(data)
          BY <1>1, <2>4 DEF L
        <5> QED BY <1>1, <1>2, <5>1, Piece
      <4>3. /\ data[W + L + 1] = IF h.isError THEN 1 ELSE 0
            /\ data[W + L + 2] = h.type
        <5>1. /\ Flags(h)[1] = IF h.isError THEN 1 ELSE 0
              /\ Flags(h)[2] = h.type /\ Len(Flags(h)) = 2
          BY DEF Flags
        <5>2. (W + L) + 1 <= Len(data) /\ (W + L) + 2 <= Len(data) /\ 1 \in 1 .. 2 /\ 2 \in 1 .. 2
          BY <1>1, <2>4
        <5> HIDE DEF at
        <5>3. data[(W + L) + 1] = Flags(h)[1] /\ data[(W + L) + 2] = Flags(h)[2]
          BY <1>2, <5>1, <5>2 DEF At
        <5> QED BY <5>1, <5>3
      <4>4. (data[W + L + 1] = 1) = h.isError
        <5>1. h.isError \in BOOLEAN
          BY DEF Headers
        <5> QED BY <4>3, <5>1
      <4>5. PayloadOf(data, at, Q) = h.payload
        <5>1. \A i \in 1 .. Q : at + i <= Len(data) /\ data[at + i] = h.payload[i]
          <6>1. at \in Nat
            BY <1>1
          <6> HIDE DEF at
          <6>2. \A i \in 1 .. Q : at + i <= Len(data)
            BY <1>1, <3>4, <6>1
          <6> QED BY <1>2, <6>2 DEF At, Q
        <5>2. PayloadOf(data, at, Q) = [i \in 1 .. Q |-> h.payload[i]]
          BY <5>1 DEF PayloadOf
        <5>3. h.payload = [i \in 1 .. Q |-> h.payload[i]]
          BY <1>1, LenProperties DEF Q
        <5> QED BY <5>2, <5>3
      <4>6. h = [name |-> h.name, isError |-> h.isError, type |-> h.type, payload |-> h.payload]
        BY DEF Headers
      <4>7. UnmarshalBinary(data) = h
        BY <4>1, <4>2, <4>3, <4>4, <4>5, <4>6 DEF Header
      <4> QED BY <1>1, <1>4, <3>4, <4>7
    <3> QED BY <3>3, <3>4
  <2> QED BY <2>3, <2>4
<1> QED BY <1>6, <1>7

\* A header reads back, whole.
LEMMA WholeReadsBack ==
  ASSUME NEW h \in Headers
  PROVE  ReadsBack(h)
<1>1. MarshalBinary(h) \in Seq(Nat) /\ Len(MarshalBinary(h)) = SizeOf(h)
  BY Marshalled
<1>2. Len(MarshalBinary(h)) \in Nat
  BY <1>1, LenProperties
<1>3. At(MarshalBinary(h), 0, MarshalBinary(h))
  BY <1>2 DEF At
<1>4. UnmarshalBinary(MarshalBinary(h)) =
        IF Len(MarshalBinary(h)) >= SizeOf(h) THEN h ELSE NoHeader
  BY <1>1, <1>3, UnmarshalReadsHeader
<1> QED BY <1>1, <1>2, <1>4 DEF ReadsBack

\* No beginning of a header is one.
LEMMA CutIsRefused ==
  ASSUME NEW h \in Headers
  PROVE  PrefixRefused(h)
<1> DEFINE M == MarshalBinary(h)
<1>1. M \in Seq(Nat) /\ Len(M) = SizeOf(h)
  BY Marshalled
<1> HIDE DEF M
<1>2. ASSUME NEW n \in 0 .. Len(M) - 1 PROVE UnmarshalBinary(SubSeq(M, 1, n)) = NoHeader
  <2>1. Len(M) \in Nat
    BY <1>1, LenProperties
  <2>2. n \in 0 .. Len(M) /\ ~(n >= Len(M))
    BY <2>1
  <2>3. <<>> \in Seq(Nat)
    BY EmptySeq
  <2>4. /\ SubSeq(M, 1, n) \in Seq(Nat) /\ Len(SubSeq(M, 1, n)) = n
        /\ At(SubSeq(M, 1, n), 0, M)
    BY <1>1, <2>2, <2>3, Beginnings
  <2>5. UnmarshalBinary(SubSeq(M, 1, n)) =
          IF Len(SubSeq(M, 1, n)) >= SizeOf(h) THEN h ELSE NoHeader
    BY <2>4, UnmarshalReadsHeader DEF M
  <2> QED BY <1>1, <2>2, <2>4, <2>5
<1> QED BY <1>2 DEF PrefixRefused, M

\* What follows a header, however long, does not change it.
LEMMA RestIsIgnored ==
  ASSUME NEW h \in Headers, NEW t \in Seq(Nat)
  PROVE  UnmarshalBinary(MarshalBinary(h) \o t) = h
<1> DEFINE M == MarshalBinary(h)
<1>1. M \in Seq(Nat) /\ Len(M) = SizeOf(h)
  BY Marshalled
<1> HIDE DEF M
<1>2. Len(M) \in Nat /\ Len(t) \in Nat /\ 0 \in 0 .. Len(M)
  BY <1>1, LenProperties
<1>3. M \o t \in Seq(Nat) /\ Len(M \o t) = Len(M) + Len(t) /\ At(M \o t, 0, M)
  BY <1>1, <1>2, Beginnings
<1>4. UnmarshalBinary(M \o t) = IF Len(M \o t) >= SizeOf(h) THEN h ELSE NoHeader
  BY <1>3, UnmarshalReadsHeader DEF M
<1> QED BY <1>1, <1>2, <1>3, <1>4 DEF M

-----------------------------------------------------------------------------
(* Frames.                                                                   *)

\* A frame with what its writers keep: its fields fit, what follows it is its data,
\* and only the Start frame of a Node may announce too much.
Frames == {f \in [type : Nat, id : Nat, length : Nat, data : Seq(Nat)] :
             /\ Fits(f.id) /\ Fits(f.length)
             /\ Follows(f.type, f.length) = Len(f.data)
             /\ f.length > MaxDataLength => Len(f.data) = 0}

\* Written is the iteration it is written as.
LEMMA WrittenSteps ==
  ASSUME NEW fs, Len(fs) \in Nat
  PROVE  /\ Written(fs)[0] = <<>>
         /\ \A k \in 1 .. Len(fs) : Written(fs)[k] = Written(fs)[k - 1] \o WriteFrame(fs[k])
<1> DEFINE D(w, n) == [k \in 0 .. n |-> IF k = 0 THEN <<>> ELSE w[k - 1] \o WriteFrame(fs[k])]
           T == {n \in Nat : \E w : w = D(w, n)}
<1>1. 0 \in T
  <2> DEFINE w == [k \in 0 .. 0 |-> <<>>]
  <2>1. w = D(w, 0)
    OBVIOUS
  <2> HIDE DEF w
  <2> QED BY <2>1
<1>2. ASSUME NEW n \in T PROVE n + 1 \in T
  <2>1. n \in Nat
    OBVIOUS
  <2>2. PICK w : w = D(w, n)
    OBVIOUS
  <2> DEFINE v == D(w, n + 1)
  <2>3. ASSUME NEW k \in 0 .. n PROVE v[k] = w[k]
    BY <2>1, <2>2
  <2>4. ASSUME NEW k \in 0 .. n + 1, k # 0 PROVE v[k] = v[k - 1] \o WriteFrame(fs[k])
    <3>1. k - 1 \in 0 .. n
      BY <2>1, <2>4
    <3>2. v[k] = w[k - 1] \o WriteFrame(fs[k])
      BY <2>4
    <3> QED BY <2>3, <3>1, <3>2
  <2>5. v[0] = <<>>
    BY <2>1
  <2>6. v = [k \in 0 .. n + 1 |-> v[k]]
    OBVIOUS
  <2> HIDE DEF v
  <2>7. v = D(v, n + 1)
    BY <2>4, <2>5, <2>6
  <2> QED BY <2>1, <2>7
<1>3. Len(fs) \in T
  <2> HIDE DEF T
  <2>1. T \in SUBSET Nat
    BY DEF T
  <2> QED BY <1>1, <1>2, <2>1, Induction
<1>4. Written(fs) = D(Written(fs), Len(fs))
  BY <1>3, Zenon DEF Written
<1> DEFINE w == Written(fs)
<1> HIDE DEF T, w
<1>5. \A k \in 0 .. Len(fs) :
       w[k] = IF k = 0 THEN <<>>
              ELSE w[k - 1] \o WriteFrame(fs[k])
  BY <1>4 DEF w
<1>6. w[0] = <<>> /\ \A k \in 1 .. Len(fs) : k # 0 /\ k \in 0 .. Len(fs)
  BY <1>5
<1> HIDE DEF D
<1> QED BY <1>5, <1>6 DEF w

\* Accepted is the iteration it is written as.
LEMMA AcceptedSteps ==
  ASSUME NEW fs, Len(fs) \in Nat
  PROVE  /\ Accepted(fs)[0] = <<>>
         /\ \A k \in 1 .. Len(fs) :
              Accepted(fs)[k] = IF fs[k].length <= MaxDataLength
                                  THEN Append(Accepted(fs)[k - 1], fs[k])
                                ELSE Accepted(fs)[k - 1]
<1> DEFINE D(w, n) == [k \in 0 .. n |-> IF k = 0 THEN <<>>
                                 ELSE IF fs[k].length <= MaxDataLength THEN Append(w[k - 1], fs[k])
                                 ELSE w[k - 1]]
           T == {n \in Nat : \E w : w = D(w, n)}
<1>1. 0 \in T
  <2> DEFINE w == [k \in 0 .. 0 |-> <<>>]
  <2>1. w = D(w, 0)
    OBVIOUS
  <2> HIDE DEF w
  <2> QED BY <2>1
<1>2. ASSUME NEW n \in T PROVE n + 1 \in T
  <2>1. n \in Nat
    OBVIOUS
  <2>2. PICK w : w = D(w, n)
    OBVIOUS
  <2> DEFINE v == D(w, n + 1)
  <2>3. ASSUME NEW k \in 0 .. n PROVE v[k] = w[k]
    <3>1. k \in 0 .. n + 1
      BY <2>1
    <3>2. v[k] = D(w, n)[k]
      BY <3>1
    <3> HIDE DEF D
    <3> QED BY <2>2, <3>2
  <2>4. ASSUME NEW k \in 0 .. n + 1, k # 0
        PROVE  v[k] = IF fs[k].length <= MaxDataLength THEN Append(v[k - 1], fs[k])
                      ELSE v[k - 1]
    <3>1. k - 1 \in 0 .. n
      BY <2>1, <2>4
    <3>2. v[k] = IF fs[k].length <= MaxDataLength THEN Append(w[k - 1], fs[k])
                 ELSE w[k - 1]
      BY <2>4
    <3> QED BY <2>3, <3>1, <3>2
  <2>5. v[0] = <<>>
    BY <2>1
  <2>6. v = [k \in 0 .. n + 1 |-> v[k]]
    OBVIOUS
  <2> HIDE DEF v
  <2>7. v = D(v, n + 1)
    BY <2>4, <2>5, <2>6
  <2> QED BY <2>1, <2>7
<1>3. Len(fs) \in T
  <2> HIDE DEF T
  <2>1. T \in SUBSET Nat
    BY DEF T
  <2> QED BY <1>1, <1>2, <2>1, Induction
<1>4. Accepted(fs) = D(Accepted(fs), Len(fs))
  BY <1>3, Zenon DEF Accepted
<1> DEFINE w == Accepted(fs)
<1> HIDE DEF T, w
<1>5. \A k \in 0 .. Len(fs) :
       w[k] = IF k = 0 THEN <<>>
              ELSE IF fs[k].length <= MaxDataLength THEN Append(w[k - 1], fs[k])
                              ELSE w[k - 1]
  BY <1>4 DEF w
<1>6. w[0] = <<>> /\ \A k \in 1 .. Len(fs) : k # 0 /\ k \in 0 .. Len(fs)
  BY <1>5
<1> HIDE DEF D
<1> QED BY <1>5, <1>6 DEF w

\* The turns of the loop of ReadMessage over a stream.
Turns(bytes) ==
  CHOOSE r : r = [i \in 0 .. Len(bytes) |->
                    IF i = 0 THEN [at |-> 1, got |-> <<>>] ELSE NextFrame(bytes, r[i - 1])]

\* FramesFrom is the last of them.
LEMMA TurnsSteps ==
  ASSUME NEW bytes, Len(bytes) \in Nat
  PROVE  /\ FramesFrom(bytes) = Turns(bytes)[Len(bytes)].got
         /\ Turns(bytes)[0] = [at |-> 1, got |-> <<>>]
         /\ \A k \in 1 .. Len(bytes) : Turns(bytes)[k] = NextFrame(bytes, Turns(bytes)[k - 1])
<1> DEFINE D(w, n) == [k \in 0 .. n |->
                       IF k = 0 THEN [at |-> 1, got |-> <<>>] ELSE NextFrame(bytes, w[k - 1])]
           T == {n \in Nat : \E w : w = D(w, n)}
<1>1. 0 \in T
  <2> DEFINE w == [k \in 0 .. 0 |-> [at |-> 1, got |-> <<>>]]
  <2>1. w = D(w, 0)
    OBVIOUS
  <2> HIDE DEF w
  <2> QED BY <2>1
<1>2. ASSUME NEW n \in T PROVE n + 1 \in T
  <2>1. n \in Nat
    OBVIOUS
  <2>2. PICK w : w = D(w, n)
    OBVIOUS
  <2> DEFINE v == D(w, n + 1)
  <2>3. ASSUME NEW k \in 0 .. n PROVE v[k] = w[k]
    BY <2>1, <2>2
  <2>4. ASSUME NEW k \in 0 .. n + 1, k # 0 PROVE v[k] = NextFrame(bytes, v[k - 1])
    <3>1. k - 1 \in 0 .. n
      BY <2>1, <2>4
    <3>2. v[k] = NextFrame(bytes, w[k - 1])
      BY <2>4
    <3> QED BY <2>3, <3>1, <3>2
  <2>5. v[0] = [at |-> 1, got |-> <<>>]
    BY <2>1
  <2>6. v = [k \in 0 .. n + 1 |-> v[k]]
    OBVIOUS
  <2> HIDE DEF v
  <2>7. v = D(v, n + 1)
    BY <2>4, <2>5, <2>6
  <2> QED BY <2>1, <2>7
<1>3. Len(bytes) \in T
  <2> HIDE DEF T
  <2>1. T \in SUBSET Nat
    BY DEF T
  <2> QED BY <1>1, <1>2, <2>1, Induction
<1>4. Turns(bytes) = D(Turns(bytes), Len(bytes))
  BY <1>3, Zenon DEF Turns
<1>5. FramesFrom(bytes) = Turns(bytes)[Len(bytes)].got
  BY Zenon DEF FramesFrom, Turns
<1> DEFINE w == Turns(bytes)
<1> HIDE DEF T, w
<1>6. \A k \in 0 .. Len(bytes) :
       w[k] = IF k = 0 THEN [at |-> 1, got |-> <<>>]
              ELSE NextFrame(bytes, w[k - 1])
  BY <1>4 DEF w
<1>7. w[0] = [at |-> 1, got |-> <<>>] /\ \A k \in 1 .. Len(bytes) : k # 0 /\ k \in 0 .. Len(bytes)
  BY <1>6
<1> HIDE DEF D
<1> QED BY <1>5, <1>6, <1>7 DEF w

\* The bytes of a frame, and its fields, each at its place where a stream goes on
\* with it.
LEMMA FrameFields ==
  ASSUME NEW f \in Frames
  PROVE  /\ WriteFrame(f) \in Seq(Nat) /\ Len(WriteFrame(f)) = HeaderSize + Len(f.data)
         /\ \A bytes \in Seq(Nat), p \in Nat : At(bytes, p, WriteFrame(f)) =>
              /\ At(bytes, p, <<f.type>>)
              /\ At(bytes, p + 1, BigEndian(f.id))
              /\ At(bytes, p + 1 + Width, BigEndian(f.length))
              /\ At(bytes, p + HeaderSize, f.data)
<1> DEFINE a == <<f.type>>
           b == BigEndian(f.id)
           c == BigEndian(f.length)
           d == f.data
<1>1. /\ b \in Seq(Nat) /\ Len(b) = Width /\ c \in Seq(Nat) /\ Len(c) = Width
  <2>1. f.id \in Nat /\ f.length \in Nat /\ Fits(f.id) /\ Fits(f.length)
    BY DEF Frames
  <2> QED BY <2>1, NumberReadsBack
<1>2. a \in Seq(Nat) /\ Len(a) = 1 /\ d \in Seq(Nat)
  BY DEF Frames
<1>3. WriteFrame(f) = ((a \o b) \o c) \o d
  BY DEF WriteFrame
<1>4. Width \in Nat /\ Len(d) \in Nat /\ HeaderSize = 1 + 2 * Width
  BY <1>2, CodecAssumption, LenProperties DEF HeaderSize
<1> HIDE DEF a, b, c, d
<1>5. a \o b \in Seq(Nat) /\ Len(a \o b) = 1 + Width
  <2>1. a \o b \in Seq(Nat) /\ Len(a \o b) = Len(a) + Len(b)
    BY <1>1, <1>2, ConcatProperties
  <2> QED BY <1>1, <1>2, <2>1
<1>6. (a \o b) \o c \in Seq(Nat) /\ Len((a \o b) \o c) = (1 + Width) + Width
  <2>1. (a \o b) \o c \in Seq(Nat) /\ Len((a \o b) \o c) = Len(a \o b) + Len(c)
    BY <1>1, <1>5, ConcatProperties
  <2> QED BY <1>1, <1>5, <2>1
<1>7. /\ ((a \o b) \o c) \o d \in Seq(Nat)
      /\ Len(((a \o b) \o c) \o d) = ((1 + Width) + Width) + Len(d)
  <2>1. /\ ((a \o b) \o c) \o d \in Seq(Nat)
        /\ Len(((a \o b) \o c) \o d) = Len((a \o b) \o c) + Len(d)
    BY <1>2, <1>6, ConcatProperties
  <2> QED BY <1>6, <2>1
<1>8. ASSUME NEW bytes \in Seq(Nat), NEW p \in Nat, At(bytes, p, WriteFrame(f))
      PROVE  /\ At(bytes, p, a) /\ At(bytes, p + 1, b)
             /\ At(bytes, p + 1 + Width, c) /\ At(bytes, p + HeaderSize, d)
  <2>1. At(bytes, p, (a \o b) \o c) /\ At(bytes, p + Len((a \o b) \o c), d)
    <3> DEFINE s == (a \o b) \o c
    <3>1. s \in Seq(Nat) /\ At(bytes, p, s \o d)
      BY <1>3, <1>6, <1>8
    <3> HIDE DEF s
    <3>2. At(bytes, p, s) /\ At(bytes, p + Len(s), d)
      BY <1>2, <3>1, Pieces
    <3> QED BY <3>2 DEF s
  <2>2. At(bytes, p, a \o b) /\ At(bytes, p + Len(a \o b), c)
    BY <1>1, <1>5, <2>1, Pieces
  <2>3. At(bytes, p, a) /\ At(bytes, p + Len(a), b)
    BY <1>1, <1>2, <2>2, Pieces
  <2>4. /\ p + Len(a) = p + 1 /\ p + Len(a \o b) = p + 1 + Width
        /\ p + Len((a \o b) \o c) = p + HeaderSize
    BY <1>2, <1>4, <1>5, <1>6
  <2> QED BY <2>1, <2>2, <2>3, <2>4
<1>9. Len(WriteFrame(f)) = HeaderSize + Len(d)
  BY <1>3, <1>4, <1>7
<1> QED BY <1>3, <1>7, <1>8, <1>9 DEF a, b, c, d

\* The loop where a stream goes on with a frame: it gets the frame, or passes its
\* header, if all of it is there.
LEMMA Turn ==
  ASSUME NEW f \in Frames, NEW bytes \in Seq(Nat), NEW p \in Nat,
         At(bytes, p, WriteFrame(f)), NEW got
  PROVE  NextFrame(bytes, [at |-> p + 1, got |-> got]) =
           IF Len(bytes) >= p + Len(WriteFrame(f))
             THEN [at |-> p + Len(WriteFrame(f)) + 1,
                   got |-> IF f.length <= MaxDataLength THEN Append(got, f) ELSE got]
           ELSE [at |-> p + 1, got |-> got]
<1> DEFINE W == Width
           H == HeaderSize
           at == p + 1
           data == at + H
           length == Number(SubSeq(bytes, at + 1 + W, at + 2 * W))
           next == data + Follows(bytes[at], length)
           fr == [type |-> bytes[at], id |-> Number(SubSeq(bytes, at + 1, at + W)),
                  length |-> length, data |-> SubSeq(bytes, data, next - 1)]
           r == [at |-> at, got |-> got]
<1>1. /\ W \in Nat \ {0} /\ Len(bytes) \in Nat /\ H = 1 + 2 * W /\ MaxDataLength \in Nat
  BY CodecAssumption, LenProperties DEF HeaderSize
<1>2. /\ f.type \in Nat /\ f.id \in Nat /\ f.length \in Nat /\ f.data \in Seq(Nat)
      /\ Fits(f.id) /\ Fits(f.length) /\ Follows(f.type, f.length) = Len(f.data)
      /\ f.length > MaxDataLength => Len(f.data) = 0
      /\ f = [type |-> f.type, id |-> f.id, length |-> f.length, data |-> f.data]
      /\ Len(f.data) \in Nat
  BY LenProperties DEF Frames
<1>3. /\ Len(WriteFrame(f)) = H + Len(f.data)
      /\ At(bytes, p, <<f.type>>) /\ At(bytes, p + 1, BigEndian(f.id))
      /\ At(bytes, p + 1 + W, BigEndian(f.length)) /\ At(bytes, p + H, f.data)
  BY FrameFields
<1>4. NextFrame(bytes, r) =
        IF data > Len(bytes) + 1 THEN r
        ELSE IF length > MaxDataLength THEN [at |-> data, got |-> got]
        ELSE IF next > Len(bytes) + 1 THEN r
        ELSE [at |-> next, got |-> Append(got, fr)]
  BY DEF NextFrame
<1> HIDE DEF W, H, fr, length
<1>5. CASE data > Len(bytes) + 1
  <2>1. NextFrame(bytes, r) = r
    BY <1>4, <1>5
  <2>2. ~(Len(bytes) >= p + Len(WriteFrame(f)))
    <3> DEFINE l == Len(f.data)
    <3>1. l \in Nat /\ Len(WriteFrame(f)) = H + l
      BY <1>2, <1>3
    <3> HIDE DEF l
    <3> QED BY <1>1, <1>5, <3>1
  <2> QED BY <2>1, <2>2
<1>6. CASE ~(data > Len(bytes) + 1)
  <2>1. bytes[at] = f.type
    <3>1. 1 \in 1 .. Len(<<f.type>>) /\ p + 1 <= Len(bytes)
      BY <1>1, <1>6
    <3>2. bytes[p + 1] = <<f.type>>[1]
      BY <1>3, <3>1 DEF At
    <3> QED BY <3>2
  <2>2. SubSeq(bytes, at + 1, at + W) = BigEndian(f.id)
    <3> DEFINE s == BigEndian(f.id)
               q == p + 1
    <3>1. s \in Seq(Nat) /\ Len(s) = W /\ At(bytes, q, s)
      BY <1>2, <1>3, NumberReadsBack DEF W
    <3> HIDE DEF s
    <3>2. q \in Nat /\ at + 1 = q + 1 /\ at + W = q + Len(s) /\ at + W <= Len(bytes)
      BY <1>1, <1>6, <3>1
    <3> DEFINE x == at + 1
               y == at + W
    <3>3. q \in Nat /\ x = q + 1 /\ y = q + Len(s) /\ y <= Len(bytes)
      BY <3>2
    <3> HIDE DEF q, x, y
    <3>4. SubSeq(bytes, x, y) = s
      BY <3>1, <3>3, Piece
    <3> QED BY <3>4 DEF s, x, y
  <2>3. SubSeq(bytes, at + 1 + W, at + 2 * W) = BigEndian(f.length)
    <3> DEFINE s == BigEndian(f.length)
               q == p + 1 + W
    <3>1. s \in Seq(Nat) /\ Len(s) = W /\ At(bytes, q, s)
      BY <1>2, <1>3, NumberReadsBack DEF W
    <3> HIDE DEF s
    <3>2. q \in Nat /\ at + 1 + W = q + 1 /\ at + 2 * W = q + Len(s) /\ at + 2 * W <= Len(bytes)
      BY <1>1, <1>6, <3>1
    <3> DEFINE x == at + 1 + W
               y == at + 2 * W
    <3>3. q \in Nat /\ x = q + 1 /\ y = q + Len(s) /\ y <= Len(bytes)
      BY <3>2
    <3> HIDE DEF q, x, y
    <3>4. SubSeq(bytes, x, y) = s
      BY <3>1, <3>3, Piece
    <3> QED BY <3>4 DEF s, x, y
  <2>4. length = f.length
    BY <1>2, <2>3, NumberReadsBack DEF length
  <2>5. next = (p + H) + Len(f.data) + 1
    BY <1>1, <1>2, <2>1, <2>4
  <2>6. CASE f.length > MaxDataLength
    <3>1. ~(f.length <= MaxDataLength) /\ Len(f.data) = 0
      BY <1>1, <1>2, <2>6
    <3>2. NextFrame(bytes, r) = [at |-> data, got |-> got]
      BY <1>4, <1>6, <2>4, <2>6
    <3>3. data = p + Len(WriteFrame(f)) + 1 /\ Len(bytes) >= p + Len(WriteFrame(f))
      BY <1>1, <1>3, <1>6, <3>1
    <3> QED BY <3>1, <3>2, <3>3
  <2>7. CASE ~(f.length > MaxDataLength)
    <3>1. f.length <= MaxDataLength
      BY <1>1, <1>2, <2>7
    <3>2. CASE next > Len(bytes) + 1
      <4>1. NextFrame(bytes, r) = r
        BY <1>4, <1>6, <2>4, <2>7, <3>2
      <4>2. ~(Len(bytes) >= p + Len(WriteFrame(f)))
        <5> DEFINE l == Len(f.data)
        <5>1. /\ l \in Nat /\ Len(WriteFrame(f)) = H + l
              /\ next = (p + H) + l + 1
          BY <1>2, <1>3, <2>5
        <5> HIDE DEF next, l
        <5> QED BY <1>1, <3>2, <5>1
      <4> QED BY <4>1, <4>2
    <3>3. CASE ~(next > Len(bytes) + 1)
      <4>1. NextFrame(bytes, r) = [at |-> next, got |-> Append(got, fr)]
        BY <1>4, <1>6, <2>4, <2>7, <3>3
      <4>2. SubSeq(bytes, data, next - 1) = f.data
        <5> DEFINE s == f.data
                   q == p + H
                   e == next - 1
        <5>1. s \in Seq(Nat) /\ At(bytes, q, s) /\ Len(s) \in Nat
          BY <1>2, <1>3
        <5>2. next = q + Len(s) + 1
          BY <2>5
        <5>3. q \in Nat /\ data = q + 1
          BY <1>1
        <5> HIDE DEF next, s, q
        <5>4. e = q + Len(s) /\ e <= Len(bytes)
          BY <1>1, <3>3, <5>1, <5>2, <5>3
        <5> HIDE DEF data, e
        <5>5. SubSeq(bytes, data, e) = s
          BY <5>1, <5>3, <5>4, Piece
        <5> QED BY <5>5 DEF s, e
      <4>3. Number(SubSeq(bytes, at + 1, at + W)) = f.id
        BY <1>2, <2>2, NumberReadsBack
      <4>4. fr = f
        BY <1>2, <2>1, <2>4, <4>2, <4>3 DEF fr
      <4>5. next = p + Len(WriteFrame(f)) + 1 /\ Len(bytes) >= p + Len(WriteFrame(f))
        <5> DEFINE l == Len(f.data)
        <5>1. /\ l \in Nat /\ Len(WriteFrame(f)) = H + l
              /\ next = (p + H) + l + 1
          BY <1>2, <1>3, <2>5
        <5> HIDE DEF next, l
        <5> QED BY <1>1, <3>3, <5>1
      <4> HIDE DEF next
      <4> QED BY <3>1, <4>1, <4>4, <4>5
    <3> QED BY <3>2, <3>3
  <2> QED BY <2>6, <2>7
<1> QED BY <1>5, <1>6

\* The loop at the end of the stream gets no more.
LEMMA LastTurn ==
  ASSUME NEW bytes, Len(bytes) \in Nat, NEW got
  PROVE  NextFrame(bytes, [at |-> Len(bytes) + 1, got |-> got]) =
           [at |-> Len(bytes) + 1, got |-> got]
<1>1. HeaderSize \in Nat \ {0}
  BY CodecAssumption DEF HeaderSize
<1>2. (Len(bytes) + 1) + HeaderSize > Len(bytes) + 1
  BY <1>1
<1> QED BY <1>2 DEF NextFrame

\* The streams of the first frames, each longer than the one before.
LEMMA WrittenGrows ==
  ASSUME NEW fs \in Seq(Frames)
  PROVE  /\ \A k \in 0 .. Len(fs) : Written(fs)[k] \in Seq(Nat) /\ k <= Len(Written(fs)[k])
         /\ \A k \in 1 .. Len(fs) :
              /\ WriteFrame(fs[k]) \in Seq(Nat)
              /\ Len(Written(fs)[k]) = Len(Written(fs)[k - 1]) + Len(WriteFrame(fs[k]))
         /\ \A k \in 0 .. Len(fs) : \A j \in 0 .. k :
              Len(Written(fs)[j]) <= Len(Written(fs)[k])
<1> DEFINE w == Written(fs)
<1>1. Len(fs) \in Nat
  BY LenProperties
<1>2. w[0] = <<>> /\ \A k \in 1 .. Len(fs) : w[k] = w[k - 1] \o WriteFrame(fs[k])
  BY <1>1, WrittenSteps
<1> HIDE DEF w
<1>3. ASSUME NEW k \in 1 .. Len(fs)
      PROVE  WriteFrame(fs[k]) \in Seq(Nat) /\ Len(WriteFrame(fs[k])) \in Nat \ {0}
  <2>1. fs[k] \in Frames
    BY ElementOfSeq
  <2>2. fs[k].data \in Seq(Nat)
    BY <2>1 DEF Frames
  <2>3. Len(fs[k].data) \in Nat /\ HeaderSize \in Nat \ {0}
    BY <2>2, CodecAssumption, LenProperties DEF HeaderSize
  <2>4. /\ WriteFrame(fs[k]) \in Seq(Nat)
        /\ Len(WriteFrame(fs[k])) = HeaderSize + Len(fs[k].data)
    BY <2>1, FrameFields
  <2> QED BY <2>3, <2>4
<1> DEFINE Grown(k) == /\ w[k] \in Seq(Nat) /\ k <= Len(w[k])
                       /\ \A j \in 0 .. k : Len(w[j]) \in Nat /\ Len(w[j]) <= Len(w[k])
           T == {k \in Nat : k <= Len(fs) => Grown(k)}
<1>4. 0 \in T
  <2>1. <<>> \in Seq(Nat) /\ Len(<<>>) = 0
    BY EmptySeq
  <2>2. w[0] \in Seq(Nat) /\ Len(w[0]) = 0
    BY <1>2, <2>1
  <2>3. \A j \in 0 .. 0 : Len(w[j]) \in Nat /\ Len(w[j]) <= Len(w[0])
    <3>1. \A j \in 0 .. 0 : j = 0
      OBVIOUS
    <3> QED BY <2>2, <3>1
  <2>4. Grown(0)
    BY <2>2, <2>3
  <2> HIDE DEF Grown
  <2> QED BY <2>4
<1>5. ASSUME NEW k \in T PROVE k + 1 \in T
  <2>1. SUFFICES ASSUME k + 1 <= Len(fs) PROVE Grown(k + 1)
    OBVIOUS
  <2>2. k \in Nat /\ k + 1 \in 1 .. Len(fs) /\ (k + 1) - 1 = k /\ Grown(k)
    BY <1>1, <2>1
  <2> DEFINE e == WriteFrame(fs[k + 1])
  <2>3. e \in Seq(Nat) /\ Len(e) \in Nat \ {0} /\ w[k + 1] = w[k] \o e
    BY <1>2, <1>3, <2>2
  <2> HIDE DEF e, T
  <2>4. /\ w[k + 1] \in Seq(Nat) /\ Len(w[k + 1]) = Len(w[k]) + Len(e)
        /\ Len(w[k]) \in Nat
    BY <2>2, <2>3, ConcatProperties, LenProperties
  <2>5. ASSUME NEW j \in 0 .. k + 1
        PROVE  Len(w[j]) \in Nat /\ Len(w[j]) <= Len(w[k + 1])
    <3>1. CASE j = k + 1
      <4>1. Len(w[k + 1]) \in Nat
        BY <2>4, LenProperties
      <4> QED BY <3>1, <4>1
    <3>2. CASE j # k + 1
      <4>1. j \in 0 .. k
        BY <2>2, <3>2
      <4>2. Len(w[j]) \in Nat /\ Len(w[j]) <= Len(w[k])
        BY <2>2, <4>1
      <4> QED BY <2>3, <2>4, <4>2
    <3> QED BY <3>1, <3>2
  <2>6. k + 1 <= Len(w[k + 1])
    BY <2>2, <2>3, <2>4
  <2> QED BY <2>4, <2>5, <2>6
<1>6. \A k \in 0 .. Len(fs) : Grown(k)
  <2>1. T = Nat
    <3> HIDE DEF T
    <3>1. T \in SUBSET Nat
      BY DEF T
    <3> QED BY <1>4, <1>5, <3>1, Induction
  <2> HIDE DEF Grown
  <2>2. \A k \in 0 .. Len(fs) : k \in T /\ k <= Len(fs)
    BY <1>1, <2>1
  <2> QED BY <2>2
<1>7. ASSUME NEW k \in 1 .. Len(fs)
      PROVE  Len(w[k]) = Len(w[k - 1]) + Len(WriteFrame(fs[k]))
  <2>1. k - 1 \in 0 .. Len(fs)
    BY <1>1
  <2>2. w[k - 1] \in Seq(Nat)
    BY <1>6, <2>1
  <2> QED BY <1>2, <1>3, <2>2, ConcatProperties
<1> QED BY <1>3, <1>6, <1>7 DEF w

\* Where data begins with a stream it begins with each shorter one, and goes on
\* with the next frame.
LEMMA WrittenAt ==
  ASSUME NEW fs \in Seq(Frames), NEW bytes \in Seq(Nat),
         At(bytes, 0, Written(fs)[Len(fs)])
  PROVE  \A k \in 1 .. Len(fs) : At(bytes, Len(Written(fs)[k - 1]), WriteFrame(fs[k]))
<1> DEFINE w == Written(fs)
           n == Len(fs)
<1>1. n \in Nat
  BY LenProperties
<1>2. \A k \in 1 .. n : w[k] = w[k - 1] \o WriteFrame(fs[k]) /\ WriteFrame(fs[k]) \in Seq(Nat)
  BY <1>1, WrittenSteps, WrittenGrows
<1>3. \A k \in 0 .. n : w[k] \in Seq(Nat)
  BY WrittenGrows
<1>4. At(bytes, 0, w[n])
  OBVIOUS
<1> HIDE DEF w, n
<1>5. ASSUME NEW k \in 1 .. n, At(bytes, 0, w[k])
      PROVE  At(bytes, 0, w[k - 1]) /\ At(bytes, Len(w[k - 1]), WriteFrame(fs[k]))
  <2> DEFINE s == w[k - 1]
             t == WriteFrame(fs[k])
  <2>1. k - 1 \in 0 .. n
    BY <1>1
  <2>2. s \in Seq(Nat) /\ t \in Seq(Nat) /\ 0 \in Nat /\ At(bytes, 0, s \o t)
    BY <1>2, <1>3, <1>5, <2>1
  <2>3. Len(s) \in Nat
    BY <2>2, LenProperties
  <2> HIDE DEF s, t
  <2>4. At(bytes, 0, s) /\ At(bytes, 0 + Len(s), t)
    BY <2>2, Pieces
  <2>5. 0 + Len(s) = Len(s)
    BY <2>3
  <2> QED BY <2>4, <2>5 DEF s, t
<1> DEFINE T == {j \in Nat : j <= n => At(bytes, 0, w[n - j])}
<1>6. 0 \in T
  <2>1. n - 0 = n
    BY <1>1
  <2> QED BY <1>4, <2>1
<1>7. ASSUME NEW j \in T PROVE j + 1 \in T
  <2>1. SUFFICES ASSUME j + 1 <= n PROVE At(bytes, 0, w[n - (j + 1)])
    OBVIOUS
  <2>2. n - j \in 1 .. n /\ (n - j) - 1 = n - (j + 1) /\ At(bytes, 0, w[n - j])
    BY <1>1, <2>1
  <2> HIDE DEF T
  <2>3. At(bytes, 0, w[(n - j) - 1])
    BY <1>5, <2>2
  <2> QED BY <2>2, <2>3
<1>8. T = Nat
  <2> HIDE DEF T
  <2>1. T \in SUBSET Nat
    BY DEF T
  <2> QED BY <1>6, <1>7, <2>1, Induction
<1>9. ASSUME NEW k \in 1 .. n PROVE At(bytes, 0, w[k])
  <2>1. n - k \in Nat /\ n - k <= n /\ n - (n - k) = k
    BY <1>1
  <2>2. At(bytes, 0, w[n - (n - k)])
    BY <1>8, <2>1
  <2> QED BY <2>1, <2>2
<1> QED BY <1>5, <1>9 DEF w, n

\* The loop of ReadMessage over a stream with the first k of fs whole in it, and no
\* more.
LEMMA LoopReads ==
  ASSUME NEW fs \in Seq(Frames), NEW bytes \in Seq(Nat), NEW k \in 0 .. Len(fs),
         At(bytes, 0, Written(fs)[Len(fs)]),
         Len(Written(fs)[k]) <= Len(bytes),
         IF k = Len(fs) THEN Len(bytes) = Len(Written(fs)[k])
         ELSE Len(bytes) < Len(Written(fs)[k + 1])
  PROVE  FramesFrom(bytes) = Accepted(fs)[k]
<1> DEFINE w == Written(fs)
           a == Accepted(fs)
           r == Turns(bytes)
           n == Len(fs)
           m == Len(bytes)
           After(i) == [at |-> Len(w[i]) + 1, got |-> a[i]]
<1>1. n \in Nat /\ m \in Nat /\ k \in Nat /\ k <= n
  BY LenProperties
<1>2. /\ \A i \in 0 .. n : w[i] \in Seq(Nat) /\ i <= Len(w[i])
      /\ \A i \in 1 .. n : Len(w[i]) = Len(w[i - 1]) + Len(WriteFrame(fs[i]))
      /\ \A i \in 0 .. n : \A j \in 0 .. i : Len(w[j]) <= Len(w[i])
  BY WrittenGrows
<1>3. /\ w[0] = <<>> /\ a[0] = <<>>
      /\ \A i \in 1 .. n : a[i] = IF fs[i].length <= MaxDataLength THEN Append(a[i - 1], fs[i])
                                  ELSE a[i - 1]
  BY <1>1, WrittenSteps, AcceptedSteps
<1>4. /\ FramesFrom(bytes) = r[m].got /\ r[0] = [at |-> 1, got |-> <<>>]
      /\ \A i \in 1 .. m : r[i] = NextFrame(bytes, r[i - 1])
  BY <1>1, TurnsSteps
<1>5. \A i \in 1 .. n : At(bytes, Len(w[i - 1]), WriteFrame(fs[i])) /\ fs[i] \in Frames
  BY WrittenAt, ElementOfSeq
<1>6. /\ Len(w[k]) <= m
      /\ IF k = n THEN m = Len(w[k]) ELSE m < Len(w[k + 1])
  OBVIOUS
<1> HIDE DEF w, a, r, n, m
<1>7. \A i \in 0 .. n : Len(w[i]) \in Nat
  BY <1>2, LenProperties
<1>8. ASSUME NEW i \in 1 .. n
      PROVE  NextFrame(bytes, After(i - 1)) = IF m >= Len(w[i]) THEN After(i) ELSE After(i - 1)
  <2> DEFINE p == Len(w[i - 1])
             f == fs[i]
             got == a[i - 1]
  <2>1. i - 1 \in 0 .. n
    BY <1>1
  <2>2. p \in Nat /\ f \in Frames /\ At(bytes, p, WriteFrame(f)) /\ Len(w[i]) = p + Len(WriteFrame(f))
    BY <1>2, <1>5, <1>7, <2>1
  <2>3. a[i] = IF f.length <= MaxDataLength THEN Append(got, f) ELSE got
    BY <1>3
  <2>4. After(i - 1) = [at |-> p + 1, got |-> got]
    OBVIOUS
  <2> HIDE DEF p, f, got
  <2>5. NextFrame(bytes, [at |-> p + 1, got |-> got]) =
           IF m >= p + Len(WriteFrame(f))
             THEN [at |-> p + Len(WriteFrame(f)) + 1,
                   got |-> IF f.length <= MaxDataLength THEN Append(got, f) ELSE got]
           ELSE [at |-> p + 1, got |-> got]
    BY <2>2, Turn DEF m
  <2> QED BY <2>2, <2>3, <2>4, <2>5
<1> DEFINE T == {i \in Nat : i <= k => r[i] = After(i)}
<1>9. 0 \in T
  <2>1. Len(w[0]) = 0
    BY <1>3, EmptySeq
  <2> QED BY <1>3, <1>4, <2>1
<1>10. ASSUME NEW i \in T PROVE i + 1 \in T
  <2>1. SUFFICES ASSUME i + 1 <= k PROVE r[i + 1] = After(i + 1)
    OBVIOUS
  <2>2. r[i] = After(i) /\ i + 1 \in 1 .. n /\ (i + 1) - 1 = i /\ i + 1 \in 0 .. n /\ i + 1 \in 0 .. k
    BY <1>1, <2>1
  <2>3. Len(w[i + 1]) <= Len(w[k]) /\ i + 1 <= Len(w[i + 1])
    BY <1>1, <1>2, <2>2
  <2>4. m >= Len(w[i + 1]) /\ i + 1 \in 1 .. m
    BY <1>1, <1>6, <1>7, <2>2, <2>3
  <2> HIDE DEF After, T
  <2>5. r[i + 1] = NextFrame(bytes, After(i))
    BY <1>4, <2>2, <2>4
  <2>6. NextFrame(bytes, After(i)) = After(i + 1)
    BY <1>8, <2>2, <2>4
  <2> QED BY <2>5, <2>6
<1>11. T = Nat
  <2> HIDE DEF T
  <2>1. T \in SUBSET Nat
    BY DEF T
  <2> QED BY <1>9, <1>10, <2>1, Induction
<1>12. r[k] = After(k)
  <2>1. k \in T
    BY <1>1, <1>11
  <2> HIDE DEF After
  <2> QED BY <1>1, <2>1
<1>13. NextFrame(bytes, After(k)) = After(k)
  <2>1. CASE k = n
    <3>1. m = Len(w[k])
      BY <1>6, <2>1
    <3>2. NextFrame(bytes, [at |-> m + 1, got |-> a[k]]) = [at |-> m + 1, got |-> a[k]]
      BY <1>1, LastTurn DEF m
    <3> QED BY <3>1, <3>2
  <2>2. CASE k # n
    <3>1. k + 1 \in 1 .. n /\ k + 1 \in 0 .. n /\ (k + 1) - 1 = k
      BY <1>1, <2>2
    <3>2. ~(m >= Len(w[k + 1]))
      BY <1>1, <1>6, <1>7, <2>2, <3>1
    <3> HIDE DEF After
    <3> QED BY <1>8, <3>1, <3>2
  <2> QED BY <2>1, <2>2
<1> HIDE DEF T, After
<1> DEFINE U == {j \in Nat : k + j <= m => r[k + j] = After(k)}
<1>14. 0 \in U
  <2>1. k + 0 = k
    BY <1>1
  <2> QED BY <1>12, <2>1
<1>15. ASSUME NEW j \in U PROVE j + 1 \in U
  <2>1. SUFFICES ASSUME k + (j + 1) <= m PROVE r[k + (j + 1)] = After(k)
    OBVIOUS
  <2>2. k + (j + 1) \in 1 .. m /\ (k + (j + 1)) - 1 = k + j /\ r[k + j] = After(k)
    BY <1>1, <2>1
  <2> HIDE DEF U
  <2>3. r[k + (j + 1)] = NextFrame(bytes, r[(k + (j + 1)) - 1])
    BY <1>4, <2>2
  <2> QED BY <1>13, <2>2, <2>3
<1>16. U = Nat
  <2> HIDE DEF U
  <2>1. U \in SUBSET Nat
    BY DEF U
  <2> QED BY <1>14, <1>15, <2>1, Induction
<1>17. r[m] = After(k)
  <2>1. k <= Len(w[k]) /\ Len(w[k]) \in Nat
    BY <1>1, <1>2, <1>7
  <2>2. m - k \in Nat /\ k + (m - k) = m /\ m <= m
    BY <1>1, <1>6, <2>1
  <2>3. m - k \in U
    BY <1>16, <2>2
  <2>4. r[k + (m - k)] = After(k)
    BY <2>2, <2>3
  <2> QED BY <2>2, <2>4
<1> QED BY <1>4, <1>17 DEF After, a

\* ReadMessage gets of a stream of frames, cut anywhere, those that are whole in it
\* and within the limit, however many there are and whatever they hold.
THEOREM FramesComeBack == \A fs \in Seq(Frames) : StreamReadsBack(fs)
<1> TAKE fs \in Seq(Frames)
<1> DEFINE w == Written(fs)
           n == Len(fs)
           stream == w[n]
<1>1. n \in Nat
  BY LenProperties
<1>2. /\ \A i \in 0 .. n : w[i] \in Seq(Nat)
      /\ \A i \in 0 .. n : \A j \in 0 .. i : Len(w[j]) <= Len(w[i])
  BY WrittenGrows
<1>3. stream \in Seq(Nat) /\ Len(stream) \in Nat
  BY <1>1, <1>2, LenProperties
<1> HIDE DEF w, n, stream
<1>4. FramesFrom(stream) = Accepted(fs)[n]
  <2>1. At(stream, 0, stream)
    BY <1>3 DEF At
  <2>2. n \in 0 .. n /\ n = Len(fs) /\ stream = Written(fs)[Len(fs)] /\ stream = Written(fs)[n]
    BY <1>1 DEF stream, w, n
  <2>3. Len(Written(fs)[n]) <= Len(stream) /\ Len(stream) = Len(Written(fs)[n])
    BY <1>3, <2>2
  <2> QED BY <1>3, <2>1, <2>2, <2>3, LoopReads
<1>5. ASSUME NEW k \in 1 .. n, NEW i \in Len(w[k - 1]) .. Len(w[k]) - 1
      PROVE  FramesFrom(SubSeq(stream, 1, i)) = Accepted(fs)[k - 1]
  <2> DEFINE cut == SubSeq(stream, 1, i)
             j == k - 1
  <2>1. j \in 0 .. n /\ j # n /\ j + 1 = k /\ k \in 0 .. n /\ n \in 0 .. n
    BY <1>1
  <2>2. Len(w[j]) \in Nat /\ Len(w[k]) \in Nat /\ Len(w[k]) <= Len(stream)
    BY <1>1, <1>2, <2>1, LenProperties DEF stream
  <2>3. i \in 0 .. Len(stream)
    BY <1>3, <2>2
  <2>4. <<>> \in Seq(Nat)
    BY EmptySeq
  <2>5. cut \in Seq(Nat) /\ Len(cut) = i /\ At(cut, 0, stream)
    BY <1>3, <2>3, <2>4, Beginnings
  <2>6. Len(w[j]) <= i /\ i < Len(w[k])
    BY <2>2
  <2> HIDE DEF cut, j
  <2>7. /\ j \in 0 .. Len(fs) /\ j # Len(fs) /\ At(cut, 0, Written(fs)[Len(fs)])
        /\ Len(Written(fs)[j]) <= Len(cut) /\ Len(cut) < Len(Written(fs)[j + 1])
    BY <2>1, <2>5, <2>6 DEF stream, w, n
  <2>8. FramesFrom(cut) = Accepted(fs)[j]
    BY <2>5, <2>7, LoopReads
  <2> QED BY <2>8 DEF cut, j
<1> QED BY <1>4, <1>5 DEF StreamReadsBack, stream, w, n

-----------------------------------------------------------------------------
(* The messages on their way.                                                *)

\* A text is bytes, and its length fits.
LEMMA TextFits ==
  ASSUME NEW s \in Texts
  PROVE  s \in Seq(Nat) /\ Len(s) \in 0 .. MaxText /\ Fits(Len(s))
<1>1. /\ MaxDataLength \in Nat /\ MaxText \in 0 .. MaxDataLength
      /\ Fits(MaxDataLength + 1) /\ Base \in Nat
  BY CodecAssumption
<1>2. PICK n \in 0 .. MaxText : s \in [1 .. n -> Bytes]
  BY DEF Texts, SeqOf
<1>3. n \in Nat /\ Bytes \subseteq Nat
  BY <1>1, <1>2 DEF Bytes
<1>4. s \in [1 .. n -> Nat] /\ DOMAIN s = 1 .. n
  BY <1>2, <1>3
<1>5. s \in Seq(Nat)
  BY <1>3, <1>4, SeqDef
<1>6. Len(s) = n
  BY <1>3, <1>4, <1>5, LenProperties
<1>7. Len(s) \in 0 .. MaxText /\ Len(s) \in 0 .. MaxDataLength + 1 /\ MaxDataLength + 1 \in Nat
  BY <1>1, <1>6
<1>8. Fits(Len(s))
  BY <1>1, <1>7, LessFits
<1> QED BY <1>5, <1>7, <1>8

\* The headers of a type are headers.
LEMMA TypedHeaders ==
  ASSUME NEW t \in MessageTypes, NEW h \in HeadersOfType(t)
  PROVE  h \in Headers
<1>1. PICK n \in Texts, e \in BOOLEAN, p \in Texts : h = Header(n, e, t, p)
  BY DEF HeadersOfType
<1>2. t \in Nat
  BY DEF MessageTypes
<1>3. n \in Seq(Nat) /\ p \in Seq(Nat) /\ Fits(Len(n)) /\ Fits(Len(p))
  BY TextFits
<1>4. h.name = n /\ h.payload = p
  BY <1>1 DEF Header
<1>5. h \in [name : Seq(Nat), isError : BOOLEAN, type : Nat, payload : Seq(Nat)]
  BY <1>1, <1>2, <1>3 DEF Header
<1> QED BY <1>3, <1>4, <1>5 DEF Headers

\* All types have the properties of a header.
LEMMA AllTypes ==
  /\ ReadBackTypes = MessageTypes
  /\ PrefixRefusedTypes = MessageTypes
  /\ TrailerIgnoredTypes = MessageTypes
<1>1. ASSUME NEW t \in MessageTypes, NEW h \in HeadersOfType(t)
      PROVE  ReadsBack(h) /\ PrefixRefused(h) /\ TrailerIgnored(h)
  <2>1. h \in Headers
    BY TypedHeaders
  <2>2. ASSUME NEW b \in Bytes PROVE UnmarshalBinary(MarshalBinary(h) \o <<b>>) = h
    <3>1. b \in Nat
      BY CodecAssumption DEF Bytes
    <3>2. <<b>> \in Seq(Nat)
      BY <3>1
    <3> QED BY <2>1, <3>2, RestIsIgnored
  <2>3. TrailerIgnored(h)
    BY <2>2 DEF TrailerIgnored
  <2> QED BY <2>1, <2>3, WholeReadsBack, CutIsRefused
<1>2. ReadBackTypes = MessageTypes
  BY <1>1 DEF ReadBackTypes
<1>3. PrefixRefusedTypes = MessageTypes
  BY <1>1 DEF PrefixRefusedTypes
<1>4. TrailerIgnoredTypes = MessageTypes
  BY <1>1 DEF TrailerIgnoredTypes
<1> QED BY <1>2, <1>3, <1>4

\* Every whole message has a type.
LEMMA KindsHaveTypes ==
  ASSUME TypeOK, NEW m \in Whole
  PROVE  MessageType(m.kind) \in MessageTypes
<1>1. input \in Seq(HostMessages) /\ output \in Seq(ToHostMsgs)
  BY DEF TypeOK
<1>2. m \in ToPluginMsgs \cup ToHostMsgs
  <2>1. Elements(input) \subseteq ToPluginMsgs
    BY <1>1, ElementOfSeq, HostAssumption DEF Elements
  <2>2. Elements(output) \subseteq ToHostMsgs
    BY <1>1, ElementOfSeq DEF Elements
  <2> QED BY <2>1, <2>2 DEF Whole, InFlight
<1>3. m.kind \in (ToPluginKinds \cup ToHostKinds) \ {"garbled"}
  BY <1>2 DEF Whole, ToPluginMsgs, ToHostMsgs
<1>4. CASE m.kind \in {"request", "shutdown", "force_shutdown", "request_ready",
                      "plugin_request"}
  BY <1>4 DEF MessageType, MessageTypes
<1>5. CASE m.kind = "response"
  BY <1>5 DEF MessageType, MessageTypes
<1>6. CASE m.kind \in {"message", "notify"}
  BY <1>6 DEF MessageType, MessageTypes
<1>7. CASE m.kind \in {"ready", "shutdown_ack", "force_shutdown_ack", "request_ready_ack"}
  BY <1>7 DEF MessageType, MessageTypes
<1>8. CASE m.kind = "error"
  BY <1>8 DEF MessageType, MessageTypes
<1> QED BY <1>3, <1>4, <1>5, <1>6, <1>7, <1>8 DEF ToPluginKinds, ToHostKinds

\* HeaderReadsBack: what a sender marshalled is what the receiver of the message
\* unmarshals.
THEOREM HeaderReadsBackHolds == Spec => []HeaderReadsBack
<1>1. TypeOK => HeaderReadsBack
  BY AllTypes, KindsHaveTypes DEF HeaderReadsBack
<1> QED BY <1>1, TypeCorrect, PTL

\* PrefixIsRefused: what an Abort frame leaves of a message is no header.
THEOREM PrefixIsRefusedHolds == Spec => []PrefixIsRefused
<1>1. TypeOK => PrefixIsRefused
  BY AllTypes, KindsHaveTypes DEF PrefixIsRefused
<1> QED BY <1>1, TypeCorrect, PTL

\* TrailerIsIgnored: of two messages that a reader appended, the first is read.
THEOREM TrailerIsIgnoredHolds == Spec => []TrailerIsIgnored
<1>1. TypeOK => TrailerIsIgnored
  BY AllTypes, KindsHaveTypes DEF TrailerIsIgnored
<1> QED BY <1>1, TypeCorrect, PTL

\* What a writer writes is frames.
LEMMA WrittenAreFrames == WrittenFrames \subseteq Frames
<1>1. /\ MaxDataLength \in Nat /\ MaxText \in 0 .. MaxDataLength /\ Fits(MaxDataLength + 1)
      /\ 1 \in 0 .. MaxDataLength + 1 /\ 0 \in 0 .. MaxDataLength + 1
      /\ MaxDataLength + 1 \in Nat
  BY CodecAssumption
<1>2. \A n \in 0 .. MaxDataLength + 1 : Fits(n)
  BY <1>1, LessFits
<1>3. /\ TypeByte("start") = 1 /\ TypeByte("end") = 2
      /\ TypeByte("data") = 3 /\ TypeByte("abort") = 6
  BY DEF TypeByte
<1>4. <<>> \in Seq(Nat) /\ Len(<<>>) = 0
  BY EmptySeq
<1>5. ASSUME NEW t \in {1, 2, 6}, NEW n \in 0 .. MaxDataLength + 1
      PROVE  [type |-> t, id |-> 1, length |-> n, data |-> <<>>] \in Frames
  <2>1. Follows(t, n) = 0
    BY <1>3 DEF Follows
  <2> QED BY <1>1, <1>2, <1>4, <2>1 DEF Frames
<1>6. ASSUME NEW d \in Texts
      PROVE  [type |-> TypeByte("data"), id |-> 1, length |-> Len(d), data |-> d] \in Frames
  <2>1. d \in Seq(Nat) /\ Len(d) \in 0 .. MaxText /\ Fits(Len(d))
    BY TextFits
  <2>2. Len(d) \in Nat /\ ~(Len(d) > MaxDataLength)
    BY <1>1, <2>1
  <2>3. Follows(TypeByte("data"), Len(d)) = Len(d)
    BY DEF Follows
  <2> QED BY <1>1, <1>2, <1>3, <2>1, <2>2, <2>3 DEF Frames
<1>7. ASSUME NEW type \in FrameTypes \ {"data"} PROVE TypeByte(type) \in {1, 2, 6}
  BY <1>3 DEF FrameTypes
<1>8. \A f \in WrittenFrames :
        \/ \E d \in Texts : f = [type |-> TypeByte("data"), id |-> 1, length |-> Len(d), data |-> d]
        \/ \E type \in FrameTypes \ {"data"} :
             f = [type |-> TypeByte(type), id |-> 1, length |-> 0, data |-> <<>>]
        \/ \E n \in 0 .. MaxDataLength + 1 :
             f = [type |-> TypeByte("start"), id |-> 1, length |-> n, data |-> <<>>]
  BY DEF WrittenFrames
<1>9. TypeByte("start") \in {1, 2, 6}
  BY <1>3
<1> QED BY <1>1, <1>5, <1>6, <1>7, <1>8, <1>9

\* FramesReadBack: the reader never loses its place among the frames on their way.
THEOREM FramesReadBackHolds == Spec => []FramesReadBack
<1>1. ASSUME NEW W \in SUBSET WrittenFrames, NEW fs \in SeqOf(W, MaxFrames)
      PROVE  StreamReadsBack(fs)
  <2>1. PICK n \in 0 .. MaxFrames : fs \in [1 .. n -> W]
    BY DEF SeqOf
  <2>2. n \in Nat /\ W \subseteq Frames
    BY CodecAssumption, WrittenAreFrames
  <2>3. fs \in [1 .. n -> Frames]
    BY <2>1, <2>2
  <2>4. fs \in Seq(Frames)
    BY <2>2, <2>3, SeqDef
  <2> QED BY <2>4, FramesComeBack
<1>2. ReadBackEndings = {"end", "abort"}
  <2>1. ASSUME NEW last \in {"end", "abort"},
               NEW fs \in SeqOf({f \in WrittenFrames :
                               f.type \in {TypeByte(t) : t \in {"start", "data", last}}}, MaxFrames)
        PROVE  StreamReadsBack(fs)
    <3> DEFINE W == {f \in WrittenFrames :
                       f.type \in {TypeByte(t) : t \in {"start", "data", last}}}
    <3>1. W \in SUBSET WrittenFrames /\ fs \in SeqOf(W, MaxFrames)
      OBVIOUS
    <3> HIDE DEF W
    <3> QED BY <1>1, <3>1
  <2> QED BY <2>1 DEF ReadBackEndings
<1>3. FramesReadBack
  BY <1>2 DEF FramesReadBack
<1> QED BY <1>3, PTL
=============================================================================
