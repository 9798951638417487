----------------------- MODULE MultiplexerRefinement -----------------------
(* One direction of the multiplexer implements MessageStream, step by step   *)
(* and for every value of the constants, as long as no two messages of one   *)
(* number are under way at a time (Distinct).                                *)
EXTENDS MultiplexerWhole

-----------------------------------------------------------------------------
(* Picking the elements of a sequence.                                       *)

\* How many positions of P come no later than k.
Rank(P, k) == Cardinality({j \in P : j <= k})

\* Positions that are picked are numbered from 1 on, in their order.
LEMMA Ranks ==
  ASSUME NEW N \in Nat, NEW P \in SUBSET (1 .. N)
  PROVE  /\ IsFiniteSet(P) /\ Cardinality(P) \in Nat
         /\ \A k \in P : Rank(P, k) \in 1 .. Cardinality(P)
         /\ \A k, l \in P : Rank(P, k) = Rank(P, l) => k = l
         /\ \A i \in 1 .. Cardinality(P) : \E k \in P : Rank(P, k) = i
<1>1. /\ IsFiniteSet(P) /\ Cardinality(P) \in Nat
      /\ IsFiniteSet(1 .. Cardinality(P)) /\ Cardinality(1 .. Cardinality(P)) = Cardinality(P)
  <2>1. IsFiniteSet(1 .. N)
    BY FS_Interval
  <2>2. IsFiniteSet(P) /\ Cardinality(P) \in Nat
    BY <2>1, FS_Subset, FS_CardinalityType
  <2> QED BY <2>2, FS_Interval
<1>2. ASSUME NEW k \in P
      PROVE  /\ IsFiniteSet({j \in P : j <= k})
             /\ Rank(P, k) \in 1 .. Cardinality(P)
  <2>1. {j \in P : j <= k} \in SUBSET P /\ {j \in P : j <= k} # {}
    OBVIOUS
  <2>2. IsFiniteSet({j \in P : j <= k}) /\ Rank(P, k) <= Cardinality(P) /\ Rank(P, k) \in Nat
    BY <1>1, <2>1, FS_Subset, FS_CardinalityType DEF Rank
  <2>3. Rank(P, k) # 0
    BY <2>1, <2>2, FS_EmptySet DEF Rank
  <2> QED BY <1>1, <2>2, <2>3
<1>3. ASSUME NEW k \in P, NEW l \in P, Rank(P, k) = Rank(P, l), k < l PROVE FALSE
  <2>1. {j \in P : j <= k} \in SUBSET {j \in P : j <= l}
    <3>1. \A j \in P : j \in 1 .. N
      OBVIOUS
    <3>2. \A j \in P : j <= k => j <= l
      BY <1>3, <3>1
    <3> QED BY <3>2
  <2>2. {j \in P : j <= l} = {j \in P : j <= k}
    BY <1>2, <1>3, <2>1, FS_Subset DEF Rank
  <2>3. l \in {j \in P : j <= k}
    BY <2>2
  <2> QED BY <1>3, <2>3
<1>4. \A k, l \in P : Rank(P, k) = Rank(P, l) => k = l
  BY <1>3
<1> DEFINE r == [k \in P |-> Rank(P, k)]
<1>5. r \in Injection(P, 1 .. Cardinality(P))
  BY <1>2, <1>4 DEF Injection, IsInjective
<1>6. r \in Surjection(P, 1 .. Cardinality(P))
  <2> HIDE DEF r
  <2> QED BY <1>1, <1>5, FS_Injection
<1>7. \A i \in 1 .. Cardinality(P) : \E k \in P : Rank(P, k) = i
  BY <1>6 DEF Surjection
<1> QED BY <1>1, <1>2, <1>4, <1>7

\* The position of a number, and the number of a position.
LEMMA NthRanks ==
  ASSUME NEW N \in Nat, NEW P \in SUBSET (1 .. N)
  PROVE  /\ \A i \in 1 .. Cardinality(P) : Nth(P, i) \in P /\ Rank(P, Nth(P, i)) = i
         /\ \A k \in P : \A i : Rank(P, k) = i => Nth(P, i) = k
<1>1. ASSUME NEW i \in 1 .. Cardinality(P) PROVE Nth(P, i) \in P /\ Rank(P, Nth(P, i)) = i
  <2>1. \E k \in P : Cardinality({j \in P : j <= k}) = i
    BY Ranks DEF Rank
  <2> QED BY <2>1 DEF Nth, Rank
<1>2. ASSUME NEW k \in P, NEW i, Rank(P, k) = i PROVE Nth(P, i) = k
  <2>1. i \in 1 .. Cardinality(P)
    BY <1>2, Ranks
  <2>2. Nth(P, i) \in P /\ Rank(P, Nth(P, i)) = Rank(P, k)
    BY <1>1, <1>2, <2>1
  <2> QED BY <2>2, Ranks
<1> QED BY <1>1, <1>2

\* What is picked depends on the elements picked alone.
LEMMA PickedSame ==
  ASSUME NEW N \in Nat, NEW P \in SUBSET (1 .. N), NEW s, NEW t, \A k \in P : t[k] = s[k]
  PROVE  Picked(t, P) = Picked(s, P)
  BY NthRanks DEF Picked

\* The elements picked are of the type they were of, one for each position.
LEMMA PickedType ==
  ASSUME NEW N \in Nat, NEW P \in SUBSET (1 .. N), NEW S, NEW s, \A k \in P : s[k] \in S
  PROVE  Picked(s, P) \in Seq(S) /\ Len(Picked(s, P)) = Cardinality(P)
<1>1. Cardinality(P) \in Nat /\ \A i \in 1 .. Cardinality(P) : s[Nth(P, i)] \in S
  BY Ranks, NthRanks
<1> QED BY <1>1 DEF Picked

\* t is s with one more position, which counts.
OneMore(N, P, Q, S, s, t, x) ==
  /\ N \in Nat /\ P \in SUBSET (1 .. N) /\ Q = P \cup {N + 1}
  /\ \A k \in P : s[k] \in S /\ t[k] = s[k]
  /\ x = t[N + 1] /\ x \in S

\* The position after all of P comes last.
LEMMA PickedAppend ==
  ASSUME NEW N, NEW P, NEW Q, NEW S, NEW s, NEW t, NEW x, OneMore(N, P, Q, S, s, t, x)
  PROVE  Picked(t, Q) = Append(Picked(s, P), x)
<1> USE DEF OneMore
<1> DEFINE R == P \cup {N + 1}
           C == Cardinality(P)
<1>1. R \in SUBSET (1 .. N + 1) /\ N + 1 \in Nat /\ N + 1 \notin P
  OBVIOUS
<1>2. C \in Nat /\ Cardinality(R) = C + 1
  BY <1>1, Ranks, FS_AddElement
<1>3. ASSUME NEW k \in P PROVE Rank(R, k) = Rank(P, k)
  <2>1. {j \in R : j <= k} = {j \in P : j <= k}
    OBVIOUS
  <2> QED BY <2>1 DEF Rank
<1>4. Rank(R, N + 1) = C + 1
  <2>1. \A j \in R : j <= N + 1
    BY <1>1
  <2>2. {j \in R : j <= N + 1} = R
    BY <2>1
  <2> QED BY <1>2, <2>2 DEF Rank
<1>5. Picked(s, P) \in Seq(S) /\ Len(Picked(s, P)) = C
  BY PickedType
<1>6. \A k \in R : t[k] \in S
  OBVIOUS
<1> HIDE DEF R, C
<1>7. Picked(t, R) \in Seq(S) /\ Len(Picked(t, R)) = C + 1
  BY <1>1, <1>2, <1>6, PickedType
<1>8. /\ Append(Picked(s, P), t[N + 1]) \in Seq(S)
      /\ Len(Append(Picked(s, P), t[N + 1])) = C + 1
      /\ \A i \in 1 .. C : Append(Picked(s, P), t[N + 1])[i] = Picked(s, P)[i]
      /\ Append(Picked(s, P), t[N + 1])[C + 1] = t[N + 1]
  BY <1>5, AppendProperties
<1>9. ASSUME NEW i \in 1 .. C PROVE Picked(t, R)[i] = Picked(s, P)[i]
  <2>1. Nth(P, i) \in P /\ Rank(P, Nth(P, i)) = i
    BY NthRanks DEF C
  <2>2. Nth(R, i) = Nth(P, i)
    <3>1. Nth(P, i) \in R /\ Rank(R, Nth(P, i)) = i
      BY <1>3, <2>1 DEF R
    <3> QED BY <1>1, <3>1, NthRanks
  <2> QED BY <1>2, <2>1, <2>2 DEF Picked, C
<1>10. Picked(t, R)[C + 1] = t[N + 1]
  <2>1. Nth(R, C + 1) = N + 1
    <3>1. N + 1 \in R
      BY DEF R
    <3> QED BY <1>1, <1>4, <3>1, NthRanks
  <2> QED BY <1>2, <2>1 DEF Picked
<1>11. \A i \in 1 .. C + 1 : Picked(t, R)[i] = Append(Picked(s, P), t[N + 1])[i]
  BY <1>2, <1>8, <1>9, <1>10
<1>12. Picked(t, R) = Append(Picked(s, P), t[N + 1])
  BY <1>7, <1>8, <1>11, SeqEqual
<1> QED BY <1>12 DEF R

\* t is s without the first position.
OneLess(N, P, Q, S, s, t) ==
  /\ N \in Nat \ {0} /\ P \in SUBSET (1 .. N) /\ Q = {k \in 1 .. N - 1 : k + 1 \in P}
  /\ \A k \in P : s[k] \in S
  /\ \A k \in Q : t[k] = s[k + 1]
FirstThen(x, q) == <<x>> \o q

\* Without the first position, and counted from the second.
LEMMA PickedTail ==
  ASSUME NEW N, NEW P, NEW Q, NEW S, NEW s, NEW t, OneLess(N, P, Q, S, s, t)
  PROVE  /\ Picked(t, Q) \in Seq(S)
         /\ 1 \in P => Picked(s, P) = FirstThen(s[1], Picked(t, Q))
         /\ 1 \notin P => Picked(s, P) = Picked(t, Q)
<1> USE DEF OneLess
<1> DEFINE D == IF 1 \in P THEN 1 ELSE 0
           C == Cardinality(Q)
<1>1. N - 1 \in Nat /\ Q \in SUBSET (1 .. N - 1) /\ C \in Nat /\ IsFiniteSet(Q)
  BY Ranks
<1>2. ASSUME NEW T \in SUBSET P, NEW U, U = {k \in 1 .. N - 1 : k + 1 \in T}
      PROVE  Cardinality(T) = Cardinality(U) + (IF 1 \in T THEN 1 ELSE 0)
  <2>1. IsFiniteSet(T) /\ Cardinality(T) \in Nat /\ IsFiniteSet(U) /\ Cardinality(U) \in Nat
    <3>1. U \in SUBSET (1 .. N - 1) /\ T \in SUBSET (1 .. N)
      BY <1>2
    <3> QED BY <1>1, <3>1, Ranks
  <2> DEFINE f == [k \in U |-> k + 1]
  <2>2. f \in Bijection(U, T \ {1})
    <3>1. f \in [U -> T \ {1}]
      BY <1>2
    <3>2. \A a, b \in U : f[a] = f[b] => a = b
      BY <1>2
    <3>3. \A b \in T \ {1} : \E a \in U : f[a] = b
      <4> SUFFICES ASSUME NEW b \in T \ {1} PROVE b - 1 \in U /\ f[b - 1] = b
        OBVIOUS
      <4>1. b \in 2 .. N
        OBVIOUS
      <4>2. b - 1 \in 1 .. N - 1 /\ (b - 1) + 1 = b
        BY <4>1
      <4> QED BY <1>2, <4>2
    <3> HIDE DEF f
    <3> QED BY <3>1, <3>2, <3>3 DEF Bijection, Injection, IsInjective, Surjection
  <2>3. Cardinality(T \ {1}) = Cardinality(U)
    <3>1. ExistsBijection(U, T \ {1})
      BY <2>2 DEF ExistsBijection
    <3> QED BY <2>1, <3>1, FS_Bijection
  <2>4. Cardinality(T \ {1}) = IF 1 \in T THEN Cardinality(T) - 1 ELSE Cardinality(T)
    BY <2>1, FS_RemoveElement
  <2> HIDE DEF f
  <2> QED BY <2>1, <2>3, <2>4
<1>3. Cardinality(P) = C + D
  BY <1>2
<1>4. ASSUME NEW k \in Q PROVE k + 1 \in P /\ Rank(P, k + 1) = Rank(Q, k) + D
  <2>1. {j \in Q : j <= k} = {l \in 1 .. N - 1 : l + 1 \in {j \in P : j <= k + 1}}
    OBVIOUS
  <2>2. 1 \in {j \in P : j <= k + 1} <=> 1 \in P
    OBVIOUS
  <2>3. {j \in P : j <= k + 1} \in SUBSET P
    OBVIOUS
  <2>4. Cardinality({j \in P : j <= k + 1}) = Cardinality({j \in Q : j <= k}) + D
    BY <1>2, <2>1, <2>2, <2>3
  <2> QED BY <2>4 DEF Rank
<1>5. 1 \in P => Rank(P, 1) = 1
  <2>1. \A j \in P : j <= 1 <=> j = 1
    <3>1. \A j \in P : j \in 1 .. N
      OBVIOUS
    <3> QED BY <3>1
  <2>2. 1 \in P => {j \in P : j <= 1} = {1}
    BY <2>1
  <2> QED BY <2>2, FS_Singleton DEF Rank
<1>6. \A k \in Q : t[k] \in S
  OBVIOUS
<1>7. /\ Picked(s, P) \in Seq(S) /\ Len(Picked(s, P)) = C + D
      /\ Picked(t, Q) \in Seq(S) /\ Len(Picked(t, Q)) = C
  <2>1. Picked(s, P) \in Seq(S) /\ Len(Picked(s, P)) = C + D
    BY <1>3, PickedType
  <2>2. Picked(t, Q) \in Seq(S) /\ Len(Picked(t, Q)) = C
    BY <1>1, <1>6, PickedType
  <2> QED BY <2>1, <2>2
<1> HIDE DEF D, C
<1>8. D \in {0, 1} /\ (D = 1 <=> 1 \in P)
  BY DEF D
<1>9. ASSUME NEW i \in 1 .. C PROVE Picked(s, P)[i + D] = Picked(t, Q)[i]
  <2>1. Nth(Q, i) \in Q /\ Rank(Q, Nth(Q, i)) = i
    BY <1>1, NthRanks DEF C
  <2>2. Nth(P, i + D) = Nth(Q, i) + 1
    <3>1. Nth(Q, i) + 1 \in P /\ Rank(P, Nth(Q, i) + 1) = i + D
      BY <1>4, <2>1
    <3>2. \A k \in P : Rank(P, k) = i + D => Nth(P, i + D) = k
      BY NthRanks
    <3> QED BY <3>1, <3>2
  <2>3. i + D \in 1 .. Cardinality(P)
    BY <1>1, <1>3, <1>8
  <2> QED BY <2>1, <2>2, <2>3 DEF Picked, C
<1>10. 1 \in P => Picked(s, P)[1] = s[1]
  <2>1. 1 \in P => Nth(P, 1) = 1
    <3>1. \A k \in P : Rank(P, k) = 1 => Nth(P, 1) = k
      BY NthRanks
    <3> QED BY <1>5, <3>1
  <2>2. 1 \in P => 1 \in 1 .. Cardinality(P)
    BY <1>1, <1>3, <1>8
  <2> QED BY <2>1, <2>2 DEF Picked
<1>11. CASE 1 \in P
  <2>1. s[1] \in S /\ <<s[1]>> \in Seq(S) /\ Len(<<s[1]>>) = 1 /\ <<s[1]>>[1] = s[1]
    BY <1>11
  <2>2. PICK one : one = <<s[1]>> /\ one \in Seq(S) /\ Len(one) = 1 /\ one[1] = s[1]
    BY <2>1
  <2>3. PICK q : q = Picked(t, Q)
    OBVIOUS
  <2>4. /\ one \o q \in Seq(S)
        /\ Len(one \o q) = 1 + C
        /\ \A i \in 1 .. 1 + C : (one \o q)[i] = IF i <= 1 THEN one[i] ELSE q[i - 1]
    <3>1. q \in Seq(S) /\ Len(q) = C
      BY <1>7, <2>3
    <3> QED BY <2>2, <3>1, ConcatProperties
  <2>5. ASSUME NEW i \in 1 .. 1 + C PROVE Picked(s, P)[i] = (one \o q)[i]
    <3>1. CASE i = 1
      BY <1>10, <1>11, <2>2, <2>4, <3>1
    <3>2. CASE i # 1
      <4>1. i - 1 \in 1 .. C /\ (i - 1) + D = i
        BY <1>1, <1>8, <1>11, <3>2
      <4>2. Picked(s, P)[(i - 1) + D] = Picked(t, Q)[i - 1]
        BY <1>9, <4>1
      <4> QED BY <1>1, <2>3, <2>4, <3>2, <4>1, <4>2
    <3> QED BY <3>1, <3>2
  <2>6. Len(Picked(s, P)) = Len(one \o q)
    BY <1>1, <1>7, <1>8, <1>11, <2>4
  <2>7. Picked(s, P) = one \o q
    BY <1>1, <1>7, <1>8, <1>11, <2>4, <2>5, <2>6, SeqEqual
  <2> QED BY <1>7, <1>11, <2>2, <2>3, <2>7 DEF FirstThen
<1>12. CASE 1 \notin P
  <2>1. D = 0 /\ \A i \in 1 .. C : Picked(s, P)[i] = Picked(t, Q)[i]
    BY <1>1, <1>8, <1>9, <1>12
  <2>2. Picked(s, P) = Picked(t, Q)
    BY <1>1, <1>7, <2>1, SeqEqual
  <2> QED BY <1>7, <1>12, <2>2
<1> QED BY <1>7, <1>11, <1>12


-----------------------------------------------------------------------------
(* The invariant the refinement rests on, besides that of CompleteIsWhole:    *)
(* no message is forgotten.                                                  *)

Expected(m) == UnderWay(m) \/ LastComes(m, 1)
StartComes(m) == \E k \in 1 .. Len(wire) : wire[k].of = m /\ wire[k].type = "start"

\* The reader has yet to see the beginning of m, or has an entry for it and nobody
\* of its number ahead of it, or has thrown it away as too long.
Attended(m) ==
  \/ StartComes(m)
  \/ Behind(seq[m], m) /\ \/ readBuffer[seq[m]].open /\ ~Dropping(seq[m])
                          \/ offset[m] > MaxChunks

Attends == ~nodeClosed /\ stream # "error" =>
  \A m \in Messages : Expected(m) => Attended(m)

SInv == TypeOK /\ WholeInv /\ Attends

\* A step that keeps what is attended.
LEMMA StillAttends ==
  ASSUME Attends,
         ~nodeClosed' /\ stream' # "error" => ~nodeClosed /\ stream # "error",
         \A m \in Messages : Expected(m)' => \/ Attended(m)'
                                             \/ Expected(m) /\ (Attended(m) => Attended(m)')
  PROVE  Attends'
<1> HIDE DEF Expected, Attended
<1> QED BY DEF Attends

\* Writers.
LEMMA WriterAttends ==
  ASSUME TypeOK, WholeInv, Attends, NEW m \in Messages, Distinct,
         WriterStep(m) \/ WriterCancel(m)
  PROVE  Attends'
<1> USE DEF WholeInv
<1>1. /\ UNCHANGED <<stream, nodeClosed, readBuffer, frameID, reader, after>>
      /\ \A w \in Messages \ {m} : pc'[w] = pc[w] /\ seq'[w] = seq[w]
  BY WriterCases DEF WriterFrame, readerVars
<1>2. offset \in [Messages -> Nat]
  BY WireFrames
<1>3. \A i : Dropping(i)' <=> Dropping(i)
  BY <1>1 DEF Dropping
<1>4. ASSUME UNCHANGED <<wire, offset>>, pc'[m] # "body", Numbered(m) => seq'[m] = seq[m]
      PROVE  Attends'
  <2>1. \A w \in Messages \ {m} : pc'[w] = pc[w] /\ seq'[w] = seq[w]
    BY <1>1
  <2>2. ASSUME NEW w \in Messages, Expected(w)'
        PROVE  Expected(w) /\ (Attended(w) => Attended(w)')
    <3>1. Expected(w)
      BY <1>4, <2>1, <2>2 DEF Expected, UnderWay, LastComes, IsLast
    <3>2. Numbered(w)
      <4>1. CASE UnderWay(w)
        BY <4>1 DEF UnderWay, Numbered
      <4>2. CASE LastComes(w, 1)
        <5>1. PICK k \in 1 .. Len(wire) : wire[k].of = w /\ IsLast(wire[k])
          BY <4>2 DEF LastComes
        <5> QED BY <5>1 DEF WireWhole, FramesGenuine, Genuine, IsCut, IsLast
      <4> QED BY <3>1, <4>1, <4>2 DEF Expected
    <3>3. seq'[w] = seq[w]
      BY <1>4, <2>1, <3>2
    <3>4. StartComes(w)' <=> StartComes(w)
      BY <1>4 DEF StartComes
    <3>5. Behind(seq[w], w)' <=> Behind(seq[w], w)
      BY <1>4, <3>3 DEF Behind, IsCut, IsLast
    <3> QED BY <1>1, <1>3, <1>4, <3>1, <3>3, <3>4, <3>5 DEF Attended
  <2> QED BY <1>1, <2>2, StillAttends
<1>5. ASSUME NEW f \in Frames, stream = "open", wire' = Append(wire, f), NextFrame(m, f)
      PROVE  Attends'
  <2> DEFINE N == Len(wire)
  <2>2. /\ N \in Nat /\ Len(wire') = N + 1
        /\ \A j \in 1 .. N : wire'[j] = wire[j]
        /\ wire'[N + 1] = f
    BY <1>5, AppendedWire
  <2>3. /\ f.of = m /\ f.id = seq[m] /\ seq' = seq
        /\ \A w \in Messages : offset[w] <= offset'[w] /\ offset[w] \in Nat /\ offset'[w] \in Nat
        /\ f.type = "start" \/ pc[m] = "body"
    BY <1>2, <1>5 DEF NextFrame
  <2>4. ASSUME NEW w \in Messages, Expected(w)'
        PROVE  Attended(w)' \/ (Expected(w) /\ (Attended(w) => Attended(w)'))
    <3>1. CASE w = m /\ f.type = "start"
      BY <2>2, <2>3, <3>1 DEF Attended, StartComes
    <3>2. CASE w = m /\ pc[m] = "body"
      <4>1. Behind(seq[w], w) => Behind(seq[w], w)'
        <5> SUFFICES ASSUME Behind(seq[w], w), NEW j \in 1 .. N + 1, ~IsCut(wire'[j]),
                            wire'[j].id = seq[w], wire'[j].of # w
                     PROVE  \E l \in 1 .. j - 1 : wire'[l].of = w /\ IsLast(wire'[l])
          BY <2>2, <2>3 DEF Behind, IsCut, IsLast
        <5>1. j \in 1 .. N
          BY <2>2, <2>3, <3>2
        <5> QED BY <2>2, <5>1 DEF Behind
      <4>2. StartComes(w) => StartComes(w)'
        BY <2>2 DEF StartComes
      <4>3. Expected(w)
        BY <3>2 DEF Expected, UnderWay
      <4> QED BY <1>1, <1>3, <2>3, <4>1, <4>2, <4>3, SpaceAssumption DEF Attended
    <3>3. CASE w # m
      <4>1. Expected(w)
        <5>1. CASE UnderWay(w)'
          BY <1>1, <3>3, <5>1 DEF UnderWay, Expected
        <5>2. CASE LastComes(w, 1)'
          <6>1. PICK j \in 1 .. N + 1 : wire'[j].of = w /\ IsLast(wire'[j])
            BY <2>2, <5>2 DEF LastComes, IsLast
          <6>2. j \in 1 .. N
            BY <2>2, <2>3, <3>3, <6>1
          <6> QED BY <2>2, <6>1, <6>2 DEF Expected, LastComes
        <5> QED BY <2>4, <5>1, <5>2 DEF Expected
      <4>2. Behind(seq[w], w) => Behind(seq[w], w)'
        <5> SUFFICES ASSUME Behind(seq[w], w), NEW j \in 1 .. N + 1, ~IsCut(wire'[j]),
                            wire'[j].id = seq[w], wire'[j].of # w
                     PROVE  \E l \in 1 .. j - 1 : wire'[l].of = w /\ IsLast(wire'[l])
          BY <2>2, <2>3 DEF Behind, IsCut, IsLast
        <5>1. CASE j \in 1 .. N
          BY <2>2, <5>1 DEF Behind
        <5>2. CASE j = N + 1
          <6>1. seq[w] = seq[m]
            BY <2>2, <2>3, <5>2
          <6>2. ~UnderWay(w)
            BY <1>5, <3>3, <6>1 DEF NextFrame, WireWhole, OneUnderWay, UnderWay
          <6>3. PICK l \in 1 .. N : wire[l].of = w /\ IsLast(wire[l])
            BY <4>1, <6>2 DEF Expected, LastComes
          <6> QED BY <2>2, <5>2, <6>3
        <5> QED BY <2>2, <5>1, <5>2
      <4>3. StartComes(w) => StartComes(w)'
        BY <2>2 DEF StartComes
      <4> QED BY <1>1, <1>3, <2>3, <4>1, <4>2, <4>3, SpaceAssumption DEF Attended
    <3> QED BY <2>3, <3>1, <3>2, <3>3
  <2> QED BY <1>1, <2>4, StillAttends
<1> QED BY <1>4, <1>5, WriterCases

\* The reader takes the first frame.
LEMMA ReadingAttends ==
  ASSUME TypeOK, WholeInv, Attends, UNCHANGED <<writerVars, stream, nodeClosed>>,
         ReadStart \/ ReadData \/ ReadLast \/ ReadCut
  PROVE  Attends'
<1> USE DEF WholeInv
<1> DEFINE f == Head(wire)
<1>1. PICK j \in Ids, types \in {{"start"}, {"data"}, {"end", "abort"}, {"cut"}} :
        ReaderTakes(types) /\ frameID' = j
  <2>1. ASSUME NEW types, ReaderTakes(types) PROVE frameID' \in Ids
    BY <2>1, TakesType DEF TypeOK
  <2> QED BY <2>1 DEF ReadStart, ReadData, ReadLast, ReadCut
<1>2. /\ reader = "read" /\ wire # <<>> /\ wire' = Tail(wire) /\ j = f.id
      /\ readBuffer \in [Ids -> [open : BOOLEAN, data : Datas]]
      /\ UNCHANGED <<seq, pc, offset>> /\ offset \in [Messages -> Nat] /\ seq \in [Messages -> Ids]
  BY <1>1, WireFrames DEF ReaderTakes, TypeOK, ReaderTypeOK, writerVars
<1>3. /\ Len(wire) \in Nat \ {0} /\ Len(wire') = Len(wire) - 1
      /\ \A k \in 1 .. Len(wire') : k + 1 \in 1 .. Len(wire) /\ wire'[k] = wire[k + 1]
      /\ f = wire[1] /\ 1 \in 1 .. Len(wire)
  BY <1>2, TakenWire
<1>4. f.of \in Messages /\ (~IsCut(f) => Genuine(f))
  BY <1>3, WireFrames DEF WireWhole, FramesGenuine
<1> HIDE DEF f
<1>5. ASSUME NEW w \in Messages, Expected(w)'
      PROVE  Expected(w) /\ ~(f.of = w /\ IsLast(f))
  <2>1. CASE UnderWay(w)'
    <3>1. pc[w] = "body"
      BY <1>2, <2>1 DEF UnderWay
    <3> QED BY <1>4, <3>1 DEF Expected, UnderWay, Genuine, IsLast, IsCut
  <2>2. CASE LastComes(w, 1)'
    <3>1. PICK k \in 1 .. Len(wire') : wire'[k].of = w /\ IsLast(wire'[k])
      BY <2>2 DEF LastComes, IsLast
    <3>2. k + 1 \in 1 .. Len(wire) /\ wire[k + 1].of = w /\ IsLast(wire[k + 1])
      BY <1>3, <3>1
    <3>3. f.of = w => Before(f, wire[k + 1])
      <4>1. 1 \in 1 .. (k + 1) - 1
        BY <3>1
      <4> QED BY <1>3, <3>2, <4>1 DEF WireWhole, FramesInOrder, IsCut, IsLast
    <3> QED BY <3>2, <3>3 DEF Expected, LastComes, Before, IsLast
  <2> QED BY <1>5, <2>1, <2>2 DEF Expected
<1>6. ASSUME NEW w \in Messages, StartComes(w), ~(f.of = w /\ f.type = "start")
      PROVE  StartComes(w)'
  <2>1. PICK k \in 1 .. Len(wire) : wire[k].of = w /\ wire[k].type = "start"
    BY <1>6 DEF StartComes
  <2>2. k # 1
    BY <1>3, <1>6, <2>1
  <2>3. k - 1 \in 1 .. Len(wire') /\ wire'[k - 1] = wire[k]
    BY <1>3, <2>2
  <2> QED BY <2>1, <2>3 DEF StartComes
<1>7. ASSUME NEW w \in Messages, Behind(seq[w], w), ~(f.of = w /\ IsLast(f))
      PROVE  Behind(seq[w], w)' /\ (~IsCut(f) /\ f.id = seq[w] => f.of = w)
  <2>1. ASSUME NEW k \in 1 .. Len(wire'), ~IsCut(wire'[k]), wire'[k].id = seq[w], wire'[k].of # w
        PROVE  \E l \in 1 .. k - 1 : wire'[l].of = w /\ IsLast(wire'[l])
    <3>1. PICK l \in 1 .. k : wire[l].of = w /\ IsLast(wire[l])
      BY <1>3, <1>7, <2>1 DEF Behind
    <3>2. l - 1 \in 1 .. k - 1 /\ wire'[l - 1] = wire[l]
      BY <1>3, <1>7, <3>1
    <3> QED BY <3>1, <3>2
  <2>2. Behind(seq[w], w)'
    BY <1>2, <2>1 DEF Behind, IsCut, IsLast
  <2>3. ~IsCut(f) /\ f.id = seq[w] => f.of = w
    BY <1>3, <1>7 DEF Behind
  <2> QED BY <2>2, <2>3
<1>8. \A i : ~Dropping(i)
  BY <1>2 DEF Dropping
\* What is left to show of a message that is not at its Start frame.
<1>9. ASSUME ASSUME NEW w \in Messages, Expected(w), Behind(seq[w], w),
                    ~(f.of = w /\ IsLast(f)), readBuffer[seq[w]].open
             PROVE  (readBuffer'[seq[w]].open /\ ~Dropping(seq[w])') \/ offset[w] > MaxChunks,
             ASSUME NEW w \in Messages, f.of = w, f.type = "start" PROVE Attended(w)'
      PROVE  Attends'
  <2>1. ASSUME NEW w \in Messages, Expected(w)', Attended(w) PROVE Attended(w)'
    <3>1. CASE f.of = w /\ f.type = "start"
      BY <1>9, <3>1
    <3>2. CASE StartComes(w) /\ ~(f.of = w /\ f.type = "start")
      BY <1>6, <3>2 DEF Attended
    <3>3. CASE Behind(seq[w], w) /\ (readBuffer[seq[w]].open \/ offset[w] > MaxChunks)
      <4>1. Behind(seq[w], w)' /\ Expected(w)
        BY <1>5, <1>7, <2>1, <3>3
      <4>2. (readBuffer'[seq[w]].open /\ ~Dropping(seq[w])') \/ offset[w] > MaxChunks
        BY <1>5, <1>9, <2>1, <3>3, <4>1
      <4> QED BY <1>2, <4>1, <4>2 DEF Attended, Dropping
    <3> QED BY <2>1, <3>1, <3>2, <3>3 DEF Attended
  <2> QED BY <1>5, <2>1, StillAttends
<1>10. CASE ReadStart
  <2>1. f.type = "start" /\ ~IsCut(f)
    BY <1>10 DEF ReadStart, ReaderTakes, IsCut, f
  <2>2. ~readBuffer[j].open
    BY <1>2, <2>1, EntryIsNext DEF f
  <2>3. readBuffer' = [readBuffer EXCEPT ![j] = Entry(<<>>)] /\ reader' = "opened"
    BY <1>1, <1>10, <2>2 DEF ReadStart
  <2>4. \A i : ~Dropping(i)'
    BY <2>3 DEF Dropping
  <2>5. ASSUME NEW w \in Messages, f.of = w PROVE Attended(w)'
    <3>1. Holds(j, w, 0)'
      BY <1>2, <2>1, <2>5, StartHolds DEF f
    <3>2. readBuffer'[j].open
      BY <1>2, <2>3 DEF Entry
    <3> QED BY <2>4, <3>1, <3>2 DEF Attended, Holds
  <2>6. ASSUME NEW w \in Messages, readBuffer[seq[w]].open PROVE readBuffer'[seq[w]].open
    BY <1>2, <2>2, <2>3, <2>6
  <2> QED BY <1>9, <2>4, <2>5, <2>6
<1>11. CASE ReadData
  <2>1. f.type = "data" /\ ~IsCut(f)
    BY <1>11 DEF ReadData, ReaderTakes, IsCut, f
  <2>2. CASE ~readBuffer[j].open \/ ~(Len(readBuffer[j].data) + 1 > MaxChunks)
    <3>1. \A i : ~Dropping(i)'
      <4>1. reader' = "check" \/ after' = "check"
        BY <1>1, <1>11, <2>2 DEF ReadData, HandsOver
      <4>2. reader' \in {"check", "send"}
        BY <1>1, <1>11 DEF ReadData, HandsOver
      <4> QED BY <4>1, <4>2 DEF Dropping
    <3>2. \A w \in Messages : readBuffer[seq[w]].open => readBuffer'[seq[w]].open
      <4>1. CASE ~readBuffer[j].open
        BY <1>1, <1>2, <1>11, <4>1 DEF ReadData
      <4>2. CASE readBuffer[j].open
        <5>1. readBuffer' = [readBuffer EXCEPT ![j].data =
                               Append(readBuffer[j].data, Chunk(Head(wire).of, Head(wire).at))]
          BY <1>1, <1>11, <2>2, <4>2 DEF ReadData
        <5> QED BY <1>2, <5>1
      <4> QED BY <4>1, <4>2
    <3> QED BY <1>9, <2>1, <3>1, <3>2
  <2>3. CASE readBuffer[j].open /\ Len(readBuffer[j].data) + 1 > MaxChunks
    <3>1. UNCHANGED readBuffer
      BY <1>1, <1>11, <2>3 DEF ReadData
    <3>2. PICK m \in Messages, n \in Nat : /\ readBuffer[j].data = Prefix(m, n)
                                           /\ f.of = m /\ Carries(f, m, n + 1)
      BY <1>2, <2>1, <2>3, EntryIsNext DEF f
    <3>3. offset[m] > MaxChunks
      <4>1. Len(Prefix(m, n)) = n
        BY DEF Prefix
      <4>2. n + 1 <= offset[m]
        BY <1>2, <1>4, <2>1, <3>2 DEF Genuine, Carries
      <4> QED BY <1>2, <2>3, <3>2, <4>1, <4>2, SpaceAssumption
    <3>4. ASSUME NEW w \in Messages, Behind(seq[w], w), ~(f.of = w /\ IsLast(f)),
                 readBuffer[seq[w]].open
          PROVE  (readBuffer'[seq[w]].open /\ ~Dropping(seq[w])') \/ offset[w] > MaxChunks
      <4>1. CASE seq[w] = j
        BY <1>2, <1>7, <2>1, <3>2, <3>3, <3>4, <4>1
      <4>2. CASE seq[w] # j
        BY <1>1, <1>2, <3>1, <3>4, <4>2 DEF Dropping
      <4> QED BY <4>1, <4>2
    <3> QED BY <1>9, <2>1, <3>4
  <2> QED BY <2>2, <2>3
<1>12. CASE ReadLast
  <2>1. IsLast(f) /\ ~IsCut(f) /\ f.type # "start"
    BY <1>12 DEF ReadLast, ReaderTakes, IsLast, IsCut, f
  <2>2. \A i : ~Dropping(i)'
    BY <1>12 DEF ReadLast, HandsOver, Dropping
  <2>3. \A i \in Ids : i # j => readBuffer'[i] = readBuffer[i]
    BY <1>1, <1>2, <1>12 DEF ReadLast
  <2>4. ASSUME NEW w \in Messages, Behind(seq[w], w), ~(f.of = w /\ IsLast(f)) PROVE seq[w] # j
    BY <1>2, <1>7, <2>1, <2>4
  <2> QED BY <1>2, <1>9, <2>1, <2>2, <2>3, <2>4
<1>13. CASE ReadCut
  <2>1. UNCHANGED readBuffer /\ f.type = "cut" /\ \A i : ~Dropping(i)'
    BY <1>13 DEF ReadCut, ReaderTakes, HandsOver, Dropping, f
  <2> QED BY <1>9, <2>1
<1> QED BY <1>10, <1>11, <1>12, <1>13

\* A step that leaves the stream alone, or ends it, and no entry but one that is
\* being dropped.
LEMMA QuietAttends ==
  ASSUME Attends, UNCHANGED <<writerVars, nodeClosed>>,
         wire' = wire \/ (\E f : wire' = Append(wire, f) /\ IsCut(f)),
         TypeOK, stream' = "error" \/ stream # "error",
         \A i \in Ids : readBuffer[i].open /\ ~Dropping(i) =>
           readBuffer'[i].open /\ ~Dropping(i)'
  PROVE  Attends'
<1>1. UNCHANGED <<seq, pc, offset>> /\ seq \in [Messages -> Ids]
  BY WireFrames DEF writerVars
<1>2. Len(wire) \in Nat
  BY WireFrames
<1>3. /\ \A k \in 1 .. Len(wire) : k \in 1 .. Len(wire') /\ wire'[k] = wire[k]
      /\ \A k \in 1 .. Len(wire') : k \in 1 .. Len(wire) \/ IsCut(wire'[k])
  <2>1. CASE wire' = wire
    BY <2>1
  <2>2. CASE wire' # wire
    <3>1. PICK f : wire' = Append(wire, f) /\ IsCut(f)
      BY <2>2
    <3>2. /\ Len(wire') = Len(wire) + 1
          /\ \A k \in 1 .. Len(wire) : wire'[k] = wire[k]
          /\ wire'[Len(wire) + 1] = f
      BY <3>1, AppendedWire
    <3> QED BY <1>2, <3>1, <3>2
  <2> QED BY <2>1, <2>2
<1>4. ASSUME NEW w \in Messages, Expected(w)' PROVE Expected(w) /\ (Attended(w) => Attended(w)')
  <2>1. Expected(w)
    BY <1>1, <1>2, <1>3, <1>4 DEF Expected, UnderWay, LastComes, IsLast, IsCut
  <2>2. StartComes(w) => StartComes(w)'
    BY <1>3 DEF StartComes
  <2>3. Behind(seq[w], w) => Behind(seq[w], w)'
    <3> SUFFICES ASSUME Behind(seq[w], w), NEW k \in 1 .. Len(wire'), ~IsCut(wire'[k]),
                        wire'[k].id = seq[w], wire'[k].of # w
                 PROVE  \E l \in 1 .. k - 1 : wire'[l].of = w /\ IsLast(wire'[l])
      BY <1>1 DEF Behind, IsCut, IsLast
    <3>1. k \in 1 .. Len(wire) /\ wire'[k] = wire[k]
      BY <1>3
    <3>2. PICK l \in 1 .. k - 1 : wire[l].of = w /\ IsLast(wire[l])
      BY <3>1 DEF Behind
    <3> QED BY <1>2, <1>3, <3>1, <3>2
  <2> QED BY <1>1, <2>1, <2>2, <2>3 DEF Attended
<1> QED BY <1>4, StillAttends

\* Every step.
LEMMA NextAttends ==
  ASSUME Distinct, TypeOK, WholeInv, Attends, [Next]_vars
  PROVE  Attends'
<1>1. ASSUME NEW m \in Messages, WriterStep(m) \/ WriterCancel(m) PROVE Attends'
  BY <1>1, WriterAttends
<1>2. CASE StreamStep
  <2>1. CASE stream' = "error"
    BY <2>1 DEF Attends
  <2>2. CASE stream' # "error"
    <3>1. /\ UNCHANGED <<writerVars, nodeClosed, readBuffer, reader, frameID, after>>
          /\ wire' = wire \/ (\E f : wire' = Append(wire, f) /\ IsCut(f))
          /\ stream = "open"
      <4>1. /\ UNCHANGED <<writerVars, nodeClosed, readBuffer, reader, frameID, after>>
            /\ stream = "open" /\ StreamEnds
        BY <1>2, <2>2 DEF StreamStep, StreamBreaks, readerVars
      <4>2. CASE \E m \in Messages : wire' = Append(wire, Frame("cut", seq[m], m, 0))
        <5>1. PICK m \in Messages : wire' = Append(wire, Frame("cut", seq[m], m, 0))
          BY <4>2
        <5>2. IsCut(Frame("cut", seq[m], m, 0))
          BY DEF IsCut, Frame
        <5> QED BY <4>1, <5>1, <5>2
      <4> QED BY <4>1, <4>2 DEF StreamEnds
    <3> QED BY <3>1, QuietAttends DEF Dropping
  <2> QED BY <2>1, <2>2
<1>3. CASE ReaderStep
  <2>1. UNCHANGED <<writerVars, stream, nodeClosed>>
    BY <1>3 DEF ReaderStep
  <2>2. CASE ReadStart \/ ReadData \/ ReadLast \/ ReadCut
    BY <2>1, <2>2, ReadingAttends
  <2>3. CASE ReaderCheck \/ ReaderCountsUp \/ ReaderCountsDown \/ ReadEnds
    <3>1. UNCHANGED <<wire, readBuffer>> /\ \A i : ~Dropping(i)'
      BY <2>3 DEF ReaderCheck, ReaderCountsUp, ReaderCountsDown, ReadEnds, ReaderGoes,
                  HandsOver, Dropping
    <3>2. CASE stream = "error"
      BY <2>1, <3>2 DEF Attends
    <3> QED BY <2>1, <3>1, <3>2, QuietAttends
  <2>4. CASE ReaderDrops \/ ReaderSends
    <3>1. /\ UNCHANGED <<wire, frameID>>
          /\ \A i \in Ids : readBuffer[i].open /\ ~Dropping(i) =>
               readBuffer'[i].open /\ ~Dropping(i)'
      <4>1. CASE ReaderDrops
        BY <4>1 DEF ReaderDrops, ReaderGoes, Dropping, TypeOK, ReaderTypeOK
      <4>2. CASE ReaderSends
        BY <4>2 DEF ReaderSends, ReaderGoes, Dropping, TypeOK, ReaderTypeOK
      <4> QED BY <2>4, <4>1, <4>2
    <3>2. CASE stream = "error"
      BY <2>1, <3>2 DEF Attends
    <3> QED BY <2>1, <3>1, <3>2, QuietAttends
  <2> QED BY <1>3, <2>2, <2>3, <2>4 DEF ReaderStep
<1>4. CASE CloseNode
  BY <1>4 DEF CloseNode, Attends
<1>5. CASE StopReading \/ Receive \/ UNCHANGED vars
  <2>1. UNCHANGED <<writerVars, wire, stream, nodeClosed, readBuffer, reader, frameID, after>>
    BY <1>5 DEF StopReading, Receive, vars, readerVars
  <2>2. CASE stream = "error"
    BY <2>1, <2>2 DEF Attends
  <2> QED BY <2>1, <2>2, QuietAttends DEF Dropping
<1> QED BY <1>1, <1>2, <1>3, <1>4, <1>5 DEF Next

\* Nothing is expected yet.
LEMMA InitAttends == Init => Attends
<1> SUFFICES ASSUME Init PROVE Attends
  OBVIOUS
<1>1. Len(wire) = 0 /\ \A m \in Messages : ~UnderWay(m)
  BY EmptySeq DEF Init, UnderWay
<1> QED BY <1>1 DEF Attends, Expected, LastComes

-----------------------------------------------------------------------------
(* The messages on their way, in each of the three places they pass.          *)

Items == [seq : Ids, data : Datas]

\* The data of a message is not taken for the text of an error.
LEMMA PrefixType ==
  ASSUME NEW m \in Messages, NEW n \in Nat
  PROVE  /\ Prefix(m, n) \in Datas /\ Len(Prefix(m, n)) = n /\ Prefix(m, n) # ErrorText
         /\ \A k \in 0 .. n : Prefix(m, k) = SubSeq(Prefix(m, n), 1, k)
<1>1. Prefix(m, n) \in Datas /\ Len(Prefix(m, n)) = n
  BY DEF Prefix, Datas, Chunk, AllChunks
<1>2. Prefix(m, n) # ErrorText
  <2>1. CASE n = 0
    <3>1. Len(ErrorText) = 1
      BY DEF ErrorText
    <3> QED BY <1>1, <2>1, <3>1
  <2>2. CASE n # 0
    <3>1. Prefix(m, n)[1].of = m /\ ErrorText[1].of = Nobody
      BY <2>2 DEF Prefix, ErrorText, Chunk
    <3> QED BY <3>1, MessageAssumption
  <2> QED BY <2>1, <2>2
<1>3. ASSUME NEW k \in 0 .. n PROVE Prefix(m, k) = SubSeq(Prefix(m, n), 1, k)
  BY DEF Prefix
<1> QED BY <1>1, <1>2, <1>3

\* What the adapter makes of a message of the node.
LEMMA DeliveredType ==
  ASSUME NEW msg \in MuxMessages
  PROVE  Delivered(msg) \in Items /\ (IsError(Delivered(msg)) <=> IsError(msg))
  BY DEF MuxMessages, Delivered, Items, IsError

\* The positions that are picked, and what is there.
LEMMA WirePicks ==
  ASSUME TypeOK
  PROVE  /\ Len(wire) \in Nat /\ LastFrames \in SUBSET (1 .. Len(wire))
         /\ \A k \in LastFrames : ItemOfFrame(wire[k]) \in Items
<1>1. \A k \in 1 .. Len(wire) : wire[k] \in Frames
  BY ElementOfSeq DEF TypeOK, StreamTypeOK
<1>2. \A k \in 1 .. Len(wire) :
        wire[k].id \in Ids /\ Prefix(wire[k].of, offset[wire[k].of]) \in Datas
  BY <1>1, WireFrames, PrefixType DEF Frames
<1> QED BY <1>2, WireFrames DEF LastFrames, ItemOfFrame, Items

\* The same of the channel and of what was received.
LEMMA ChannelPicks ==
  ASSUME TypeOK
  PROVE  /\ Len(ch) \in Nat /\ Real(ch) \in SUBSET (1 .. Len(ch))
         /\ \A k \in 1 .. Len(ch) : ch[k] \in MuxMessages /\ Delivered(ch[k]) \in Items
         /\ Len(received) \in Nat /\ Real(received) \in SUBSET (1 .. Len(received))
         /\ received \in Seq(Items) /\ \A k \in 1 .. Len(received) : received[k] \in Items
<1>1. ch \in Seq(MuxMessages) /\ received \in Seq(Items)
  BY DEF TypeOK, ConsumerTypeOK, Items
<1>2. /\ Len(ch) \in Nat /\ \A k \in 1 .. Len(ch) : ch[k] \in MuxMessages
      /\ Len(received) \in Nat /\ \A k \in 1 .. Len(received) : received[k] \in Items
  BY <1>1, LenProperties, ElementOfSeq
<1> QED BY <1>1, <1>2, DeliveredType DEF Real

\* Three queues, one behind the other.
LEMMA PlacesType ==
  ASSUME TypeOK
  PROVE  /\ OnWire \in Seq(Items) /\ InHand \in Seq(Items) /\ InChannel \in Seq(Items)
         /\ Taken \in Seq(Items)
         /\ InChannel \o InHand \in Seq(Items) /\ OnItsWay \in Seq(Items)
<1>1. OnWire \in Seq(Items)
  <2>1. \A k \in LastFrames : WireItems[k] \in Items
    BY WirePicks DEF WireItems
  <2> QED BY <2>1, WirePicks, PickedType DEF OnWire
<1>2. InChannel \in Seq(Items)
  <2>1. \A k \in Real(ch) : ChannelItems[k] \in Items
    BY ChannelPicks DEF ChannelItems
  <2> QED BY <2>1, ChannelPicks, PickedType DEF InChannel
<1>3. Taken \in Seq(Items)
  <2>1. \A k \in Real(received) : received[k] \in Items
    BY ChannelPicks
  <2> QED BY <2>1, ChannelPicks, PickedType DEF Taken
<1>4. InHand \in Seq(Items)
  <2>1. Delivered(hand) \in Items
    BY DeliveredType DEF TypeOK, ReaderTypeOK
  <2> QED BY <2>1 DEF InHand
<1>5. InChannel \o InHand \in Seq(Items)
  BY <1>2, <1>4, ConcatProperties
<1>6. (InChannel \o InHand) \o OnWire \in Seq(Items)
  BY <1>1, <1>5, ConcatProperties
<1> QED BY <1>1, <1>2, <1>3, <1>4, <1>5, <1>6 DEF OnItsWay

\* The writer of a message that has written its last frame writes no more.
LEMMA WireKept ==
  ASSUME TypeOK, UNCHANGED wire,
         \A k \in 1 .. Len(wire) : IsLast(wire[k]) => offset'[wire[k].of] = offset[wire[k].of]
  PROVE  OnWire' = OnWire
<1>1. LastFrames' = LastFrames
  BY DEF LastFrames, IsLast
<1>2. ASSUME NEW k \in LastFrames PROVE WireItems'[k] = WireItems[k]
  <2>1. k \in 1 .. Len(wire) /\ offset'[wire[k].of] = offset[wire[k].of]
    BY DEF LastFrames
  <2> QED BY <2>1 DEF WireItems, ItemOfFrame, Prefix, Chunk
<1>3. PICK P, s, t : P = LastFrames /\ s = WireItems /\ t = WireItems'
  OBVIOUS
<1>4. Picked(t, P) = Picked(s, P)
  BY <1>2, <1>3, WirePicks, PickedSame
<1> QED BY <1>1, <1>3, <1>4 DEF OnWire, Picked, Nth

\* A frame written: if it is a last one, its message comes last.
LEMMA WireAppended ==
  ASSUME TypeOK, TypeOK', NEW f \in Frames, wire' = Append(wire, f),
         \A k \in 1 .. Len(wire) : IsLast(wire[k]) => offset'[wire[k].of] = offset[wire[k].of]
  PROVE  OnWire' = IF IsLast(f) /\ offset'[f.of] <= MaxChunks
                     THEN Append(OnWire, ItemOfFrame(f)') ELSE OnWire
<1>1. PICK N, P, Q, s, t : /\ N = Len(wire) /\ P = LastFrames /\ Q = LastFrames'
                           /\ s = WireItems /\ t = WireItems'
  OBVIOUS
<1>2. /\ N \in Nat /\ Len(wire') = N + 1
      /\ \A k \in 1 .. N : wire'[k] = wire[k]
      /\ wire'[N + 1] = f
  BY <1>1, AppendedWire
<1>3. P \in SUBSET (1 .. N) /\ \A k \in P : s[k] \in Items
  BY <1>1, WirePicks DEF WireItems
<1>4. OnWire = Picked(s, P) /\ OnWire' = Picked(t, Q)
  BY <1>1 DEF OnWire, Picked, Nth
<1>5. ASSUME NEW k \in P PROVE t[k] = s[k]
  <2>1. k \in 1 .. N /\ offset'[wire[k].of] = offset[wire[k].of]
    BY <1>1, <1>3 DEF LastFrames
  <2>2. k \in 1 .. Len(wire') /\ wire'[k] = wire[k]
    BY <1>2, <2>1
  <2>3. ItemOfFrame(wire[k])' = ItemOfFrame(wire[k])
    BY <2>1, <2>2 DEF ItemOfFrame, Prefix, Chunk
  <2> QED BY <1>1, <2>1, <2>2, <2>3 DEF WireItems
<1>6. t[N + 1] = ItemOfFrame(f)'
  BY <1>1, <1>2 DEF WireItems, ItemOfFrame
<1>7. CASE IsLast(f) /\ offset'[f.of] <= MaxChunks
  <2>1. Q = P \cup {N + 1}
    BY <1>1, <1>2, <1>7 DEF LastFrames, IsLast
  <2>2. t[N + 1] \in Items
    <3>1. f.of \in Messages /\ f.id \in Ids /\ offset'[f.of] \in Nat
      BY DEF Frames, TypeOK, WriterTypeOK
    <3>2. Prefix(f.of, offset'[f.of]) \in Datas
      BY <3>1, PrefixType
    <3> QED BY <1>6, <3>1, <3>2 DEF ItemOfFrame, Items, Prefix, Chunk
  <2>3. OneMore(N, P, Q, Items, s, t, t[N + 1])
    BY <1>2, <1>3, <1>5, <2>1, <2>2 DEF OneMore
  <2>4. Picked(t, Q) = Append(Picked(s, P), t[N + 1])
    BY <2>3, PickedAppend
  <2> QED BY <1>4, <1>6, <1>7, <2>4
<1>8. CASE ~(IsLast(f) /\ offset'[f.of] <= MaxChunks)
  <2>1. Q = P
    BY <1>1, <1>2, <1>8 DEF LastFrames, IsLast
  <2>2. Picked(t, P) = Picked(s, P)
    BY <1>2, <1>3, <1>5, PickedSame
  <2> QED BY <1>4, <1>8, <2>1, <2>2
<1> QED BY <1>7, <1>8

\* The first frame taken: if it is a last one, its message goes first.
LEMMA WireTaken ==
  ASSUME TypeOK, wire # <<>>, wire' = Tail(wire), UNCHANGED offset
  PROVE  /\ OnWire' \in Seq(Items)
         /\ OnWire = IF IsLast(Head(wire)) /\ offset[Head(wire).of] <= MaxChunks
                       THEN FirstThen(ItemOfFrame(Head(wire)), OnWire') ELSE OnWire'
<1>1. PICK N, P, Q, s, t : /\ N = Len(wire) /\ P = LastFrames /\ Q = LastFrames'
                           /\ s = WireItems /\ t = WireItems'
  OBVIOUS
<1>2. /\ N \in Nat \ {0} /\ Len(wire') = N - 1
      /\ \A k \in 1 .. N - 1 : wire'[k] = wire[k + 1]
      /\ Head(wire) = wire[1]
  BY <1>1, TakenWire
<1>3. P \in SUBSET (1 .. N) /\ \A k \in P : s[k] \in Items
  BY <1>1, WirePicks DEF WireItems
<1>4. OnWire = Picked(s, P) /\ OnWire' = Picked(t, Q)
  BY <1>1 DEF OnWire, Picked, Nth
<1>5. Q = {k \in 1 .. N - 1 : k + 1 \in P}
  BY <1>1, <1>2 DEF LastFrames, IsLast
<1>6. ASSUME NEW k \in Q PROVE t[k] = s[k + 1]
  <2>1. k \in 1 .. N - 1 /\ k + 1 \in 1 .. N
    BY <1>2, <1>3, <1>5
  <2> QED BY <1>1, <1>2, <2>1 DEF WireItems, ItemOfFrame, Prefix, Chunk
<1>7. /\ Picked(t, Q) \in Seq(Items)
      /\ 1 \in P => Picked(s, P) = FirstThen(s[1], Picked(t, Q))
      /\ 1 \notin P => Picked(s, P) = Picked(t, Q)
  <2>1. OneLess(N, P, Q, Items, s, t)
    BY <1>2, <1>3, <1>5, <1>6 DEF OneLess
  <2> QED BY <2>1, PickedTail
<1>8. /\ 1 \in P <=> IsLast(Head(wire)) /\ offset[Head(wire).of] <= MaxChunks
      /\ s[1] = ItemOfFrame(Head(wire))
  BY <1>1, <1>2 DEF LastFrames, WireItems
<1> QED BY <1>4, <1>7, <1>8

\* A message sent on the channel: it comes last there.
LEMMA ChannelAppended ==
  ASSUME TypeOK, NEW msg \in MuxMessages, ch' = Append(ch, msg)
  PROVE  InChannel' = IF IsError(msg) THEN InChannel ELSE Append(InChannel, Delivered(msg))
<1>1. PICK N, P, Q, s, t : /\ N = Len(ch) /\ P = Real(ch) /\ Q = Real(ch')
                           /\ s = ChannelItems /\ t = ChannelItems'
  OBVIOUS
<1>2. /\ N \in Nat /\ Len(ch') = N + 1
      /\ \A k \in 1 .. N : ch'[k] = ch[k]
      /\ ch'[N + 1] = msg
  <2>1. ch \in Seq(MuxMessages)
    BY DEF TypeOK, ConsumerTypeOK
  <2> QED BY <1>1, <2>1, AppendProperties, LenProperties
<1>3. P \in SUBSET (1 .. N) /\ \A k \in P : s[k] \in Items
  BY <1>1, ChannelPicks DEF ChannelItems
<1>4. InChannel = Picked(s, P) /\ InChannel' = Picked(t, Q)
  BY <1>1 DEF InChannel, Picked, Nth
<1>5. ASSUME NEW k \in P PROVE t[k] = s[k]
  <2>1. k \in 1 .. Len(ch) /\ k \in 1 .. Len(ch') /\ ch'[k] = ch[k]
    BY <1>1, <1>2, <1>3
  <2> QED BY <1>1, <2>1 DEF ChannelItems
<1>6. t[N + 1] = Delivered(msg) /\ Delivered(msg) \in Items
  BY <1>1, <1>2, DeliveredType DEF ChannelItems
<1>7. CASE ~IsError(msg)
  <2>1. Q = P \cup {N + 1}
    BY <1>1, <1>2, <1>7 DEF Real
  <2>2. OneMore(N, P, Q, Items, s, t, Delivered(msg))
    BY <1>2, <1>3, <1>5, <1>6, <2>1 DEF OneMore
  <2>3. Picked(t, Q) = Append(Picked(s, P), Delivered(msg))
    BY <2>2, PickedAppend
  <2> QED BY <1>4, <1>7, <2>3
<1>8. CASE IsError(msg)
  <2>1. Q = P
    BY <1>1, <1>2, <1>8 DEF Real
  <2>2. Picked(t, P) = Picked(s, P)
    BY <1>2, <1>3, <1>5, PickedSame
  <2> QED BY <1>4, <1>8, <2>1, <2>2
<1> QED BY <1>7, <1>8

\* The first message of the channel taken.
LEMMA ChannelTaken ==
  ASSUME TypeOK, ch # <<>>, ch' = Tail(ch)
  PROVE  /\ InChannel' \in Seq(Items)
         /\ InChannel = IF IsError(Head(ch)) THEN InChannel'
                        ELSE FirstThen(Delivered(Head(ch)), InChannel')
<1>1. PICK N, P, Q, s, t : /\ N = Len(ch) /\ P = Real(ch) /\ Q = Real(ch')
                           /\ s = ChannelItems /\ t = ChannelItems'
  OBVIOUS
<1>2. /\ N \in Nat \ {0} /\ Len(ch') = N - 1
      /\ \A k \in 1 .. N - 1 : ch'[k] = ch[k + 1]
      /\ Head(ch) = ch[1]
  <2>1. ch \in Seq(MuxMessages)
    BY DEF TypeOK, ConsumerTypeOK
  <2> QED BY <1>1, <2>1, HeadTailProperties, LenProperties, EmptySeq
<1>3. P \in SUBSET (1 .. N) /\ \A k \in P : s[k] \in Items
  BY <1>1, ChannelPicks DEF ChannelItems
<1>4. InChannel = Picked(s, P) /\ InChannel' = Picked(t, Q)
  BY <1>1 DEF InChannel, Picked, Nth
<1>5. Q = {k \in 1 .. N - 1 : k + 1 \in P}
  BY <1>1, <1>2 DEF Real
<1>6. ASSUME NEW k \in Q PROVE t[k] = s[k + 1]
  <2>1. k \in 1 .. N - 1 /\ k + 1 \in 1 .. N
    BY <1>2, <1>3, <1>5
  <2> QED BY <1>1, <1>2, <2>1 DEF ChannelItems
<1>7. /\ Picked(t, Q) \in Seq(Items)
      /\ 1 \in P => Picked(s, P) = FirstThen(s[1], Picked(t, Q))
      /\ 1 \notin P => Picked(s, P) = Picked(t, Q)
  <2>1. OneLess(N, P, Q, Items, s, t)
    BY <1>2, <1>3, <1>5, <1>6 DEF OneLess
  <2> QED BY <2>1, PickedTail
<1>8. /\ 1 \in P <=> ~IsError(Head(ch))
      /\ s[1] = Delivered(Head(ch))
  BY <1>1, <1>2 DEF Real, ChannelItems
<1> QED BY <1>4, <1>7, <1>8

\* What the consumer takes.
LEMMA TakenAppended ==
  ASSUME TypeOK, NEW item \in Items, received' = Append(received, item)
  PROVE  Taken' = IF IsError(item) THEN Taken ELSE Append(Taken, item)
<1>1. PICK N, P, Q, s, t : /\ N = Len(received) /\ P = Real(received) /\ Q = Real(received')
                           /\ s = received /\ t = received'
  OBVIOUS
<1>2. /\ N \in Nat /\ Len(t) = N + 1
      /\ \A k \in 1 .. N : t[k] = s[k]
      /\ t[N + 1] = item
  BY <1>1, ChannelPicks, AppendProperties
<1>3. P \in SUBSET (1 .. N) /\ \A k \in P : s[k] \in Items /\ t[k] = s[k]
  BY <1>1, <1>2, ChannelPicks
<1>4. Taken = Picked(s, P) /\ Taken' = Picked(t, Q)
  BY <1>1 DEF Taken, Picked, Nth
<1>5. CASE ~IsError(item)
  <2>1. Q = P \cup {N + 1}
    BY <1>1, <1>2, <1>5 DEF Real
  <2>2. OneMore(N, P, Q, Items, s, t, item)
    BY <1>2, <1>3, <2>1 DEF OneMore
  <2>3. Picked(t, Q) = Append(Picked(s, P), item)
    BY <2>2, PickedAppend
  <2> QED BY <1>4, <1>5, <2>3
<1>6. CASE IsError(item)
  <2>1. Q = P
    BY <1>1, <1>2, <1>6 DEF Real
  <2>2. Picked(t, P) = Picked(s, P)
    BY <1>2, <1>3, PickedSame
  <2> QED BY <1>4, <1>6, <2>1, <2>2
<1> QED BY <1>5, <1>6

-----------------------------------------------------------------------------
(* Steps.                                                                    *)

\* What is put behind.
LEMMA ConcatLast ==
  ASSUME NEW S, NEW p \in Seq(S), NEW q \in Seq(S), NEW x \in S
  PROVE  p \o Append(q, x) = Append(p \o q, x)
<1>0. <<x>> \in Seq(S)
  OBVIOUS
<1>1. /\ Append(q, x) = q \o <<x>> /\ Append(p \o q, x) = (p \o q) \o <<x>>
      /\ p \o q \in Seq(S)
  BY AppendIsConcat, ConcatProperties
<1> QED BY <1>0, <1>1, ConcatAssociative

\* What is put before, and in the middle.
LEMMA ConcatFirst ==
  ASSUME NEW S, NEW p \in Seq(S), NEW q \in Seq(S), NEW x \in S
  PROVE  /\ p \o FirstThen(x, q) = Append(p, x) \o q
         /\ FirstThen(x, p) \o q = FirstThen(x, p \o q)
<1>0. <<x>> \in Seq(S)
  OBVIOUS
<1>1. Append(p, x) = p \o <<x>>
  BY AppendIsConcat
<1> QED BY <1>0, <1>1, ConcatAssociative DEF FirstThen

\* What was put first is taken first.
LEMMA FirstTaken ==
  ASSUME NEW S, NEW q \in Seq(S), NEW x \in S
  PROVE  /\ Head(FirstThen(x, q)) = x /\ Tail(FirstThen(x, q)) = q
         /\ FirstThen(x, q) # <<>>
<1>0. <<x>> \in Seq(S) /\ Len(<<x>>) = 1 /\ <<x>>[1] = x
  OBVIOUS
<1>1. PICK one : one = <<x>> /\ one \in Seq(S) /\ Len(one) = 1 /\ one[1] = x
  BY <1>0
<1>2. /\ one \o q \in Seq(S) /\ Len(one \o q) = 1 + Len(q) /\ Len(q) \in Nat
      /\ \A i \in 1 .. 1 + Len(q) : (one \o q)[i] = IF i <= 1 THEN one[i] ELSE q[i - 1]
  BY <1>1, ConcatProperties, LenProperties
<1>3. one \o q # <<>> /\ (one \o q)[1] = x
  BY <1>1, <1>2, EmptySeq
<1>4. /\ Head(one \o q) = x /\ Tail(one \o q) \in Seq(S) /\ Len(Tail(one \o q)) = Len(q)
      /\ \A i \in 1 .. Len(q) : Tail(one \o q)[i] = (one \o q)[i + 1]
  BY <1>2, <1>3, HeadTailProperties
<1>5. \A i \in 1 .. Len(q) : Tail(one \o q)[i] = q[i]
  BY <1>2, <1>4
<1>6. Tail(one \o q) = q
  BY <1>4, <1>5, SeqEqual
<1> QED BY <1>1, <1>3, <1>4, <1>6 DEF FirstThen

\* Where a message is, read off its writer.
LEMMA ProgressOf ==
  ASSUME TypeOK, NEW m \in Messages
  PROVE  /\ Progress[m] = "new" <=> ~Numbered(m)
         /\ Progress[m] = "open" <=> UnderWay(m)
         /\ Progress[m] = "sent" <=> pc[m] = "sent"
         /\ Progress[m] = "failed" <=> pc[m] \in {"cancelled", "aborted", "failed"}
         /\ OpenNumber[m] = IF UnderWay(m) THEN seq[m] ELSE 0
<1>1. pc[m] \in {"load", "store", "number", "begin", "body", "sent",
                 "cancelled", "aborted", "failed"}
  BY DEF TypeOK, WriterTypeOK
<1> QED BY <1>1 DEF Progress, Stage, OpenNumber, Numbered, UnderWay

\* The messages of the other writers stay where they are.
LEMMA OneMoves ==
  ASSUME TypeOK, TypeOK', NEW m \in Messages,
         \A w \in Messages \ {m} : pc'[w] = pc[w] /\ seq'[w] = seq[w],
         NEW to, NEW n, Progress'[m] = to, OpenNumber'[m] = n
  PROVE  Stream!Becomes(m, to, n)
<1>1. \A w \in Messages \ {m} : Progress'[w] = Progress[w] /\ OpenNumber'[w] = OpenNumber[w]
  BY DEF Progress, OpenNumber, UnderWay
<1>2. ASSUME NEW f, NEW g, NEW v, f = [w \in Messages |-> f[w]], g = [w \in Messages |-> g[w]],
             g[m] = v, \A w \in Messages \ {m} : g[w] = f[w]
      PROVE  g = [f EXCEPT ![m] = v]
  BY <1>2
<1>3. PICK p, q, a, b : p = Progress /\ q = Progress' /\ a = OpenNumber /\ b = OpenNumber'
  OBVIOUS
<1>4. /\ p = [w \in Messages |-> p[w]] /\ q = [w \in Messages |-> q[w]]
      /\ a = [w \in Messages |-> a[w]] /\ b = [w \in Messages |-> b[w]]
  BY <1>3 DEF Progress, OpenNumber
<1>5. q = [p EXCEPT ![m] = to]
  BY <1>1, <1>2, <1>3, <1>4
<1>6. b = [a EXCEPT ![m] = n]
  BY <1>1, <1>2, <1>3, <1>4
<1> QED BY <1>3, <1>5, <1>6 DEF Stream!Becomes

\* What the writers leave alone.
LEMMA WriterKeeps ==
  ASSUME TypeOK, WriterFrame
  PROVE  UNCHANGED <<InChannel, InHand, HasEnded, Taken>>
BY DEF WriterFrame, readerVars, InChannel, ChannelItems, InHand, HasEnded, Taken, Picked, Nth,
       Real, Delivered, IsError

\* The messages whose last frame is on the stream are written.
LEMMA LastWritten ==
  ASSUME TypeOK, WireWhole
  PROVE  \A k \in 1 .. Len(wire) : IsLast(wire[k]) => pc[wire[k].of] \in {"sent", "aborted"}
BY DEF WireWhole, FramesGenuine, Genuine, IsLast, IsCut

\* A writer that writes nothing.
LEMMA SilentSeen ==
  ASSUME TypeOK, TypeOK', WireWhole, NEW m \in Messages, WriterFrame,
         \A w \in Messages \ {m} : pc'[w] = pc[w] /\ seq'[w] = seq[w],
         UNCHANGED <<wire, offset>>, pc'[m] \notin {"body", "sent"}, pc[m] # "sent",
         \/ ~Numbered(m)
         \/ stream # "open" /\ UnderWay(m) /\ Numbered(m)' /\ seq'[m] = seq[m]
  PROVE  Stream!Next \/ UNCHANGED Stream!vars
<1>1. OnItsWay' = OnItsWay /\ UNCHANGED <<HasEnded, Taken>>
  BY WireKept, WriterKeeps DEF OnItsWay
<1>2. ~UnderWay(m)' /\ OpenNumber'[m] = 0 /\ pc'[m] # "sent"
  BY DEF UnderWay, OpenNumber
<1>3. CASE Numbered(m)'
  <2>1. Progress'[m] = "failed"
    <3>1. pc'[m] \in {"cancelled", "aborted", "failed"}
      BY <1>2, <1>3 DEF TypeOK, WriterTypeOK, Numbered, UnderWay
    <3> QED BY <3>1 DEF Progress, Stage
  <2>2. Stream!Becomes(m, "failed", 0)
    BY <1>2, <2>1, OneMoves
  <2>3. Progress[m] = "new" \/ (Progress[m] = "open" /\ HasEnded)
    BY ProgressOf DEF HasEnded
  <2>4. Stream!GiveUp(m)
    BY <1>1, <2>2, <2>3 DEF Stream!GiveUp
  <2> QED BY <2>4 DEF Stream!Next
<1>4. CASE ~Numbered(m)'
  <2>1. ~Numbered(m) /\ ~UnderWay(m)
    BY <1>4 DEF Numbered, UnderWay
  <2>2. Progress'[m] = Progress[m] /\ OpenNumber'[m] = OpenNumber[m]
    <3>1. /\ pc[m] \in {"load", "store", "number", "begin"}
          /\ pc'[m] \in {"load", "store", "number", "begin"}
      BY <1>4, <2>1 DEF Numbered
    <3> QED BY <1>2, <2>1, <3>1 DEF Progress, Stage, OpenNumber
  <2>3. \A w \in Messages : Progress'[w] = Progress[w] /\ OpenNumber'[w] = OpenNumber[w]
    <3>1. \A w \in Messages \ {m} : Progress'[w] = Progress[w] /\ OpenNumber'[w] = OpenNumber[w]
      BY DEF Progress, OpenNumber, UnderWay
    <3> QED BY <2>2, <3>1
  <2>4. Progress' = Progress /\ OpenNumber' = OpenNumber
    BY <2>3 DEF Progress, OpenNumber
  <2> QED BY <1>1, <2>4 DEF Stream!vars
<1> QED BY <1>3, <1>4

\* The next frame of a writer: a message begins, goes on, is complete or is cut.
LEMMA FrameSeen ==
  ASSUME SInv, TypeOK', NEW m \in Messages, WriterFrame, stream = "open",
         \A w \in Messages \ {m} : pc'[w] = pc[w] /\ seq'[w] = seq[w],
         NEW f \in Frames, wire' = Append(wire, f), NextFrame(m, f)
  PROVE  Stream!Next \/ UNCHANGED Stream!vars
<1>0. TypeOK /\ WireWhole
  BY DEF SInv, WholeInv
<1>1. UNCHANGED <<InChannel, InHand, HasEnded, Taken>> /\ ~HasEnded
  BY <1>0, WriterKeeps DEF HasEnded
<1>2. ASSUME NEW k \in 1 .. Len(wire), IsLast(wire[k])
      PROVE  offset'[wire[k].of] = offset[wire[k].of]
  <2>1. pc[wire[k].of] \in {"sent", "aborted"} /\ wire[k].of \in Messages
    BY <1>0, <1>2, LastWritten, WireFrames
  <2>2. pc[m] \in {"begin", "body"} /\ (offset' = offset \/ offset' = [offset EXCEPT ![m] = @ + 1])
    BY DEF NextFrame
  <2> QED BY <1>0, <2>1, <2>2, WireFrames
<1>3. OnWire' = IF IsLast(f) /\ offset'[m] <= MaxChunks
                  THEN Append(OnWire, ItemOfFrame(f)') ELSE OnWire
  BY <1>0, <1>2, WireAppended DEF NextFrame
<1>4. ASSUME ~IsLast(f) PROVE UNCHANGED <<OnItsWay, HasEnded, Taken>>
  BY <1>1, <1>3, <1>4 DEF OnItsWay
<1>5. pc[m] \in {"begin", "body"} /\ seq'[m] = seq[m] /\ seq[m] \in Ids
  BY <1>0, WireFrames DEF NextFrame
<1>6. CASE f.type = "start"
  <2>1. pc[m] = "begin" /\ pc'[m] = "body" /\ UNCHANGED <<OnItsWay, HasEnded, Taken>>
    BY <1>4, <1>6 DEF NextFrame, IsLast
  <2>2. Progress[m] = "new" /\ Progress'[m] = "open" /\ OpenNumber'[m] = seq[m]
    BY <1>5, <2>1 DEF Progress, Stage, OpenNumber, UnderWay
  <2>3. Stream!Becomes(m, "open", seq[m])
    BY <1>0, <2>2, OneMoves
  <2>4. ASSUME NEW other \in Messages, Progress[other] = "open" PROVE OpenNumber[other] # seq[m]
    <3>1. UnderWay(other) /\ OpenNumber[other] = seq[other]
      BY <1>0, <2>4, ProgressOf
    <3>2. other # m
      BY <2>1, <3>1 DEF UnderWay
    <3> QED BY <1>6, <3>1, <3>2 DEF NextFrame
  <2>5. Stream!Begin(m)
    BY <1>1, <1>5, <2>1, <2>2, <2>3, <2>4 DEF Stream!Begin
  <2> QED BY <2>5 DEF Stream!Next
<1>7. CASE f.type = "data"
  <2>1. pc' = pc /\ seq' = seq /\ UNCHANGED <<OnItsWay, HasEnded, Taken>>
    BY <1>4, <1>7 DEF NextFrame, IsLast
  <2> QED BY <2>1 DEF Stream!vars, Progress, OpenNumber, UnderWay
<1>8. ASSUME IsLast(f), NEW n \in Nat, n = offset[m], offset' = offset
      PROVE  /\ OpenNumber[m] = seq[m]
             /\ OnItsWay' = IF Len(Prefix(m, n)) > MaxChunks THEN OnItsWay
                            ELSE Append(OnItsWay, Stream!Item(OpenNumber[m], Prefix(m, n)))
  <2>1. ItemOfFrame(f)' = Stream!Item(seq[m], Prefix(m, n))
    BY <1>8 DEF ItemOfFrame, NextFrame, Stream!Item, Prefix, Chunk
  <2>2. Stream!Item(seq[m], Prefix(m, n)) \in Items /\ Len(Prefix(m, n)) = n
    BY <1>5, PrefixType DEF Stream!Item, Items
  <2>3. /\ OnWire \in Seq(Items) /\ InChannel \o InHand \in Seq(Items)
        /\ MaxChunks \in Nat
    BY <1>0, PlacesType, SpaceAssumption
  <2>4. OpenNumber[m] = seq[m]
    BY <1>8 DEF OpenNumber, UnderWay, NextFrame, IsLast
  <2>5. CASE n > MaxChunks
    <3>1. OnWire' = OnWire
      BY <1>3, <1>8, <2>3, <2>5
    <3> QED BY <1>1, <2>2, <2>4, <2>5, <3>1 DEF OnItsWay
  <2>6. CASE ~(n > MaxChunks)
    <3>1. OnWire' = Append(OnWire, Stream!Item(seq[m], Prefix(m, n)))
      BY <1>3, <1>8, <2>1, <2>3, <2>6
    <3>2. (InChannel \o InHand) \o Append(OnWire, Stream!Item(seq[m], Prefix(m, n)))
            = Append((InChannel \o InHand) \o OnWire, Stream!Item(seq[m], Prefix(m, n)))
      <4>1. PICK p \in Seq(Items), q \in Seq(Items), x \in Items :
               p = InChannel \o InHand /\ q = OnWire /\ x = Stream!Item(seq[m], Prefix(m, n))
        BY <2>2, <2>3
      <4>2. p \o Append(q, x) = Append(p \o q, x)
        BY ConcatLast
      <4> QED BY <4>1, <4>2
    <3> QED BY <1>1, <2>2, <2>4, <2>6, <3>1, <3>2 DEF OnItsWay
  <2> QED BY <2>5, <2>6
<1>9. ASSUME IsLast(f)
      PROVE  /\ pc[m] = "body" /\ offset' = offset /\ offset[m] \in 0 .. Chunks[m]
             /\ Progress[m] = "open" /\ OpenNumber'[m] = 0
             /\ Payloads[m] = Prefix(m, Chunks[m]) /\ Chunks[m] \in Nat
  <2>1. pc[m] = "body" /\ offset' = offset /\ pc'[m] # "body"
    BY <1>9 DEF NextFrame, IsLast
  <2>2. offset[m] \in 0 .. Chunks[m] /\ Chunks[m] \in Nat
    BY <1>0, MessageAssumption DEF TypeOK, WriterTypeOK
  <2> QED BY <2>1, <2>2 DEF Progress, Stage, OpenNumber, UnderWay, Payloads, Payload
<1>10. CASE f.type = "end"
  <2>1. IsLast(f) /\ offset[m] = Chunks[m] /\ pc'[m] = "sent"
    BY <1>10 DEF NextFrame, IsLast
  <2>2. Progress'[m] = "sent"
    BY <2>1 DEF Progress, Stage
  <2>3. Stream!Becomes(m, "sent", 0)
    BY <1>0, <1>9, <2>1, <2>2, OneMoves
  <2>4. Stream!Queues(m, Payloads[m])
    BY <1>8, <1>9, <2>1 DEF Stream!Queues
  <2>5. Stream!Complete(m)
    BY <1>1, <1>9, <2>1, <2>3, <2>4 DEF Stream!Complete
  <2> QED BY <2>5 DEF Stream!Next
<1>11. CASE f.type = "abort"
  <2>1. IsLast(f) /\ pc'[m] = "aborted"
    BY <1>11 DEF NextFrame, IsLast
  <2>2. Progress'[m] = "failed"
    BY <2>1 DEF Progress, Stage
  <2>3. Stream!Becomes(m, "failed", 0)
    BY <1>0, <1>9, <2>1, <2>2, OneMoves
  <2>4. /\ offset[m] \in 0 .. Len(Payloads[m])
        /\ SubSeq(Payloads[m], 1, offset[m]) = Prefix(m, offset[m])
    BY <1>9, <2>1, PrefixType
  <2>5. Stream!Queues(m, SubSeq(Payloads[m], 1, offset[m]))
    <3>1. OnItsWay' = IF Len(Prefix(m, offset[m])) > MaxChunks THEN OnItsWay
                      ELSE Append(OnItsWay, Stream!Item(OpenNumber[m], Prefix(m, offset[m])))
      BY <1>8, <1>9, <2>1
    <3> QED BY <2>4, <3>1 DEF Stream!Queues
  <2>6. Stream!Cut(m)
    BY <1>1, <1>9, <2>1, <2>3, <2>4, <2>5 DEF Stream!Cut
  <2> QED BY <2>6 DEF Stream!Next
<1> QED BY <1>6, <1>7, <1>10, <1>11 DEF NextFrame

\* Every step of a writer.
LEMMA WriterSeen ==
  ASSUME Distinct, SInv, TypeOK', NEW m \in Messages, WriterStep(m) \/ WriterCancel(m)
  PROVE  Stream!Next \/ UNCHANGED Stream!vars
<1>1. TypeOK /\ WireWhole
  BY DEF SInv, WholeInv
<1> QED BY <1>1, WriterCases, SilentSeen, FrameSeen

\* The reader moves messages along, in their order, and loses none.
LEMMA ReaderKeeps ==
  ASSUME TypeOK, ReaderStep
  PROVE  /\ UNCHANGED <<Progress, OpenNumber, HasEnded, Taken, offset>>
         /\ reader \in {"check", "read", "opened", "drop", "count", "send"}
         /\ reader # "send" => InHand = <<>> /\ ch' = ch /\ InChannel' = InChannel
         /\ reader' # "send" => InHand' = <<>>
         /\ hand' = ErrorMessage => InHand' = <<>>
<1>1. UNCHANGED <<writerVars, stream, received>>
  BY DEF ReaderStep
<1>2. UNCHANGED <<Progress, OpenNumber, HasEnded, Taken, offset>>
  BY <1>1 DEF writerVars, Progress, OpenNumber, UnderWay, HasEnded, Taken, Real, Picked, Nth
<1>3. reader \in {"check", "read", "opened", "drop", "count", "send"}
  BY DEF ReaderStep, ReaderCheck, ReadStart, ReaderCountsUp, ReadData, ReaderDrops, ReadLast,
         ReaderCountsDown, ReadCut, ReadEnds, ReaderSends, ReaderTakes, ReaderGoes
<1>4. reader # "send" => ch' = ch
  BY DEF ReaderStep, ReaderCheck, ReadStart, ReaderCountsUp, ReadData, ReaderDrops, ReadLast,
         ReaderCountsDown, ReadCut, ReadEnds, ReaderSends, ReaderTakes, ReaderGoes
<1>5. ch' = ch => InChannel' = InChannel
  BY DEF InChannel, ChannelItems, Picked, Nth, Real
<1>6. IsError(ErrorMessage)
  BY DEF IsError, ErrorMessage, Message
<1>7. hand' = ErrorMessage => InHand' = <<>>
  BY <1>6 DEF InHand, IsError
<1>8. (reader # "send" => InHand = <<>>) /\ (reader' # "send" => InHand' = <<>>)
  BY DEF InHand
<1> QED BY <1>2, <1>3, <1>4, <1>5, <1>7, <1>8

\* Steps that take no message off the stream.
LEMMA PassingSeen ==
  ASSUME TypeOK, ReaderStep,
         ReaderCheck \/ ReaderCountsUp \/ ReaderCountsDown \/ ReaderDrops \/ ReadEnds
  PROVE  UNCHANGED Stream!vars
<1>1. UNCHANGED wire /\ reader # "send" /\ (reader' # "send" \/ hand' = ErrorMessage)
  BY DEF ReaderCheck, ReaderCountsUp, ReaderCountsDown, ReaderDrops, ReadEnds, ReaderGoes,
         HandsOver
<1>2. OnWire' = OnWire
  BY <1>1, ReaderKeeps, WireKept
<1>3. InHand = <<>> /\ InHand' = <<>> /\ InChannel' = InChannel
  BY <1>1, ReaderKeeps
<1>4. OnItsWay' = OnItsWay
  BY <1>2, <1>3 DEF OnItsWay
<1> QED BY <1>4, ReaderKeeps DEF Stream!vars

\* Start, Data and cut frames, and what came too late: they end no message.
LEMMA NoMessageSeen ==
  ASSUME TypeOK, ReaderStep, reader = "read", wire # <<>>, wire' = Tail(wire),
         reader' # "send" \/ hand' = ErrorMessage,
         ~(IsLast(Head(wire)) /\ offset[Head(wire).of] <= MaxChunks)
  PROVE  UNCHANGED Stream!vars
<1>1. OnWire' = OnWire
  BY ReaderKeeps, WireTaken
<1>2. InHand = <<>> /\ InHand' = <<>> /\ InChannel' = InChannel
  BY ReaderKeeps
<1>3. OnItsWay' = OnItsWay
  BY <1>1, <1>2 DEF OnItsWay
<1> QED BY <1>3, ReaderKeeps DEF Stream!vars

\* The last frame of a message that has no entry: the message was too long.
LEMMA MissedIsLong ==
  ASSUME SInv, ~nodeClosed, reader = "read", wire # <<>>, IsLast(Head(wire)),
         ~readBuffer[Head(wire).id].open
  PROVE  ~(offset[Head(wire).of] <= MaxChunks)
<1>0. TypeOK /\ WireWhole /\ Attends
  BY DEF SInv, WholeInv
<1>1. PICK m, f : f = Head(wire) /\ m = f.of
  OBVIOUS
<1>2. /\ Len(wire) \in Nat \ {0} /\ f = wire[1] /\ 1 \in 1 .. Len(wire)
  <2>1. wire \in Seq(Frames)
    BY <1>0 DEF TypeOK, StreamTypeOK
  <2> QED BY <1>1, <2>1, HeadTailProperties, LenProperties, EmptySeq
<1>3. m \in Messages /\ ~IsCut(f) /\ f.type \in {"end", "abort"}
  BY <1>0, <1>1, <1>2, WireFrames DEF IsLast, IsCut
<1>4. stream # "error"
  BY <1>0 DEF WireWhole, Broken
<1>5. Attended(m)
  <2>1. Expected(m)
    BY <1>1, <1>2 DEF Expected, LastComes
  <2> QED BY <1>0, <1>3, <1>4, <2>1 DEF Attends
<1>6. ~StartComes(m)
  <2> SUFFICES ASSUME NEW k \in 1 .. Len(wire), wire[k].of = m, wire[k].type = "start"
               PROVE  FALSE
    BY DEF StartComes
  <2>1. k # 1
    BY <1>2, <1>3
  <2>2. 1 \in 1 .. k - 1 /\ ~IsCut(wire[k]) /\ wire[1].of = wire[k].of
    BY <1>1, <1>2, <2>1 DEF IsCut
  <2>3. Before(wire[1], wire[k])
    BY <1>0, <2>2 DEF WireWhole, FramesInOrder
  <2> QED BY <1>2, <1>3, <2>3 DEF Before
<1>7. seq[m] = f.id
  BY <1>0, <1>1, <1>2, <1>3 DEF WireWhole, FramesGenuine, Genuine
<1>8. offset[m] > MaxChunks /\ offset[m] \in Nat /\ MaxChunks \in Nat
  BY <1>0, <1>1, <1>3, <1>5, <1>6, <1>7, WireFrames, SpaceAssumption DEF Attended
<1> QED BY <1>1, <1>8

\* The last frame of a message: the message is in the reader's hand.
LEMMA LastSeen ==
  ASSUME SInv, ReaderStep, ~nodeClosed, ReadLast
  PROVE  UNCHANGED Stream!vars
<1>0. TypeOK /\ WireWhole /\ EntriesWhole
  BY DEF SInv, WholeInv
<1>1. PICK f, j : f = Head(wire) /\ j = f.id
  OBVIOUS
<1>2. /\ reader = "read" /\ wire # <<>> /\ wire' = Tail(wire) /\ frameID' = j
      /\ IsLast(f) /\ ~IsCut(f)
  BY <1>1 DEF ReadLast, ReaderTakes, IsLast, IsCut
<1>3. j \in Ids /\ f.of \in Messages
  <2>1. wire \in Seq(Frames)
    BY <1>0 DEF TypeOK, StreamTypeOK
  <2>2. f \in Frames
    BY <1>1, <1>2, <2>1, HeadTailProperties
  <2> QED BY <1>1, <2>2 DEF Frames
<1>4. CASE ~readBuffer[j].open
  <2>1. hand' = ErrorMessage
    BY <1>2, <1>4 DEF ReadLast, HandsOver
  <2> QED BY <1>0, <1>1, <1>2, <1>4, <2>1, MissedIsLong, NoMessageSeen
<1>5. CASE readBuffer[j].open
  <2>1. PICK m \in Messages, n \in Nat :
           readBuffer[j].data = Prefix(m, n) /\ f.of = m /\ offset[m] = n
    BY <1>0, <1>1, <1>2, <1>3, <1>5, EntryIsNext
  <2>2. n <= MaxChunks
    <3>1. Len(readBuffer[j].data) <= MaxChunks /\ Len(readBuffer[j].data) = n
      BY <1>0, <1>3, <2>1, PrefixType DEF TypeOK
    <3> QED BY <3>1
  <2>3. PICK x \in Items : x = ItemOfFrame(f) /\ x = [seq |-> j, data |-> Prefix(m, n)]
    BY <1>1, <1>3, <2>1, PrefixType DEF ItemOfFrame, Items
  <2>4. OnWire' \in Seq(Items) /\ OnWire = FirstThen(x, OnWire')
    BY <1>0, <1>1, <1>2, <2>1, <2>2, <2>3, ReaderKeeps, WireTaken
  <2>5. InHand = <<>> /\ InHand' = <<x>> /\ InChannel' = InChannel
    <3>1. /\ reader' = "send" /\ hand'.id = j /\ hand'.data = Prefix(m, n)
      BY <1>2, <1>5, <2>1 DEF ReadLast, HandsOver, Message
    <3>2. ~IsError(hand')
      BY <2>1, <3>1, PrefixType DEF IsError
    <3>3. InHand' = <<Delivered(hand')>>
      BY <3>1, <3>2 DEF InHand, IsError, Delivered
    <3> QED BY <1>0, <1>2, <2>3, <3>1, <3>3, ReaderKeeps DEF Delivered
  <2>6. OnItsWay' = OnItsWay
    <3>1. PICK p \in Seq(Items), q \in Seq(Items) : p = InChannel /\ q = OnWire'
      BY <1>0, <2>4, PlacesType
    <3>2. <<x>> \in Seq(Items) /\ <<>> \in Seq(Items)
      OBVIOUS
    <3>3. (p \o <<x>>) \o q = p \o (<<x>> \o q)
      BY <3>2, ConcatAssociative
    <3>4. p \o <<>> = p
      BY ConcatEmptySeq
    <3> QED BY <2>4, <2>5, <3>1, <3>3, <3>4 DEF OnItsWay, FirstThen
  <2> QED BY <1>0, <2>6, ReaderKeeps DEF Stream!vars
<1> QED BY <1>4, <1>5

\* The message goes into the channel.
LEMMA SendSeen ==
  ASSUME TypeOK, ReaderStep, ReaderSends
  PROVE  UNCHANGED Stream!vars
<1>1. /\ reader = "send" /\ reader' # "send" /\ ch' = Append(ch, hand)
      /\ UNCHANGED <<wire, hand>> /\ hand \in MuxMessages
  BY DEF ReaderSends, ReaderGoes, TypeOK, ReaderTypeOK
<1>2. OnWire' = OnWire
  BY <1>1, ReaderKeeps, WireKept
<1>3. InHand' = <<>>
  BY <1>1, ReaderKeeps
<1>4. InChannel' = IF IsError(hand) THEN InChannel ELSE Append(InChannel, Delivered(hand))
  BY <1>1, ChannelAppended
<1>5. PICK p \in Seq(Items) : p = InChannel
  BY PlacesType
<1>6. p \o <<>> = p /\ <<>> \in Seq(Items)
  BY ConcatEmptySeq
<1>7. InChannel' \o InHand' = InChannel \o InHand
  <2>1. CASE IsError(hand)
    BY <1>3, <1>4, <2>1 DEF InHand
  <2>2. CASE ~IsError(hand)
    <3>1. PICK x \in Items : x = Delivered(hand)
      BY <1>1, DeliveredType
    <3>2. InHand = <<x>> /\ InChannel' = Append(p, x)
      BY <1>1, <1>4, <1>5, <2>2, <3>1 DEF InHand
    <3>3. Append(p, x) = p \o <<x>> /\ Append(p, x) \in Seq(Items)
      BY AppendIsConcat, AppendProperties
    <3>4. Append(p, x) \o <<>> = Append(p, x)
      BY <3>3, ConcatEmptySeq
    <3> QED BY <1>3, <1>5, <3>2, <3>3, <3>4
  <2> QED BY <2>1, <2>2
<1>8. OnItsWay' = OnItsWay
  BY <1>2, <1>7 DEF OnItsWay
<1> QED BY <1>8, ReaderKeeps DEF Stream!vars

\* Every step of the reader.
LEMMA ReaderSeen ==
  ASSUME SInv, ReaderStep, ~nodeClosed
  PROVE  UNCHANGED Stream!vars
<1>0. TypeOK
  BY DEF SInv
<1>1. CASE ReadStart \/ ReadData \/ ReadCut
  <2>1. /\ reader = "read" /\ wire # <<>> /\ wire' = Tail(wire)
        /\ reader' # "send" \/ hand' = ErrorMessage
        /\ ~IsLast(Head(wire))
    BY <1>1 DEF ReadStart, ReadData, ReadCut, ReaderTakes, HandsOver, IsLast
  <2> QED BY <1>0, <2>1, NoMessageSeen
<1> QED BY <1>0, <1>1, PassingSeen, LastSeen, SendSeen DEF ReaderStep

\* When the stream ends, what is not read yet may be lost.
LEMMA EndSeen ==
  ASSUME TypeOK, TypeOK', StreamStep
  PROVE  Stream!End
<1>1. /\ UNCHANGED <<writerVars, readerVars, ctxDone, nodeClosed, ch, received>>
      /\ stream = "open" /\ stream' # "open" /\ (StreamEnds \/ StreamBreaks)
  BY DEF StreamStep, StreamEnds, StreamBreaks
<1>2. UNCHANGED <<Progress, OpenNumber, Taken, offset>> /\ ~HasEnded /\ HasEnded'
  BY <1>1 DEF writerVars, Progress, OpenNumber, UnderWay, Taken, Real, Picked, Nth, HasEnded
<1>3. UNCHANGED <<InChannel, InHand>>
  BY <1>1 DEF readerVars, InChannel, ChannelItems, InHand, Picked, Nth, Real, Delivered, IsError
<1>4. PICK p, q : /\ p = InChannel \o InHand /\ q = OnWire
                  /\ p \in Seq(Items) /\ q \in Seq(Items)
  BY PlacesType
<1>5. /\ OnItsWay = p \o q /\ p \o q \in Seq(Items)
      /\ Len(p) \in Nat /\ Len(q) \in Nat /\ Len(p \o q) = Len(p) + Len(q)
      /\ \A i \in 1 .. Len(p) + Len(q) : (p \o q)[i] = IF i <= Len(p) THEN p[i] ELSE q[i - Len(p)]
  BY <1>4, ConcatProperties, LenProperties DEF OnItsWay
<1>6. CASE StreamBreaks
  <2>1. OnWire' = <<>>
    <3>1. wire' = <<>> /\ Len(wire') = 0
      BY <1>6 DEF StreamBreaks
    <3>2. LastFrames' = {}
      BY <3>1 DEF LastFrames
    <3> QED BY <3>2, FS_EmptySet DEF OnWire, Picked
  <2>2. OnItsWay' = p
    BY <1>3, <1>4, <2>1, ConcatEmptySeq DEF OnItsWay
  <2>3. p = SubSeq(p \o q, 1, Len(p))
    <3>1. PICK r \in Seq(Items) : r = p \o q
      BY <1>5
    <3>2. PICK n \in Int : n = Len(p) /\ n \in Nat
      BY <1>5
    <3>3. \A i \in 1 .. n : r[i] = p[i] /\ p[i] \in Items
      BY <1>4, <1>5, <3>1, <3>2, ElementOfSeq
    <3>4. /\ SubSeq(r, 1, n) \in Seq(Items) /\ Len(SubSeq(r, 1, n)) = n
          /\ \A i \in 1 .. n : SubSeq(r, 1, n)[i] = r[i]
      BY <3>2, <3>3, SubSeqProperties
    <3>5. p = SubSeq(r, 1, n)
      BY <1>4, <3>2, <3>3, <3>4, SeqEqual
    <3> QED BY <3>1, <3>2, <3>5
  <2>4. Len(p) \in 0 .. Len(OnItsWay) /\ OnItsWay' = SubSeq(OnItsWay, 1, Len(p))
    BY <1>5, <2>2, <2>3
  <2> QED BY <1>2, <2>4 DEF Stream!End
<1>7. CASE StreamEnds
  <2>1. OnWire' = OnWire
    <3>1. CASE wire' = wire
      BY <1>2, <3>1, WireKept
    <3>2. CASE \E m \in Messages : wire' = Append(wire, Frame("cut", seq[m], m, 0))
      <4>0. PICK m \in Messages : wire' = Append(wire, Frame("cut", seq[m], m, 0))
        BY <3>2
      <4>1. PICK f : f = Frame("cut", seq[m], m, 0) /\ wire' = Append(wire, f)
        BY <4>0
      <4>2. f \in Frames /\ ~IsLast(f)
        BY <4>1, WireFrames DEF Frame, Frames, IsLast
      <4> QED BY <1>2, <4>1, <4>2, WireAppended
    <3> QED BY <1>7, <3>1, <3>2 DEF StreamEnds
  <2>2. OnItsWay' = OnItsWay
    BY <1>3, <2>1 DEF OnItsWay
  <2>3. SubSeq(OnItsWay, 1, Len(OnItsWay)) = OnItsWay
    <3>1. PICK r \in Seq(Items) : r = OnItsWay
      BY PlacesType
    <3> QED BY <3>1, SubSeqFull
  <2>4. Len(OnItsWay) \in 0 .. Len(OnItsWay)
    BY <1>5
  <2> QED BY <1>2, <2>2, <2>3, <2>4 DEF Stream!End
<1> QED BY <1>1, <1>6, <1>7

\* The consumer takes a message, or an error, which is none.
LEMMA ReceiveSeen ==
  ASSUME TypeOK, Receive
  PROVE  Stream!Deliver \/ UNCHANGED Stream!vars
<1>1. /\ ch # <<>> /\ ch' = Tail(ch)
      /\ UNCHANGED <<writerVars, wire, stream, readerVars>>
      /\ received' = Append(received, Delivered(Head(ch)))
  BY DEF Receive
<1>2. UNCHANGED <<Progress, OpenNumber, HasEnded, InHand, offset>>
  BY <1>1 DEF writerVars, readerVars, Progress, OpenNumber, UnderWay, HasEnded, InHand,
              Delivered, IsError
<1>3. OnWire' = OnWire
  BY <1>1, <1>2, WireKept
<1>4. PICK h \in MuxMessages : h = Head(ch)
  <2>1. ch \in Seq(MuxMessages)
    BY DEF TypeOK, ConsumerTypeOK
  <2> QED BY <1>1, <2>1, HeadTailProperties
<1>5. PICK x \in Items : x = Delivered(h) /\ (IsError(x) <=> IsError(h))
  BY DeliveredType
<1>6. Taken' = IF IsError(h) THEN Taken ELSE Append(Taken, x)
  BY <1>1, <1>4, <1>5, TakenAppended
<1>7. /\ InChannel' \in Seq(Items)
      /\ InChannel = IF IsError(h) THEN InChannel' ELSE FirstThen(x, InChannel')
  BY <1>1, <1>4, <1>5, ChannelTaken
<1>8. CASE IsError(h)
  <2>1. OnItsWay' = OnItsWay /\ Taken' = Taken
    BY <1>2, <1>3, <1>6, <1>7, <1>8 DEF OnItsWay
  <2> QED BY <1>2, <2>1 DEF Stream!vars
<1>9. CASE ~IsError(h)
  <2>1. PICK c \in Seq(Items), i \in Seq(Items), w \in Seq(Items) :
           c = InChannel' /\ i = InHand /\ w = OnWire
    BY <1>7, PlacesType
  <2>2. OnItsWay = (FirstThen(x, c) \o i) \o w /\ OnItsWay' = (c \o i) \o w
    BY <1>2, <1>3, <1>7, <1>9, <2>1 DEF OnItsWay
  <2>3. c \o i \in Seq(Items) /\ (c \o i) \o w \in Seq(Items)
    BY ConcatProperties
  <2>4. (FirstThen(x, c) \o i) \o w = FirstThen(x, (c \o i) \o w)
    <3>1. PICK e \in Seq(Items) : e = c \o i
      BY <2>3
    <3>2. FirstThen(x, c) \o i = FirstThen(x, e)
      BY <3>1, ConcatFirst
    <3>3. FirstThen(x, e) \o w = FirstThen(x, e \o w)
      BY ConcatFirst
    <3> QED BY <3>1, <3>2, <3>3
  <2>5. /\ OnItsWay # <<>> /\ Head(OnItsWay) = x /\ Tail(OnItsWay) = OnItsWay'
    <3>1. PICK z \in Seq(Items) : z = (c \o i) \o w
      BY <2>3
    <3>2. /\ Head(FirstThen(x, z)) = x /\ Tail(FirstThen(x, z)) = z
          /\ FirstThen(x, z) # <<>>
      BY FirstTaken
    <3> QED BY <2>2, <2>4, <3>1, <3>2
  <2> QED BY <1>2, <1>6, <1>9, <2>5 DEF Stream!Deliver
<1> QED BY <1>8, <1>9

\* What concerns no message.
LEMMA NothingSeen ==
  ASSUME TypeOK, UNCHANGED <<writerVars, wire, stream, reader, hand, ch, received>>
  PROVE  UNCHANGED Stream!vars
<1>1. UNCHANGED <<Progress, OpenNumber, HasEnded, Taken, offset>>
  BY DEF writerVars, Progress, OpenNumber, UnderWay, HasEnded, Taken, Real, Picked, Nth
<1>2. OnWire' = OnWire
  BY <1>1, WireKept
<1>3. InChannel' = InChannel /\ InHand' = InHand
  BY DEF InChannel, ChannelItems, InHand, Picked, Nth, Real, Delivered, IsError
<1> QED BY <1>1, <1>2, <1>3 DEF Stream!vars, OnItsWay

\* Every step of the multiplexer is one of the stream, or none.
LEMMA NextSeen ==
  ASSUME Distinct, SInv, SInv', [Next]_vars
  PROVE  [Stream!Next \/ nodeClosed]_(Stream!vars)
<1>0. TypeOK /\ TypeOK'
  BY DEF SInv
<1>1. ASSUME NEW m \in Messages, WriterStep(m) \/ WriterCancel(m)
      PROVE  Stream!Next \/ UNCHANGED Stream!vars
  BY <1>0, <1>1, WriterSeen
<1>2. CASE StreamStep
  BY <1>0, <1>2, EndSeen DEF Stream!Next
<1>3. CASE ReaderStep /\ ~nodeClosed
  BY <1>3, ReaderSeen
<1>4. CASE CloseNode \/ StopReading \/ UNCHANGED vars
  <2>1. UNCHANGED <<writerVars, wire, stream, reader, hand, ch, received>>
    BY <1>4 DEF CloseNode, StopReading, vars, readerVars
  <2> QED BY <1>0, <2>1, NothingSeen
<1>5. CASE Receive
  BY <1>0, <1>5, ReceiveSeen DEF Stream!Next
<1> QED BY <1>1, <1>2, <1>3, <1>4, <1>5 DEF Next

\* Nothing has been sent yet.
LEMMA InitSeen == Init => Stream!Init
<1> SUFFICES ASSUME Init PROVE Stream!Init
  OBVIOUS
<1>1. /\ wire = <<>> /\ ch = <<>> /\ received = <<>> /\ stream = "open" /\ reader = "check"
      /\ pc = [m \in Messages |-> IF m \in AutoMessages THEN "load" ELSE "begin"]
  BY DEF Init
<1> HIDE DEF Init
<1>2. Progress = [m \in Messages |-> "new"] /\ OpenNumber = [m \in Messages |-> 0]
  <2>1. \A m \in Messages : Stage(pc[m]) = "new" /\ ~UnderWay(m)
    BY <1>1 DEF Stage, UnderWay
  <2> QED BY <2>1 DEF Progress, OpenNumber
<1>3. LastFrames = {} /\ Real(ch) = {} /\ Real(received) = {}
  BY <1>1 DEF LastFrames, Real
<1>4. OnWire = <<>> /\ InChannel = <<>> /\ Taken = <<>>
  BY <1>3, FS_EmptySet DEF OnWire, InChannel, Taken, Picked
<1>5. OnItsWay = <<>>
  <2>1. InHand = <<>>
    BY <1>1 DEF InHand
  <2> QED BY <1>4, <2>1 DEF OnItsWay
<1> QED BY <1>1, <1>2, <1>4, <1>5 DEF Stream!Init, HasEnded

\* The invariant.
LEMMA SInvHolds == Distinct => (Spec => []SInv)
<1> SUFFICES ASSUME Distinct PROVE Spec => []SInv
  OBVIOUS
<1>1. Init => SInv
  BY InitType, InitWhole, InitAttends DEF SInv
<1>2. SInv /\ [Next]_vars => SInv'
  BY NextType, NextWhole, NextAttends DEF SInv
<1> QED BY <1>1, <1>2, PTL DEF Spec

\* One direction of the multiplexer implements MessageStream: whatever frames
\* interleave on the stream (writeHybrid takes writerLock for one frame at a time),
\* every message within the limit comes out of ReadMessageHybrid whole, or cut where
\* its sender aborted it, under its own number, once, in the order of completion,
\* until the stream ends or Close throws away what is half read; the callers owe it
\* distinct numbers (Distinct).
THEOREM ImplementsStream ==
  ASSUME Distinct
  PROVE  Spec => StreamSpec
<1>1. SInv /\ SInv' /\ [Next]_vars => [Stream!Next \/ nodeClosed]_(Stream!vars)
  BY NextSeen
<1> QED BY <1>1, InitSeen, SInvHolds, PTL DEF Spec, StreamSpec
=============================================================================
