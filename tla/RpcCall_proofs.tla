--------------------------- MODULE RpcCall_proofs ---------------------------
(***************************************************************************)
(* Proofs about a call of the admin client, for every command, answer,     *)
(* value of the counter and pair of keys that a frame can hold.            *)
(*                                                                         *)
(* What is on the connection is the frame of what was meant (RequestOnWire *)
(* and AnswerOnWire).  So the proof is that ReadFrame undoes encode, in    *)
(* both protocols and for every order in which the fields of the map are   *)
(* written, and reads nothing from less than a frame (EncodeFrames); that  *)
(* the fields which are signed are those that are written (SignatureHolds) *)
(* and that the commands of the two sides fit in a frame.                  *)
(*                                                                         *)
(* What the scanner has read is within what it has written (ScanInv).  So  *)
(* the proof is that each step writes at least the bytes it passes over.   *)
(*                                                                         *)
(* Texts are written and read by recursive functions.  That these exist    *)
(* (Recursion), and what they compute (Induct), follows from the least     *)
(* number for which it would be false (NatMin).                            *)
(***************************************************************************)
EXTENDS RpcCall, FiniteSetTheorems, TLAPS

-----------------------------------------------------------------------------
(* Texts.                                                                  *)

\* A text is a sequence of its own bytes, and every sequence is a text.
LEMMA TextSeq ==
  ASSUME NEW s, IsText(s)
  PROVE  s \in Seq({s[k] : k \in 1 .. Len(s)})
<1> DEFINE S == {s[k] : k \in 1 .. Len(s)}
<1>1. \A k \in 1 .. Len(s) : s[k] \in S
  BY Zenon
<1> HIDE DEF S
<1>2. [k \in 1 .. Len(s) |-> s[k]] \in Seq(S)
  BY <1>1 DEF IsText
<1> QED
  BY <1>2, Zenon DEF IsText, S

\* Every sequence is a text.
LEMMA SeqText ==
  ASSUME NEW S, NEW s \in Seq(S)
  PROVE  IsText(s)
  BY DEF IsText

\* Texts with the same bytes are the same.
LEMMA TextEq ==
  ASSUME NEW s, NEW t, IsText(s), IsText(t), Len(s) = Len(t),
         \A k \in 1 .. Len(s) : s[k] = t[k]
  PROVE  s = t
<1>1. [k \in 1 .. Len(s) |-> s[k]] = [k \in 1 .. Len(t) |-> t[k]]
  BY Zenon
<1> QED
  BY <1>1, Zenon DEF IsText

\* Two texts are sequences over one set.
LEMMA TwoTexts ==
  ASSUME NEW s, NEW t, IsText(s), IsText(t)
  PROVE  \E S : s \in Seq(S) /\ t \in Seq(S)
<1> DEFINE A == {s[k] : k \in 1 .. Len(s)}
           B == {t[k] : k \in 1 .. Len(t)}
<1>1. s \in Seq(A) /\ t \in Seq(B)
  BY TextSeq, Zenon
<1> HIDE DEF A, B
<1>2. s \in Seq(A \cup B) /\ t \in Seq(A \cup B)
  BY <1>1
<1> QED
  BY <1>2, Zenon

\* The bytes of one text after another.
LEMMA Cat ==
  ASSUME NEW s, NEW t, IsText(s), IsText(t)
  PROVE  /\ IsText(s \o t) /\ Len(s \o t) = Len(s) + Len(t)
         /\ \A k \in 1 .. Len(s) : (s \o t)[k] = s[k]
         /\ \A k \in 1 .. Len(t) : (s \o t)[Len(s) + k] = t[k]
<1>1. PICK S : s \in Seq(S) /\ t \in Seq(S)
  BY TwoTexts, Zenon
<1>2. s \o t \in Seq(S) /\ Len(s \o t) = Len(s) + Len(t)
  BY <1>1
<1>3. \A k \in 1 .. Len(s) : (s \o t)[k] = s[k]
  BY <1>1
<1>4. \A k \in 1 .. Len(t) : (s \o t)[Len(s) + k] = t[k]
  BY <1>1
<1> QED
  BY <1>2, <1>3, <1>4, SeqText, Zenon

\* The bytes of a part of a text.
LEMMA Sub ==
  ASSUME NEW s, IsText(s), NEW m \in Nat \ {0}, NEW n \in m - 1 .. Len(s)
  PROVE  /\ IsText(SubSeq(s, m, n)) /\ Len(SubSeq(s, m, n)) = n - m + 1
         /\ \A k \in 1 .. n - m + 1 : SubSeq(s, m, n)[k] = s[m + k - 1]
<1>1. PICK S : s \in Seq(S)
  BY TwoTexts, Zenon
<1>0. Len(s) \in Nat
  BY DEF IsText
<1>2. SubSeq(s, m, n) \in Seq(S)
  BY <1>1, <1>0
<1>3. Len(SubSeq(s, m, n)) = n - m + 1
  BY <1>1, <1>0
<1>4. \A k \in 1 .. n - m + 1 : SubSeq(s, m, n)[k] = s[m + k - 1]
  BY <1>1, <1>0
<1> QED
  BY <1>2, <1>3, <1>4, SeqText, Zenon

\* A text has a length.
LEMMA TextLen ==
  ASSUME NEW s, IsText(s)
  PROVE  Len(s) \in Nat
  BY Zenon DEF IsText

\* The empty text.
LEMMA EmptyText == IsText(<<>>) /\ Len(<<>>) = 0
  BY DEF IsText

\* The text of one byte.
LEMMA OneText ==
  ASSUME NEW x
  PROVE  IsText(<<x>>) /\ Len(<<x>>) = 1 /\ <<x>>[1] = x
  BY DEF IsText

-----------------------------------------------------------------------------
(* Recursion and induction over the numbers, by a least counterexample.    *)

\* A nonempty set of natural numbers has a least member.
LEMMA NatMin ==
  ASSUME NEW T \in SUBSET Nat, T # {}
  PROVE  \E n \in T : \A k \in T : n <= k
<1> DEFINE F == {1 .. n : n \in T}
<1>1. F \subseteq FiniteSubsetsOf(Nat)
  BY FS_Interval DEF FiniteSubsetsOf
<1>2. F # {}
  BY Zenon
<1>3. PICK x \in F : \A y \in F : <<y, x>> \notin StrictSubsetOrdering(Nat)
  BY <1>1, <1>2, FS_StrictSubsetOrderingWellFounded, WFMin, Zenon
<1>4. PICK n \in T : x = 1 .. n
  BY <1>3, Zenon
<1>5. ASSUME NEW k \in T, k < n PROVE FALSE
  <2>1. n \in 1 .. n /\ n \notin 1 .. k /\ 1 .. k \subseteq 1 .. n
    BY <1>5
  <2>2. <<1 .. k, 1 .. n>> \in StrictSubsetOrdering(Nat)
    BY <2>1 DEF StrictSubsetOrdering
  <2> QED
    BY <1>3, <1>4, <2>2, Zenon
<1> QED
  BY <1>5

\* Recursion over the numbers up to L, a step at a time.
IsRec(g, L, base, step) ==
  g = [k \in 0 .. L |-> IF k = 0 THEN base ELSE step[k][g[k - 1]]]

\* A function that is defined by such a recursion exists.
LEMMA Recursion ==
  ASSUME NEW L \in Nat, NEW V, NEW base \in V, NEW step \in [1 .. L -> [V -> V]]
  PROVE  \E g \in [0 .. L -> V] : IsRec(g, L, base, step)
<1> DEFINE Good(n) == \E g \in [0 .. n -> V] : IsRec(g, n, base, step)
           Bad == {n \in 0 .. L : ~ Good(n)}
<1>1. ASSUME NEW n \in Bad, \A k \in Bad : n <= k PROVE FALSE
  <2>1. n \in 0 .. L /\ n \in Nat
    OBVIOUS
  <2>2. CASE n = 0
    <3> DEFINE g == [k \in 0 .. 0 |-> base]
    <3>1. g \in [0 .. 0 -> V] /\ IsRec(g, 0, base, step)
      <4>1. \A k \in 0 .. 0 : k = 0
        OBVIOUS
      <4>2. g \in [0 .. 0 -> V]
        BY Zenon
      <4>3. g = [k \in 0 .. 0 |-> IF k = 0 THEN base ELSE step[k][g[k - 1]]]
        BY <4>1, Zenon
      <4> QED
        BY <4>2, <4>3, Zenon DEF IsRec
    <3> HIDE DEF g
    <3> QED
      BY <2>2, <3>1, Zenon
  <2>3. CASE n # 0
    <3>1. n - 1 \in 0 .. L /\ n - 1 \notin Bad
      <4>1. n - 1 \in 0 .. L /\ ~ (n <= n - 1)
        BY <2>1, <2>3
      <4> HIDE DEF Bad
      <4> QED
        BY <1>1, <4>1, Zenon
    <3>2. PICK g \in [0 .. n - 1 -> V] : IsRec(g, n - 1, base, step)
      BY <3>1, Zenon
    <3> DEFINE h == [k \in 0 .. n |-> IF k = n THEN step[n][g[n - 1]] ELSE g[k]]
    <3>3. n \in 1 .. L /\ n - 1 \in 0 .. n - 1 /\ n - 1 \in 0 .. n /\ n - 1 # n
      BY <2>1, <2>3
    <3>4. \A k \in 0 .. n : k # n => k \in 0 .. n - 1
      BY <2>1
    <3>5. \A k \in 0 .. n - 1 : k # 0 => k - 1 \in 0 .. n /\ k - 1 # n
      BY <2>1
    <3>6. step[n][g[n - 1]] \in V
      BY <3>3, Zenon
    <3>7. h \in [0 .. n -> V]
      BY <3>4, <3>6, Zenon
    <3>8. /\ DOMAIN h = 0 .. n /\ h[n] = step[n][g[n - 1]]
          /\ \A k \in 0 .. n : k # n => h[k] = g[k]
      <4>1. n \in 0 .. n
        BY <2>1
      <4> QED
        BY <4>1, Zenon
    <3> HIDE DEF h
    <3>9. \A k \in 0 .. n - 1 : g[k] = IF k = 0 THEN base ELSE step[k][g[k - 1]]
      BY <3>2, Zenon DEF IsRec
    <3>10. ASSUME NEW k \in 0 .. n
          PROVE  h[k] = IF k = 0 THEN base ELSE step[k][h[k - 1]]
      <4>1. CASE k = n
        <5>1. h[n - 1] = g[n - 1]
          BY <3>3, <3>8, Zenon
        <5> QED
          BY <2>3, <3>8, <4>1, <5>1, Zenon
      <4>2. CASE k # n
        <5>1. k \in 0 .. n - 1 /\ h[k] = g[k]
          BY <3>4, <3>8, <4>2, Zenon
        <5>2. k # 0 => h[k - 1] = g[k - 1]
          BY <3>5, <3>8, <5>1, Zenon
        <5> QED
          BY <3>9, <5>1, <5>2, Zenon
      <4> QED
        BY <4>1, <4>2, Zenon
    <3>11. IsRec(h, n, base, step)
      <4>1. h = [k \in 0 .. n |-> h[k]]
        BY <3>7, Zenon
      <4> QED
        BY <4>1, <3>10, Zenon DEF IsRec
    <3>12. Good(n)
      BY <3>7, <3>11, Zenon
    <3> QED
      BY <3>12, Zenon
  <2> QED
    BY <2>2, <2>3, Zenon
<1>2. Bad = {}
  <2>1. Bad \in SUBSET Nat
    OBVIOUS
  <2> HIDE DEF Bad
  <2> QED
    BY <1>1, <2>1, NatMin, Zenon
<1>3. L \in 0 .. L
  OBVIOUS
<1> QED
  BY <1>2, <1>3, Zenon

\* A set of numbers that has 0, and the number after each one it has.
LEMMA Induct ==
  ASSUME NEW L \in Nat, NEW B, 0 \in B, \A k \in 1 .. L : k - 1 \in B => k \in B
  PROVE  0 .. L \subseteq B
<1> DEFINE Bad == {k \in 0 .. L : k \notin B}
<1>1. ASSUME NEW k \in Bad, \A j \in Bad : k <= j PROVE FALSE
  <2>1. k # 0 /\ k \in 0 .. L
    BY Zenon
  <2>2. k \in 1 .. L /\ k - 1 \in 0 .. L /\ ~ (k <= k - 1)
    BY <2>1
  <2>3. k - 1 \in B
    BY <1>1, <2>2, Zenon
  <2> QED
    BY <2>2, <2>3, Zenon
<1>2. Bad \in SUBSET Nat
  OBVIOUS
<1> HIDE DEF Bad
<1>3. Bad = {}
  BY <1>1, <1>2, NatMin, Zenon
<1> QED
  BY <1>3, Zenon DEF Bad

\* What Concat computes, key by key.
IsConcat(C, f, order) ==
  C = [k \in 0 .. Len(order) |-> IF k = 0 THEN <<>> ELSE C[k - 1] \o f[order[k]]]

\* C has the texts of the keys of order, one after the other.
Grows(C, f, order) ==
  /\ Concat(f, order) = C[Len(order)] /\ C[0] = <<>>
  /\ \A k \in 1 .. Len(order) : C[k] = C[k - 1] \o f[order[k]]
  /\ \A k \in 0 .. Len(order) : IsText(C[k])

\* Concat computes it, whatever the texts of the keys are.
LEMMA ConcatIs ==
  ASSUME NEW f, NEW order, IsText(order), \A k \in 1 .. Len(order) : IsText(f[order[k]])
  PROVE  \E C : Grows(C, f, order)
<1> DEFINE L == Len(order)
           t(k) == f[order[k]]
           A == UNION {{t(k)[j] : j \in 1 .. Len(t(k))} : k \in 1 .. L}
           V == Seq(A)
           step == [k \in 1 .. L |-> [v \in V |-> v \o t(k)]]
<1>0. L \in Nat
  BY TextLen, Zenon
<1>1. \A k \in 1 .. L : t(k) \in V
  <2> TAKE k \in 1 .. L
  <2> DEFINE R == {t(k)[j] : j \in 1 .. Len(t(k))}
  <2>1. t(k) \in Seq(R)
    BY TextSeq, Zenon
  <2>2. R \subseteq A
    BY Zenon
  <2> HIDE DEF R, A, t
  <2> QED
    BY <2>1, <2>2
<1> HIDE DEF A, t, L
<1>2. \A k \in 1 .. L, v \in V : v \o t(k) \in V
  BY <1>1
<1>3. <<>> \in V
  OBVIOUS
<1>13. \A s \in V : IsText(s)
  BY SeqText, Zenon
<1> HIDE DEF V
<1>4. step \in [1 .. L -> [V -> V]]
  BY <1>2, Zenon
<1>5. \A k \in 1 .. L, v \in V : step[k][v] = v \o t(k)
  BY Zenon
<1> HIDE DEF step
<1>6. PICK g \in [0 .. L -> V] : IsRec(g, L, <<>>, step)
  BY <1>0, <1>3, <1>4, Recursion, Zenon
<1>7. \A k \in 0 .. L : (k = 0 \/ k \in 1 .. L) /\ (k # 0 => k - 1 \in 0 .. L)
  BY <1>0
<1>8. IsConcat(g, f, order)
  <2>1. \A k \in 0 .. L : g[k] = IF k = 0 THEN <<>> ELSE step[k][g[k - 1]]
    BY <1>6, Zenon DEF IsRec
  <2>2. \A k \in 0 .. L : g[k] = IF k = 0 THEN <<>> ELSE g[k - 1] \o t(k)
    BY <2>1, <1>5, <1>6, <1>7, Zenon
  <2>3. g = [k \in 0 .. L |-> g[k]]
    BY <1>6, Zenon
  <2> QED
    BY <2>2, <2>3, Zenon DEF IsConcat, L, t
<1> DEFINE C == CHOOSE C : IsConcat(C, f, order)
<1>9. Concat(f, order) = C[L]
  BY Zenon DEF Concat, IsConcat, L
<1>10. IsConcat(C, f, order)
  BY <1>8, Zenon
<1> HIDE DEF C
<1>11. \A k \in 0 .. L : C[k] = IF k = 0 THEN <<>> ELSE C[k - 1] \o t(k)
  BY <1>10, Zenon DEF IsConcat, L, t
<1>12. 0 \in 0 .. L /\ \A k \in 1 .. L : k \in 0 .. L /\ k # 0
  BY <1>0
<1>14. C[0] = <<>> /\ \A k \in 1 .. L : C[k] = C[k - 1] \o t(k)
  BY <1>11, <1>12, Zenon
<1> DEFINE B == {k \in 0 .. L : C[k] \in V}
<1>15. 0 \in B /\ \A k \in 1 .. L : k - 1 \in B => k \in B
  BY <1>2, <1>3, <1>12, <1>14, Zenon
<1> HIDE DEF B
<1>16. 0 .. L \subseteq B
  BY <1>0, <1>15, Induct, Zenon
<1>17. \A k \in 0 .. L : IsText(C[k])
  BY <1>13, <1>16, Zenon DEF B
<1> QED
  BY <1>9, <1>14, <1>17, Zenon DEF Grows, L, t

-----------------------------------------------------------------------------
(* The scanner: a text within another.                                     *)

\* A walk over t that meets the bytes of s in order: F[k] of them in the
\* first k bytes.
Walk(F, s, t) ==
  /\ F \in [0 .. Len(t) -> 0 .. Len(s)]
  /\ F[0] = 0 /\ F[Len(t)] = Len(s)
  /\ \A k \in 1 .. Len(t) :
       F[k] = F[k - 1] \/ (F[k] = F[k - 1] + 1 /\ s[F[k]] = t[k])

\* The bytes of s are all in t, in order.
Within(s, t) == \E F : Walk(F, s, t)

\* A text is within itself.
LEMMA WithinSelf ==
  ASSUME NEW s, IsText(s)
  PROVE  Within(s, s)
<1> DEFINE F == [k \in 0 .. Len(s) |-> k]
<1>1. Len(s) \in Nat
  BY TextLen, Zenon
<1>2. 0 \in 0 .. Len(s) /\ Len(s) \in 0 .. Len(s)
      /\ \A k \in 1 .. Len(s) : k \in 0 .. Len(s) /\ k - 1 \in 0 .. Len(s) /\ (k - 1) + 1 = k
  BY <1>1
<1>3. F \in [0 .. Len(s) -> 0 .. Len(s)] /\ \A k \in 0 .. Len(s) : F[k] = k
  BY Zenon
<1> HIDE DEF F
<1>4. Walk(F, s, s)
  BY <1>2, <1>3, Zenon DEF Walk
<1> QED
  BY <1>4, Zenon DEF Within

\* The empty text is within every text.
LEMMA WithinNone ==
  ASSUME NEW t, IsText(t)
  PROVE  Within(<<>>, t)
<1> DEFINE F == [k \in 0 .. Len(t) |-> 0]
<1>1. Len(t) \in Nat
  BY TextLen, Zenon
<1>2. Len(<<>>) = 0
  BY EmptyText, Zenon
<1>3. 0 \in 0 .. Len(t) /\ Len(t) \in 0 .. Len(t) /\ 0 \in 0 .. 0
      /\ \A k \in 1 .. Len(t) : k \in 0 .. Len(t) /\ k - 1 \in 0 .. Len(t)
  BY <1>1
<1>4. F \in [0 .. Len(t) -> 0 .. 0] /\ \A k \in 0 .. Len(t) : F[k] = 0
  BY <1>3, Zenon
<1> HIDE DEF F
<1>5. Walk(F, <<>>, t)
  BY <1>2, <1>3, <1>4, Zenon DEF Walk
<1> QED
  BY <1>5, Zenon DEF Within

\* One walk after the other.
LEMMA WithinCat ==
  ASSUME NEW s, NEW t, NEW u, NEW v, IsText(s), IsText(t), IsText(u), IsText(v),
         Within(s, t), Within(u, v)
  PROVE  Within(s \o u, t \o v)
<1> DEFINE su == s \o u
           tv == t \o v
<1>1. PICK F : Walk(F, s, t)
  BY Zenon DEF Within
<1>2. PICK G : Walk(G, u, v)
  BY Zenon DEF Within
<1>3. /\ IsText(su) /\ Len(su) = Len(s) + Len(u)
      /\ \A k \in 1 .. Len(s) : su[k] = s[k]
      /\ \A k \in 1 .. Len(u) : su[Len(s) + k] = u[k]
  <2>1. \A k \in 1 .. Len(u) : su[Len(s) + k] = u[k]
    BY Cat
  <2> QED
    BY <2>1, Cat, Zenon
<1>4. /\ IsText(tv) /\ Len(tv) = Len(t) + Len(v)
      /\ \A k \in 1 .. Len(t) : tv[k] = t[k]
      /\ \A k \in 1 .. Len(v) : tv[Len(t) + k] = v[k]
  <2>1. \A k \in 1 .. Len(v) : tv[Len(t) + k] = v[k]
    BY Cat
  <2> QED
    BY <2>1, Cat, Zenon
<1> HIDE DEF su, tv
<1> DEFINE m == Len(s)
           n == Len(t)
           p == Len(u)
           q == Len(v)
<1>5. m \in Nat /\ n \in Nat /\ p \in Nat /\ q \in Nat
  BY TextLen, Zenon
<1>6. /\ F \in [0 .. n -> 0 .. m] /\ F[0] = 0 /\ F[n] = m
      /\ \A k \in 1 .. n : F[k] = F[k - 1] \/ (F[k] = F[k - 1] + 1 /\ s[F[k]] = t[k])
  BY <1>1, Zenon DEF Walk
<1>7. /\ G \in [0 .. q -> 0 .. p] /\ G[0] = 0 /\ G[q] = p
      /\ \A k \in 1 .. q : G[k] = G[k - 1] \/ (G[k] = G[k - 1] + 1 /\ u[G[k]] = v[k])
  BY <1>2, Zenon DEF Walk
<1>8. /\ Len(su) = m + p /\ \A k \in 1 .. m : su[k] = s[k]
      /\ \A k \in 1 .. p : su[m + k] = u[k]
      /\ Len(tv) = n + q /\ \A k \in 1 .. n : tv[k] = t[k]
      /\ \A k \in 1 .. q : tv[n + k] = v[k]
  BY <1>3, <1>4, Zenon
<1> HIDE DEF m, n, p, q
<1> DEFINE H == [k \in 0 .. n + q |-> IF k <= n THEN F[k] ELSE m + G[k - n]]
<1>9. /\ \A k \in 0 .. n : k \in 0 .. n + q /\ H[k] = F[k]
      /\ \A k \in 0 .. q : n + k \in 0 .. n + q /\ H[n + k] = m + G[k]
  <2>1. \A k \in 0 .. n : k \in 0 .. n + q /\ k <= n
    BY <1>5
  <2>2. ASSUME NEW k \in 0 .. q PROVE n + k \in 0 .. n + q /\ H[n + k] = m + G[k]
    <3>1. n + k \in 0 .. n + q /\ (n + k) - n = k /\ (n + k <= n => k = 0 /\ n + k = n)
      BY <1>5
    <3>2. m + 0 = m
      BY <1>5
    <3> QED
      BY <3>1, <3>2, <1>6, <1>7, Zenon
  <2> QED
    BY <2>1, <2>2, Zenon
<1>10. ASSUME NEW k \in 0 .. n + q PROVE k \in 0 .. n \/ \E j \in 1 .. q : k = n + j
  <2>1. k \in 0 .. n \/ (k - n \in 1 .. q /\ k = n + (k - n))
    BY <1>5
  <2> QED
    BY <2>1, Zenon
<1>11. /\ \A x \in 0 .. m : x \in 0 .. m + p
       /\ \A x \in 0 .. p : m + x \in 0 .. m + p
       /\ \A j \in 1 .. q : j \in 0 .. q /\ j - 1 \in 0 .. q /\ n + (j - 1) = (n + j) - 1
       /\ \A k \in 1 .. n : k \in 0 .. n /\ k - 1 \in 0 .. n
       /\ \A k \in 1 .. n + q : k \in 0 .. n + q /\ k # 0
       /\ 0 \in 0 .. n /\ n \in 0 .. n /\ 0 \in 0 .. q /\ q \in 0 .. q
  BY <1>5
<1>12. H \in [0 .. n + q -> 0 .. m + p]
  <2>1. H = [k \in 0 .. n + q |-> H[k]]
    BY Zenon
  <2> HIDE DEF H
  <2>2. \A k \in 0 .. n : H[k] \in 0 .. m + p
    BY <1>6, <1>9, <1>11, Zenon
  <2>3. \A j \in 1 .. q : H[n + j] \in 0 .. m + p
    <3> TAKE j \in 1 .. q
    <3>1. H[n + j] = m + G[j] /\ G[j] \in 0 .. p
      BY <1>7, <1>9, <1>11, Zenon
    <3> QED
      BY <3>1, <1>11, Zenon
  <2>4. \A k \in 0 .. n + q : H[k] \in 0 .. m + p
    BY <2>2, <2>3, <1>10, Zenon
  <2> QED
    BY <2>1, <2>4, Zenon
<1> HIDE DEF H
<1>13. H[0] = 0 /\ H[n + q] = m + p
  BY <1>6, <1>7, <1>9, <1>11, Zenon
<1>14. ASSUME NEW k \in 1 .. n
       PROVE  H[k] = H[k - 1] \/ (H[k] = H[k - 1] + 1 /\ su[H[k]] = tv[k])
  <2>1. H[k] = F[k] /\ H[k - 1] = F[k - 1] /\ tv[k] = t[k]
    BY <1>8, <1>9, <1>11, Zenon
  <2>2. F[k] \in 0 .. m /\ F[k - 1] \in 0 .. m
    BY <1>6, <1>11, Zenon
  <2>3. F[k] = F[k - 1] + 1 => F[k] \in 1 .. m
    BY <2>2, <1>5
  <2> QED
    BY <2>1, <2>3, <1>6, <1>8, Zenon
<1>15. ASSUME NEW j \in 1 .. q
       PROVE  LET k == n + j
              IN  H[k] = H[k - 1] \/ (H[k] = H[k - 1] + 1 /\ su[H[k]] = tv[k])
  <2> DEFINE k == n + j
             x == G[j]
             y == G[j - 1]
  <2>1. H[k] = m + x /\ H[k - 1] = m + y /\ tv[k] = v[j]
    BY <1>8, <1>9, <1>11, Zenon
  <2>2. x \in 0 .. p /\ y \in 0 .. p
    BY <1>7, <1>11, Zenon
  <2>3. x = y \/ (x = y + 1 /\ u[x] = v[j])
    BY <1>7, Zenon
  <2> HIDE DEF x, y, k
  <2>4. x = y + 1 => x \in 1 .. p /\ m + x = (m + y) + 1
    BY <2>2, <1>5
  <2>5. x = y + 1 /\ u[x] = v[j] => su[m + x] = v[j]
    BY <2>4, <1>8, Zenon
  <2>6. H[k] = H[k - 1] \/ (H[k] = H[k - 1] + 1 /\ su[H[k]] = tv[k])
    BY <2>1, <2>3, <2>4, <2>5, Zenon
  <2> QED
    BY <2>6, Zenon DEF k
<1>16. \A k \in 1 .. n + q : H[k] = H[k - 1] \/ (H[k] = H[k - 1] + 1 /\ su[H[k]] = tv[k])
  <2> SUFFICES ASSUME NEW k \in 1 .. n + q
               PROVE  H[k] = H[k - 1] \/ (H[k] = H[k - 1] + 1 /\ su[H[k]] = tv[k])
    BY Zenon
  <2>1. k \in 1 .. n \/ \E j \in 1 .. q : k = n + j
    <3>1. k \in 1 .. n \/ (k - n \in 1 .. q /\ k = n + (k - n))
      BY <1>5
    <3> QED
      BY <3>1, Zenon
  <2> QED
    BY <2>1, <1>14, <1>15, Zenon
<1>17. Walk(H, su, tv)
  BY <1>8, <1>12, <1>13, <1>16, Zenon DEF Walk
<1> QED
  BY <1>17, Zenon DEF Within, su, tv

\* What is within a text that is within another is within that.
LEMMA WithinTrans ==
  ASSUME NEW s, NEW t, NEW u, IsText(s), IsText(t), IsText(u), Within(s, t), Within(t, u)
  PROVE  Within(s, u)
<1> DEFINE m == Len(s)
           n == Len(t)
           p == Len(u)
<1>1. PICK F : Walk(F, s, t)
  BY Zenon DEF Within
<1>2. PICK G : Walk(G, t, u)
  BY Zenon DEF Within
<1>3. /\ F \in [0 .. n -> 0 .. m] /\ F[0] = 0 /\ F[n] = m
      /\ \A k \in 1 .. n : F[k] = F[k - 1] \/ (F[k] = F[k - 1] + 1 /\ s[F[k]] = t[k])
  BY <1>1, Zenon DEF Walk
<1>4. /\ G \in [0 .. p -> 0 .. n] /\ G[0] = 0 /\ G[p] = n
      /\ \A k \in 1 .. p : G[k] = G[k - 1] \/ (G[k] = G[k - 1] + 1 /\ t[G[k]] = u[k])
  BY <1>2, Zenon DEF Walk
<1>5. m \in Nat /\ n \in Nat /\ p \in Nat
  BY TextLen, Zenon
<1> DEFINE H == [k \in 0 .. p |-> F[G[k]]]
<1>6. H \in [0 .. p -> 0 .. m] /\ \A k \in 0 .. p : H[k] = F[G[k]]
  BY <1>3, <1>4, Zenon
<1> HIDE DEF H, m, n, p
<1>7. 0 \in 0 .. p /\ p \in 0 .. p /\ \A k \in 1 .. p : k \in 0 .. p /\ k - 1 \in 0 .. p
  BY <1>5
<1>8. H[0] = 0 /\ H[p] = m
  BY <1>3, <1>4, <1>6, <1>7, Zenon
<1>9. ASSUME NEW k \in 1 .. p
      PROVE  H[k] = H[k - 1] \/ (H[k] = H[k - 1] + 1 /\ s[H[k]] = u[k])
  <2>1. H[k] = F[G[k]] /\ H[k - 1] = F[G[k - 1]]
    BY <1>6, <1>7, Zenon
  <2>2. CASE G[k] = G[k - 1]
    BY <2>1, <2>2, Zenon
  <2>3. CASE G[k] = G[k - 1] + 1 /\ t[G[k]] = u[k]
    <3> DEFINE x == G[k]
               y == G[k - 1]
    <3>1. x \in 0 .. n /\ y \in 0 .. n /\ x = y + 1
      BY <1>4, <1>7, <2>3, Zenon
    <3> HIDE DEF x, y
    <3>2. x \in 1 .. n /\ x - 1 = y
      BY <3>1, <1>5
    <3>3. F[x] = F[y] \/ (F[x] = F[y] + 1 /\ s[F[x]] = t[x])
      BY <3>2, <1>3, Zenon
    <3> QED
      BY <3>3, <2>1, <2>3, Zenon DEF x, y
  <2> QED
    BY <2>2, <2>3, <1>4, Zenon
<1>10. Walk(H, s, u)
  BY <1>6, <1>8, <1>9, Zenon DEF Walk, m, p
<1> QED
  BY <1>10, Zenon DEF Within

\* What the search of NothingLost computes.
IsSearch(F, s, t) ==
  F = [k \in 0 .. Len(t) |->
        IF k = 0 THEN 0
        ELSE LET n == F[k - 1]
             IN  IF n < Len(s) /\ s[n + 1] = t[k] THEN n + 1 ELSE n]

\* The search that takes each byte of s where it first can is never behind
\* another walk, so it finds all of s if any does.
LEMMA SearchFinds ==
  ASSUME NEW s, NEW t, IsText(s), IsText(t), Within(s, t), NEW F, IsSearch(F, s, t)
  PROVE  F[Len(t)] = Len(s)
<1> DEFINE m == Len(s)
           n == Len(t)
<1>1. m \in Nat /\ n \in Nat
  BY TextLen, Zenon
<1>2. PICK G : Walk(G, s, t)
  BY Zenon DEF Within
<1>3. /\ G \in [0 .. n -> 0 .. m] /\ G[0] = 0 /\ G[n] = m
      /\ \A k \in 1 .. n : G[k] = G[k - 1] \/ (G[k] = G[k - 1] + 1 /\ s[G[k]] = t[k])
  BY <1>2, Zenon DEF Walk
<1>4. \A k \in 0 .. n :
        F[k] = IF k = 0 THEN 0
               ELSE IF F[k - 1] < m /\ s[F[k - 1] + 1] = t[k] THEN F[k - 1] + 1 ELSE F[k - 1]
  BY Zenon DEF IsSearch
<1> HIDE DEF m, n
<1>5. 0 \in 0 .. n /\ n \in 0 .. n
      /\ \A k \in 1 .. n : k \in 0 .. n /\ k - 1 \in 0 .. n /\ k # 0
  BY <1>1
<1>6. F[0] = 0
  BY <1>4, <1>5, Zenon
<1>7. \A k \in 1 .. n :
        F[k] = IF F[k - 1] < m /\ s[F[k - 1] + 1] = t[k] THEN F[k - 1] + 1 ELSE F[k - 1]
  BY <1>4, <1>5, Zenon
<1> DEFINE B == {k \in 0 .. n : F[k] \in 0 .. m /\ G[k] <= F[k]}
<1>8. 0 \in B
  <2>1. 0 \in 0 .. m /\ 0 <= 0
    BY <1>1
  <2> QED
    BY <2>1, <1>3, <1>5, <1>6, Zenon
<1>9. ASSUME NEW k \in 1 .. n, k - 1 \in B PROVE k \in B
  <2> DEFINE x == F[k - 1]
             y == F[k]
             v == G[k - 1]
             w == G[k]
             hit == s[x + 1] = t[k]
  <2>1. x \in 0 .. m /\ v <= x
    BY <1>9, Zenon
  <2>2. y = IF x < m /\ hit THEN x + 1 ELSE x
    BY <1>7, Zenon
  <2>6. v \in 0 .. m /\ w \in 0 .. m
    BY <1>3, <1>5, Zenon
  <2>7. w = v \/ (w = v + 1 /\ s[w] = t[k])
    BY <1>3, Zenon
  <2>3. v \in 0 .. m /\ w \in 0 .. m /\ (w = v \/ w = v + 1)
    BY <2>6, <2>7, Zenon
  <2>8. v + 1 # v
    BY <2>6, <1>1
  <2>4. x = v /\ w = v + 1 => hit
    <3> HIDE DEF x, v, w
    <3> QED
      BY <2>7, <2>8, Zenon
  <2> HIDE DEF x, y, v, w, hit
  <2>5. y \in 0 .. m /\ w <= y
    <3>1. CASE x = v /\ w = v + 1
      <4>1. y = IF x < m THEN x + 1 ELSE x
        BY <2>2, <2>4, <3>1, Zenon
      <4> QED
        BY <4>1, <2>1, <2>3, <3>1, <1>1
    <3>2. CASE ~ (x = v /\ w = v + 1)
      <4>1. (x < m /\ y = x + 1) \/ y = x
        BY <2>2, Zenon
      <4> QED
        BY <4>1, <2>1, <2>3, <3>2, <1>1
    <3> QED
      BY <3>1, <3>2, Zenon
  <2> QED
    BY <2>5, <1>5, Zenon DEF y, w
<1> HIDE DEF B
<1>10. 0 .. n \subseteq B
  BY <1>1, <1>8, <1>9, Induct, Zenon
<1>11. F[n] \in 0 .. m /\ m <= F[n]
  BY <1>3, <1>5, <1>10, Zenon DEF B
<1>12. F[n] = m
  BY <1>1, <1>11
<1> QED
  BY <1>12, Zenon DEF m, n

-----------------------------------------------------------------------------
(* The scanner: what its helpers write and where they stop.                *)

\* There is such a search.
LEMMA SearchIs ==
  ASSUME NEW s, NEW t, IsText(s), IsText(t)
  PROVE  \E F : IsSearch(F, s, t)
<1> DEFINE m == Len(s)
           n == Len(t)
           step == [k \in 1 .. n |-> [x \in Nat |-> IF x < m /\ s[x + 1] = t[k] THEN x + 1 ELSE x]]
<1>1. n \in Nat
  BY TextLen, Zenon
<1> HIDE DEF m, n
<1>2. \A x \in Nat : x + 1 \in Nat
  OBVIOUS
<1>3. step \in [1 .. n -> [Nat -> Nat]]
  BY <1>2, Zenon
<1>4. \A k \in 1 .. n, x \in Nat : step[k][x] = IF x < m /\ s[x + 1] = t[k] THEN x + 1 ELSE x
  BY Zenon
<1> HIDE DEF step
<1>5. 0 \in Nat
  OBVIOUS
<1>6. PICK g \in [0 .. n -> Nat] : IsRec(g, n, 0, step)
  BY <1>1, <1>3, <1>5, Recursion, Zenon
<1>7. \A k \in 0 .. n : (k = 0 \/ k \in 1 .. n) /\ (k # 0 => k - 1 \in 0 .. n)
  BY <1>1
<1>8. \A k \in 0 .. n : g[k] = IF k = 0 THEN 0 ELSE step[k][g[k - 1]]
  BY <1>6, Zenon DEF IsRec
<1>9. \A k \in 0 .. n :
        g[k] = IF k = 0 THEN 0
               ELSE IF g[k - 1] < m /\ s[g[k - 1] + 1] = t[k] THEN g[k - 1] + 1 ELSE g[k - 1]
  <2> TAKE k \in 0 .. n
  <2>1. CASE k = 0
    BY <2>1, <1>8, Zenon
  <2>2. CASE k # 0
    <3> DEFINE x == g[k - 1]
    <3>1. x \in Nat /\ k \in 1 .. n
      BY <2>2, <1>6, <1>7, Zenon
    <3>2. g[k] = step[k][x]
      BY <2>2, <1>8, Zenon
    <3> HIDE DEF x
    <3>3. g[k] = IF x < m /\ s[x + 1] = t[k] THEN x + 1 ELSE x
      BY <3>1, <3>2, <1>4, Zenon
    <3> QED
      BY <2>2, <3>3, Zenon DEF x
  <2> QED
    BY <2>1, <2>2, Zenon
<1>10. g = [k \in 0 .. n |-> g[k]]
  BY <1>6, Zenon
<1>11. IsSearch(g, s, t)
  BY <1>9, <1>10, Zenon DEF IsSearch, m, n
<1> QED
  BY <1>11, Zenon

\* What ReplaceEach computes, byte by byte.
IsReplace(R, s, c, r) ==
  R = [k \in 0 .. Len(s) |->
        IF k = 0 THEN <<>> ELSE R[k - 1] \o (IF s[k] = c THEN r ELSE <<s[k]>>)]

\* t is a text that has all of s.
Keeps(s, t) == IsText(t) /\ Within(s, t)

\* Replacing a byte by a text that has it loses nothing.
LEMMA ReplaceKeeps ==
  ASSUME NEW s, NEW c, NEW r, IsText(s), IsText(r), Within(<<c>>, r)
  PROVE  Keeps(s, ReplaceEach(s, c, r))
<1> DEFINE L == Len(s)
           t(k) == IF s[k] = c THEN r ELSE <<s[k]>>
           f == [k \in 1 .. L |-> t(k)]
           order == [k \in 1 .. L |-> k]
<1>1. L \in Nat
  BY TextLen, Zenon
<1>2. ASSUME NEW k \in 1 .. L PROVE IsText(t(k)) /\ Within(<<s[k]>>, t(k))
  <2>1. CASE s[k] = c
    BY <2>1, Zenon
  <2>2. CASE s[k] # c
    <3>1. IsText(<<s[k]>>)
      BY OneText, Zenon
    <3>2. Within(<<s[k]>>, <<s[k]>>)
      BY <3>1, WithinSelf, Zenon
    <3> QED
      BY <2>2, <3>1, <3>2, Zenon
  <2> QED
    BY <2>1, <2>2, Zenon
<1> HIDE DEF L, t
<1>3. IsText(order) /\ Len(order) = L
  <2>1. order \in Seq(Nat) /\ Len(order) = L
    BY <1>1
  <2> QED
    BY <2>1, SeqText, Zenon
<1>4. \A k \in 1 .. L : order[k] = k /\ f[k] = t(k)
  BY Zenon
<1> HIDE DEF f, order
<1>5. \A k \in 1 .. Len(order) : IsText(f[order[k]])
  BY <1>2, <1>3, <1>4, Zenon
<1>6. PICK C : Grows(C, f, order)
  BY <1>3, <1>5, ConcatIs, Zenon
<1>7. C[0] = <<>> /\ \A k \in 1 .. L : C[k] = C[k - 1] \o t(k)
  BY <1>3, <1>4, <1>6, Zenon DEF Grows
<1>8. /\ \A k \in 0 .. L : (k = 0 \/ k \in 1 .. L) /\ (k # 0 => k - 1 \in 0 .. L)
      /\ \A k \in 1 .. L : k \in 0 .. L /\ k - 1 \in 0 .. L /\ k # 0
      /\ 0 \in 0 .. L /\ L \in 0 .. L
  BY <1>1
<1> DEFINE g == [k \in 0 .. L |-> C[k]]
<1>9. \E R : IsReplace(R, s, c, r)
  <2>1. \A k \in 0 .. L : g[k] = IF k = 0 THEN <<>> ELSE g[k - 1] \o t(k)
    BY <1>7, <1>8, Zenon
  <2>2. g = [k \in 0 .. L |-> g[k]]
    BY Zenon
  <2> HIDE DEF g
  <2>3. IsReplace(g, s, c, r)
    BY <2>1, <2>2, Zenon DEF IsReplace, L, t
  <2> QED
    BY <2>3, Zenon
<1> DEFINE R == CHOOSE R : IsReplace(R, s, c, r)
<1>10. ReplaceEach(s, c, r) = R[L]
  BY Zenon DEF ReplaceEach, IsReplace, L
<1>11. IsReplace(R, s, c, r)
  BY <1>9, Zenon
<1> HIDE DEF R
<1>12. \A k \in 0 .. L : R[k] = IF k = 0 THEN <<>> ELSE R[k - 1] \o t(k)
  BY <1>11, Zenon DEF IsReplace, L, t
<1>13. R[0] = <<>> /\ \A k \in 1 .. L : R[k] = R[k - 1] \o t(k)
  BY <1>8, <1>12, Zenon
<1> DEFINE pre(k) == SubSeq(s, 1, k)
           B == {k \in 0 .. L : Keeps(pre(k), R[k])}
<1>14. pre(0) = <<>> /\ pre(L) = s
  <2>1. s \in Seq({s[k] : k \in 1 .. Len(s)})
    BY TextSeq, Zenon
  <2> QED
    BY <2>1 DEF L
<1>15. ASSUME NEW k \in 1 .. L
       PROVE  IsText(pre(k - 1)) /\ IsText(<<s[k]>>) /\ pre(k) = pre(k - 1) \o <<s[k]>>
  <2>1. PICK S : s \in Seq(S)
    BY TwoTexts, Zenon
  <2>2. pre(k) = pre(k - 1) \o <<s[k]>> /\ pre(k - 1) \in Seq(S)
    BY <2>1, <1>1 DEF L
  <2> QED
    BY <2>2, SeqText, OneText, Zenon
<1> HIDE DEF pre
<1>16. 0 \in B
  <2>1. IsText(<<>>) /\ Within(<<>>, <<>>)
    BY EmptyText, WithinNone, Zenon
  <2> QED
    BY <2>1, <1>8, <1>13, <1>14, Zenon DEF Keeps
<1>17. ASSUME NEW k \in 1 .. L, k - 1 \in B PROVE k \in B
  <2> DEFINE p == pre(k - 1)
             q == R[k - 1]
             u == <<s[k]>>
             v == t(k)
  <2>1. IsText(p) /\ IsText(q) /\ IsText(u) /\ IsText(v) /\ Within(p, q) /\ Within(u, v)
    BY <1>2, <1>15, <1>17, Zenon DEF Keeps
  <2>2. pre(k) = p \o u /\ R[k] = q \o v
    BY <1>13, <1>15, Zenon
  <2> HIDE DEF p, q, u, v
  <2>3. Within(p \o u, q \o v)
    BY <2>1, WithinCat, Zenon
  <2>4. IsText(q \o v)
    BY <2>1, Cat, Zenon
  <2> QED
    BY <2>2, <2>3, <2>4, <1>8, Zenon DEF Keeps
<1> HIDE DEF B
<1>18. 0 .. L \subseteq B
  BY <1>1, <1>16, <1>17, Induct, Zenon
<1> QED
  BY <1>8, <1>10, <1>14, <1>18, Zenon DEF B

\* Quotes around a text lose nothing of it.
LEMMA QuotedKeeps ==
  ASSUME NEW s, IsText(s)
  PROVE  Keeps(s, Quoted(s))
<1> DEFINE q == <<"\"">>
           e == <<>>
<1>1. IsText(q) /\ IsText(e)
  BY OneText, EmptyText, Zenon
<1>2. Within(e, q) /\ Within(s, s)
  BY <1>1, WithinNone, WithinSelf, Zenon
<1>3. e \o s = s /\ s \o e = s
  <2>1. s \in Seq({s[k] : k \in 1 .. Len(s)})
    BY TextSeq, Zenon
  <2> QED
    BY <2>1
<1>4. Quoted(s) = (q \o s) \o q
  BY Zenon DEF Quoted
<1> HIDE DEF q, e
<1>5. Within(e \o s, q \o s) /\ IsText(q \o s)
  BY <1>1, <1>2, WithinCat, Cat, Zenon
<1>6. Within(s \o e, (q \o s) \o q) /\ IsText((q \o s) \o q)
  <2>1. Within(s, q \o s)
    BY <1>3, <1>5, Zenon
  <2> QED
    BY <1>1, <1>2, <1>5, <2>1, WithinCat, Cat, Zenon
<1> QED
  BY <1>3, <1>4, <1>6, Zenon DEF Keeps

\* A text of two bytes has the second.
LEMMA PairHas ==
  ASSUME NEW x, NEW y
  PROVE  IsText(<<x, y>>) /\ Within(<<y>>, <<x, y>>)
<1> DEFINE u == <<x>>
           v == <<y>>
           e == <<>>
           p == <<x, y>>
<1>2. IsText(u) /\ IsText(v) /\ IsText(e)
  BY OneText, EmptyText, Zenon
<1>1. p = u \o v /\ v = e \o v
  <2>1. IsText(p) /\ Len(p) = 2 /\ p[1] = x /\ p[2] = y
    BY DEF IsText
  <2>2. Len(u) = 1 /\ u[1] = x /\ Len(v) = 1 /\ v[1] = y
    OBVIOUS
  <2>3. v = e \o v
    <3>1. v \in Seq({y})
      OBVIOUS
    <3> HIDE DEF v
    <3> QED
      BY <3>1
  <2> HIDE DEF p, u, v
  <2>4. IsText(u \o v) /\ Len(u \o v) = 2 /\ (u \o v)[1] = x /\ (u \o v)[2] = y
    <3>1. /\ IsText(u \o v) /\ Len(u \o v) = Len(u) + Len(v)
          /\ \A k \in 1 .. Len(u) : (u \o v)[k] = u[k]
      BY <1>2, Cat, Zenon
    <3>2. \A k \in 1 .. Len(v) : (u \o v)[Len(u) + k] = v[k]
      BY <1>2, Cat
    <3> QED
      BY <3>1, <3>2, <2>2
  <2>5. \A k \in 1 .. 2 : k = 1 \/ k = 2
    OBVIOUS
  <2>6. p = u \o v
    BY <2>1, <2>4, <2>5, TextEq, Zenon
  <2> QED
    BY <2>3, <2>6, Zenon
<1>3. Within(e, u) /\ Within(v, v)
  BY <1>2, WithinNone, WithinSelf, Zenon
<1> HIDE DEF u, v, e
<1>4. Within(e \o v, u \o v) /\ IsText(u \o v)
  BY <1>2, <1>3, WithinCat, Cat, Zenon
<1> QED
  BY <1>1, <1>4, Zenon DEF v

\* escapeForString loses nothing of the token.
LEMMA EscapeKeeps ==
  ASSUME NEW s, IsText(s)
  PROVE  Keeps(s, escapeForString(s))
<1> DEFINE r == ReplaceEach(s, "\\", <<"\\", "\\">>)
           t == ReplaceEach(r, "\"", <<"\\", "\"">>)
<1>1. Keeps(s, r)
  BY ReplaceKeeps, PairHas, Zenon
<1> HIDE DEF r
<1>2. Keeps(r, t)
  BY <1>1, ReplaceKeeps, PairHas, Zenon DEF Keeps
<1>3. escapeForString(s) = t
  BY Zenon DEF escapeForString, r
<1> HIDE DEF t
<1>4. Within(s, t) /\ IsText(t)
  BY <1>1, <1>2, WithinTrans, Zenon DEF Keeps
<1> QED
  BY <1>3, <1>4, Zenon DEF Keeps

\* What captureValue has read before byte k + 1.
Reading == [next : Nat, depth : Int, inStr : BOOLEAN, esc : BOOLEAN, ok : BOOLEAN]

IsCapture(P, s, j) ==
  P = [k \in 0 .. Len(s) |->
        IF k < j
        THEN [next |-> j, depth |-> 0, inStr |-> FALSE, esc |-> FALSE, ok |-> FALSE]
        ELSE Scan(s[j], IF s[j] = "[" THEN "]" ELSE "}", P[k - 1], s[k])]

\* q has read at most one byte more than p.
OneMore(q, p) == q \in Reading /\ (q.next = p.next \/ q.next = p.next + 1)

ReadsTo(q, n) == q \in Reading /\ q.next = n

\* A turn of captureValue inside a string keeps the types.
LEMMA InsideString ==
  ASSUME NEW p \in Reading, NEW n \in Nat, NEW e \in BOOLEAN, NEW f \in BOOLEAN
  PROVE  ReadsTo([p EXCEPT !.next = n, !.esc = e, !.inStr = f], n)
<1>1. [p EXCEPT !.next = n, !.esc = e, !.inStr = f] \in Reading
  BY Zenon DEF Reading
<1>2. [p EXCEPT !.next = n, !.esc = e, !.inStr = f].next = n
  BY Zenon DEF Reading
<1> QED
  BY <1>1, <1>2, Zenon DEF ReadsTo

\* A turn outside a string keeps them.
LEMMA OutsideString ==
  ASSUME NEW p \in Reading, NEW n \in Nat, NEW f \in BOOLEAN, NEW d \in Int, NEW o \in BOOLEAN
  PROVE  ReadsTo([p EXCEPT !.next = n, !.inStr = f, !.depth = d, !.ok = o], n)
<1>1. [p EXCEPT !.next = n, !.inStr = f, !.depth = d, !.ok = o] \in Reading
  BY Zenon DEF Reading
<1>2. [p EXCEPT !.next = n, !.inStr = f, !.depth = d, !.ok = o].next = n
  BY Zenon DEF Reading
<1> QED
  BY <1>1, <1>2, Zenon DEF ReadsTo

\* A turn of the loop reads one byte, or none once the value has ended.
LEMMA ScanReads ==
  ASSUME NEW open, NEW close, NEW p \in Reading, NEW c
  PROVE  OneMore(Scan(open, close, p, c), p)
<1> DEFINE n == p.next + 1
           e == (~ p.esc /\ c = "\\")
           f == (p.esc \/ c # "\"")
           g == (c = "\"")
           d == IF c = open THEN p.depth + 1 ELSE IF c = close THEN p.depth - 1 ELSE p.depth
           o == (c = close /\ p.depth = 1)
<1>1. p.next \in Nat /\ p.depth \in Int /\ p.esc \in BOOLEAN
  BY DEF Reading
<1>2. n \in Nat /\ p.depth + 1 \in Int /\ p.depth - 1 \in Int
  BY <1>1
<1>3. e \in BOOLEAN /\ f \in BOOLEAN /\ g \in BOOLEAN /\ o \in BOOLEAN /\ d \in Int
  BY <1>1, <1>2, Zenon
<1>4. Scan(open, close, p, c) =
        IF p.ok THEN p
        ELSE IF p.inStr THEN [p EXCEPT !.next = n, !.esc = e, !.inStr = f]
        ELSE [p EXCEPT !.next = n, !.inStr = g, !.depth = d, !.ok = o]
  BY Zenon DEF Scan
<1> HIDE DEF n, e, f, g, d, o
<1>5. ReadsTo([p EXCEPT !.next = n, !.esc = e, !.inStr = f], n)
  BY <1>2, <1>3, InsideString, Zenon
<1>6. ReadsTo([p EXCEPT !.next = n, !.inStr = g, !.depth = d, !.ok = o], n)
  BY <1>2, <1>3, OutsideString, Zenon
<1>7. CASE p.ok
  BY <1>4, <1>7, Zenon DEF OneMore
<1>8. CASE ~ p.ok
  <2>1. ReadsTo(Scan(open, close, p, c), n)
    BY <1>4, <1>5, <1>6, <1>8, Zenon
  <2> QED
    BY <2>1, Zenon DEF ReadsTo, OneMore, n
<1> QED
  BY <1>7, <1>8, Zenon

\* A captured value ends inside the body.
LEMMA CaptureEnds ==
  ASSUME IsText(b), NEW j \in 1 .. Len(b)
  PROVE  captureValue(j).next \in j .. Len(b) + 1
<1> DEFINE L == Len(b)
           base == [next |-> j, depth |-> 0, inStr |-> FALSE, esc |-> FALSE, ok |-> FALSE]
           turn(k, p) == Scan(b[j], IF b[j] = "[" THEN "]" ELSE "}", p, b[k])
           step == [k \in 1 .. L |-> [p \in Reading |-> IF k < j THEN base ELSE turn(k, p)]]
<1>1. L \in Nat /\ j \in 1 .. L /\ j \in Nat
  BY TextLen
<1>2. base \in Reading /\ base.next = j
  BY <1>1 DEF Reading
<1>3. ASSUME NEW k, NEW p \in Reading PROVE turn(k, p) \in Reading /\ OneMore(turn(k, p), p)
  <2>1. OneMore(turn(k, p), p)
    BY ScanReads, Zenon
  <2> QED
    BY <2>1, Zenon DEF OneMore
<1> DEFINE P == CHOOSE P : IsCapture(P, b, j)
<1>4. captureValue(j) = P[L]
  BY Zenon DEF captureValue, IsCapture
<1>5. \A Q : IsCapture(Q, b, j) <=> Q = [k \in 0 .. L |-> IF k < j THEN base ELSE turn(k, Q[k - 1])]
  BY Zenon DEF IsCapture
<1> HIDE DEF L, base, turn, P
<1>6. step \in [1 .. L -> [Reading -> Reading]]
  BY <1>2, <1>3, Zenon
<1>7. \A k \in 1 .. L, p \in Reading : step[k][p] = IF k < j THEN base ELSE turn(k, p)
  BY Zenon
<1> HIDE DEF step
<1>8. PICK g \in [0 .. L -> Reading] : IsRec(g, L, base, step)
  BY <1>1, <1>2, <1>6, Recursion, Zenon
<1>9. /\ \A k \in 0 .. L : (k = 0 /\ k < j) \/ (k \in 1 .. L /\ k # 0 /\ k - 1 \in 0 .. L)
      /\ 0 \in 0 .. L /\ L \in 0 .. L /\ 0 < j
      /\ \A k \in 1 .. L : k \in 0 .. L
  BY <1>1
<1>10. \A k \in 0 .. L : g[k] = IF k < j THEN base ELSE turn(k, g[k - 1])
  <2> TAKE k \in 0 .. L
  <2>1. g[k] = IF k = 0 THEN base ELSE step[k][g[k - 1]]
    BY <1>8, Zenon DEF IsRec
  <2>2. CASE k = 0 /\ k < j
    BY <2>1, <2>2, Zenon
  <2>3. CASE k \in 1 .. L /\ k # 0 /\ k - 1 \in 0 .. L
    <3>1. g[k] = step[k][g[k - 1]] /\ g[k - 1] \in Reading
      BY <2>1, <2>3, <1>8, Zenon
    <3> QED
      BY <2>3, <3>1, <1>7, Zenon
  <2> QED
    BY <2>2, <2>3, <1>9, Zenon
<1>11. g = [k \in 0 .. L |-> g[k]]
  BY <1>8, Zenon
<1>12. IsCapture(g, b, j)
  BY <1>5, <1>10, <1>11, Zenon
<1>13. IsCapture(P, b, j)
  BY <1>12, Zenon DEF P
<1>14. \A k \in 0 .. L : P[k] = IF k < j THEN base ELSE turn(k, P[k - 1])
  BY <1>13, <1>5, Zenon
<1> DEFINE B == {k \in 0 .. L : /\ P[k] \in Reading
                                /\ P[k].next \in j .. (IF k < j THEN j ELSE k + 1)}
<1>15. \A k \in 0 .. L : k < j => k \in B
  <2> TAKE k \in 0 .. L
  <2> HAVE k < j
  <2>1. P[k] = base
    BY <1>14, Zenon
  <2>2. j \in j .. j
    BY <1>1
  <2> QED
    BY <2>1, <2>2, <1>2, Zenon
<1>16. ASSUME NEW k \in 1 .. L, k - 1 \in B PROVE k \in B
  <2>1. CASE k < j
    BY <2>1, <1>9, <1>15, Zenon
  <2>2. CASE ~ (k < j)
    <3> DEFINE p == P[k - 1]
               q == P[k]
    <3>1. p \in Reading /\ p.next \in j .. (IF k - 1 < j THEN j ELSE (k - 1) + 1)
      BY <1>16, Zenon
    <3>2. q = turn(k, p)
      BY <2>2, <1>9, <1>14, Zenon
    <3> HIDE DEF p, q
    <3>3. q \in Reading /\ (q.next = p.next \/ q.next = p.next + 1)
      BY <3>1, <3>2, <1>3, Zenon DEF OneMore
    <3> DEFINE x == p.next
               y == q.next
    <3>4. x \in j .. (IF k - 1 < j THEN j ELSE (k - 1) + 1) /\ (y = x \/ y = x + 1)
      BY <3>1, <3>3, Zenon
    <3> HIDE DEF x, y
    <3>5. y \in j .. k + 1
      BY <3>4, <2>2, <1>1
    <3> QED
      BY <2>2, <3>3, <3>5, <1>9, Zenon DEF q, y
  <2> QED
    BY <2>1, <2>2, Zenon
<1>17. 0 \in B
  BY <1>9, <1>15, Zenon
<1> HIDE DEF B
<1>18. 0 .. L \subseteq B
  BY <1>1, <1>16, <1>17, Induct, Zenon
<1>19. P[L].next \in j .. (IF L < j THEN j ELSE L + 1)
  BY <1>9, <1>18, Zenon DEF B
<1>20. ~ (L < j)
  BY <1>1
<1> QED
  BY <1>4, <1>19, <1>20, Zenon DEF L

\* A number or a keyword ends inside the body.
LEMMA EndOfEnds ==
  ASSUME IsText(b), NEW j \in 1 .. Len(b), NEW S
  PROVE  EndOf(j, S) \in j .. Len(b) + 1
<1> DEFINE L == Len(b)
           E == {k \in j .. L : b[k] \notin S} \cup {L + 1}
<1>1. L \in Nat /\ j \in 1 .. L
  BY TextLen, Zenon
<1>2. EndOf(j, S) = Min(E)
  BY Zenon DEF EndOf
<1> HIDE DEF L
<1>3. E \subseteq j .. L + 1 /\ E \subseteq Nat /\ L + 1 \in E
  <2>1. \A k \in j .. L : k \in j .. L + 1
    BY <1>1
  <2>2. L + 1 \in j .. L + 1 /\ \A k \in j .. L + 1 : k \in Nat
    BY <1>1
  <2> QED
    BY <2>1, <2>2, Zenon
<1> HIDE DEF E
<1>4. \E k \in E : \A n \in E : k <= n
  BY <1>3, NatMin, Zenon
<1>5. Min(E) \in E
  BY <1>4, Zenon DEF Min
<1> QED
  BY <1>2, <1>3, <1>5, Zenon DEF L

-----------------------------------------------------------------------------
(* The scanner: its steps.                                                 *)

\* The bytes the scanner has read.
Seen == IF returned THEN b ELSE SubSeq(b, 1, i - 1)

\* They are all in the output, and before there is a body there is none.
ScanInv ==
  /\ IsText(b) /\ IsText(out) /\ i \in 1 .. Len(b) + 1
  /\ Within(Seen, out)
  /\ phase # "body" /\ phase # "end" => i = 1 /\ out = <<>> /\ returned = FALSE

\* The body that was decoded is a text.
BodyDecoded == phase = "decoded" => \A c \in cmd : IsText(c.body)

\* The search of NothingLost finds what is within the output.
LEMMA ScanShows == ScanInv => NothingLost
<1> SUFFICES ASSUME ScanInv PROVE NothingLost
  BY Zenon
<1> DEFINE F == CHOOSE F : IsSearch(F, Seen, out)
<1>1. IsText(Seen)
  <2>1. CASE returned
    BY <2>1, Zenon DEF ScanInv, Seen
  <2>2. CASE ~ returned
    <3>1. IsText(b) /\ Len(b) \in Nat /\ i \in 1 .. Len(b) + 1
      BY TextLen, Zenon DEF ScanInv
    <3>2. 1 \in Nat \ {0} /\ i - 1 \in 1 - 1 .. Len(b)
      BY <3>1
    <3>3. IsText(SubSeq(b, 1, i - 1))
      BY <3>1, <3>2, Sub, Zenon
    <3> QED
      BY <2>2, <3>3, Zenon DEF Seen
  <2> QED
    BY <2>1, <2>2, Zenon
<1>2. IsText(out) /\ Within(Seen, out)
  BY Zenon DEF ScanInv
<1>3. \E G : IsSearch(G, Seen, out)
  BY <1>1, <1>2, SearchIs, Zenon
<1>4. IsSearch(F, Seen, out)
  BY <1>3, Zenon
<1>5. NothingLost <=> F[Len(out)] = Len(Seen)
  BY Zenon DEF NothingLost, IsSearch, Seen
<1> HIDE DEF F
<1>6. F[Len(out)] = Len(Seen)
  BY <1>1, <1>2, <1>4, SearchFinds, Zenon
<1> QED
  BY <1>5, <1>6, Zenon

\* Reading on to a byte of the body and writing all that was read.
LEMMA EmitKeeps ==
  ASSUME IsText(b), IsText(out), i \in 1 .. Len(b) + 1, Within(SubSeq(b, 1, i - 1), out),
         NEW s, NEW next \in i .. Len(b) + 1, Keeps(SubSeq(b, i, next - 1), s)
  PROVE  Keeps(SubSeq(b, 1, next - 1), out \o s)
<1> DEFINE p == SubSeq(b, 1, i - 1)
           q == SubSeq(b, i, next - 1)
           r == SubSeq(b, 1, next - 1)
<1>1. Len(b) \in Nat
  BY TextLen, Zenon
<1>2. PICK S : b \in Seq(S)
  BY TwoTexts, Zenon
<1>3. p \in Seq(S) /\ q \in Seq(S)
  BY <1>1, <1>2
<1>4. r = p \o q
  BY <1>1, <1>2
<1>5. IsText(p) /\ IsText(q)
  BY <1>3, SeqText, Zenon
<1>6. Within(p, out) /\ Within(q, s) /\ IsText(s)
  BY Zenon DEF Keeps
<1> HIDE DEF p, q, r
<1>7. Within(p \o q, out \o s) /\ IsText(out \o s)
  BY <1>5, <1>6, WithinCat, Cat, Zenon
<1>8. Keeps(r, out \o s)
  BY <1>4, <1>7, Zenon DEF Keeps
<1> QED
  BY <1>8, Zenon DEF r

\* A step that reads on and writes what it read keeps the invariant.
LEMMA EmitStep ==
  ASSUME ScanInv, ~ returned, returned' = returned, phase' = "body",
         NEW s, NEW next \in i .. Len(b) + 1, Keeps(SubSeq(b, i, next - 1), s), Emit(s, next)
  PROVE  ScanInv'
<1>1. /\ IsText(b) /\ IsText(out) /\ i \in 1 .. Len(b) + 1 /\ Within(SubSeq(b, 1, i - 1), out)
  BY Zenon DEF ScanInv, Seen
<1>2. Keeps(SubSeq(b, 1, next - 1), out \o s)
  BY <1>1, EmitKeeps, Zenon
<1>3. b' = b /\ out' = out \o s /\ i' = next
  BY Zenon DEF Emit
<1>4. Len(b) \in Nat
  BY <1>1, TextLen, Zenon
<1>5. next \in 1 .. Len(b) + 1
  BY <1>1, <1>4
<1>6. Seen' = SubSeq(b, 1, next - 1)
  BY <1>3, Zenon DEF Seen
<1> QED
  BY <1>1, <1>2, <1>3, <1>5, <1>6, Zenon DEF ScanInv, Keeps

\* So does one that copies a byte.
LEMMA ByteStep ==
  ASSUME ScanInv, ~ returned, returned' = returned, phase' = "body", i <= Len(b),
         Emit(<<b[i]>>, i + 1)
  PROVE  ScanInv'
<1> DEFINE s == <<b[i]>>
           next == i + 1
<1>1. IsText(b) /\ Len(b) \in Nat /\ i \in 1 .. Len(b) + 1
  BY TextLen, Zenon DEF ScanInv
<1>2. next \in i .. Len(b) + 1
  BY <1>1
<1>3. IsText(s) /\ Len(s) = 1 /\ s[1] = b[i]
  BY OneText, Zenon
<1>4. SubSeq(b, i, next - 1) = s
  <2> DEFINE m == i
             n == next - 1
             p == SubSeq(b, m, n)
  <2>1. m \in Nat \ {0} /\ n \in m - 1 .. Len(b)
    BY <1>1
  <2>2. n - m + 1 = 1 /\ 1 \in 1 .. 1 /\ m + 1 - 1 = i /\ \A k \in 1 .. 1 : k = 1
    BY <1>1
  <2> HIDE DEF m, n
  <2>3. IsText(p) /\ Len(p) = n - m + 1 /\ \A k \in 1 .. n - m + 1 : p[k] = b[m + k - 1]
    BY <1>1, <2>1, Sub, Zenon
  <2> HIDE DEF p, s
  <2>4. Len(p) = 1 /\ p[1] = b[i]
    BY <2>2, <2>3, Zenon
  <2>5. p = s
    BY <1>3, <2>2, <2>3, <2>4, TextEq, Zenon
  <2> QED
    BY <2>5, Zenon DEF p, m, n
<1>5. Keeps(s, s)
  BY OneText, WithinSelf, Zenon DEF Keeps
<1>6. Emit(s, next)
  BY Zenon
<1> HIDE DEF s, next
<1> QED
  BY <1>2, <1>4, <1>5, <1>6, EmitStep, Zenon

\* A part of the body, as it is or between quotes.
LEMMA PartKeeps ==
  ASSUME IsText(b), i \in 1 .. Len(b), NEW next \in i .. Len(b) + 1
  PROVE  LET s == SubSeq(b, i, next - 1)
         IN  Keeps(s, s) /\ Keeps(s, Quoted(s)) /\ Keeps(s, Quoted(escapeForString(s)))
<1> DEFINE s == SubSeq(b, i, next - 1)
           e == escapeForString(s)
<1>1. Len(b) \in Nat
  BY TextLen, Zenon
<1>2. i \in Nat \ {0} /\ next - 1 \in i - 1 .. Len(b)
  BY <1>1
<1>3. IsText(s)
  BY <1>2, Sub, Zenon
<1> HIDE DEF s
<1>4. Keeps(s, s)
  BY <1>3, WithinSelf, Zenon DEF Keeps
<1>5. Keeps(s, Quoted(s)) /\ Keeps(s, e)
  BY <1>3, QuotedKeeps, EscapeKeeps, Zenon
<1> HIDE DEF e
<1>6. Keeps(e, Quoted(e))
  BY <1>5, QuotedKeeps, Zenon DEF Keeps
<1> DEFINE q == Quoted(e)
<1>7. Keeps(s, q)
  <2>1. IsText(e) /\ IsText(q) /\ Within(s, e) /\ Within(e, q)
    BY <1>5, <1>6, Zenon DEF Keeps
  <2> HIDE DEF q
  <2>2. Within(s, q)
    BY <1>3, <2>1, WithinTrans, Zenon
  <2> QED
    BY <2>1, <2>2, Zenon DEF Keeps
<1> QED
  BY <1>4, <1>5, <1>7, Zenon DEF e, s

\* scanKeyword writes the keyword.
LEMMA KeywordStep ==
  ASSUME ScanInv, scanKeyword, phase' = "body"
  PROVE  ScanInv'
<1> DEFINE next == EndOf(i, Letter)
           s == SubSeq(b, i, next - 1)
<1>1. ~ returned /\ returned' = returned /\ i <= Len(b) /\ Emit(s, next)
  BY Zenon DEF scanKeyword, At
<1>2. IsText(b) /\ Len(b) \in Nat /\ i \in 1 .. Len(b) + 1
  BY TextLen, Zenon DEF ScanInv
<1>3. i \in 1 .. Len(b)
  BY <1>1, <1>2
<1>4. next \in i .. Len(b) + 1
  BY <1>2, <1>3, EndOfEnds, Zenon
<1> HIDE DEF next
<1>5. Keeps(s, s)
  BY <1>2, <1>3, <1>4, PartKeeps, Zenon
<1> QED
  BY <1>1, <1>4, <1>5, EmitStep, Zenon

\* scanNumber writes the number, between quotes if it is a key.
LEMMA NumberStep ==
  ASSUME ScanInv, scanNumber, phase' = "body"
  PROVE  ScanInv'
<1> DEFINE next == EndOf(i, Number)
           s == SubSeq(b, i, next - 1)
           t == IF st = "key" THEN Quoted(s) ELSE s
<1>1. ~ returned /\ returned' = returned /\ i <= Len(b) /\ Emit(t, next)
  BY Zenon DEF scanNumber, At
<1>2. IsText(b) /\ Len(b) \in Nat /\ i \in 1 .. Len(b) + 1
  BY TextLen, Zenon DEF ScanInv
<1>3. i \in 1 .. Len(b)
  BY <1>1, <1>2
<1>4. next \in i .. Len(b) + 1
  BY <1>2, <1>3, EndOfEnds, Zenon
<1> HIDE DEF next
<1>5. Keeps(s, s) /\ Keeps(s, Quoted(s))
  BY <1>2, <1>3, <1>4, PartKeeps, Zenon
<1>6. Keeps(s, t)
  BY <1>5, Zenon
<1> HIDE DEF t
<1> QED
  BY <1>1, <1>4, <1>6, EmitStep, Zenon

\* A captured key is escaped and written between quotes.
LEMMA CaptureStep ==
  ASSUME ScanInv, CaptureKey, phase' = "body"
  PROVE  ScanInv'
<1> DEFINE next == captureValue(i).next
           s == SubSeq(b, i, next - 1)
           t == Quoted(escapeForString(s))
<1>1. ~ returned /\ returned' = returned /\ i <= Len(b) /\ Emit(t, next)
  BY Zenon DEF CaptureKey, At
<1>2. IsText(b) /\ Len(b) \in Nat /\ i \in 1 .. Len(b) + 1
  BY TextLen, Zenon DEF ScanInv
<1>3. i \in 1 .. Len(b)
  BY <1>1, <1>2
<1>4. next \in i .. Len(b) + 1
  BY <1>2, <1>3, CaptureEnds, Zenon
<1> HIDE DEF next
<1>5. Keeps(s, t)
  BY <1>2, <1>3, <1>4, PartKeeps, Zenon
<1> HIDE DEF t
<1> QED
  BY <1>1, <1>4, <1>5, EmitStep, Zenon

\* A key with no end: the whole rest is written.
LEMMA NothingStep ==
  ASSUME ScanInv, CaptureNothing, phase' = "body"
  PROVE  ScanInv'
<1> DEFINE next == Len(b) + 1
           s == SubSeq(b, i, Len(b))
<1>1. ~ returned /\ returned' = TRUE /\ i <= Len(b) /\ Emit(s, i)
  BY Zenon DEF CaptureNothing, At
<1>2. IsText(b) /\ Len(b) \in Nat /\ i \in 1 .. Len(b) + 1
  BY TextLen, Zenon DEF ScanInv
<1>3. i \in 1 .. Len(b) /\ next \in i .. Len(b) + 1 /\ next - 1 = Len(b)
  BY <1>1, <1>2
<1>4. IsText(out) /\ Within(SubSeq(b, 1, i - 1), out)
  BY <1>1, Zenon DEF ScanInv, Seen
<1> HIDE DEF next
<1>5. Keeps(SubSeq(b, i, next - 1), SubSeq(b, i, next - 1))
  BY <1>2, <1>3, PartKeeps, Zenon
<1>6. Keeps(SubSeq(b, i, next - 1), s)
  BY <1>3, <1>5, Zenon
<1>7. Keeps(SubSeq(b, 1, next - 1), out \o s)
  BY <1>2, <1>3, <1>4, <1>6, EmitKeeps, Zenon
<1>8. SubSeq(b, 1, next - 1) = b
  <2>1. PICK S : b \in Seq(S)
    BY <1>2, TwoTexts, Zenon
  <2>2. SubSeq(b, 1, Len(b)) = b
    BY <2>1
  <2> QED
    BY <2>2, <1>3, Zenon
<1>9. b' = b /\ out' = out \o s /\ i' = i
  BY <1>1, Zenon DEF Emit
<1>10. Seen' = b
  BY <1>1, <1>9, Zenon DEF Seen
<1> QED
  BY <1>2, <1>7, <1>8, <1>9, <1>10, Zenon DEF ScanInv, Keeps

\* At the end of the body all of it has been read.
LEMMA ReturnStep ==
  ASSUME ScanInv, Return, phase' = "body"
  PROVE  ScanInv'
<1>1. ~ returned /\ returned' = TRUE /\ i > Len(b) /\ b' = b /\ out' = out /\ i' = i
  BY Zenon DEF Return
<1>2. IsText(b) /\ Len(b) \in Nat /\ i \in 1 .. Len(b) + 1
  BY TextLen, Zenon DEF ScanInv
<1>3. i - 1 = Len(b)
  BY <1>1, <1>2
<1>4. SubSeq(b, 1, Len(b)) = b
  <2>1. PICK S : b \in Seq(S)
    BY <1>2, TwoTexts, Zenon
  <2> QED
    BY <2>1
<1>5. Seen = b /\ Seen' = b
  BY <1>1, <1>3, <1>4, Zenon DEF Seen
<1> QED
  BY <1>1, <1>5, Zenon DEF ScanInv

\* The other steps of a call leave the scanner alone.
LEMMA ScanUnchanged ==
  ASSUME ScanInv, UNCHANGED scanVars,
         phase' = phase \/ (phase # "body" /\ phase # "end")
  PROVE  ScanInv'
<1>1. b' = b /\ out' = out /\ i' = i /\ returned' = returned
  BY Zenon DEF scanVars, vars
<1>2. Seen' = Seen
  BY <1>1, Zenon DEF Seen
<1> QED
  BY <1>1, <1>2, Zenon DEF ScanInv

\* One step per turn of the loop of normalizeKeys.
LEMMA ScanNext ==
  ASSUME ScanInv, UnmarshalJSON
  PROVE  ScanInv'
<1>1. phase = "body" /\ phase' = "body" /\ Next
  BY Zenon DEF UnmarshalJSON, callVars
<1>2. CASE StringByte \/ StringEnd \/ StringStart \/ Colon \/ Open \/ Close \/ Comma \/ Copy
  <2>1. ~ returned /\ returned' = returned /\ i <= Len(b) /\ Emit(<<b[i]>>, i + 1)
    BY <1>2, Zenon DEF StringByte, StringEnd, StringStart, Colon, Open, Close, Comma, Copy, At
  <2> QED
    BY <1>1, <2>1, ByteStep, Zenon
<1>3. CASE Done
  <2>1. UNCHANGED scanVars
    BY <1>3, Zenon DEF Done, scanVars
  <2> QED
    BY <1>1, <2>1, ScanUnchanged, Zenon
<1> QED
  BY <1>1, <1>2, <1>3, CaptureStep, NothingStep, KeywordStep, NumberStep, ReturnStep, Zenon
     DEF Next

\* Before the call nothing is read and nothing written.
LEMMA ScanStart == CallInit => ScanInv
<1> SUFFICES ASSUME CallInit PROVE ScanInv
  BY Zenon
<1>1. phase = "call" /\ b = <<>> /\ out = <<>> /\ i = 1 /\ returned = FALSE
  BY Zenon DEF CallInit, Init
<1>2. IsText(<<>>) /\ Len(<<>>) = 0 /\ Within(<<>>, <<>>)
  BY EmptyText, WithinNone, Zenon
<1>3. SubSeq(<<>>, 1, 1 - 1) = <<>> /\ 1 \in 1 .. 0 + 1
  OBVIOUS
<1>4. Seen = <<>>
  BY <1>1, <1>3, Zenon DEF Seen
<1> QED
  BY <1>1, <1>2, <1>3, <1>4, Zenon DEF ScanInv

\* Nor is it when there is a body.
LEMMA ScanBody ==
  ASSUME ScanInv, BodyDecoded, Unmarshal
  PROVE  ScanInv'
<1>1. phase = "decoded" /\ out' = out /\ i' = i /\ returned' = returned
  BY Zenon DEF Unmarshal
<1>2. out = <<>> /\ i = 1 /\ returned = FALSE
  BY <1>1, Zenon DEF ScanInv
<1>3. IsText(b')
  <2>1. b' = b \/ \E c \in cmd : b' = c.body
    BY Zenon DEF Unmarshal
  <2> QED
    BY <1>1, <2>1, Zenon DEF ScanInv, BodyDecoded
<1>4. Len(b') \in Nat /\ SubSeq(b', 1, 1 - 1) = <<>>
  <2> DEFINE t == b'
  <2>1. IsText(t)
    BY <1>3, Zenon
  <2> HIDE DEF t
  <2>2. PICK S : t \in Seq(S)
    BY <2>1, TwoTexts, Zenon
  <2>3. Len(t) \in Nat /\ SubSeq(t, 1, 1 - 1) = <<>>
    BY <2>2
  <2> QED
    BY <2>3, Zenon DEF t
<1>5. 1 \in 1 .. Len(b') + 1
  BY <1>4
<1>6. Seen' = <<>>
  BY <1>1, <1>2, <1>4, Zenon DEF Seen
<1>7. IsText(<<>>) /\ Within(<<>>, <<>>)
  BY EmptyText, WithinNone, Zenon
<1> QED
  BY <1>1, <1>2, <1>3, <1>5, <1>6, <1>7, Zenon DEF ScanInv

\* Every step of a call keeps the invariant of the scanner.
LEMMA ScanStep ==
  ScanInv /\ BodyDecoded /\ [CallNext]_<<scanVars, callVars>> => ScanInv'
<1> SUFFICES ASSUME ScanInv, BodyDecoded, [CallNext]_<<scanVars, callVars>> PROVE ScanInv'
  BY Zenon
<1>1. CASE \/ phase = "call" /\ \E r \in Request, n \in Opaque : Invoke(r, n)
           \/ Receive \/ Handle
           \/ phase = "answer" /\ \E r \in Reply : Answer(r)
           \/ InvokeSync
  <2>1. UNCHANGED scanVars /\ phase # "body" /\ phase # "end"
    BY <1>1, Zenon DEF Invoke, Receive, Handle, Answer, InvokeSync
  <2> QED
    BY <2>1, ScanUnchanged, Zenon
<1>2. CASE Unmarshal
  BY <1>2, ScanBody, Zenon
<1>3. CASE UnmarshalJSON
  BY <1>3, ScanNext, Zenon
<1>4. CASE Ended \/ UNCHANGED <<scanVars, callVars>>
  <2>1. UNCHANGED scanVars /\ phase' = phase
    BY <1>4, Zenon DEF Ended, callVars
  <2> QED
    BY <2>1, ScanUnchanged, Zenon
<1> QED
  BY <1>1, <1>2, <1>3, <1>4, Zenon DEF CallNext

-----------------------------------------------------------------------------
(* Numbers on the wire.                                                    *)

\* The base is a positive number.
LEMMA BaseNat == Base \in Nat \ {0}
  BY BaseAssumption

\* The weights.
LEMMA Weights ==
  /\ Weight[1] = 1
  /\ \A k \in 1 .. 5 : Weight[k] \in Nat \ {0}
  /\ \A k \in 1 .. 4 : Weight[k + 1] = Weight[k] * Base
<1>1. /\ Weight[1] = 1 /\ Weight[2] = Base /\ Weight[3] = Base * Base
      /\ Weight[4] = Base * Base * Base /\ Weight[5] = Base * Base * Base * Base
  BY Zenon DEF Weight
<1> DEFINE w2 == Base * Base
           w3 == w2 * Base
           w4 == w3 * Base
<1>2. w2 \in Nat \ {0}
  BY BaseNat
<1>3. w3 \in Nat \ {0}
  <2> HIDE DEF w2
  <2> QED
    BY <1>2, BaseNat
<1>4. w4 \in Nat \ {0}
  <2> HIDE DEF w3
  <2> QED
    BY <1>3, BaseNat
<1>5. Weight[2] = Weight[1] * Base
  BY <1>1, BaseNat
<1>6. /\ Weight[3] = Weight[2] * Base /\ Weight[4] = Weight[3] * Base
      /\ Weight[5] = Weight[4] * Base
  BY <1>1, Zenon
<1>7. \A k \in 1 .. 5 : k = 1 \/ k = 2 \/ k = 3 \/ k = 4 \/ k = 5
  OBVIOUS
<1>8. \A k \in 1 .. 4 : (k = 1 /\ k + 1 = 2) \/ (k = 2 /\ k + 1 = 3)
                        \/ (k = 3 /\ k + 1 = 4) \/ (k = 4 /\ k + 1 = 5)
  OBVIOUS
<1>9. 1 \in Nat \ {0}
  OBVIOUS
<1>10. \A k \in 1 .. 5 : Weight[k] \in Nat \ {0}
  BY <1>1, <1>2, <1>3, <1>4, <1>7, <1>9, BaseNat, Zenon
<1>11. \A k \in 1 .. 4 : Weight[k + 1] = Weight[k] * Base
  BY <1>5, <1>6, <1>8, Zenon
<1> QED
  BY <1>1, <1>10, <1>11, Zenon

\* The bytes of a number.
LEMMA PutBytes ==
  ASSUME NEW n \in Int, NEW w \in 1 .. 4
  PROVE  /\ IsText(PutInt(n, w)) /\ Len(PutInt(n, w)) = w
         /\ \A k \in 1 .. w : /\ PutInt(n, w)[k] = (n \div Weight[w - k + 1]) % Base
                              /\ PutInt(n, w)[k] \in Int
<1>1. \A k \in 1 .. w : w - k + 1 \in 1 .. 5
  OBVIOUS
<1>2. \A k \in 1 .. w : Weight[w - k + 1] \in Nat \ {0}
  BY <1>1, Weights, Zenon
<1>3. \A k \in 1 .. w : (n \div Weight[w - k + 1]) % Base \in Int
  BY <1>2, BaseNat
<1> DEFINE p == [k \in 1 .. w |-> (n \div Weight[w - k + 1]) % Base]
<1>4. p \in [1 .. w -> Int]
  BY <1>3, Zenon
<1>5. \A k \in 1 .. w : p[k] = (n \div Weight[w - k + 1]) % Base
  BY Zenon
<1>6. p = PutInt(n, w)
  BY Zenon DEF PutInt
<1> HIDE DEF p
<1>7. p \in Seq(Int) /\ Len(p) = w
  BY <1>4
<1> QED
  BY <1>3, <1>5, <1>6, <1>7, SeqText, Zenon

\* What Unsigned computes, byte by byte.
IsUnsigned(U, s) ==
  U = [k \in 0 .. Len(s) |-> IF k = 0 THEN 0 ELSE U[k - 1] * Base + s[k]]

\* Unsigned computes it.
LEMMA UnsignedIs ==
  ASSUME NEW s, IsText(s), \A k \in 1 .. Len(s) : s[k] \in Int
  PROVE  \E U \in [0 .. Len(s) -> Int] :
           /\ Unsigned(s) = U[Len(s)] /\ U[0] = 0
           /\ \A k \in 1 .. Len(s) : U[k] = U[k - 1] * Base + s[k]
<1> DEFINE L == Len(s)
           step == [k \in 1 .. L |-> [v \in Int |-> v * Base + s[k]]]
<1>0. L \in Nat
  BY TextLen, Zenon
<1>1. \A k \in 1 .. L, v \in Int : v * Base + s[k] \in Int
  BY BaseNat
<1> HIDE DEF L
<1>2. step \in [1 .. L -> [Int -> Int]]
  BY <1>1, Zenon
<1>3. \A k \in 1 .. L, v \in Int : step[k][v] = v * Base + s[k]
  BY Zenon
<1> HIDE DEF step
<1>4. 0 \in Int
  OBVIOUS
<1>5. PICK g \in [0 .. L -> Int] : IsRec(g, L, 0, step)
  BY <1>0, <1>2, <1>4, Recursion, Zenon
<1>6. \A k \in 0 .. L : (k = 0 \/ k \in 1 .. L) /\ (k # 0 => k - 1 \in 0 .. L)
  BY <1>0
<1>7. \A k \in 0 .. L : g[k] = IF k = 0 THEN 0 ELSE g[k - 1] * Base + s[k]
  <2>1. \A k \in 0 .. L : g[k] = IF k = 0 THEN 0 ELSE step[k][g[k - 1]]
    BY <1>5, Zenon DEF IsRec
  <2> QED
    BY <2>1, <1>3, <1>5, <1>6, Zenon
<1>8. IsUnsigned(g, s)
  <2>1. g = [k \in 0 .. L |-> g[k]]
    BY <1>5, Zenon
  <2> QED
    BY <2>1, <1>7, Zenon DEF IsUnsigned, L
<1> DEFINE U == CHOOSE U : IsUnsigned(U, s)
<1>9. Unsigned(s) = U[Len(s)]
  BY Zenon DEF Unsigned, IsUnsigned
<1>10. IsUnsigned(U, s)
  BY <1>8, Zenon
<1> HIDE DEF U
<1>11. /\ DOMAIN U = 0 .. L
       /\ U = [k \in 0 .. L |-> U[k]]
       /\ \A k \in 0 .. L : U[k] = IF k = 0 THEN 0 ELSE U[k - 1] * Base + s[k]
  BY <1>10, Zenon DEF IsUnsigned, L
<1> DEFINE Bad == {k \in 0 .. L : U[k] # g[k]}
<1>12. Bad = {}
  <2>1. ASSUME NEW k \in Bad, \A j \in Bad : k <= j PROVE FALSE
    <3>1. k # 0
      BY <2>1, <1>7, <1>11, Zenon
    <3>2. k - 1 \in 0 .. L /\ ~ (k <= k - 1)
      BY <1>0, <3>1
    <3>3. U[k - 1] = g[k - 1]
      BY <2>1, <3>2, Zenon
    <3> QED
      BY <3>1, <3>3, <1>7, <1>11, Zenon
  <2>2. Bad \in SUBSET Nat
    BY <1>0
  <2> HIDE DEF Bad
  <2> QED
    BY <2>1, <2>2, NatMin, Zenon
<1>13. U = g
  BY <1>11, <1>12, <1>5, Zenon
<1>14. 0 \in 0 .. L /\ \A k \in 1 .. L : k \in 0 .. L /\ k # 0
  BY <1>0
<1>15. U[0] = 0 /\ \A k \in 1 .. L : U[k] = U[k - 1] * Base + s[k]
  BY <1>11, <1>14, Zenon
<1> QED
  BY <1>5, <1>9, <1>13, <1>15, Zenon DEF L

\* Laws of products and quotients, each of which the provers need by itself.
LEMMA Shift ==
  ASSUME NEW n \in Int, NEW A \in Nat \ {0}, NEW B \in Nat \ {0}
  PROVE  (n \div A) \div B = n \div (A * B)
  OBVIOUS

LEMMA Distribute ==
  ASSUME NEW x \in Int, NEW y \in Int, NEW B \in Int
  PROVE  (x - y) * B = x * B - y * B /\ x * B \in Int
  OBVIOUS

LEMMA Regroup ==
  ASSUME NEW x \in Int, NEW y \in Int, NEW B \in Int
  PROVE  (x * y) * B = x * (y * B) /\ x * y \in Int
  OBVIOUS

\* A number is its last digit and the number before it.
Low(n) == n % Base
High(n) == n \div Base

\* A number is its lowest digit and the rest.
LEMMA Remains ==
  ASSUME NEW q \in Int
  PROVE  Low(q) = q - High(q) * Base /\ High(q) \in Int /\ Base \in Int
  BY BaseNat DEF Low, High

\* Two differences that meet.
LEMMA HornerSum ==
  ASSUME NEW a \in Int, NEW c \in Int, NEW l, NEW r, NEW q \in Int,
         l = a - c, r = q - a
  PROVE  l + r = q - c
  OBVIOUS

\* Reading one digit more: the value so far times the base, and the digit.
LEMMA Horner ==
  ASSUME NEW q \in Int, NEW Q \in Int, NEW W \in Int
  PROVE  (High(q) - Q * W) * Base + Low(q) = q - Q * (W * Base)
<1> DEFINE p == High(q)
           v == Q * W
           a == p * Base
           c == Q * (W * Base)
           l == (p - v) * Base
           r == Low(q)
<1>1. r = q - a /\ p \in Int /\ Base \in Int
  BY Remains, Zenon
<1>2. v * Base = c /\ v \in Int
  BY <1>1, Regroup
<1> HIDE DEF p, v, c
<1>3. l = a - v * Base /\ a \in Int /\ v * Base \in Int
  BY <1>1, <1>2, Distribute
<1>4. l = a - c /\ c \in Int
  BY <1>2, <1>3, Zenon
<1> HIDE DEF a, l, r
<1>5. l + r = q - c
  BY <1>1, <1>3, <1>4, HornerSum
<1> QED
  BY <1>5, Zenon DEF a, l, r, p, v, c

\* A quotient is an integer.
LEMMA DivInt ==
  ASSUME NEW n \in Int, NEW A \in Nat \ {0}
  PROVE  n \div A \in Int /\ A \in Int
  OBVIOUS

\* A number that was put into w bytes comes out of them modulo their weight.
LEMMA UnsignedPut ==
  ASSUME NEW n \in Int, NEW w \in 1 .. 4
  PROVE  Unsigned(PutInt(n, w)) = n - (n \div Weight[w + 1]) * Weight[w + 1]
<1> DEFINE s == PutInt(n, w)
           q(k) == n \div Weight[w - k + 1]
           all == n \div Weight[w + 1]
<1>1. /\ IsText(s) /\ Len(s) = w
      /\ \A k \in 1 .. w : s[k] = q(k) % Base /\ s[k] \in Int
  BY PutBytes, Zenon
<1> HIDE DEF s
<1>2. PICK U \in [0 .. w -> Int] :
           /\ Unsigned(s) = U[w] /\ U[0] = 0
           /\ \A k \in 1 .. w : U[k] = U[k - 1] * Base + s[k]
  <2>1. \A k \in 1 .. Len(s) : s[k] \in Int
    BY <1>1, Zenon
  <2> QED
    BY <2>1, <1>1, UnsignedIs, Zenon
<1>3. \A k \in 0 .. w : w - k + 1 \in 1 .. 5 /\ k + 1 \in 1 .. 5
  OBVIOUS
<1>4. all \in Int /\ \A k \in 0 .. w : q(k) \in Int /\ Weight[k + 1] \in Int
  <2>1. \A k \in 0 .. w : Weight[w - k + 1] \in Nat \ {0} /\ Weight[k + 1] \in Nat \ {0}
    BY <1>3, Weights, Zenon
  <2>2. w + 1 \in 1 .. 5
    OBVIOUS
  <2>3. Weight[w + 1] \in Nat \ {0}
    BY <2>2, Weights, Zenon
  <2>4. Weight[w + 1] \in Nat \ {0} => all \in Int
    BY DivInt, Zenon
  <2> QED
    BY <2>1, <2>3, <2>4, DivInt, Zenon
<1>5. ASSUME NEW k \in 1 .. w PROVE q(k - 1) = q(k) \div Base
  <2>1. w - k + 1 \in 1 .. 4 /\ w - (k - 1) + 1 = (w - k + 1) + 1 /\ w - k + 1 \in 1 .. 5
    OBVIOUS
  <2> DEFINE j == w - k + 1
  <2>2. Weight[j + 1] = Weight[j] * Base /\ Weight[j] \in Nat \ {0}
    BY <2>1, Weights, Zenon
  <2>3. q(k) \div Base = n \div (Weight[j] * Base)
    BY <2>2, BaseNat, Shift, Zenon
  <2> QED
    BY <2>1, <2>2, <2>3, Zenon
<1> DEFINE Claim(k) == U[k] = q(k) - all * Weight[k + 1]
<1>6. Claim(0)
  <2>1. w - 0 + 1 = w + 1 /\ 0 + 1 = 1
    OBVIOUS
  <2>2. q(0) = all /\ Weight[0 + 1] = 1
    BY <2>1, Weights, Zenon
  <2> HIDE DEF q, all
  <2> QED
    BY <1>2, <1>4, <2>2
<1>7. ASSUME NEW k \in 1 .. w, Claim(k - 1) PROVE Claim(k)
  <2>1. k - 1 \in 0 .. w /\ k \in 0 .. w /\ (k - 1) + 1 = k /\ k \in 1 .. 4
    OBVIOUS
  <2>2. Weight[k + 1] = Weight[k] * Base
    BY <2>1, Weights, Zenon
  <2>3. q(k - 1) = High(q(k)) /\ s[k] = Low(q(k))
    BY <1>1, <1>5, Zenon DEF Low, High
  <2>4. q(k) \in Int /\ q(k - 1) \in Int /\ Weight[k] \in Int /\ all \in Int
    BY <1>4, <2>1, Zenon
  <2> HIDE DEF q, all
  <2> DEFINE lower == High(q(k)) - all * Weight[k]
  <2>5. lower * Base + Low(q(k)) = q(k) - all * (Weight[k] * Base)
    BY <2>4, Horner, Zenon
  <2>6. U[k - 1] = lower
    BY <1>7, <2>1, <2>3, Zenon
  <2>7. U[k] = U[k - 1] * Base + s[k] /\ s[k] = Low(q(k))
    BY <1>2, <2>3, Zenon
  <2> HIDE DEF lower
  <2>8. U[k] = lower * Base + Low(q(k))
    BY <2>6, <2>7, Zenon
  <2> QED
    BY <2>2, <2>5, <2>8, Zenon
<1>8. Claim(w)
  <2> HIDE DEF Claim
  <2>1. w \in {1, 2, 3, 4} /\ 1 - 1 = 0 /\ 2 - 1 = 1 /\ 3 - 1 = 2 /\ 4 - 1 = 3
    OBVIOUS
  <2>2. \A k \in 1 .. w : Claim(k - 1) => Claim(k)
    BY <1>7, Zenon
  <2>3. (w = 1 => 1 \in 1 .. w) /\ (w = 2 => 1 \in 1 .. w /\ 2 \in 1 .. w)
        /\ (w = 3 => 1 \in 1 .. w /\ 2 \in 1 .. w /\ 3 \in 1 .. w)
        /\ (w = 4 => 1 \in 1 .. w /\ 2 \in 1 .. w /\ 3 \in 1 .. w /\ 4 \in 1 .. w)
    OBVIOUS
  <2>4. 1 \in 1 .. w => Claim(1)
    BY <1>6, <2>1, <2>2
  <2>5. 1 \in 1 .. w /\ 2 \in 1 .. w => Claim(2)
    BY <2>4, <2>1, <2>2, Zenon
  <2>6. 1 \in 1 .. w /\ 2 \in 1 .. w /\ 3 \in 1 .. w => Claim(3)
    BY <2>5, <2>1, <2>2, Zenon
  <2>7. 1 \in 1 .. w /\ 2 \in 1 .. w /\ 3 \in 1 .. w /\ 4 \in 1 .. w => Claim(4)
    BY <2>6, <2>1, <2>2
  <2> QED
    BY <2>1, <2>3, <2>4, <2>5, <2>6, <2>7, Zenon
<1>9. q(w) = n
  <2>1. w - w + 1 = 1
    OBVIOUS
  <2>2. q(w) = n \div 1
    BY <2>1, Weights, Zenon
  <2>3. n \div 1 = n
    OBVIOUS
  <2> QED
    BY <2>2, <2>3, Zenon
<1>10. U[w] = n - all * Weight[w + 1]
  BY <1>8, <1>9, Zenon
<1> QED
  BY <1>2, <1>10, Zenon DEF s

\* A number that fits is read as it was written, unsigned.
LEMMA UnsignedFits ==
  ASSUME NEW w \in 1 .. 4, NEW n \in Nat, n < Weight[w + 1]
  PROVE  Unsigned(PutInt(n, w)) = n
<1> DEFINE W == Weight[w + 1]
<1>1. w + 1 \in 1 .. 5 /\ n \in Int
  OBVIOUS
<1>2. W \in Nat \ {0} /\ n < W
  BY <1>1, Weights, Zenon
<1>3. Unsigned(PutInt(n, w)) = n - (n \div W) * W
  BY <1>1, UnsignedPut, Zenon
<1> HIDE DEF W
<1>4. n \div W = 0
  BY <1>2
<1>5. n - 0 * W = n
  BY <1>2
<1> QED
  BY <1>3, <1>4, <1>5, Zenon

\* And signed, the negative ones included.
LEMMA SignedFits ==
  ASSUME NEW w \in 1 .. 4, NEW n \in Int
  PROVE  /\ Fits(n, w) => Signed(PutInt(n, w)) = n
         /\ Fits(Signed(PutInt(n, w)), w)
<1> DEFINE W == Weight[w + 1]
           u == Unsigned(PutInt(n, w))
           d == n \div W
<1>1. w + 1 \in 1 .. 5
  OBVIOUS
<1>2. W \in Nat \ {0}
  BY <1>1, Weights, Zenon
<1>3. u = n - d * W
  BY UnsignedPut, Zenon
<1>4. Len(PutInt(n, w)) = w
  BY PutBytes, Zenon
<1>5. Signed(PutInt(n, w)) = IF 2 * u >= W THEN u - W ELSE u
  BY <1>4, Zenon DEF Signed
<1>6. d \in Int /\ n - d * W \in 0 .. W - 1
  <2> HIDE DEF W
  <2> QED
    BY <1>2
<1> HIDE DEF u, W
<1>7. u \in 0 .. W - 1 /\ u = n - d * W /\ d \in Int
  BY <1>3, <1>6, Zenon
<1> HIDE DEF d
<1>8. ASSUME - W <= 2 * n, 2 * n < W
      PROVE  (IF 2 * u >= W THEN u - W ELSE u) = n
  <2>1. CASE n >= 0
    <3>1. d = 0
      BY <1>2, <1>6, <1>8, <2>1 DEF d
    <3>2. u = n
      BY <3>1, <1>7, <1>2
    <3> QED
      BY <3>2, <1>8, <1>2
  <2>2. CASE n < 0
    <3>1. d = -1
      BY <1>2, <1>6, <1>8, <2>2 DEF d
    <3>2. u = n + W
      BY <3>1, <1>7, <1>2
    <3> QED
      BY <3>2, <1>8, <1>2
  <2> QED
    BY <2>1, <2>2
<1>9. LET x == IF 2 * u >= W THEN u - W ELSE u
      IN  x \in Int /\ - W <= 2 * x /\ 2 * x < W
  BY <1>2, <1>7
<1>10. Fits(n, w) => - W <= 2 * n /\ 2 * n < W
  BY Zenon DEF Fits, W
<1>11. Fits(IF 2 * u >= W THEN u - W ELSE u, w)
  BY <1>9 DEF Fits, W
<1> DEFINE x == IF 2 * u >= W THEN u - W ELSE u
<1>12. (Fits(n, w) => x = n) /\ Fits(x, w) /\ Signed(PutInt(n, w)) = x
  BY <1>5, <1>8, <1>10, <1>11, Zenon
<1> HIDE DEF x
<1> QED
  BY <1>12, Zenon

-----------------------------------------------------------------------------
(* The parts of a text that is written one piece after the other.          *)

\* s is the beginning of t.
Begins(s, t) == Len(s) <= Len(t) /\ \A k \in 1 .. Len(s) : t[k] = s[k]

\* The beginning of a beginning is a beginning.
LEMMA BeginsTrans ==
  ASSUME NEW s, NEW t, NEW u, IsText(s), IsText(t), IsText(u), Begins(s, t), Begins(t, u)
  PROVE  Begins(s, u)
<1>1. Len(s) \in Nat /\ Len(t) \in Nat /\ Len(u) \in Nat /\ Len(s) <= Len(t) /\ Len(t) <= Len(u)
  BY TextLen, Zenon DEF Begins
<1>2. Len(s) <= Len(u) /\ \A k \in 1 .. Len(s) : k \in 1 .. Len(t)
  BY <1>1
<1> QED
  BY <1>2, Zenon DEF Begins

\* A text begins what is written after it.
LEMMA BeginsCat ==
  ASSUME NEW s, NEW t, IsText(s), IsText(t)
  PROVE  Begins(s, s \o t)
<1>1. Len(s) \in Nat /\ Len(t) \in Nat
  BY TextLen, Zenon
<1>2. Len(s \o t) = Len(s) + Len(t) /\ \A k \in 1 .. Len(s) : (s \o t)[k] = s[k]
  BY Cat, Zenon
<1>3. Len(s) <= Len(s) + Len(t)
  BY <1>1
<1> QED
  BY <1>2, <1>3, Zenon DEF Begins

\* A text begins itself.
LEMMA BeginsSelf ==
  ASSUME NEW s, IsText(s)
  PROVE  Begins(s, s)
<1>1. Len(s) \in Nat
  BY TextLen, Zenon
<1>2. Len(s) <= Len(s)
  BY <1>1
<1> QED
  BY <1>2, Zenon DEF Begins

\* A part of a text lies where it begins and as far as it goes.
LEMMA Piece ==
  ASSUME NEW s, NEW t, NEW d, IsText(s), IsText(t), IsText(d), Begins(s \o t, d)
  PROVE  /\ Begins(s, d)
         /\ SubSeq(d, Len(s) + 1, Len(s) + Len(t)) = t
         /\ Len(s) + Len(t) <= Len(d)
<1> DEFINE c == s \o t
           m == Len(s) + 1
           n == Len(s) + Len(t)
<1>1. IsText(c) /\ Len(c) = n
  BY Cat, Zenon
<1>2. Len(s) \in Nat /\ Len(t) \in Nat /\ Len(d) \in Nat
  BY TextLen, Zenon
<1>3. \A k \in 1 .. Len(t) : c[Len(s) + k] = t[k]
  BY Cat
<1>4. Begins(s, d)
  BY <1>1, BeginsCat, BeginsTrans, Zenon
<1> HIDE DEF c
<1>5. n <= Len(d) /\ \A k \in 1 .. n : d[k] = c[k]
  BY <1>1, Zenon DEF Begins, c
<1>6. m \in Nat \ {0} /\ n \in m - 1 .. Len(d) /\ n - m + 1 = Len(t)
      /\ \A k \in 1 .. Len(t) : m + k - 1 = Len(s) + k /\ Len(s) + k \in 1 .. n
  BY <1>2, <1>5
<1> HIDE DEF m, n
<1>7. /\ IsText(SubSeq(d, m, n)) /\ Len(SubSeq(d, m, n)) = n - m + 1
      /\ \A k \in 1 .. n - m + 1 : SubSeq(d, m, n)[k] = d[m + k - 1]
  <2>1. IsText(d) /\ m \in Nat \ {0} /\ n \in m - 1 .. Len(d)
    BY <1>6, Zenon
  <2> QED
    BY <2>1, Sub, Zenon
<1>8. \A k \in 1 .. Len(t) : SubSeq(d, m, n)[k] = t[k]
  BY <1>3, <1>5, <1>6, <1>7, Zenon
<1>9. SubSeq(d, m, n) = t
  BY <1>6, <1>7, <1>8, TextEq, Zenon
<1> QED
  BY <1>4, <1>5, <1>9, Zenon DEF m, n

\* A part of the second of two texts that begin a third.
LEMMA Inside ==
  ASSUME NEW s, NEW t, NEW d, IsText(s), IsText(t), IsText(d), Begins(s \o t, d),
         NEW m \in Nat \ {0}, NEW n \in m - 1 .. Len(t)
  PROVE  SubSeq(d, Len(s) + m, Len(s) + n) = SubSeq(t, m, n)
<1> DEFINE c == s \o t
           p == Len(s) + m
           q == Len(s) + n
<1>1. IsText(c) /\ Len(c) = Len(s) + Len(t)
  BY Cat, Zenon
<1>2. Len(s) \in Nat /\ Len(t) \in Nat /\ Len(d) \in Nat
  BY TextLen, Zenon
<1>3. \A k \in 1 .. Len(t) : c[Len(s) + k] = t[k]
  BY Cat
<1> HIDE DEF c
<1>5. Len(s) + Len(t) <= Len(d) /\ \A k \in 1 .. Len(s) + Len(t) : d[k] = c[k]
  BY <1>1, Zenon DEF Begins, c
<1>6. /\ p \in Nat \ {0} /\ q \in p - 1 .. Len(d) /\ q - p + 1 = n - m + 1
      /\ \A k \in 1 .. n - m + 1 : /\ p + k - 1 = Len(s) + (m + k - 1)
                                   /\ m + k - 1 \in 1 .. Len(t)
                                   /\ Len(s) + (m + k - 1) \in 1 .. Len(s) + Len(t)
  BY <1>2, <1>5
<1> HIDE DEF p, q
<1>7. /\ IsText(SubSeq(d, p, q)) /\ Len(SubSeq(d, p, q)) = q - p + 1
      /\ \A k \in 1 .. q - p + 1 : SubSeq(d, p, q)[k] = d[p + k - 1]
  <2>1. IsText(d) /\ p \in Nat \ {0} /\ q \in p - 1 .. Len(d)
    BY <1>6, Zenon
  <2> QED
    BY <2>1, Sub, Zenon
<1>8. /\ IsText(SubSeq(t, m, n)) /\ Len(SubSeq(t, m, n)) = n - m + 1
      /\ \A k \in 1 .. n - m + 1 : SubSeq(t, m, n)[k] = t[m + k - 1]
  BY Sub, Zenon
<1>9. \A k \in 1 .. n - m + 1 : SubSeq(d, p, q)[k] = SubSeq(t, m, n)[k]
  <2> SUFFICES ASSUME NEW k \in 1 .. n - m + 1
               PROVE  SubSeq(d, p, q)[k] = SubSeq(t, m, n)[k]
    BY Zenon
  <2> DEFINE x == m + k - 1
  <2>1. p + k - 1 = Len(s) + x /\ x \in 1 .. Len(t) /\ Len(s) + x \in 1 .. Len(s) + Len(t)
    BY <1>6, Zenon
  <2>2. SubSeq(d, p, q)[k] = d[p + k - 1] /\ SubSeq(t, m, n)[k] = t[x]
    BY <1>6, <1>7, <1>8, Zenon
  <2> HIDE DEF x
  <2>3. d[Len(s) + x] = c[Len(s) + x] /\ c[Len(s) + x] = t[x]
    BY <2>1, <1>3, <1>5, Zenon
  <2> QED
    BY <2>1, <2>2, <2>3, Zenon
<1>10. SubSeq(d, p, q) = SubSeq(t, m, n)
  BY <1>6, <1>7, <1>8, <1>9, TextEq, Zenon
<1> QED
  BY <1>10, Zenon DEF p, q

\* t lies in d after s.
Lies(s, t, d) ==
  \A m \in Nat \ {0} : \A n \in m - 1 .. Len(t) :
    SubSeq(d, Len(s) + m, Len(s) + n) = SubSeq(t, m, n)

\* Where a text lies in another, all its bytes are.
LEMMA InsideAll ==
  ASSUME NEW s, NEW t, NEW d, IsText(s), IsText(t), IsText(d), Begins(s \o t, d)
  PROVE  Lies(s, t, d)
  BY Inside DEF Lies

\* A byte of it, by its place in the other.
LEMMA InsideAt ==
  ASSUME NEW s, NEW t, NEW d, IsText(s), IsText(t), IsText(d), Begins(s \o t, d),
         NEW k \in 1 .. Len(t)
  PROVE  d[Len(s) + k] = t[k]
<1>1. IsText(s \o t) /\ Len(s \o t) = Len(s) + Len(t)
  BY Cat, Zenon
<1>2. Len(s) \in Nat /\ Len(t) \in Nat
  BY TextLen, Zenon
<1>3. (s \o t)[Len(s) + k] = t[k]
  BY Cat
<1>4. Len(s) + k \in 1 .. Len(s) + Len(t)
  BY <1>2
<1> QED
  BY <1>1, <1>3, <1>4, Zenon DEF Begins

\* The same of texts that have names of their own.
LEMMA Parts ==
  ASSUME NEW s, NEW t, NEW c, c = s \o t, IsText(s), IsText(t)
  PROVE  IsText(c) /\ Len(c) = Len(s) + Len(t)
  BY Cat, Zenon

\* What was written second lies after what was written first.
LEMMA PartsOf ==
  ASSUME NEW s, NEW t, NEW c, c = s \o t, IsText(s), IsText(t),
         NEW d, IsText(d), Begins(c, d)
  PROVE  /\ Begins(s, d)
         /\ SubSeq(d, Len(s) + 1, Len(s) + Len(t)) = t
         /\ Len(s) + Len(t) <= Len(d)
  BY Piece, Zenon

\* What was written first lies at the beginning.
LEMMA FirstPart ==
  ASSUME NEW s, NEW d, IsText(s), IsText(d), Begins(s, d)
  PROVE  SubSeq(d, 1, Len(s)) = s
<1>1. PICK S : s \in Seq(S)
  BY TextSeq, Zenon
<1>2. <<>> \o s = s
  BY <1>1
<1>3. SubSeq(d, Len(<<>>) + 1, Len(<<>>) + Len(s)) = s
  BY <1>2, EmptyText, PartsOf, Zenon
<1>4. Len(s) \in Nat /\ Len(<<>>) = 0
  BY TextLen, EmptyText, Zenon
<1>5. 0 + 1 = 1 /\ 0 + Len(s) = Len(s)
  BY <1>4
<1> QED
  BY <1>3, <1>4, <1>5, Zenon

\* A key is one byte, which the two bytes before it can say.
LEMMA ByteFits == 1 \in Nat /\ 1 < Weight[3]
<1>1. Base \in Nat /\ Base >= 2
  BY BaseAssumption
<1>2. Weight[3] = Weight[2] * Base /\ Weight[2] = Weight[1] * Base /\ Weight[1] = 1
  <2>1. 1 \in 1 .. 4 /\ 2 \in 1 .. 4 /\ 1 + 1 = 2 /\ 2 + 1 = 3
    OBVIOUS
  <2> QED
    BY <2>1, Weights
<1> HIDE DEF Weight
<1>3. Weight[2] = Base
  BY <1>1, <1>2
<1>4. Base * Base > 1
  BY <1>1
<1> QED
  BY <1>2, <1>3, <1>4

\* The parts of a field.
LEMMA FieldParts ==
  ASSUME NEW key, NEW v, IsText(v)
  PROVE  LET F == Field(key, v)
         IN  /\ IsText(F) /\ Len(F) = 7 + Len(v)
             /\ SubSeq(F, 1, 2) = PutInt(1, 2) /\ F[3] = key
             /\ SubSeq(F, 4, 7) = PutInt(Len(v), 4)
             /\ SubSeq(F, 8, 7 + Len(v)) = v
<1> DEFINE p == PutInt(1, 2)
           k == <<key>>
           l == PutInt(Len(v), 4)
           pk == p \o k
           pkl == pk \o l
           F == pkl \o v
<1>1. Len(v) \in Nat /\ Len(v) \in Int /\ 1 \in Int /\ 2 \in 1 .. 4 /\ 4 \in 1 .. 4
  <2>1. Len(v) \in Nat
    BY TextLen, Zenon
  <2> QED
    BY <2>1
<1>2. IsText(p) /\ Len(p) = 2 /\ IsText(l) /\ Len(l) = 4
  BY <1>1, PutBytes, Zenon
<1>3. IsText(k) /\ Len(k) = 1 /\ k[1] = key
  BY OneText, Zenon
<1>4. Field(key, v) = F /\ pk = p \o k /\ pkl = pk \o l /\ F = pkl \o v
  BY Zenon DEF Field
<1> HIDE DEF p, k, l, pk, pkl, F
<1>5. IsText(pk) /\ Len(pk) = 3
  <2>1. IsText(pk) /\ Len(pk) = Len(p) + Len(k)
    BY <1>2, <1>3, <1>4, Parts, Zenon
  <2> QED
    BY <2>1, <1>2, <1>3
<1>6. IsText(pkl) /\ Len(pkl) = 7
  <2>1. IsText(pkl) /\ Len(pkl) = Len(pk) + Len(l)
    BY <1>2, <1>4, <1>5, Parts, Zenon
  <2> QED
    BY <2>1, <1>2, <1>5
<1>7. IsText(F) /\ Len(F) = 7 + Len(v)
  <2>1. IsText(F) /\ Len(F) = Len(pkl) + Len(v)
    BY <1>4, <1>6, Parts, Zenon
  <2> QED
    BY <2>1, <1>6
<1>8. Begins(F, F)
  BY <1>7, BeginsSelf, Zenon
<1>9. Begins(pkl, F) /\ SubSeq(F, Len(pkl) + 1, Len(pkl) + Len(v)) = v
  BY <1>4, <1>6, <1>7, <1>8, PartsOf, Zenon
<1>10. Begins(pk, F) /\ SubSeq(F, Len(pk) + 1, Len(pk) + Len(l)) = l
  <2>1. pkl = pk \o l /\ IsText(pk) /\ IsText(l) /\ IsText(F) /\ Begins(pkl, F)
    BY <1>2, <1>4, <1>5, <1>7, <1>9, Zenon
  <2> QED
    BY <2>1, PartsOf, Zenon
<1>11. Begins(p, F) /\ SubSeq(F, Len(p) + 1, Len(p) + Len(k)) = k
  <2>1. pk = p \o k /\ IsText(p) /\ IsText(k) /\ IsText(F) /\ Begins(pk, F)
    BY <1>2, <1>3, <1>4, <1>7, <1>10, Zenon
  <2> QED
    BY <2>1, PartsOf, Zenon
<1>12. SubSeq(F, 1, Len(p)) = p
  BY <1>2, <1>7, <1>11, FirstPart, Zenon
<1>13. F[3] = key
  <2>1. 1 \in 1 .. Len(k) /\ Len(p) + 1 = 3
    BY <1>2, <1>3
  <2>2. F[Len(p) + 1] = k[1]
    <3>1. /\ Begins(p \o k, F) /\ IsText(p) /\ IsText(k) /\ IsText(F)
          /\ 1 \in 1 .. Len(k)
      BY <2>1, <1>2, <1>3, <1>4, <1>7, <1>10, Zenon
    <3> QED
      BY <3>1, InsideAt
  <2> QED
    BY <2>1, <2>2, <1>3, Zenon
<1>14. Len(pkl) + 1 = 8 /\ Len(pk) + 1 = 4 /\ Len(pk) + Len(l) = 7
       /\ Len(pkl) + Len(v) = 7 + Len(v)
  BY <1>2, <1>5, <1>6
<1> QED
  BY <1>2, <1>4, <1>7, <1>9, <1>10, <1>12, <1>13, <1>14, Zenon DEF p, l

-----------------------------------------------------------------------------
(* The fields of a header: one, and all of them.                           *)

\* One turn of the loop reads one field.
LEMMA FieldRead ==
  ASSUME NEW d, NEW c, NEW key, NEW v, NEW e, IsText(d), IsText(c), IsText(v),
         Begins(c \o Field(key, v), d), Len(v) < Weight[5]
  PROVE  decodeField(d, [at |-> Len(c) + 1, ext |-> e])
           = {[at |-> Len(c) + (7 + Len(v)) + 1, ext |-> Put(e, key, v)]}
<1> DEFINE F == Field(key, v)
           at == Len(c) + 1
           s == [at |-> at, ext |-> e]
           n == Len(v)
           vAt == at + 3
           next == vAt + 4 + n
<1>1. /\ IsText(F) /\ Len(F) = 7 + n
      /\ SubSeq(F, 1, 2) = PutInt(1, 2) /\ F[3] = key
      /\ SubSeq(F, 4, 7) = PutInt(n, 4)
      /\ SubSeq(F, 8, 7 + n) = v
  BY FieldParts, Zenon
<1>2. Len(c) \in Nat /\ n \in Nat /\ Len(d) \in Nat
  BY TextLen, Zenon
<1>3. s.at = at /\ s.ext = e
  BY Zenon
<1> HIDE DEF F, s
<1>4. Begins(c \o F, d)
  BY Zenon DEF F
<1>5. Len(c) + Len(F) <= Len(d)
  BY <1>1, <1>4, Piece, Zenon
<1>6. /\ 1 \in Nat \ {0} /\ 4 \in Nat \ {0} /\ 8 \in Nat \ {0}
      /\ 2 \in 1 - 1 .. Len(F) /\ 7 \in 4 - 1 .. Len(F) /\ 7 + n \in 8 - 1 .. Len(F)
      /\ 3 \in 1 .. Len(F)
  BY <1>1, <1>2
<1>20. Lies(c, F, d)
  BY <1>1, <1>4, InsideAll, Zenon
<1>7. SubSeq(d, Len(c) + 1, Len(c) + 2) = PutInt(1, 2)
  BY <1>1, <1>6, <1>20, Zenon DEF Lies
<1>8. SubSeq(d, Len(c) + 4, Len(c) + 7) = PutInt(n, 4)
  BY <1>1, <1>6, <1>20, Zenon DEF Lies
<1>9. SubSeq(d, Len(c) + 8, Len(c) + (7 + n)) = v
  BY <1>1, <1>6, <1>20, Zenon DEF Lies
<1>10. d[Len(c) + 3] = key
  <2>1. /\ IsText(c) /\ IsText(F) /\ IsText(d) /\ Begins(c \o F, d)
        /\ 3 \in 1 .. Len(F)
    BY <1>1, <1>4, <1>6, Zenon
  <2>2. d[Len(c) + 3] = F[3]
    BY <2>1, InsideAt
  <2> QED
    BY <2>2, <1>1, Zenon
<1>11. Unsigned(PutInt(1, 2)) = 1 /\ Unsigned(PutInt(n, 4)) = n
  <2>1. 2 \in 1 .. 4 /\ 2 + 1 = 3 /\ 4 \in 1 .. 4 /\ 4 + 1 = 5
    OBVIOUS
  <2>2. 1 < Weight[2 + 1] /\ n < Weight[4 + 1] /\ 1 \in Nat
    BY <2>1, ByteFits, Zenon
  <2> QED
    BY <2>1, <2>2, <1>2, UnsignedFits, Zenon
<1>12. /\ at + 1 = Len(c) + 2 /\ at + 2 = Len(c) + 3 /\ at + 2 + 1 = vAt
       /\ vAt = Len(c) + 4 /\ vAt + 3 = Len(c) + 7 /\ vAt + 4 = Len(c) + 8
       /\ next - 1 = Len(c) + (7 + n) /\ next = Len(c) + (7 + n) + 1
       /\ ~ (Len(d) < at + 1) /\ ~ (Len(d) < vAt + 3) /\ ~ (Len(d) < next - 1)
  BY <1>1, <1>2, <1>5
<1>13. Unsigned(SubSeq(d, at, at + 1)) = 1 /\ Unsigned(SubSeq(d, vAt, vAt + 3)) = n
  BY <1>7, <1>8, <1>11, <1>12, Zenon
<1>14. d[at + 2] = key /\ SubSeq(d, vAt + 4, next - 1) = v
  BY <1>9, <1>10, <1>12, Zenon
<1> HIDE DEF at, vAt, next, n
<1>15. at + 2 + Unsigned(SubSeq(d, at, at + 1)) = vAt
  BY <1>12, <1>13, Zenon
<1>16. vAt + 4 + Unsigned(SubSeq(d, vAt, vAt + 3)) = next
  BY <1>13, Zenon DEF next
<1>17. decodeField(d, s)
         = IF Len(d) < at + 1 \/ Len(d) < vAt + 3 \/ Len(d) < next - 1 THEN {}
           ELSE {[at |-> next, ext |-> Put(e, d[at + 2], SubSeq(d, vAt + 4, next - 1))]}
  BY <1>3, <1>15, <1>16, Zenon DEF decodeField
<1>18. decodeField(d, s) = {[at |-> next, ext |-> Put(e, key, v)]}
  BY <1>12, <1>14, <1>17, Zenon
<1> QED
  BY <1>12, <1>18, Zenon DEF s, at, n

\* Each of the texts that Concat makes begins the last.
LEMMA ConcatGrows ==
  ASSUME NEW L \in Nat, NEW C, NEW t, \A k \in 0 .. L : IsText(C[k]),
         \A k \in 1 .. L : IsText(t[k]) /\ C[k] = C[k - 1] \o t[k]
  PROVE  \A k \in 0 .. L : Begins(C[k], C[L])
<1> DEFINE B == {j \in 0 .. L : Begins(C[L - j], C[L])}
<1>1. 0 \in B
  <2>1. 0 \in 0 .. L /\ L - 0 = L /\ L \in 0 .. L
    OBVIOUS
  <2>2. Begins(C[L], C[L])
    BY <2>1, BeginsSelf, Zenon
  <2> QED
    BY <2>1, <2>2, Zenon
<1>2. ASSUME NEW j \in 1 .. L, j - 1 \in B PROVE j \in B
  <2> DEFINE k == L - (j - 1)
  <2>1. /\ k \in 1 .. L /\ k - 1 = L - j /\ k \in 0 .. L /\ k - 1 \in 0 .. L /\ j \in 0 .. L
        /\ L \in 0 .. L
    OBVIOUS
  <2>2. Begins(C[k], C[L])
    BY <1>2, Zenon
  <2> HIDE DEF k
  <2>3. Begins(C[k - 1], C[k - 1] \o t[k])
    BY <2>1, BeginsCat, Zenon
  <2>4. Begins(C[k - 1], C[k]) /\ IsText(C[k - 1]) /\ IsText(C[k]) /\ IsText(C[L])
    BY <2>1, <2>3, Zenon
  <2>5. Begins(C[k - 1], C[L])
    BY <2>2, <2>4, BeginsTrans, Zenon
  <2> QED
    BY <2>1, <2>5, Zenon
<1> HIDE DEF B
<1>3. 0 .. L \subseteq B
  BY <1>1, <1>2, Induct, Zenon
<1>4. ASSUME NEW k \in 0 .. L PROVE Begins(C[k], C[L])
  <2>1. L - k \in 0 .. L /\ L - (L - k) = k
    OBVIOUS
  <2> QED
    BY <2>1, <1>3, Zenon DEF B
<1> QED
  BY <1>4, Zenon

\* order has each element of D once, and L of them.
Ordered(order, D, L) ==
  /\ L \in Nat /\ IsText(order) /\ Len(order) = L
  /\ \A k \in 1 .. L : order[k] \in D
  /\ D = {order[k] : k \in 1 .. L}

\* An order of a finite set names each of its keys once.
LEMMA OrderOf ==
  ASSUME NEW D, IsFiniteSet(D), NEW order \in Orders(D)
  PROVE  Ordered(order, D, Cardinality(D))
<1> DEFINE L == Cardinality(D)
<1>1. L \in Nat
  BY FS_CardinalityType, Zenon
<1>2. order \in [1 .. L -> D] /\ \A x \in D : \E k \in 1 .. L : order[k] = x
  BY Zenon DEF Orders, Bijection, Surjection, Injection
<1> HIDE DEF L
<1>3. order \in Seq(D) /\ Len(order) = L
  BY <1>1, <1>2
<1>4. D = {order[k] : k \in 1 .. L}
  BY <1>2, Zenon
<1> QED
  BY <1>1, <1>2, <1>3, <1>4, SeqText, Zenon DEF Ordered, L

\* The fields of a map that come first in an order.
Upto(ext, order, n) == [k \in {order[j] : j \in 1 .. n} |-> ext[k]]

\* One more key of the order.
LEMMA UptoPut ==
  ASSUME NEW ext, NEW order, NEW n \in Nat \ {0}
  PROVE  Put(Upto(ext, order, n - 1), order[n], ext[order[n]]) = Upto(ext, order, n)
<1> DEFINE A == {order[j] : j \in 1 .. n - 1}
           B == {order[j] : j \in 1 .. n}
<1>1. \A j : j \in 1 .. n <=> j \in 1 .. n - 1 \/ j = n
  OBVIOUS
<1>2. {order[n]} \cup A = B
  BY <1>1, Zenon
<1>3. DOMAIN Upto(ext, order, n - 1) = A /\ \A k \in A : Upto(ext, order, n - 1)[k] = ext[k]
  BY Zenon DEF Upto
<1> HIDE DEF A, B
<1> DEFINE u == Upto(ext, order, n - 1)
<1>4. DOMAIN u = A /\ \A k \in A : u[k] = ext[k]
  BY <1>3, Zenon
<1> HIDE DEF u
<1>5. Put(u, order[n], ext[order[n]])
        = [k \in B |-> IF k = order[n] THEN ext[order[n]] ELSE u[k]]
  BY <1>2, <1>4, Zenon DEF Put
<1>6. \A k \in B : (IF k = order[n] THEN ext[order[n]] ELSE u[k]) = ext[k]
  BY <1>2, <1>4, Zenon
<1>7. Put(u, order[n], ext[order[n]]) = [k \in B |-> ext[k]]
  BY <1>5, <1>6, Zenon
<1> QED
  BY <1>7, Zenon DEF Upto, u, B

\* No key of it.
LEMMA UptoNone ==
  ASSUME NEW ext, NEW order
  PROVE  Upto(ext, order, 0) = <<>>
<1>1. {order[j] : j \in 1 .. 0} = {}
  OBVIOUS
<1>2. Upto(ext, order, 0) = [k \in {} |-> ext[k]]
  BY <1>1, Zenon DEF Upto
<1>3. [k \in {} |-> ext[k]] = <<>>
  OBVIOUS
<1> QED
  BY <1>2, <1>3, Zenon

\* What the loop of decodeMaps computes.
IsTurns(T, data) ==
  T = [n \in 0 .. Len(data) |->
         IF n = 0 THEN {[at |-> 1, ext |-> <<>>]}
         ELSE UNION {IF s.at > Len(data) THEN {s} ELSE decodeField(data, s) : s \in T[n - 1]}]

\* decodeMaps computes it.
LEMMA TurnsIs ==
  ASSUME NEW data, Len(data) \in Nat, NEW g, IsTurns(g, data)
  PROVE  decodeMaps(data) = {s.ext : s \in g[Len(data)]}
<1> DEFINE L == Len(data)
           U == CHOOSE T : IsTurns(T, data)
           More(S) == UNION {IF s.at > L THEN {s} ELSE decodeField(data, s) : s \in S}
           B == {k \in 0 .. L : U[k] = g[k]}
<1>1. decodeMaps(data) = {s.ext : s \in U[L]}
  BY Zenon DEF decodeMaps, IsTurns
<1>2. IsTurns(U, data)
  BY Zenon
<1> HIDE DEF U
<1>3. \A k \in 0 .. L : U[k] = IF k = 0 THEN {[at |-> 1, ext |-> <<>>]} ELSE More(U[k - 1])
  BY <1>2, Zenon DEF IsTurns
<1>4. \A k \in 0 .. L : g[k] = IF k = 0 THEN {[at |-> 1, ext |-> <<>>]} ELSE More(g[k - 1])
  BY Zenon DEF IsTurns
<1> HIDE DEF More
<1>5. 0 \in 0 .. L /\ L \in 0 .. L /\ \A k \in 1 .. L : k \in 0 .. L /\ k # 0
  OBVIOUS
<1>6. 0 \in B
  BY <1>3, <1>4, <1>5, Zenon
<1>7. \A k \in 1 .. L : k - 1 \in B => k \in B
  BY <1>3, <1>4, <1>5, Zenon
<1> HIDE DEF B
<1>8. 0 .. L \subseteq B
  BY <1>6, <1>7, Induct, Zenon
<1>9. U[L] = g[L]
  BY <1>5, <1>8, Zenon DEF B
<1> QED
  BY <1>1, <1>9, Zenon

\* A field takes seven bytes or more: the loop has turns enough for all.
LEMMA LongEnough ==
  ASSUME NEW k \in Int, NEW m \in Nat, NEW n \in Nat, k - 1 <= m
  PROVE  k <= m + (7 + n)
  OBVIOUS

\* The fields that encodeMaps writes are those that decodeMaps reads.
LEMMA MapsRead ==
  ASSUME NEW ext, IsMap(ext), NEW order \in Orders(DOMAIN ext),
         Len(encodeMaps(ext, order)) < Weight[5]
  PROVE  /\ IsText(encodeMaps(ext, order))
         /\ decodeMaps(encodeMaps(ext, order)) = {ext}
<1> DEFINE D == DOMAIN ext
           L == Cardinality(D)
           data == encodeMaps(ext, order)
           v(k) == ext[order[k]]
           f == [k \in D |-> Field(k, ext[k])]
           t == [k \in 1 .. L |-> Field(order[k], v(k))]
           E(n) == Upto(ext, order, n)
<1>0. IsFiniteSet(D) /\ order \in Orders(D)
  BY Zenon DEF IsMap
<1>1. /\ L \in Nat /\ IsText(order) /\ Len(order) = L
      /\ \A k \in 1 .. L : order[k] \in D
      /\ D = {order[k] : k \in 1 .. L}
  <2> HIDE DEF D
  <2>1. Ordered(order, D, L)
    BY <1>0, OrderOf, Zenon
  <2> QED
    BY <2>1, Zenon DEF Ordered
<1>2. \A k \in 1 .. L : f[order[k]] = t[k]
  BY <1>1, Zenon
<1>3. \A k \in 1 .. L : /\ IsText(v(k)) /\ Len(v(k)) \in Nat
                        /\ IsText(t[k]) /\ Len(t[k]) = 7 + Len(v(k))
  <2>1. \A k \in 1 .. L : IsText(v(k))
    BY <1>1, Zenon DEF IsMap
  <2>2. \A k \in 1 .. L : t[k] = Field(order[k], v(k))
    BY Zenon
  <2> HIDE DEF t, v
  <2>3. ASSUME NEW k \in 1 .. L
        PROVE  /\ IsText(v(k)) /\ Len(v(k)) \in Nat
               /\ IsText(t[k]) /\ Len(t[k]) = 7 + Len(v(k))
    <3>1. IsText(v(k)) /\ t[k] = Field(order[k], v(k))
      BY <2>1, <2>2, Zenon
    <3>2. IsText(Field(order[k], v(k))) /\ Len(Field(order[k], v(k))) = 7 + Len(v(k))
      BY <3>1, FieldParts, Zenon
    <3>3. Len(v(k)) \in Nat
      BY <3>1, TextLen, Zenon
    <3> QED
      BY <3>1, <3>2, <3>3, Zenon
  <2> QED
    BY <2>3, Zenon
<1>4. data = Concat(f, order)
  BY Zenon DEF encodeMaps
<1>5. ASSUME NEW k \in 1 .. L PROVE t[k] = Field(order[k], v(k))
  BY Zenon
<1> HIDE DEF D, L, data, f, t, v
<1>6. PICK C : /\ data = C[L] /\ C[0] = <<>>
               /\ \A k \in 1 .. L : C[k] = C[k - 1] \o t[k]
               /\ \A k \in 0 .. L : IsText(C[k])
  <2>1. \A k \in 1 .. Len(order) : IsText(f[order[k]])
    BY <1>1, <1>2, <1>3, Zenon
  <2>2. PICK C : Grows(C, f, order)
    BY <2>1, <1>1, ConcatIs, Zenon
  <2>3. /\ data = C[L] /\ C[0] = <<>>
        /\ \A k \in 1 .. L : C[k] = C[k - 1] \o f[order[k]]
        /\ \A k \in 0 .. L : IsText(C[k])
    BY <2>2, <1>1, <1>4, Zenon DEF Grows
  <2>4. \A k \in 1 .. L : C[k] = C[k - 1] \o t[k]
    BY <2>3, <1>2, Zenon
  <2> QED
    BY <2>3, <2>4, Zenon
<1>7. L \in 0 .. L /\ 0 \in 0 .. L /\ \A k \in 1 .. L : k - 1 \in 0 .. L /\ k \in 0 .. L
  BY <1>1
<1>8. IsText(data) /\ Len(data) \in Nat /\ \A k \in 0 .. L : Len(C[k]) \in Nat
  BY <1>6, <1>7, TextLen, Zenon
<1>9. \A k \in 0 .. L : Begins(C[k], data)
  BY <1>1, <1>3, <1>6, ConcatGrows, Zenon
<1>10. \A k \in 1 .. L : Len(C[k]) = Len(C[k - 1]) + (7 + Len(v(k)))
  <2> SUFFICES ASSUME NEW k \in 1 .. L
               PROVE  Len(C[k]) = Len(C[k - 1]) + (7 + Len(v(k)))
    BY Zenon
  <2>1. C[k] = C[k - 1] \o t[k] /\ IsText(C[k - 1]) /\ IsText(t[k])
    BY <1>3, <1>6, <1>7, Zenon
  <2>2. Len(C[k]) = Len(C[k - 1]) + Len(t[k])
    BY <2>1, Parts
  <2> QED
    BY <2>2, <1>3, Zenon
<1>11. L <= Len(data)
  <2> DEFINE B == {k \in 0 .. L : k <= Len(C[k])}
  <2>1. 0 \in B
    BY <1>6, <1>7, <1>8
  <2>2. ASSUME NEW k \in 1 .. L, k - 1 \in B PROVE k \in B
    <3>1. Len(C[k - 1]) \in Nat /\ Len(v(k)) \in Nat /\ k - 1 <= Len(C[k - 1])
      BY <2>2, <1>3, <1>7, <1>8, Zenon
    <3>2. k <= Len(C[k - 1]) + (7 + Len(v(k)))
      <4>1. k \in Int
        OBVIOUS
      <4> QED
        BY <4>1, <3>1, LongEnough, Zenon
    <3> QED
      BY <3>2, <1>7, <1>10, Zenon
  <2> HIDE DEF B
  <2>3. 0 .. L \subseteq B
    BY <1>1, <2>1, <2>2, Induct, Zenon
  <2> QED
    BY <2>3, <1>6, <1>7, Zenon DEF B
<1> DEFINE State(n) == [at |-> Len(C[n]) + 1, ext |-> E(n)]
           N == Len(data)
           g == [n \in 0 .. N |-> {State(IF n <= L THEN n ELSE L)}]
           More(S) == UNION {IF s.at > N THEN {s} ELSE decodeField(data, s) : s \in S}
<1>12. \A n : State(n).at = Len(C[n]) + 1 /\ State(n).ext = E(n)
  BY Zenon
<1>13. \A s : More({s}) = IF s.at > N THEN {s} ELSE decodeField(data, s)
  BY Zenon
<1>14. ASSUME NEW n \in 1 .. L PROVE More({State(n - 1)}) = {State(n)}
  <2> DEFINE s == State(n - 1)
             c == C[n - 1]
             x == v(n)
  <2>1. /\ IsText(c) /\ IsText(x) /\ Len(c) \in Nat /\ Len(x) \in Nat
        /\ C[n] = c \o Field(order[n], x) /\ Begins(C[n], data)
        /\ Len(C[n]) = Len(c) + (7 + Len(x))
    BY <1>3, <1>5, <1>6, <1>7, <1>8, <1>9, <1>10, Zenon
  <2>2. Len(C[n]) <= N
    BY <2>1, Zenon DEF Begins
  <2>3. Weight[5] \in Nat
    <3>1. 5 \in 1 .. 5
      OBVIOUS
    <3> QED
      BY <3>1, Weights
  <2>4. N < Weight[5]
    BY Zenon DEF data
  <2> HIDE DEF N, c, x
  <2>5. ~ (Len(c) + 1 > N) /\ Len(x) < Weight[5]
    BY <2>1, <2>2, <2>3, <2>4, <1>8 DEF N
  <2>6. decodeField(data, [at |-> Len(c) + 1, ext |-> E(n - 1)])
          = {[at |-> Len(c) + (7 + Len(x)) + 1, ext |-> Put(E(n - 1), order[n], x)]}
    <3>1. /\ IsText(data) /\ IsText(c) /\ IsText(x)
          /\ Begins(c \o Field(order[n], x), data) /\ Len(x) < Weight[5]
      BY <2>1, <2>5, <1>8, Zenon
    <3> DEFINE e == E(n - 1)
               key == order[n]
    <3> HIDE DEF e, key
    <3>2. IsText(data) /\ IsText(c) /\ IsText(x) /\ Begins(c \o Field(key, x), data)
      BY <3>1, Zenon DEF key
    <3>3. decodeField(data, [at |-> Len(c) + 1, ext |-> e])
            = {[at |-> Len(c) + (7 + Len(x)) + 1, ext |-> Put(e, key, x)]}
      BY <3>2, <2>5, FieldRead
    <3> QED
      BY <3>3, Zenon DEF e, key
  <2>7. Put(E(n - 1), order[n], x) = E(n)
    <3>1. n \in Nat \ {0}
      BY <1>1
    <3> QED
      BY <3>1, UptoPut, Zenon DEF x, v
  <2>8. decodeField(data, s) = {State(n)}
    BY <2>1, <2>6, <2>7, Zenon DEF c
  <2> QED
    BY <2>5, <2>8, <1>12, <1>13, Zenon DEF c
<1>15. More({State(L)}) = {State(L)}
  <2>1. Len(C[L]) + 1 > N
    BY <1>6, <1>8
  <2> QED
    BY <2>1, <1>12, <1>13, Zenon
<1>16. State(0) = [at |-> 1, ext |-> <<>>]
  <2>1. Len(C[0]) + 1 = 1
    <3>1. Len(C[0]) = 0
      BY <1>6, EmptyText, Zenon
    <3> QED
      BY <3>1
  <2> QED
    BY <2>1, UptoNone, Zenon
<1> HIDE DEF State, More
<1>17. \A n \in 0 .. N : g[n] = IF n = 0 THEN {[at |-> 1, ext |-> <<>>]} ELSE More(g[n - 1])
  <2>1. ASSUME NEW n \in 0 .. N PROVE g[n] = {State(IF n <= L THEN n ELSE L)}
    BY Zenon
  <2>2. g[0] = {State(0)}
    <3>1. 0 \in 0 .. N /\ 0 <= L
      BY <1>1, <1>8
    <3> QED
      BY <3>1, <2>1, Zenon
  <2>3. ASSUME NEW n \in 0 .. N, n # 0 PROVE g[n] = More(g[n - 1])
    <3>1. n - 1 \in 0 .. N /\ (n <= L => n - 1 <= L /\ n \in 1 .. L)
          /\ (~ (n <= L) => n - 1 = L \/ ~ (n - 1 <= L)) /\ L <= L
      BY <2>3, <1>1, <1>8
    <3>2. CASE n <= L
      BY <3>1, <3>2, <2>1, <1>14, Zenon
    <3>3. CASE ~ (n <= L)
      <4>1. g[n - 1] = {State(L)}
        BY <3>1, <3>3, <2>1, Zenon
      <4> QED
        BY <4>1, <3>3, <2>1, <1>15, Zenon
    <3> QED
      BY <3>2, <3>3, Zenon
  <2> HIDE DEF g
  <2> QED
    BY <2>2, <2>3, <1>16, Zenon
<1>18. g[N] = {State(L)}
  <2>1. N \in 0 .. N /\ (N <= L => N = L)
    BY <1>1, <1>8, <1>11
  <2> HIDE DEF N
  <2> QED
    BY <2>1, Zenon
<1>19. IsTurns(g, data)
  <2>1. g = [n \in 0 .. N |-> g[n]]
    BY Zenon
  <2> HIDE DEF g
  <2> QED
    BY <2>1, <1>17, Zenon DEF IsTurns, More
<1> HIDE DEF g
<1>20. decodeMaps(data) = {s.ext : s \in g[N]}
  BY <1>8, <1>19, TurnsIs, Zenon
<1>21. decodeMaps(data) = {E(L)}
  BY <1>12, <1>18, <1>20, Zenon
<1>22. E(L) = ext
  BY <1>1, Zenon DEF Upto, IsMap, D
<1> QED
  BY <1>8, <1>21, <1>22, Zenon DEF data

-----------------------------------------------------------------------------
(* Headers.                                                                *)

\* The fields of a map are written as a text.
LEMMA MapsText ==
  ASSUME NEW ext, IsMap(ext), NEW order \in Orders(DOMAIN ext)
  PROVE  IsText(encodeMaps(ext, order))
<1> DEFINE D == DOMAIN ext
           L == Cardinality(D)
           f == [k \in D |-> Field(k, ext[k])]
<1>0. IsFiniteSet(D) /\ order \in Orders(D)
  BY Zenon DEF IsMap
<1>1. encodeMaps(ext, order) = Concat(f, order)
  BY Zenon DEF encodeMaps
<1>2. \A k \in D : IsText(f[k])
  <2>1. \A k \in D : f[k] = Field(k, ext[k]) /\ IsText(ext[k])
    BY Zenon DEF IsMap
  <2> HIDE DEF D, f
  <2>2. ASSUME NEW k \in D PROVE IsText(f[k])
    <3>1. f[k] = Field(k, ext[k]) /\ IsText(ext[k])
      BY <2>1, Zenon
    <3>2. IsText(Field(k, ext[k]))
      BY <3>1, FieldParts, Zenon
    <3> QED
      BY <3>1, <3>2, Zenon
  <2> QED
    BY <2>2, Zenon
<1> HIDE DEF D, f
<1>3. Ordered(order, D, L)
  BY <1>0, OrderOf, Zenon
<1>4. L \in Nat /\ IsText(order) /\ Len(order) = L /\ \A k \in 1 .. L : order[k] \in D
  BY <1>3, Zenon DEF Ordered
<1> HIDE DEF L
<1>5. \A k \in 1 .. Len(order) : IsText(f[order[k]])
  BY <1>2, <1>4, Zenon
<1>6. PICK C : Grows(C, f, order)
  BY <1>4, <1>5, ConcatIs, Zenon
<1>7. Len(order) \in 0 .. Len(order)
  BY <1>4
<1>8. IsText(Concat(f, order))
  BY <1>6, <1>7, Zenon DEF Grows
<1> QED
  BY <1>1, <1>8, Zenon

\* A number is written as a text of its width.
LEMMA NumberText ==
  ASSUME NEW n \in Int, NEW w \in {2, 3, 4}
  PROVE  IsText(PutInt(n, w)) /\ Len(PutInt(n, w)) = w
<1>1. w \in 1 .. 4
  OBVIOUS
<1> QED
  BY <1>1, PutBytes, Zenon

\* The header of a command.
IsHeader(c) ==
  /\ IsMap(c.ext) /\ IsText(c.remark)
  /\ Fits(c.code, 2) /\ c.version \in Int /\ Fits(c.opaque, 4) /\ Fits(c.flag, 4)

\* Where the parts of a header lie in it.
HeaderParts(d, c, x) ==
  LET r == Len(c.remark)
      e == Len(x)
  IN  /\ IsText(d) /\ Len(d) = 21 + r + e
      /\ SubSeq(d, 1, 2) = PutInt(c.code, 2)
      /\ SubSeq(d, 4, 5) = PutInt(c.version, 2)
      /\ SubSeq(d, 6, 9) = PutInt(c.opaque, 4)
      /\ SubSeq(d, 10, 13) = PutInt(c.flag, 4)
      /\ SubSeq(d, 14, 17) = PutInt(r, 4)
      /\ SubSeq(d, 18, 17 + r) = c.remark
      /\ SubSeq(d, 18 + r, 21 + r) = PutInt(e, 4)
      /\ SubSeq(d, 22 + r, 21 + r + e) = x

\* encodeHeader writes these parts.
LEMMA HeaderWritten ==
  ASSUME NEW c, IsHeader(c), NEW order \in Orders(DOMAIN c.ext)
  PROVE  HeaderParts(encodeRocketMQ(c, order), c, encodeMaps(c.ext, order))
<1> DEFINE x == encodeMaps(c.ext, order)
           r == Len(c.remark)
           e == Len(x)
           p1 == PutInt(c.code, 2)
           p2 == <<Go % Base>>
           p3 == PutInt(c.version, 2)
           p4 == PutInt(c.opaque, 4)
           p5 == PutInt(c.flag, 4)
           p6 == PutInt(r, 4)
           p7 == c.remark
           p8 == PutInt(e, 4)
           p9 == x
           h2 == p1 \o p2
           h3 == h2 \o p3
           h4 == h3 \o p4
           h5 == h4 \o p5
           h6 == h5 \o p6
           h7 == h6 \o p7
           h8 == h7 \o p8
           h9 == h8 \o p9
<1>1. IsText(x) /\ IsText(c.remark) /\ r \in Nat /\ e \in Nat
  <2>1. IsText(x)
    BY MapsText, Zenon DEF IsHeader
  <2>2. IsText(c.remark)
    BY Zenon DEF IsHeader
  <2> HIDE DEF x
  <2> QED
    BY <2>1, <2>2, TextLen, Zenon
<1>2. /\ c.code \in Int /\ c.version \in Int /\ c.opaque \in Int /\ c.flag \in Int
      /\ r \in Int /\ e \in Int
  <2>1. c.code \in Int /\ c.version \in Int /\ c.opaque \in Int /\ c.flag \in Int
    BY Zenon DEF IsHeader, Fits
  <2> HIDE DEF r, e
  <2> QED
    BY <2>1, <1>1
<1>3. /\ IsText(p1) /\ Len(p1) = 2 /\ IsText(p3) /\ Len(p3) = 2 /\ IsText(p4) /\ Len(p4) = 4
      /\ IsText(p5) /\ Len(p5) = 4 /\ IsText(p6) /\ Len(p6) = 4 /\ IsText(p8) /\ Len(p8) = 4
  <2> HIDE DEF r, e
  <2> QED
    BY <1>2, NumberText, Zenon
<1>4. IsText(p2) /\ Len(p2) = 1 /\ IsText(p7) /\ Len(p7) = r /\ IsText(p9) /\ Len(p9) = e
  BY <1>1, OneText, Zenon
<1>5. encodeRocketMQ(c, order) = h9
  BY Zenon DEF encodeRocketMQ
<1>6. /\ h2 = p1 \o p2
      /\ h3 = h2 \o p3
      /\ h4 = h3 \o p4
      /\ h5 = h4 \o p5
      /\ h6 = h5 \o p6
      /\ h7 = h6 \o p7
      /\ h8 = h7 \o p8
      /\ h9 = h8 \o p9
  BY Zenon
<1> HIDE DEF r, e, p1, p2, p3, p4, p5, p6, p7, p8, p9, h2, h3, h4, h5, h6, h7, h8, h9
<1>7. IsText(h2) /\ Len(h2) = 3
  <2>1. h2 = p1 \o p2 /\ IsText(p1) /\ IsText(p2)
    BY <1>6, <1>4, <1>3, Zenon
  <2>2. IsText(h2) /\ Len(h2) = Len(p1) + Len(p2)
    BY <2>1, Parts, Zenon
  <2> QED
    BY <2>2, <1>4, <1>3, <1>1
<1>8. IsText(h3) /\ Len(h3) = 5
  <2>1. h3 = h2 \o p3 /\ IsText(h2) /\ IsText(p3)
    BY <1>6, <1>3, <1>7, Zenon
  <2>2. IsText(h3) /\ Len(h3) = Len(h2) + Len(p3)
    BY <2>1, Parts, Zenon
  <2> QED
    BY <2>2, <1>3, <1>7, <1>1
<1>9. IsText(h4) /\ Len(h4) = 9
  <2>1. h4 = h3 \o p4 /\ IsText(h3) /\ IsText(p4)
    BY <1>6, <1>3, <1>8, Zenon
  <2>2. IsText(h4) /\ Len(h4) = Len(h3) + Len(p4)
    BY <2>1, Parts, Zenon
  <2> QED
    BY <2>2, <1>3, <1>8, <1>1
<1>10. IsText(h5) /\ Len(h5) = 13
  <2>1. h5 = h4 \o p5 /\ IsText(h4) /\ IsText(p5)
    BY <1>6, <1>3, <1>9, Zenon
  <2>2. IsText(h5) /\ Len(h5) = Len(h4) + Len(p5)
    BY <2>1, Parts, Zenon
  <2> QED
    BY <2>2, <1>3, <1>9, <1>1
<1>11. IsText(h6) /\ Len(h6) = 17
  <2>1. h6 = h5 \o p6 /\ IsText(h5) /\ IsText(p6)
    BY <1>6, <1>3, <1>10, Zenon
  <2>2. IsText(h6) /\ Len(h6) = Len(h5) + Len(p6)
    BY <2>1, Parts, Zenon
  <2> QED
    BY <2>2, <1>3, <1>10, <1>1
<1>12. IsText(h7) /\ Len(h7) = 17 + r
  <2>1. h7 = h6 \o p7 /\ IsText(h6) /\ IsText(p7)
    BY <1>6, <1>4, <1>11, Zenon
  <2>2. IsText(h7) /\ Len(h7) = Len(h6) + Len(p7)
    BY <2>1, Parts, Zenon
  <2> QED
    BY <2>2, <1>4, <1>11, <1>1
<1>13. IsText(h8) /\ Len(h8) = 21 + r
  <2>1. h8 = h7 \o p8 /\ IsText(h7) /\ IsText(p8)
    BY <1>6, <1>3, <1>12, Zenon
  <2>2. IsText(h8) /\ Len(h8) = Len(h7) + Len(p8)
    BY <2>1, Parts, Zenon
  <2> QED
    BY <2>2, <1>3, <1>12, <1>1
<1>14. IsText(h9) /\ Len(h9) = 21 + r + e
  <2>1. h9 = h8 \o p9 /\ IsText(h8) /\ IsText(p9)
    BY <1>6, <1>4, <1>13, Zenon
  <2>2. IsText(h9) /\ Len(h9) = Len(h8) + Len(p9)
    BY <2>1, Parts, Zenon
  <2> QED
    BY <2>2, <1>4, <1>13, <1>1
<1>15. Begins(h9, h9)
  BY <1>14, BeginsSelf, Zenon
<1>16. Begins(h8, h9) /\ SubSeq(h9, 22 + r, 21 + r + e) = p9
  <2>1. h9 = h8 \o p9 /\ IsText(h8) /\ IsText(p9) /\ IsText(h9) /\ Begins(h9, h9)
    BY <1>6, <1>4, <1>13, <1>14, <1>15, Zenon
  <2>2. Begins(h8, h9) /\ SubSeq(h9, Len(h8) + 1, Len(h8) + Len(p9)) = p9
    BY <2>1, PartsOf, Zenon
  <2>3. Len(h8) + 1 = 22 + r /\ Len(h8) + Len(p9) = 21 + r + e
    BY <1>4, <1>13, <1>1
  <2> QED
    BY <2>2, <2>3, Zenon
<1>17. Begins(h7, h9) /\ SubSeq(h9, 18 + r, 21 + r) = p8
  <2>1. h8 = h7 \o p8 /\ IsText(h7) /\ IsText(p8) /\ IsText(h9) /\ Begins(h8, h9)
    BY <1>6, <1>3, <1>12, <1>14, <1>16, Zenon
  <2>2. Begins(h7, h9) /\ SubSeq(h9, Len(h7) + 1, Len(h7) + Len(p8)) = p8
    BY <2>1, PartsOf, Zenon
  <2>3. Len(h7) + 1 = 18 + r /\ Len(h7) + Len(p8) = 21 + r
    BY <1>3, <1>12, <1>1
  <2> QED
    BY <2>2, <2>3, Zenon
<1>18. Begins(h6, h9) /\ SubSeq(h9, 18, 17 + r) = p7
  <2>1. h7 = h6 \o p7 /\ IsText(h6) /\ IsText(p7) /\ IsText(h9) /\ Begins(h7, h9)
    BY <1>6, <1>4, <1>11, <1>14, <1>17, Zenon
  <2>2. Begins(h6, h9) /\ SubSeq(h9, Len(h6) + 1, Len(h6) + Len(p7)) = p7
    BY <2>1, PartsOf, Zenon
  <2>3. Len(h6) + 1 = 18 /\ Len(h6) + Len(p7) = 17 + r
    BY <1>4, <1>11, <1>1
  <2> QED
    BY <2>2, <2>3, Zenon
<1>19. Begins(h5, h9) /\ SubSeq(h9, 14, 17) = p6
  <2>1. h6 = h5 \o p6 /\ IsText(h5) /\ IsText(p6) /\ IsText(h9) /\ Begins(h6, h9)
    BY <1>6, <1>3, <1>10, <1>14, <1>18, Zenon
  <2>2. Begins(h5, h9) /\ SubSeq(h9, Len(h5) + 1, Len(h5) + Len(p6)) = p6
    BY <2>1, PartsOf, Zenon
  <2>3. Len(h5) + 1 = 14 /\ Len(h5) + Len(p6) = 17
    BY <1>3, <1>10, <1>1
  <2> QED
    BY <2>2, <2>3, Zenon
<1>20. Begins(h4, h9) /\ SubSeq(h9, 10, 13) = p5
  <2>1. h5 = h4 \o p5 /\ IsText(h4) /\ IsText(p5) /\ IsText(h9) /\ Begins(h5, h9)
    BY <1>6, <1>3, <1>9, <1>14, <1>19, Zenon
  <2>2. Begins(h4, h9) /\ SubSeq(h9, Len(h4) + 1, Len(h4) + Len(p5)) = p5
    BY <2>1, PartsOf, Zenon
  <2>3. Len(h4) + 1 = 10 /\ Len(h4) + Len(p5) = 13
    BY <1>3, <1>9, <1>1
  <2> QED
    BY <2>2, <2>3, Zenon
<1>21. Begins(h3, h9) /\ SubSeq(h9, 6, 9) = p4
  <2>1. h4 = h3 \o p4 /\ IsText(h3) /\ IsText(p4) /\ IsText(h9) /\ Begins(h4, h9)
    BY <1>6, <1>3, <1>8, <1>14, <1>20, Zenon
  <2>2. Begins(h3, h9) /\ SubSeq(h9, Len(h3) + 1, Len(h3) + Len(p4)) = p4
    BY <2>1, PartsOf, Zenon
  <2>3. Len(h3) + 1 = 6 /\ Len(h3) + Len(p4) = 9
    BY <1>3, <1>8, <1>1
  <2> QED
    BY <2>2, <2>3, Zenon
<1>22. Begins(h2, h9) /\ SubSeq(h9, 4, 5) = p3
  <2>1. h3 = h2 \o p3 /\ IsText(h2) /\ IsText(p3) /\ IsText(h9) /\ Begins(h3, h9)
    BY <1>6, <1>3, <1>7, <1>14, <1>21, Zenon
  <2>2. Begins(h2, h9) /\ SubSeq(h9, Len(h2) + 1, Len(h2) + Len(p3)) = p3
    BY <2>1, PartsOf, Zenon
  <2>3. Len(h2) + 1 = 4 /\ Len(h2) + Len(p3) = 5
    BY <1>3, <1>7, <1>1
  <2> QED
    BY <2>2, <2>3, Zenon
<1>23. Begins(p1, h9) /\ SubSeq(h9, 3, 3) = p2
  <2>1. h2 = p1 \o p2 /\ IsText(p1) /\ IsText(p2) /\ IsText(h9) /\ Begins(h2, h9)
    BY <1>6, <1>4, <1>3, <1>14, <1>22, Zenon
  <2>2. Begins(p1, h9) /\ SubSeq(h9, Len(p1) + 1, Len(p1) + Len(p2)) = p2
    BY <2>1, PartsOf, Zenon
  <2>3. Len(p1) + 1 = 3 /\ Len(p1) + Len(p2) = 3
    BY <1>4, <1>3, <1>1
  <2> QED
    BY <2>2, <2>3, Zenon
<1>24. SubSeq(h9, 1, 2) = p1
  <2>1. SubSeq(h9, 1, Len(p1)) = p1
    BY <1>3, <1>14, <1>23, FirstPart, Zenon
  <2> QED
    BY <2>1, <1>3, Zenon
<1> QED
  BY <1>5, <1>14, <1>16, <1>17, <1>18, <1>19, <1>20, <1>21, <1>22, <1>23, <1>24,
     Zenon DEF HeaderParts, r, e, p1, p3, p4, p5, p6, p7, p8, p9

\* What fits in half of the range of four bytes is the same signed.
LEMMA HalfFits ==
  ASSUME NEW n \in Nat, 2 * n < Weight[5]
  PROVE  Fits(n, 4) /\ n < Weight[5] /\ Signed(PutInt(n, 4)) = n
<1> DEFINE W == Weight[5]
<1>1. W \in Nat \ {0} /\ 4 + 1 = 5 /\ 4 \in 1 .. 4
  <2>1. 5 \in 1 .. 5 /\ 4 + 1 = 5 /\ 4 \in 1 .. 4
    OBVIOUS
  <2> QED
    BY <2>1, Weights, Zenon
<1> HIDE DEF W
<1>2. 2 * n < W
  BY Zenon DEF W
<1>3. n \in Int /\ - W <= 2 * n /\ n < W
  BY <1>1, <1>2
<1>4. Fits(n, 4)
  BY <1>1, <1>2, <1>3, Zenon DEF Fits, W
<1> QED
  BY <1>1, <1>3, <1>4, SignedFits, Zenon DEF W

Fields == {"code", "language", "version", "opaque", "flag", "remark", "ext", "body"}

\* h has what c says, except for the language, the version and the body.
SameHeader(h, c) ==
  /\ h.code = c.code /\ h.opaque = c.opaque /\ h.flag = c.flag
  /\ h.remark = c.remark /\ h.ext = c.ext
  /\ DOMAIN h = Fields /\ h = [k \in DOMAIN h |-> h[k]]

\* The header that is read is the one that was written.
LEMMA HeaderRead ==
  ASSUME NEW c, IsHeader(c), NEW order \in Orders(DOMAIN c.ext),
         NEW d, d = encodeRocketMQ(c, order), 2 * Len(d) < Weight[5]
  PROVE  /\ IsText(d)
         /\ \E h : decodeRocketMQ(d) = {h} /\ SameHeader(h, c)
<1> DEFINE x == encodeMaps(c.ext, order)
           r == Len(c.remark)
           e == Len(x)
           length(at) == Signed(SubSeq(d, at, at + 3))
           len(at) == IF length(at) > 0 THEN length(at) ELSE 0
           eAt == 18 + len(14)
           end == eAt + 3 + len(eAt)
<1>1. HeaderParts(d, c, x)
  BY HeaderWritten, Zenon
<1>2. IsText(x) /\ IsText(c.remark) /\ IsMap(c.ext)
  BY MapsText, Zenon DEF IsHeader
<1> HIDE DEF x
<1>3. r \in Nat /\ e \in Nat
  BY <1>2, TextLen, Zenon
<1>4. /\ IsText(d) /\ Len(d) = 21 + r + e
      /\ SubSeq(d, 1, 2) = PutInt(c.code, 2)
      /\ SubSeq(d, 4, 5) = PutInt(c.version, 2)
      /\ SubSeq(d, 6, 9) = PutInt(c.opaque, 4)
      /\ SubSeq(d, 10, 13) = PutInt(c.flag, 4)
      /\ SubSeq(d, 14, 17) = PutInt(r, 4)
      /\ SubSeq(d, 18, 17 + r) = c.remark
      /\ SubSeq(d, 18 + r, 21 + r) = PutInt(e, 4)
      /\ SubSeq(d, 22 + r, 21 + r + e) = x
  BY <1>1, Zenon DEF HeaderParts
<1> HIDE DEF r, e
<1>5. 2 * r < Weight[5] /\ 2 * e < Weight[5] /\ e < Weight[5]
  <2> DEFINE W == Weight[5]
  <2>1. W \in Nat
    <3>1. 5 \in 1 .. 5
      OBVIOUS
    <3> QED
      BY <3>1, Weights
  <2>2. 2 * Len(d) < W
    BY Zenon
  <2> HIDE DEF W
  <2>3. 2 * r < W /\ 2 * e < W /\ e < W
    BY <2>1, <2>2, <1>3, <1>4
  <2> QED
    BY <2>3, Zenon DEF W
<1>6. Signed(PutInt(r, 4)) = r /\ Signed(PutInt(e, 4)) = e
  BY <1>3, <1>5, HalfFits, Zenon
<1>7. len(14) = r
  <2>1. 14 + 3 = 17
    OBVIOUS
  <2>2. length(14) = r
    BY <2>1, <1>4, <1>6, Zenon
  <2>3. (IF r > 0 THEN r ELSE 0) = r
    BY <1>3
  <2> QED
    BY <2>2, <2>3, Zenon
<1>8. eAt = 18 + r
  BY <1>7, Zenon
<1>9. len(18 + r) = e
  <2>1. 18 + r + 3 = 21 + r
    BY <1>3
  <2>2. length(18 + r) = e
    BY <2>1, <1>4, <1>6, Zenon
  <2>3. (IF e > 0 THEN e ELSE 0) = e
    BY <1>3
  <2> QED
    BY <2>2, <2>3, Zenon
<1>10. end = 18 + r + 3 + e
  BY <1>8, <1>9, Zenon
<1>11. decodeRocketMQ(d) =
         IF Len(d) < 17 \/ Len(d) < eAt + 3 \/ Len(d) < end THEN {}
         ELSE {[code |-> Signed(SubSeq(d, 1, 2)), language |-> d[3],
                version |-> Signed(SubSeq(d, 4, 5)),
                opaque |-> Signed(SubSeq(d, 6, 9)),
                flag |-> Signed(SubSeq(d, 10, 13)),
                remark |-> SubSeq(d, 18, eAt - 1), ext |-> ext, body |-> <<>>] :
                 ext \in decodeMaps(SubSeq(d, eAt + 4, end))}
  BY Zenon DEF decodeRocketMQ
<1> HIDE DEF eAt, end, len, length
<1>12. /\ ~ (Len(d) < 17) /\ ~ (Len(d) < eAt + 3) /\ ~ (Len(d) < end)
       /\ eAt - 1 = 17 + r /\ eAt + 4 = 22 + r /\ end = 21 + r + e
  BY <1>3, <1>4, <1>8, <1>10
<1>13. decodeMaps(x) = {c.ext}
  BY <1>2, <1>5, MapsRead, Zenon DEF x, e
<1>14. /\ Signed(PutInt(c.code, 2)) = c.code /\ Signed(PutInt(c.opaque, 4)) = c.opaque
       /\ Signed(PutInt(c.flag, 4)) = c.flag
  <2>1. 2 \in 1 .. 4 /\ 4 \in 1 .. 4
    OBVIOUS
  <2>2. /\ Fits(c.code, 2) /\ Fits(c.opaque, 4) /\ Fits(c.flag, 4)
        /\ c.code \in Int /\ c.opaque \in Int /\ c.flag \in Int
    BY Zenon DEF IsHeader, Fits
  <2> QED
    BY <2>1, <2>2, SignedFits, Zenon
<1> DEFINE l == d[3]
           n == Signed(SubSeq(d, 4, 5))
           H(ext) == [code |-> c.code, language |-> l, version |-> n,
                      opaque |-> c.opaque, flag |-> c.flag,
                      remark |-> c.remark, ext |-> ext, body |-> <<>>]
<1> HIDE DEF l, n
<1>15. decodeRocketMQ(d) = {H(ext) : ext \in {c.ext}}
  <2>1. SubSeq(d, 18, eAt - 1) = c.remark /\ decodeMaps(SubSeq(d, eAt + 4, end)) = {c.ext}
    BY <1>4, <1>12, <1>13, Zenon
  <2> DEFINE G(ext) == [code |-> Signed(SubSeq(d, 1, 2)), language |-> d[3],
                        version |-> Signed(SubSeq(d, 4, 5)),
                        opaque |-> Signed(SubSeq(d, 6, 9)),
                        flag |-> Signed(SubSeq(d, 10, 13)),
                        remark |-> SubSeq(d, 18, eAt - 1), ext |-> ext, body |-> <<>>]
  <2>2. decodeRocketMQ(d) = {G(ext) : ext \in decodeMaps(SubSeq(d, eAt + 4, end))}
    BY <1>11, <1>12, Zenon
  <2>3. /\ Signed(SubSeq(d, 1, 2)) = c.code /\ Signed(SubSeq(d, 6, 9)) = c.opaque
        /\ Signed(SubSeq(d, 10, 13)) = c.flag /\ d[3] = l /\ Signed(SubSeq(d, 4, 5)) = n
    BY <1>4, <1>14, Zenon DEF l, n
  <2>4. \A ext : G(ext) = H(ext)
    BY <2>1, <2>3, Zenon
  <2> HIDE DEF G, H
  <2> QED
    BY <2>1, <2>2, <2>4, Zenon
<1>16. decodeRocketMQ(d) = {H(c.ext)}
  BY <1>15, Zenon
<1> DEFINE h == H(c.ext)
<1>17. /\ h.code = c.code /\ h.opaque = c.opaque /\ h.flag = c.flag
       /\ h.remark = c.remark /\ h.ext = c.ext
       /\ DOMAIN h = {"code", "language", "version", "opaque", "flag",
                      "remark", "ext", "body"}
  BY Zenon
<1>18. h = [k \in DOMAIN h |-> h[k]]
  BY Zenon
<1> HIDE DEF h
<1>19. decodeRocketMQ(d) = {h}
  BY <1>16, Zenon DEF h
<1> QED
  BY <1>4, <1>17, <1>18, <1>19, Zenon DEF SameHeader, Fields

\* A command that a frame of the type can hold.
Holds(c, type, order) ==
  LET header == encodeHeader(c, type, order)
  IN  /\ type \in {JsonCodecs, RocketMQCodecs}
      /\ DOMAIN c = Fields /\ c = [k \in DOMAIN c |-> c[k]]
      /\ IsMap(c.ext) /\ IsText(c.remark) /\ IsText(c.body)
      /\ c.version \in Int /\ Fits(c.opaque, 4) /\ Fits(c.flag, 4)
      /\ type = RocketMQCodecs => Fits(c.code, 2)
      /\ Len(header) < Weight[4]
      /\ 2 * (4 + Len(header) + Len(c.body)) < Weight[5]

\* A JSON header is read as it was written.
LEMMA JsonRead ==
  ASSUME NEW c, DOMAIN c = Fields, c = [k \in DOMAIN c |-> c[k]]
  PROVE  /\ IsText(encodeJSON(c)) /\ Len(encodeJSON(c)) = 1
         /\ \E h : decodeJSON(encodeJSON(c)) = {h} /\ SameHeader(h, c)
<1> DEFINE w == [c EXCEPT !.language = "GO", !.body = <<>>]
           h == [w EXCEPT !.language = IF @ = "GO" THEN Go ELSE Unknown]
<1>1. /\ DOMAIN w = Fields /\ w = [k \in DOMAIN w |-> w[k]]
      /\ w.code = c.code /\ w.opaque = c.opaque /\ w.flag = c.flag
      /\ w.remark = c.remark /\ w.ext = c.ext
  BY Zenon DEF Fields
<1>2. encodeJSON(c) = <<w>>
  BY Zenon DEF encodeJSON
<1> HIDE DEF w
<1>3. SameHeader(h, c)
  BY <1>1, Zenon DEF SameHeader, Fields
<1>4. Range(<<w>>) = {w}
  <2> DEFINE q == <<w>>
  <2>1. DOMAIN q = {1} /\ q[1] = w
    OBVIOUS
  <2> HIDE DEF q
  <2>2. Range(q) = {w}
    BY <2>1, Zenon DEF Range
  <2> QED
    BY <2>2, Zenon DEF q
<1>5. decodeJSON(<<w>>) = {h}
  BY <1>4, Zenon DEF decodeJSON
<1> HIDE DEF h
<1> QED
  BY <1>2, <1>3, <1>5, OneText, Zenon

\* A header is read by the protocol it was written in.
LEMMA HeaderOfType ==
  ASSUME NEW c, NEW type, NEW order \in Orders(DOMAIN c.ext), Holds(c, type, order)
  PROVE  LET H == encodeHeader(c, type, order)
         IN  /\ IsText(H)
             /\ \E h : /\ (IF type = JsonCodecs THEN decodeJSON(H) ELSE decodeRocketMQ(H)) = {h}
                       /\ SameHeader(h, c)
<1> DEFINE H == encodeHeader(c, type, order)
<1>1. CASE type = JsonCodecs
  <2>1. H = encodeJSON(c)
    BY <1>1, Zenon DEF encodeHeader
  <2> HIDE DEF H
  <2>2. DOMAIN c = Fields /\ c = [k \in DOMAIN c |-> c[k]]
    BY Zenon DEF Holds
  <2>3. IsText(H) /\ \E h : decodeJSON(H) = {h} /\ SameHeader(h, c)
    BY <2>1, <2>2, JsonRead, Zenon
  <2> QED
    BY <1>1, <2>3, Zenon DEF H
<1>2. CASE type # JsonCodecs
  <2>1. H = encodeRocketMQ(c, order)
    BY <1>2, Zenon DEF encodeHeader
  <2>2. type = RocketMQCodecs
    BY <1>2, Zenon DEF Holds
  <2>3. IsHeader(c)
    BY <2>2, Zenon DEF Holds, IsHeader
  <2>4. 2 * (4 + Len(H) + Len(c.body)) < Weight[5] /\ IsText(c.body)
    BY Zenon DEF Holds
  <2> HIDE DEF H
  <2>5. IsText(H) /\ Len(H) \in Nat
    <3>1. HeaderParts(H, c, encodeMaps(c.ext, order))
      BY <2>1, <2>3, HeaderWritten, Zenon
    <3>2. IsText(H)
      BY <3>1, Zenon DEF HeaderParts
    <3> QED
      BY <3>2, TextLen, Zenon
  <2>6. 2 * Len(H) < Weight[5]
    <3>1. Len(c.body) \in Nat
      BY <2>4, TextLen, Zenon
    <3>2. Weight[5] \in Nat
      <4>1. 5 \in 1 .. 5
        OBVIOUS
      <4> QED
        BY <4>1, Weights
    <3> DEFINE W == Weight[5]
               m == Len(H)
               n == Len(c.body)
    <3>3. W \in Nat /\ m \in Nat /\ n \in Nat /\ 2 * (4 + m + n) < W
      BY <3>1, <3>2, <2>4, <2>5, Zenon
    <3> HIDE DEF W, m, n
    <3>4. 2 * m < W
      BY <3>3
    <3> QED
      BY <3>4, Zenon DEF W, m
  <2>8. \E h : decodeRocketMQ(H) = {h} /\ SameHeader(h, c)
    BY <2>1, <2>3, <2>6, HeaderRead, Zenon
  <2> QED
    BY <1>2, <2>5, <2>8, Zenon DEF H
<1> QED
  BY <1>1, <1>2, Zenon

Grouped(s, t, u) == (s \o t) \o u = s \o (t \o u)

\* Three texts may be written in two ways.
LEMMA Regroups ==
  ASSUME NEW s, NEW t, NEW u, IsText(s), IsText(t), IsText(u)
  PROVE  Grouped(s, t, u)
<1> DEFINE A == {s[k] : k \in 1 .. Len(s)}
           B == {t[k] : k \in 1 .. Len(t)}
           C == {u[k] : k \in 1 .. Len(u)}
<1>1. s \in Seq(A) /\ t \in Seq(B) /\ u \in Seq(C)
  BY TextSeq, Zenon
<1> HIDE DEF A, B, C
<1>2. s \in Seq(A \cup B \cup C) /\ t \in Seq(A \cup B \cup C) /\ u \in Seq(A \cup B \cup C)
  BY <1>1
<1>3. (s \o t) \o u = s \o (t \o u)
  BY <1>2
<1> QED
  BY <1>3, Zenon DEF Grouped

-----------------------------------------------------------------------------
(* Frames.                                                                 *)

\* A frame without its size.
Payload(c, type, order) ==
  LET header == encodeHeader(c, type, order)
  IN  markProtocolType(type, Len(header)) \o header \o c.body

\* The payload d says what c does.
Says(d, c) == \E x : decode(d) = {x} /\ SameHeader(x, c) /\ x.body = c.body

\* decode reads the header and the body as they were written.
LEMMA PayloadRead ==
  ASSUME NEW c, NEW type, NEW order \in Orders(DOMAIN c.ext), Holds(c, type, order)
  PROVE  /\ IsText(Payload(c, type, order)) /\ Says(Payload(c, type, order), c)
         /\ Len(Payload(c, type, order))
              = 4 + Len(encodeHeader(c, type, order)) + Len(c.body)
<1> DEFINE H == encodeHeader(c, type, order)
           n == Len(H)
           p1 == <<type>>
           p2 == PutInt(n, 3)
           d2 == p1 \o p2
           d3 == d2 \o H
           d == d3 \o c.body
<1>1. PICK h : /\ (IF type = JsonCodecs THEN decodeJSON(H) ELSE decodeRocketMQ(H)) = {h}
               /\ SameHeader(h, c)
  BY HeaderOfType, Zenon
<1>2. IsText(H) /\ IsText(c.body)
  BY HeaderOfType, Zenon DEF Holds
<1>3. n < Weight[4] /\ type \in {JsonCodecs, RocketMQCodecs}
  BY Zenon DEF Holds
<1>4. Payload(c, type, order) = d
  BY Zenon DEF Payload, markProtocolType
<1> HIDE DEF H
<1>5. n \in Nat /\ Len(c.body) \in Nat
  BY <1>2, TextLen, Zenon
<1> HIDE DEF n
<1>6. IsText(p1) /\ Len(p1) = 1 /\ p1[1] = type /\ IsText(p2) /\ Len(p2) = 3
  <2>1. n \in Int
    BY <1>5
  <2> QED
    BY <2>1, OneText, NumberText, Zenon
<1>7. d2 = p1 \o p2 /\ d3 = d2 \o H /\ d = d3 \o c.body
  BY Zenon
<1> HIDE DEF p1, p2, d2, d3, d
<1>8. IsText(d2) /\ Len(d2) = 4
  <2>1. IsText(d2) /\ Len(d2) = Len(p1) + Len(p2)
    BY <1>6, <1>7, Parts, Zenon
  <2> QED
    BY <2>1, <1>6
<1>9. IsText(d3) /\ Len(d3) = 4 + n
  <2>1. IsText(d3) /\ Len(d3) = Len(d2) + Len(H)
    BY <1>2, <1>7, <1>8, Parts, Zenon
  <2> QED
    BY <2>1, <1>8, Zenon DEF n
<1>10. IsText(d) /\ Len(d) = 4 + n + Len(c.body)
  <2>1. d = d3 \o c.body /\ IsText(d3) /\ IsText(c.body)
    BY <1>2, <1>7, <1>9, Zenon
  <2>2. IsText(d) /\ Len(d) = Len(d3) + Len(c.body)
    BY <2>1, Parts, Zenon
  <2> QED
    BY <2>2, <1>9, Zenon
<1>11. Begins(d, d)
  BY <1>10, BeginsSelf, Zenon
<1>12. Begins(d3, d) /\ SubSeq(d, 4 + n + 1, Len(d)) = c.body
  <2> DEFINE y == c.body
  <2>1. d = d3 \o y /\ IsText(d3) /\ IsText(y) /\ IsText(d) /\ Begins(d, d)
    BY <1>2, <1>7, <1>9, <1>10, <1>11, Zenon
  <2> HIDE DEF y
  <2>2. Begins(d3 \o y, d)
    BY <2>1, Zenon
  <2>3. Begins(d3, d) /\ SubSeq(d, Len(d3) + 1, Len(d3) + Len(y)) = y
    BY <2>1, <2>2, Piece, Zenon
  <2> QED
    BY <2>3, <1>9, <1>10, Zenon DEF y
<1>13. Begins(d2, d) /\ SubSeq(d, 5, 4 + n) = H
  <2>1. d3 = d2 \o H /\ IsText(d2) /\ IsText(H) /\ IsText(d) /\ Begins(d3, d)
    BY <1>2, <1>7, <1>8, <1>10, <1>12, Zenon
  <2>2. Begins(d2, d) /\ SubSeq(d, Len(d2) + 1, Len(d2) + Len(H)) = H
    BY <2>1, PartsOf, Zenon
  <2>3. Len(d2) + 1 = 5
    BY <1>8
  <2> QED
    BY <2>2, <2>3, <1>8, Zenon DEF n
<1>14. Begins(p1, d) /\ SubSeq(d, 2, 4) = p2
  <2>1. d2 = p1 \o p2 /\ IsText(p1) /\ IsText(p2) /\ IsText(d) /\ Begins(d2, d)
    BY <1>6, <1>7, <1>10, <1>13, Zenon
  <2>2. Begins(p1, d) /\ SubSeq(d, Len(p1) + 1, Len(p1) + Len(p2)) = p2
    BY <2>1, PartsOf, Zenon
  <2>3. Len(p1) + 1 = 2 /\ Len(p1) + Len(p2) = 4
    BY <1>6
  <2> QED
    BY <2>2, <2>3, Zenon
<1>15. d[1] = type
  <2>1. 1 \in 1 .. Len(p1)
    BY <1>6
  <2> QED
    BY <2>1, <1>6, <1>14, Zenon DEF Begins
<1>16. Unsigned(SubSeq(d, 2, 4)) = n
  <2>1. 3 \in 1 .. 4 /\ 3 + 1 = 4
    OBVIOUS
  <2>2. Unsigned(PutInt(n, 3)) = n
    BY <2>1, <1>3, <1>5, UnsignedFits, Zenon
  <2> QED
    BY <2>2, <1>14, Zenon DEF p2
<1>17. ~ (Len(d) < 4) /\ ~ (Len(d) < 4 + n)
  <2> DEFINE m == Len(c.body)
             l == Len(d)
  <2>1. n \in Nat /\ m \in Nat /\ l = 4 + n + m
    BY <1>5, <1>10, Zenon
  <2> HIDE DEF m, l
  <2>2. ~ (l < 4) /\ ~ (l < 4 + n)
    BY <2>1
  <2> QED
    BY <2>2, Zenon DEF l
<1> DEFINE S == CASE d[1] = JsonCodecs     -> decodeJSON(H)
                  [] d[1] = RocketMQCodecs -> decodeRocketMQ(H)
                  [] OTHER                 -> {}
<1>18. JsonCodecs # RocketMQCodecs
  BY DEF JsonCodecs, RocketMQCodecs
<1>19. S = {h}
  <2>1. CASE type = JsonCodecs
    BY <2>1, <1>1, <1>15, <1>18, Zenon
  <2>2. CASE type # JsonCodecs
    BY <2>2, <1>1, <1>3, <1>15, <1>18, Zenon
  <2> QED
    BY <2>1, <2>2, Zenon
<1>20. decode(d) = {[x EXCEPT !.body = c.body] : x \in S}
  BY <1>12, <1>13, <1>16, <1>17, Zenon DEF decode
<1> HIDE DEF S
<1> DEFINE x == [h EXCEPT !.body = c.body]
<1>21. decode(d) = {x}
  BY <1>19, <1>20, Zenon
<1>22. SameHeader(x, c) /\ x.body = c.body
  BY <1>1, Zenon DEF SameHeader, Fields
<1> HIDE DEF x
<1> QED
  BY <1>4, <1>10, <1>21, <1>22, Zenon DEF Says, H, n

\* A text is the whole part of itself.
LEMMA SubAll ==
  ASSUME NEW s, IsText(s), NEW m \in Nat, m = Len(s) + 1
  PROVE  SubSeq(s, m, Len(s)) = <<>>
<1>1. Len(s) \in Nat
  BY TextLen, Zenon
<1>2. m \in Nat \ {0} /\ Len(s) \in m - 1 .. Len(s) /\ Len(s) - m + 1 = 0
  BY <1>1
<1>3. IsText(SubSeq(s, m, Len(s))) /\ Len(SubSeq(s, m, Len(s))) = Len(s) - m + 1
  BY <1>2, Sub
<1>4. PICK S : SubSeq(s, m, Len(s)) \in Seq(S)
  BY <1>3, TextSeq, Zenon
<1>5. Len(SubSeq(s, m, Len(s))) = 0
  BY <1>2, <1>3, Zenon
<1> QED
  BY <1>4, <1>5

\* A frame is its size and its payload.
IsFrame(w, d) ==
  /\ IsText(w) /\ IsText(d) /\ Len(d) \in Nat \ {0} /\ Len(w) = 4 + Len(d)
  /\ SubSeq(w, 5, Len(w)) = d
  /\ SubSeq(w, 1, 4) = PutInt(Len(d), 4)
  /\ Signed(PutInt(Len(d), 4)) = Len(d)

\* A frame is its length and what it holds.
LEMMA FrameParts ==
  ASSUME NEW c, NEW type, NEW order \in Orders(DOMAIN c.ext), Holds(c, type, order)
  PROVE  IsFrame(encode(c, type, order), Payload(c, type, order))
<1> DEFINE w == encode(c, type, order)
           d == Payload(c, type, order)
           H == encodeHeader(c, type, order)
           y == c.body
           mark == markProtocolType(type, Len(H))
           m == 4 + Len(H) + Len(y)
           p == PutInt(m, 4)
<1>1. w = ((p \o mark) \o H) \o y
  BY Zenon DEF encode
<1>2. d = (mark \o H) \o y
  BY Zenon DEF Payload
<1>3. IsText(d) /\ Len(d) = m
  BY PayloadRead, Zenon
<1>4. IsText(H) /\ IsText(y)
  BY HeaderOfType, Zenon DEF Holds
<1>5. 2 * m < Weight[5]
  BY Zenon DEF Holds
<1> HIDE DEF H, y, w, d
<1>6. Len(H) \in Nat /\ Len(y) \in Nat
  BY <1>4, TextLen, Zenon
<1>7. m \in Nat \ {0} /\ m \in Int /\ Len(H) \in Int
  BY <1>6
<1> HIDE DEF m
<1>8. IsText(p) /\ Len(p) = 4
  BY <1>7, NumberText, Zenon
<1>9. IsText(mark)
  <2>1. IsText(<<type>>) /\ IsText(PutInt(Len(H), 3))
    BY <1>7, OneText, NumberText, Zenon
  <2> QED
    BY <2>1, Cat, Zenon DEF markProtocolType
<1> HIDE DEF p, mark
<1>10. w = p \o d
  <2> DEFINE z == mark \o H
             pm == p \o mark
             pz == p \o z
  <2>1. IsText(p) /\ IsText(mark) /\ IsText(H) /\ IsText(y)
    BY <1>4, <1>8, <1>9, Zenon
  <2>2. z = mark \o H /\ pm = p \o mark /\ pz = p \o z /\ w = (pm \o H) \o y /\ d = z \o y
    BY <1>1, <1>2, Zenon
  <2> HIDE DEF z, pm, pz
  <2>3. IsText(z)
    BY <2>1, <2>2, Parts, Zenon
  <2>4. pm \o H = pz
    <3>1. Grouped(p, mark, H)
      BY <2>1, Regroups, Zenon
    <3> QED
      BY <3>1, <2>2, Zenon DEF Grouped
  <2>5. pz \o y = p \o d
    <3>1. Grouped(p, z, y)
      BY <2>1, <2>3, Regroups, Zenon
    <3> QED
      BY <3>1, <2>2, Zenon DEF Grouped
  <2> QED
    BY <2>2, <2>4, <2>5, Zenon
<1>11. IsText(w) /\ Len(w) = 4 + Len(d)
  <2>1. IsText(w) /\ Len(w) = Len(p) + Len(d)
    BY <1>3, <1>8, <1>10, Parts, Zenon
  <2> QED
    BY <2>1, <1>8, Zenon
<1>12. Begins(p \o d, w)
  BY <1>10, <1>11, BeginsSelf, Zenon
<1>13. Begins(p, w) /\ SubSeq(w, Len(p) + 1, Len(p) + Len(d)) = d
  BY <1>3, <1>8, <1>11, <1>12, Piece, Zenon
<1>14. SubSeq(w, 1, 4) = p
  <2>1. SubSeq(w, 1, Len(p)) = p
    BY <1>8, <1>11, <1>13, FirstPart, Zenon
  <2> QED
    BY <2>1, <1>8, Zenon
<1>15. SubSeq(w, 5, Len(w)) = d
  <2>1. Len(p) + 1 = 5 /\ Len(p) + Len(d) = Len(w)
    BY <1>8, <1>11
  <2> QED
    BY <2>1, <1>13, Zenon
<1>16. Signed(PutInt(m, 4)) = m
  <2>1. m \in Nat
    BY <1>7
  <2> QED
    BY <2>1, <1>5, HalfFits, Zenon
<1> QED
  BY <1>3, <1>7, <1>11, <1>14, <1>15, <1>16, Zenon DEF IsFrame, p, w, d

\* The reader of w has what c says, and nothing is left.
ReadsAs(w, c) ==
  \E x : /\ ReadFrame(w).resp = {x} /\ ReadFrame(w).rest = <<>>
         /\ SameHeader(x, c) /\ x.body = c.body

\* The reader of a whole frame has the command; the reader of a part of one
\* has none.
LEMMA FrameRead ==
  ASSUME NEW c, NEW type, NEW order \in Orders(DOMAIN c.ext), Holds(c, type, order),
         NEW w, w = encode(c, type, order), NEW n \in 0 .. Len(w)
  PROVE  /\ IsText(w) /\ Len(w) \in Nat /\ SubSeq(w, 1, Len(w)) = w
         /\ n # Len(w) => ReadFrame(SubSeq(w, 1, n)).resp = {}
         /\ ReadsAs(w, c)
<1> DEFINE d == Payload(c, type, order)
           L == Len(d)
<1>1. /\ IsText(w) /\ IsText(d) /\ L \in Nat \ {0} /\ Len(w) = 4 + L
      /\ SubSeq(w, 5, Len(w)) = d
      /\ SubSeq(w, 1, 4) = PutInt(L, 4) /\ Signed(PutInt(L, 4)) = L
  <2>1. IsFrame(w, d)
    BY FrameParts, Zenon
  <2> QED
    BY <2>1, Zenon DEF IsFrame
<1>2. PICK x : decode(d) = {x} /\ SameHeader(x, c) /\ x.body = c.body
  <2>1. Says(d, c)
    BY PayloadRead, Zenon
  <2> QED
    BY <2>1, Zenon DEF Says
<1> HIDE DEF d, L
<1>3. Len(w) \in Nat /\ ~ (Len(w) < 4) /\ ~ (L <= 0) /\ ~ (Len(w) < 4 + L)
      /\ 5 + L = Len(w) + 1 /\ 5 + L \in Nat
  BY <1>1
<1>4. SubSeq(w, 1, Len(w)) = w
  <2>1. Begins(w, w) /\ IsText(w)
    BY <1>1, BeginsSelf, Zenon
  <2> QED
    BY <2>1, FirstPart, Zenon
<1>5. SubSeq(w, 5 + L, Len(w)) = <<>>
  <2>1. IsText(w) /\ 5 + L \in Nat /\ 5 + L = Len(w) + 1
    BY <1>1, <1>3, Zenon
  <2> QED
    BY <2>1, SubAll
<1>6. ReadFrame(w).resp = {x} /\ ReadFrame(w).rest = <<>>
  <2>1. Signed(SubSeq(w, 1, 4)) = L /\ decode(SubSeq(w, 5, 4 + L)) = {x}
    BY <1>1, <1>2, Zenon
  <2>2. ReadFrame(w) = [resp |-> {x}, rest |-> <<>>]
    BY <2>1, <1>3, <1>5, Zenon DEF ReadFrame
  <2> DEFINE q == [resp |-> {x}, rest |-> <<>>]
  <2>3. q.resp = {x} /\ q.rest = <<>>
    BY Zenon
  <2> HIDE DEF q
  <2>4. ReadFrame(w) = q
    BY <2>2, Zenon DEF q
  <2> QED
    BY <2>3, <2>4, Zenon
<1>7. ASSUME n # Len(w) PROVE ReadFrame(SubSeq(w, 1, n)).resp = {}
  <2> DEFINE s == SubSeq(w, 1, n)
             length == Signed(SubSeq(s, 1, 4))
  <2>1. IsText(s) /\ Len(s) = n /\ n \in Nat
    <3>1. 1 \in Nat \ {0} /\ n \in 1 - 1 .. Len(w) /\ n - 1 + 1 = n /\ n \in Nat
      BY <1>3
    <3>2. IsText(s) /\ Len(s) = n - 1 + 1
      BY <3>1, <1>1, Sub, Zenon
    <3> QED
      BY <3>1, <3>2, Zenon
  <2>2. CASE Len(s) < 4
    <3> HIDE DEF s
    <3> QED
      BY <2>2, Zenon DEF ReadFrame, s
  <2>3. CASE ~ (Len(s) < 4)
    <3>1. length = L
      <4> DEFINE q == SubSeq(w, n + 1, Len(w))
      <4>1. /\ n + 1 \in Nat \ {0} /\ Len(w) \in (n + 1) - 1 .. Len(w) /\ 1 \in Nat \ {0}
            /\ 4 \in 1 - 1 .. Len(s)
        BY <2>1, <2>3, <1>3
      <4>2. Begins(s, w)
        <5>1. \A k \in 1 .. n : s[k] = w[k]
          <6>1. 1 \in Nat \ {0} /\ n \in 1 - 1 .. Len(w) /\ \A k \in 1 .. n : 1 + k - 1 = k /\ k \in 1 .. n - 1 + 1
            BY <1>3
          <6>2. \A k \in 1 .. n - 1 + 1 : s[k] = w[1 + k - 1]
            BY <6>1, <1>1, Sub
          <6> QED
            BY <6>1, <6>2, Zenon
        <5>2. n <= Len(w)
          BY <1>3
        <5> QED
          BY <5>1, <5>2, <2>1, Zenon DEF Begins
      <4> HIDE DEF s
      <4>3. SubSeq(s, 1, 4) = SubSeq(w, 1, 4)
        <5> DEFINE u == SubSeq(s, 1, 4)
                   v == SubSeq(w, 1, 4)
        <5>1. IsText(u) /\ Len(u) = 4 - 1 + 1 /\ \A k \in 1 .. 4 - 1 + 1 : u[k] = s[1 + k - 1]
          BY <4>1, <2>1, Sub, Zenon
        <5>2. 4 \in 1 - 1 .. Len(w) /\ 1 \in Nat \ {0}
          BY <1>3
        <5>3. IsText(v) /\ Len(v) = 4 - 1 + 1 /\ \A k \in 1 .. 4 - 1 + 1 : v[k] = w[1 + k - 1]
          BY <5>2, <1>1, Sub, Zenon
        <5>4. \A k \in 1 .. 4 - 1 + 1 : 1 + k - 1 \in 1 .. Len(s)
          BY <2>1, <2>3
        <5> HIDE DEF u, v
        <5>5. \A k \in 1 .. Len(u) : u[k] = v[k]
          BY <5>1, <5>3, <5>4, <4>2, Zenon DEF Begins
        <5>6. u = v
          BY <5>1, <5>3, <5>5, TextEq, Zenon
        <5> QED
          BY <5>6, Zenon DEF u, v
      <4> QED
        BY <4>3, <1>1, Zenon
    <3>2. Len(s) < 4 + L
      BY <1>1, <1>3, <1>7, <2>1
    <3> HIDE DEF s
    <3> QED
      BY <3>1, <3>2, Zenon DEF ReadFrame, s
  <2> QED
    BY <2>2, <2>3, Zenon
<1> QED
  BY <1>1, <1>2, <1>3, <1>4, <1>6, <1>7, Zenon DEF ReadsAs

-----------------------------------------------------------------------------
(* The order of the fields and the signature.                              *)

\* A set of numbers that is finite has a largest.
LEMMA Largest ==
  ASSUME NEW T \in SUBSET Int, IsFiniteSet(T), T # {}
  PROVE  \E m \in T : \A x \in T : x <= m
<1> DEFINE Above(x) == {y \in T : y > x}
           N == {Cardinality(Above(x)) : x \in T}
<1>1. \A x \in T : IsFiniteSet(Above(x)) /\ Cardinality(Above(x)) \in Nat
  BY FS_Subset, FS_CardinalityType, Zenon
<1>2. N \in SUBSET Nat /\ N # {}
  BY <1>1, Zenon
<1>3. PICK n \in N : \A k \in N : n <= k
  BY <1>2, NatMin, Zenon
<1>4. PICK m \in T : n = Cardinality(Above(m))
  BY <1>3, Zenon
<1>5. ASSUME NEW x \in T, ~ (x <= m) PROVE FALSE
  <2>1. x > m /\ ~ (x > x) /\ \A y \in Int : y > x => y > m
    BY <1>5
  <2>2. Above(x) \subseteq Above(m) /\ Above(x) # Above(m)
    BY <2>1, Zenon
  <2>3. IsFiniteSet(Above(m)) /\ Cardinality(Above(m)) \in Nat /\ Cardinality(Above(x)) \in Nat
    BY <1>1, Zenon
  <2>4. n <= Cardinality(Above(x))
    BY <1>3, Zenon
  <2> HIDE DEF Above
  <2>5. Cardinality(Above(x)) < Cardinality(Above(m))
    <3>1. /\ Cardinality(Above(x)) <= Cardinality(Above(m))
          /\ Cardinality(Above(m)) = Cardinality(Above(x)) => Above(m) = Above(x)
      BY <2>2, <2>3, FS_Subset, Zenon
    <3>2. Cardinality(Above(m)) # Cardinality(Above(x))
      BY <3>1, <2>2, Zenon
    <3> QED
      BY <3>1, <3>2, <2>3
  <2> QED
    BY <1>4, <2>3, <2>4, <2>5
<1> QED
  BY <1>5, Zenon

\* An order in which the keys ascend.
Ascends(order, n) == \A j, k \in 1 .. n : j < k => order[j] < order[k]

\* Sorted names each key of a finite set once, in ascending order.
LEMMA SortedOrder ==
  ASSUME NEW S \in SUBSET Int, IsFiniteSet(S)
  PROVE  Sorted(S) \in Orders(S)
<1> DEFINE Good(T) == \E order \in Orders(T) : Ascends(order, Cardinality(T))
           Bad == {T \in SUBSET S : ~ Good(T)}
           N == {Cardinality(T) : T \in Bad}
<1>1. \A T \in SUBSET S : IsFiniteSet(T) /\ Cardinality(T) \in Nat
  BY FS_Subset, FS_CardinalityType, Zenon
<1>2. N \in SUBSET Nat
  BY <1>1, Zenon
<1>3. ASSUME NEW T \in Bad, \A U \in Bad : Cardinality(T) <= Cardinality(U) PROVE FALSE
  <2>1. T \in SUBSET S /\ IsFiniteSet(T) /\ T \in SUBSET Int
    BY <1>1, Zenon
  <2>2. CASE T = {}
    <3>1. Cardinality(T) = 0
      BY <2>2, FS_EmptySet, Zenon
    <3>2. <<>> \in Orders(T)
      <4>1. <<>> \in [1 .. 0 -> {}] /\ 1 .. 0 = {} /\ DOMAIN <<>> = {}
        OBVIOUS
      <4> QED
        BY <2>2, <3>1, <4>1, Zenon DEF Orders, Bijection, Injection, Surjection, IsInjective
    <3>3. Ascends(<<>>, Cardinality(T))
      <4>1. 1 .. 0 = {}
        OBVIOUS
      <4> QED
        BY <3>1, <4>1, Zenon DEF Ascends
    <3> QED
      BY <3>2, <3>3, Zenon
  <2>3. CASE T # {}
    <3>1. PICK m \in T : \A x \in T : x <= m
      BY <2>1, <2>3, Largest, Zenon
    <3> DEFINE U == T \ {m}
               n == Cardinality(T)
    <3>2. Cardinality(U) = n - 1 /\ n \in Nat /\ U \in SUBSET S /\ Cardinality(U) \in Nat
      <4>1. Cardinality(U) = n - 1
        BY <2>1, <3>1, FS_RemoveElement, Zenon
      <4>2. n \in Nat /\ U \in SUBSET S
        BY <2>1, <1>1, Zenon
      <4>3. Cardinality(U) \in Nat
        BY <4>2, <1>1, Zenon
      <4> QED
        BY <4>1, <4>2, <4>3, Zenon
    <3>3. Good(U)
      <4>1. ~ (n <= n - 1)
        BY <3>2
      <4> QED
        BY <4>1, <1>3, <3>2, Zenon
    <3>4. PICK o \in Orders(U) : Ascends(o, Cardinality(U))
      BY <3>3, Zenon
    <3>5. /\ o \in [1 .. n - 1 -> U]
          /\ \A j, k \in 1 .. n - 1 : o[j] = o[k] => j = k
          /\ \A x \in U : \E k \in 1 .. n - 1 : o[k] = x
      BY <3>2, <3>4, Zenon DEF Orders, Bijection, Injection, Surjection, IsInjective
    <3>6. \A j, k \in 1 .. n - 1 : j < k => o[j] < o[k]
      BY <3>2, <3>4, Zenon DEF Ascends
    <3> DEFINE p == [k \in 1 .. n |-> IF k = n THEN m ELSE o[k]]
    <3>7. n \in 1 .. n /\ \A k : k \in 1 .. n <=> k \in 1 .. n - 1 \/ k = n
      BY <3>2
    <3>8. n \notin 1 .. n - 1
      BY <3>2
    <3>9. \A k \in 1 .. n - 1 : o[k] \in T /\ o[k] # m /\ o[k] < m
      <4>1. \A k \in 1 .. n - 1 : o[k] \in T /\ o[k] # m
        BY <3>5, Zenon
      <4>2. \A x \in T : x # m => x < m
        BY <2>1, <3>1
      <4> QED
        BY <4>1, <4>2, Zenon
    <3> HIDE DEF n
    <3>10. DOMAIN p = 1 .. n /\ p[n] = m /\ \A k \in 1 .. n - 1 : p[k] = o[k]
      BY <3>7, <3>8, Zenon
    <3>11. p \in [1 .. n -> T]
      BY <3>1, <3>7, <3>9, Zenon
    <3> HIDE DEF p
    <3>12. \A j, k \in 1 .. n : p[j] = p[k] => j = k
      <4> SUFFICES ASSUME NEW j \in 1 .. n, NEW k \in 1 .. n, p[j] = p[k] PROVE j = k
        BY Zenon
      <4>1. (j = n \/ j \in 1 .. n - 1) /\ (k = n \/ k \in 1 .. n - 1)
        BY <3>7, Zenon
      <4>2. CASE j = n
        BY <4>1, <4>2, <3>9, <3>10, Zenon
      <4>3. CASE k = n
        BY <4>1, <4>3, <3>9, <3>10, Zenon
      <4>4. CASE j \in 1 .. n - 1 /\ k \in 1 .. n - 1
        BY <4>4, <3>5, <3>10, Zenon
      <4> QED
        BY <4>1, <4>2, <4>3, <4>4, Zenon
    <3>13. \A x \in T : \E k \in 1 .. n : p[k] = x
      BY <3>5, <3>7, <3>10, Zenon
    <3>14. p \in Orders(T)
      BY <3>10, <3>11, <3>12, <3>13, Zenon
         DEF Orders, Bijection, Injection, Surjection, IsInjective, n
    <3>15. Ascends(p, n)
      <4>1. ASSUME NEW j \in 1 .. n, NEW k \in 1 .. n, j < k PROVE p[j] < p[k]
        <5>1. j \in 1 .. n - 1 /\ (k = n \/ k \in 1 .. n - 1)
          BY <4>1, <3>2
        <5> QED
          BY <5>1, <4>1, <3>6, <3>9, <3>10, Zenon
      <4> QED
        BY <4>1, Zenon DEF Ascends
    <3> QED
      BY <3>14, <3>15, Zenon DEF n
  <2> QED
    BY <2>2, <2>3, Zenon
<1>4. Bad = {}
  <2>1. ASSUME Bad # {} PROVE FALSE
    <3>1. N # {}
      BY <2>1, Zenon
    <3>2. PICK n \in N : \A k \in N : n <= k
      BY <3>1, <1>2, NatMin, Zenon
    <3> HIDE DEF Bad
    <3>3. PICK T \in Bad : Cardinality(T) = n
      BY <3>2, Zenon
    <3>4. \A U \in Bad : Cardinality(T) <= Cardinality(U)
      BY <3>2, <3>3, Zenon
    <3> QED
      BY <3>4, <1>3, Zenon
  <2> QED
    BY <2>1, Zenon
<1>5. Good(S)
  BY <1>4, Zenon
<1> QED
  BY <1>5, Zenon DEF Sorted, Ascends

\* Concat depends on the texts of the keys of the order only.
LEMMA ConcatSame ==
  ASSUME NEW f, NEW g, NEW order, IsText(order),
         \A k \in 1 .. Len(order) : IsText(f[order[k]]) /\ g[order[k]] = f[order[k]]
  PROVE  Concat(f, order) = Concat(g, order)
<1> DEFINE L == Len(order)
<1>1. PICK C : Grows(C, f, order)
  BY ConcatIs, Zenon
<1>2. \A k \in 1 .. L : IsText(g[order[k]])
  BY Zenon
<1>3. PICK D : Grows(D, g, order)
  BY <1>2, ConcatIs, Zenon
<1>4. /\ Concat(f, order) = C[L] /\ C[0] = <<>>
      /\ \A k \in 1 .. L : C[k] = C[k - 1] \o f[order[k]]
  BY <1>1, Zenon DEF Grows
<1>5. /\ Concat(g, order) = D[L] /\ D[0] = <<>>
      /\ \A k \in 1 .. L : D[k] = D[k - 1] \o f[order[k]]
  BY <1>3, Zenon DEF Grows
<1>6. L \in Nat
  BY TextLen, Zenon
<1> HIDE DEF L
<1> DEFINE B == {k \in 0 .. L : C[k] = D[k]}
<1>7. L \in 0 .. L /\ 0 \in 0 .. L /\ \A k \in 1 .. L : k \in 0 .. L
  BY <1>6
<1>8. 0 \in B /\ \A k \in 1 .. L : k - 1 \in B => k \in B
  BY <1>4, <1>5, <1>7, Zenon
<1> HIDE DEF B
<1>9. 0 .. L \subseteq B
  BY <1>6, <1>8, Induct, Zenon
<1>10. C[L] = D[L]
  BY <1>7, <1>9, Zenon DEF B
<1> QED
  BY <1>4, <1>5, <1>10, Zenon

IsPut(p, ext, key, value) ==
  /\ DOMAIN p = {key} \cup DOMAIN ext /\ p[key] = value
  /\ \A k \in DOMAIN ext : k # key => p[k] = ext[k]

\* Put sets one field and leaves the others.
LEMMA PutIs ==
  ASSUME NEW ext, NEW key, NEW value
  PROVE  IsPut(Put(ext, key, value), ext, key, value)
  BY Zenon DEF Put, IsPut

\* s says what c does, and has fields of its own.
SameButFields(s, c) ==
  /\ DOMAIN s = Fields /\ s = [k \in DOMAIN s |-> s[k]]
  /\ s.code = c.code /\ s.version = c.version /\ s.opaque = c.opaque /\ s.flag = c.flag
  /\ s.remark = c.remark /\ s.body = c.body

\* s is c with fields that a server with access control takes.
Accepted(s, c, S) ==
  /\ SameButFields(s, c)
  /\ \A k \in DOMAIN c.ext \ {AccessKey, Signature} :
       k \in DOMAIN s.ext /\ s.ext[k] = c.ext[k]
  /\ \A x : x.ext = s.ext /\ x.body = s.body => \A a \in S : Verifies(x, a)

\* Who receives a command that was signed finds the signature right.
LEMMA SignatureHolds ==
  ASSUME NEW c, DOMAIN c = Fields, c = [k \in DOMAIN c |-> c[k]], NEW a,
         NEW s, s = SignACL(c, a.accessKey, a.secretKey), IsMap(s.ext)
  PROVE  Accepted(s, c, {a})
<1> DEFINE e == c.ext
           ak == a.accessKey
           fields == Put(e, AccessKey, ak)
           order == Sorted(DOMAIN fields \ {Signature})
           text == Concat(fields, order) \o c.body
           sig == calculateSignature(text, a.secretKey)
           once == Put(e, Signature, sig)
           twice == Put(once, AccessKey, ak)
<1>1. s = [c EXCEPT !.ext = twice]
  BY Zenon DEF SignACL, Attach
<1> HIDE DEF twice
<1>2. SameButFields(s, c) /\ s.ext = twice
  BY <1>1, Zenon DEF SameButFields, Fields
<1>3. AccessKey # Signature
  BY DEF AccessKey, Signature
<1>4. /\ DOMAIN fields = {AccessKey} \cup DOMAIN e /\ fields[AccessKey] = ak
      /\ \A k \in DOMAIN e : k # AccessKey => fields[k] = e[k]
  <2>1. IsPut(fields, e, AccessKey, ak)
    BY PutIs, Zenon
  <2> HIDE DEF fields
  <2> QED
    BY <2>1, Zenon DEF IsPut
<1> HIDE DEF sig
<1>5. /\ DOMAIN once = {Signature} \cup DOMAIN e /\ once[Signature] = sig
      /\ \A k \in DOMAIN e : k # Signature => once[k] = e[k]
  <2>1. IsPut(once, e, Signature, sig)
    BY PutIs, Zenon
  <2> HIDE DEF once
  <2> QED
    BY <2>1, Zenon DEF IsPut
<1> HIDE DEF once, fields, ak, e
<1>6. /\ DOMAIN twice = {AccessKey} \cup DOMAIN once /\ twice[AccessKey] = ak
      /\ \A k \in DOMAIN once : k # AccessKey => twice[k] = once[k]
  <2>1. IsPut(twice, once, AccessKey, ak)
    BY PutIs, Zenon DEF twice
  <2> QED
    BY <2>1, Zenon DEF IsPut
<1> DEFINE D == DOMAIN fields \ {Signature}
<1>7. /\ DOMAIN twice \ {Signature} = D
      /\ AccessKey \in DOMAIN twice /\ Signature \in DOMAIN twice
      /\ twice[Signature] = sig
      /\ \A k \in D : twice[k] = fields[k]
      /\ \A k \in DOMAIN e \ {AccessKey, Signature} : k \in DOMAIN twice /\ twice[k] = e[k]
  <2>1. DOMAIN twice = {AccessKey, Signature} \cup DOMAIN e
    BY <1>5, <1>6, Zenon
  <2>2. \A k \in DOMAIN e \ {AccessKey, Signature} : twice[k] = e[k] /\ fields[k] = e[k]
    BY <1>4, <1>5, <1>6, Zenon
  <2>3. D = ({AccessKey} \cup DOMAIN e) \ {Signature}
    BY <1>4, Zenon
  <2>4. \A k \in D : k = AccessKey \/ k \in DOMAIN e \ {AccessKey, Signature}
    BY <2>3, Zenon
  <2>5. twice[Signature] = sig
    BY <1>3, <1>5, <1>6, Zenon
  <2>6. DOMAIN twice \ {Signature} = D
    BY <2>1, <2>3, <1>3, Zenon
  <2>7. \A k \in D : twice[k] = fields[k]
    BY <2>2, <2>4, <1>4, <1>6, Zenon
  <2> QED
    BY <2>1, <2>2, <2>5, <2>6, <2>7, Zenon
<1>8. IsMap(twice)
  BY <1>2, Zenon
<1>9. IsFiniteSet(D) /\ D \in SUBSET Int /\ \A k \in D : IsText(twice[k])
  <2>1. D \subseteq DOMAIN twice
    BY <1>7, Zenon
  <2>2. IsFiniteSet(DOMAIN twice) /\ DOMAIN twice \subseteq Int
        /\ \A k \in DOMAIN twice : IsText(twice[k])
    BY <1>8, Zenon DEF IsMap
  <2> HIDE DEF D
  <2> QED
    BY <2>1, <2>2, FS_Subset, Zenon
<1> HIDE DEF D
<1>10. order = Sorted(D) /\ order \in Orders(D)
  BY <1>9, SortedOrder, Zenon DEF D
<1> HIDE DEF order
<1>11. Ordered(order, D, Cardinality(D))
  BY <1>9, <1>10, OrderOf, Zenon
<1>12. IsText(order) /\ \A k \in 1 .. Len(order) : order[k] \in D
  BY <1>11, Zenon DEF Ordered
<1>13. \A k \in 1 .. Len(order) : IsText(twice[order[k]]) /\ fields[order[k]] = twice[order[k]]
  BY <1>7, <1>9, <1>12, Zenon
<1>14. Concat(twice, order) = Concat(fields, order)
  BY <1>12, <1>13, ConcatSame, Zenon
<1>15. ASSUME NEW x, x.ext = s.ext, x.body = s.body PROVE Verifies(x, a)
  <2>1. x.ext = twice /\ x.body = c.body
    BY <1>2, <1>15, Zenon DEF SameButFields
  <2>2. Concat(x.ext, Sorted(DOMAIN x.ext \ {Signature})) \o x.body = text
    BY <2>1, <1>7, <1>10, <1>14, Zenon
  <2> HIDE DEF text
  <2> QED
    BY <2>1, <2>2, <1>6, <1>7, Zenon DEF Verifies, sig, ak
<1> QED
  BY <1>2, <1>7, <1>15, Zenon DEF Accepted, e

-----------------------------------------------------------------------------
(* The commands of the two sides.                                          *)

IsCommand(c, opaque, flag) ==
  /\ DOMAIN c = Fields /\ c = [k \in DOMAIN c |-> c[k]]
  /\ c.version = 317 % Base /\ c.opaque = opaque /\ c.flag = flag

\* The fields of a command.
LEMMA CommandIs ==
  ASSUME NEW code, NEW opaque, NEW flag, NEW remark, NEW ext, NEW body
  PROVE  IsCommand(Command(code, opaque, flag, remark, ext, body), opaque, flag)
  BY Zenon DEF Command, Fields, IsCommand

\* The version is a number.
LEMMA VersionInt == 317 % Base \in Int
  BY BaseNat

\* The two flags fit.
LEMMA FlagFits == Fits(0, 4) /\ Fits(1, 4)
<1> DEFINE W == Weight[5]
<1>1. 3 \in 1 .. 4 /\ 4 \in 1 .. 4 /\ 3 + 1 = 4 /\ 4 + 1 = 5 /\ 5 \in 1 .. 5 /\ 3 \in 1 .. 5
      /\ 4 \in 1 .. 5
  OBVIOUS
<1>2. Weight[4] = Weight[3] * Base /\ W = Weight[4] * Base
  BY <1>1, Weights, Zenon
<1>3. Weight[3] \in Nat /\ Weight[3] > 1 /\ Base \in Nat /\ Base >= 2
  <2>1. Weight[3] \in Nat \ {0}
    BY <1>1, Weights, Zenon
  <2> QED
    BY <2>1, ByteFits, BaseAssumption
<1> HIDE DEF W
<1>4. Weight[4] \in Nat /\ Weight[4] >= Weight[3]
  <2> DEFINE u == Weight[3]
             v == Weight[4]
  <2>1. u \in Nat /\ v = u * Base /\ Base \in Nat /\ Base >= 2
    BY <1>2, <1>3, Zenon
  <2> HIDE DEF u, v
  <2>2. v \in Nat /\ v >= u
    BY <2>1
  <2> QED
    BY <2>2, Zenon DEF u, v
<1>5. W \in Nat /\ W > 2
  <2> DEFINE u == Weight[3]
             v == Weight[4]
  <2>1. u \in Nat /\ u > 1 /\ v \in Nat /\ v >= u /\ W = v * Base /\ Base \in Nat /\ Base >= 2
    BY <1>2, <1>3, <1>4, Zenon
  <2> HIDE DEF u, v
  <2>2. v >= 2
    BY <2>1
  <2>3. v * Base >= v * 2
    BY <2>1, <2>2
  <2>4. W \in Nat
    BY <2>1
  <2> QED
    BY <2>1, <2>2, <2>3, <2>4
<1>6. - W <= 2 * 0 /\ 2 * 0 < W /\ - W <= 2 * 1 /\ 2 * 1 < W /\ 0 \in Int /\ 1 \in Int
  BY <1>5
<1> QED
  BY <1>1, <1>6, Zenon DEF Fits, W

\* The counter wraps to a number that fits.
LEMMA OpaqueFits ==
  ASSUME NEW n \in Int
  PROVE  Fits(NextOpaque(n), 4)
<1>1. n + 1 \in Int /\ 4 \in 1 .. 4
  OBVIOUS
<1> QED
  BY <1>1, SignedFits, Zenon DEF NextOpaque

\* A command with what a frame can hold is held by every frame of it.
LEMMA SendableHolds ==
  ASSUME NEW c, NEW type, Sendable(c, type), NEW order \in Orders(DOMAIN c.ext),
         DOMAIN c = Fields, c = [k \in DOMAIN c |-> c[k]],
         c.version \in Int, Fits(c.opaque, 4), Fits(c.flag, 4)
  PROVE  Holds(c, type, order)
  BY Zenon DEF Sendable, Holds

\* A frame can hold every request, signed or not.
LEMMA RequestHolds ==
  ASSUME NEW r \in Request, NEW n \in Opaque,
         NEW order \in Orders(DOMAIN signIfACL(NewRemotingCommand(r, n)).ext)
  PROVE  LET c == NewRemotingCommand(r, n)
             s == signIfACL(c)
         IN  Holds(s, r.type, order) /\ Accepted(s, c, Credential)
<1> DEFINE c == NewRemotingCommand(r, n)
           s == signIfACL(c)
<1>1. Sendable(s, r.type) /\ n \in Int
  BY SendableAssumption, Zenon
<1>2. IsMap(s.ext)
  BY <1>1, Zenon DEF Sendable
<1>3. /\ DOMAIN c = Fields /\ c = [k \in DOMAIN c |-> c[k]]
      /\ c.version = 317 % Base /\ c.opaque = NextOpaque(n) /\ c.flag = 0
  <2>1. IsCommand(c, NextOpaque(n), 0)
    BY CommandIs, Zenon DEF NewRemotingCommand
  <2> HIDE DEF c
  <2> QED
    BY <2>1, Zenon DEF IsCommand
<1> HIDE DEF c
<1>4. Accepted(s, c, Credential)
  <2>1. CASE Credential = {}
    <3>1. s = c
      BY <2>1, Zenon DEF signIfACL
    <3> HIDE DEF s
    <3> QED
      BY <2>1, <3>1, <1>3, Zenon DEF Accepted, SameButFields
  <2>2. CASE Credential # {}
    <3> DEFINE a == CHOOSE a \in Credential : TRUE
    <3>1. s = SignACL(c, a.accessKey, a.secretKey)
      BY <2>2, Zenon DEF signIfACL
    <3>2. Credential = {a}
      BY <2>2, CredentialAssumption, Zenon
    <3> HIDE DEF a, s
    <3>3. Accepted(s, c, {a})
      BY <3>1, <1>2, <1>3, SignatureHolds, Zenon
    <3> QED
      BY <3>2, <3>3, Zenon
  <2> QED
    BY <2>1, <2>2, Zenon
<1>8. SameButFields(s, c)
  BY <1>4, Zenon DEF Accepted
<1>9. Fits(c.opaque, 4) /\ Fits(c.flag, 4) /\ c.version \in Int
  <2>1. Fits(NextOpaque(n), 4)
    BY <1>1, OpaqueFits, Zenon
  <2>2. Fits(0, 4) /\ 317 % Base \in Int
    BY FlagFits, VersionInt, Zenon
  <2> QED
    BY <2>1, <2>2, <1>3, Zenon
<1>5. Fits(s.opaque, 4) /\ Fits(s.flag, 4) /\ s.version \in Int
  BY <1>8, <1>9, Zenon DEF SameButFields
<1>6. DOMAIN s = Fields /\ s = [k \in DOMAIN s |-> s[k]] /\ order \in Orders(DOMAIN s.ext)
  BY <1>8, Zenon DEF SameButFields, c
<1>7. Holds(s, r.type, order)
  <2> HIDE DEF s
  <2> QED
    BY <1>1, <1>5, <1>6, SendableHolds, Zenon
<1> QED
  BY <1>4, <1>7, Zenon DEF c

\* A frame can hold every answer.
LEMMA ReplyHolds ==
  ASSUME NEW r \in Reply, NEW order \in Orders(DOMAIN NewResponse(r).ext)
  PROVE  Holds(NewResponse(r), r.type, order) /\ DOMAIN NewResponse(r) = Fields
<1> DEFINE c == NewResponse(r)
<1>1. Sendable(c, r.type)
  BY SendableAssumption, Zenon
<1>2. /\ DOMAIN c = Fields /\ c = [k \in DOMAIN c |-> c[k]]
      /\ c.version = 317 % Base /\ c.opaque = 1 /\ c.flag = 1
  <2>1. IsCommand(c, 1, 1)
    BY CommandIs, Zenon DEF NewResponse
  <2> HIDE DEF c
  <2> QED
    BY <2>1, Zenon DEF IsCommand
<1> HIDE DEF c
<1>3. Fits(c.opaque, 4) /\ Fits(c.flag, 4) /\ c.version \in Int
  BY <1>2, FlagFits, VersionInt, Zenon
<1>4. order \in Orders(DOMAIN c.ext)
  BY Zenon DEF c
<1>5. Holds(c, r.type, order)
  BY <1>1, <1>2, <1>3, <1>4, SendableHolds, Zenon
<1> QED
  BY <1>2, <1>5, Zenon DEF c

-----------------------------------------------------------------------------
(* The call.                                                               *)

\* w is the frame of c: whoever has all of it has the command, and whoever
\* has less has none.
Frames(w, c) ==
  /\ IsText(w)
  /\ \A n \in 0 .. Len(w) :
       IF n = Len(w) THEN SubSeq(w, 1, n) = w ELSE ReadFrame(SubSeq(w, 1, n)).resp = {}
  /\ ReadsAs(w, c)

\* ReadFrame undoes encode, and reads nothing from less than a frame.
LEMMA EncodeFrames ==
  ASSUME NEW c, NEW type, NEW order \in Orders(DOMAIN c.ext), Holds(c, type, order)
  PROVE  Frames(encode(c, type, order), c)
<1> DEFINE w == encode(c, type, order)
<1>1. ASSUME NEW n \in 0 .. Len(w)
      PROVE  /\ SubSeq(w, 1, Len(w)) = w
             /\ n # Len(w) => ReadFrame(SubSeq(w, 1, n)).resp = {}
  BY FrameRead, Zenon
<1>2. IsText(w)
  <2>1. IsFrame(w, Payload(c, type, order))
    BY FrameParts, Zenon
  <2> QED
    BY <2>1, Zenon DEF IsFrame
<1>3. Len(w) \in Nat
  BY <1>2, TextLen, Zenon
<1>4. 0 \in 0 .. Len(w)
  BY <1>3
<1>5. ReadsAs(w, c)
  BY <1>4, FrameRead, Zenon
<1> HIDE DEF w
<1>6. Frames(w, c)
  BY <1>1, <1>2, <1>5, Zenon DEF Frames
<1> QED
  BY <1>6, Zenon DEF w

\* What lies on the connection while a request, or an answer, is on its way.
RequestOnWire ==
  phase = "sent" =>
    \E s : Frames(wire, s) /\ Accepted(s, meant, Credential)

AnswerOnWire ==
  phase = "read" =>
    \E c : /\ Frames(wire, c) /\ IsText(c.body)
           /\ \A f \in {"code", "opaque", "flag", "remark", "ext", "body"} : meant[f] = c[f]

CallInv ==
  RequestOnWire /\ RequestUnderstood /\ AnswerOnWire /\ AnswerWholeOrError /\ BodyDecoded

\* The invariant holds before the call.
LEMMA CallStart == CallInit => CallInv
  BY Zenon DEF CallInit, CallInv, RequestOnWire, RequestUnderstood, AnswerOnWire,
               AnswerWholeOrError, BodyDecoded

\* The scanner leaves what the call knows alone.
LEMMA CallStutter ==
  ASSUME CallInv, UNCHANGED callVars
  PROVE  CallInv'
<1>1. phase' = phase /\ cmd' = cmd /\ meant' = meant /\ wire' = wire
  BY Zenon DEF callVars
<1> QED
  BY <1>1, Zenon DEF CallInv, RequestOnWire, RequestUnderstood, AnswerOnWire,
                     AnswerWholeOrError, BodyDecoded

\* The client sends the frame of the signed command.
LEMMA CallInvoke ==
  ASSUME CallInv, NEW r \in Request, NEW n \in Opaque, Invoke(r, n)
  PROVE  CallInv'
<1> DEFINE c == NewRemotingCommand(r, n)
           s == signIfACL(c)
<1>1. phase' = "sent" /\ meant' = c
  BY Zenon DEF Invoke
<1>2. PICK order \in Orders(DOMAIN s.ext) : wire' = encode(s, r.type, order)
  BY Zenon DEF Invoke
<1>3. Holds(s, r.type, order) /\ Accepted(s, c, Credential)
  BY RequestHolds, Zenon
<1> HIDE DEF c, s
<1>4. Frames(wire', s)
  BY <1>2, <1>3, EncodeFrames, Zenon
<1> QED
  BY <1>1, <1>3, <1>4, Zenon DEF CallInv, RequestOnWire, RequestUnderstood, AnswerOnWire,
                                 AnswerWholeOrError, BodyDecoded

\* The server reads the command that was meant, and its signature.
LEMMA CallReceive ==
  ASSUME CallInv, Receive
  PROVE  CallInv'
<1>1. phase = "sent" /\ phase' = "received" /\ cmd' = ReadFrame(wire).resp /\ meant' = meant
  BY Zenon DEF Receive
<1>2. PICK s : Frames(wire, s) /\ Accepted(s, meant, Credential)
  BY <1>1, Zenon DEF CallInv, RequestOnWire
<1>3. PICK x : /\ ReadFrame(wire).resp = {x} /\ ReadFrame(wire).rest = <<>>
               /\ SameHeader(x, s) /\ x.body = s.body
  BY <1>2, Zenon DEF Frames, ReadsAs
<1>4. cmd' = {x}
  BY <1>1, <1>3, Zenon
<1>5. \A f \in {"code", "opaque", "flag", "remark", "body"} : x[f] = meant'[f]
  BY <1>1, <1>2, <1>3, Zenon DEF SameHeader, Accepted, SameButFields
<1>6. \A k \in DOMAIN meant'.ext \ {AccessKey, Signature} :
        k \in DOMAIN x.ext /\ x.ext[k] = meant'.ext[k]
  BY <1>1, <1>2, <1>3, Zenon DEF SameHeader, Accepted
<1>7. \A a \in Credential : Verifies(x, a)
  BY <1>2, <1>3, Zenon DEF SameHeader, Accepted
<1>8. RequestUnderstood'
  BY <1>4, <1>5, <1>6, <1>7, Zenon DEF RequestUnderstood
<1> QED
  BY <1>1, <1>8, Zenon DEF CallInv, RequestOnWire, AnswerOnWire, AnswerWholeOrError, BodyDecoded

\* The server sends the frame of its answer.
LEMMA CallAnswer ==
  ASSUME CallInv, NEW r \in Reply, Answer(r)
  PROVE  CallInv'
<1> DEFINE c == NewResponse(r)
<1>1. phase' = "read" /\ meant' = Put(c, "std", r.std)
  BY Zenon DEF Answer
<1>2. PICK order \in Orders(DOMAIN c.ext) : wire' = encode(c, r.type, order)
  BY Zenon DEF Answer
<1>3. Holds(c, r.type, order) /\ DOMAIN c = Fields
  BY ReplyHolds, Zenon
<1> HIDE DEF c
<1>4. Frames(wire', c)
  BY <1>2, <1>3, EncodeFrames, Zenon
<1>5. IsPut(meant', c, "std", r.std)
  BY <1>1, PutIs, Zenon
<1>6. \A f \in {"code", "opaque", "flag", "remark", "ext", "body"} : meant'[f] = c[f]
  BY <1>3, <1>5, Zenon DEF IsPut, Fields
<1>7. IsText(c.body)
  BY <1>3, Zenon DEF Holds
<1> QED
  BY <1>1, <1>4, <1>6, <1>7, Zenon DEF CallInv, RequestOnWire, RequestUnderstood, AnswerOnWire,
                                 AnswerWholeOrError, BodyDecoded

\* The client reads the whole answer, or nothing.
LEMMA CallRead ==
  ASSUME CallInv, InvokeSync
  PROVE  CallInv'
<1>1. phase = "read" /\ phase' = "decoded" /\ meant' = meant
  BY Zenon DEF InvokeSync
<1>2. PICK n \in 0 .. Len(wire) : /\ cmd' = ReadFrame(SubSeq(wire, 1, n)).resp
                                  /\ wire' = ReadFrame(SubSeq(wire, 1, n)).rest
  BY Zenon DEF InvokeSync
<1>3. PICK c : /\ Frames(wire, c) /\ IsText(c.body)
               /\ \A f \in {"code", "opaque", "flag", "remark", "ext", "body"} : meant[f] = c[f]
  BY <1>1, Zenon DEF CallInv, AnswerOnWire
<1>4. PICK x : /\ ReadFrame(wire).resp = {x} /\ ReadFrame(wire).rest = <<>>
               /\ SameHeader(x, c) /\ x.body = c.body
  BY <1>3, Zenon DEF Frames, ReadsAs
<1>5. \A f \in {"code", "opaque", "flag", "remark", "ext", "body"} : x[f] = meant'[f]
  BY <1>1, <1>3, <1>4, Zenon DEF SameHeader
<1>6. CASE n = Len(wire)
  <2>1. cmd' = {x} /\ wire' = <<>>
    <3>1. SubSeq(wire, 1, n) = wire
      BY <1>3, <1>6, Zenon DEF Frames
    <3> QED
      BY <3>1, <1>2, <1>4, Zenon
  <2>2. AnswerWholeOrError' /\ BodyDecoded'
    BY <2>1, <1>3, <1>4, <1>5, Zenon DEF AnswerWholeOrError, BodyDecoded
  <2> QED
    BY <1>1, <2>2, Zenon DEF CallInv, RequestOnWire, RequestUnderstood, AnswerOnWire
<1>7. CASE n # Len(wire)
  <2>1. cmd' = {}
    BY <1>2, <1>3, <1>7, Zenon DEF Frames
  <2>2. AnswerWholeOrError' /\ BodyDecoded'
    BY <2>1, Zenon DEF AnswerWholeOrError, BodyDecoded
  <2> QED
    BY <1>1, <2>2, Zenon DEF CallInv, RequestOnWire, RequestUnderstood, AnswerOnWire
<1> QED
  BY <1>6, <1>7, Zenon

\* Every step keeps the invariant.
LEMMA CallStep == CallInv /\ [CallNext]_<<scanVars, callVars>> => CallInv'
<1> SUFFICES ASSUME CallInv, [CallNext]_<<scanVars, callVars>> PROVE CallInv'
  BY Zenon
<1>1. CASE phase = "call" /\ \E r \in Request, n \in Opaque : Invoke(r, n)
  BY <1>1, CallInvoke, Zenon
<1>2. CASE Receive
  BY <1>2, CallReceive, Zenon
<1>3. CASE Handle
  BY <1>3, Zenon DEF Handle, CallInv, RequestOnWire, RequestUnderstood, AnswerOnWire,
                     AnswerWholeOrError, BodyDecoded
<1>4. CASE phase = "answer" /\ \E r \in Reply : Answer(r)
  BY <1>4, CallAnswer, Zenon
<1>5. CASE InvokeSync
  BY <1>5, CallRead, Zenon
<1>6. CASE Unmarshal
  <2>1. phase' \in {"end", "body"}
    BY <1>6, Zenon DEF Unmarshal
  <2> QED
    BY <2>1, Zenon DEF CallInv, RequestOnWire, RequestUnderstood, AnswerOnWire,
                       AnswerWholeOrError, BodyDecoded
<1>7. CASE UnmarshalJSON
  BY <1>7, CallStutter, Zenon DEF UnmarshalJSON
<1>8. CASE Ended
  BY <1>8, CallStutter, Zenon DEF Ended
<1>9. CASE UNCHANGED <<scanVars, callVars>>
  BY <1>9, CallStutter, Zenon
<1> QED
  BY <1>1, <1>2, <1>3, <1>4, <1>5, <1>6, <1>7, <1>8, <1>9, Zenon DEF CallNext

\* The invariant of a call.
LEMMA CallSafe == CallSpec => []CallInv
  BY CallStart, CallStep, PTL DEF CallSpec

\* What invokeSync sends, signed or not, in the JSON or in the binary protocol
\* and with the fields in any order, is what the server decodes; and the
\* signature it gets is that of the fields and the body it gets.
THEOREM RpcCallRequestUnderstood == CallSpec => []RequestUnderstood
<1>1. CallInv => RequestUnderstood
  BY Zenon DEF CallInv
<1> QED
  BY <1>1, CallSafe, PTL

\* What invokeSync returns is the whole answer of the server, or an error,
\* wherever the connection ends, and nothing of an answer stays on it.
THEOREM RpcCallAnswerWholeOrError == CallSpec => []AnswerWholeOrError
<1>1. CallInv => AnswerWholeOrError
  BY Zenon DEF CallInv
<1> QED
  BY <1>1, CallSafe, PTL

\* Whatever the body of an answer is, normalizeKeys has written every byte
\* that it has read, in order, when it gives up on a key with no end too.
THEOREM RpcCallNothingLost == CallSpec => []NothingLost
<1>1. CallInv => BodyDecoded
  BY Zenon DEF CallInv
<1> QED
  BY <1>1, CallSafe, ScanStart, ScanStep, ScanShows, PTL DEF CallSpec

=============================================================================
