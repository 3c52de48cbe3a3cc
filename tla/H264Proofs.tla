----------------------------- MODULE H264Proofs -----------------------------
(***************************************************************************)
(* What the bit writer and the parser of H.264 streams compute, for every  *)
(* input, and the invariants of H264Stream.                                *)
(***************************************************************************)
EXTENDS H264Stream, WellFoundedInduction, SequenceTheorems, TLAPS

------------------------------------------------------------------------------
(* Induction, and functions defined by recursion, without operators as      *)
(* parameters.                                                              *)

\* A set that has 0 and with every number the next has them all.
LEMMA NatInd ==
  ASSUME NEW S, 0 \in S, \A n \in Nat : n \in S => n + 1 \in S
  PROVE  Nat \subseteq S
  <1> DEFINE T == Nat \ S
             R == OpToRel(<, Nat)
  <1> SUFFICES ASSUME T # {} PROVE FALSE OBVIOUS
  <1>1. IsWellFoundedOn(R, Nat) BY NatLessThanWellFounded
  <1>2. \E x \in T : \A y \in T : ~(<<y, x>> \in R)
    <2> HIDE DEF R
    <2> QED BY <1>1, WFMin
  <1>3. PICK x \in T : \A y \in T : ~(<<y, x>> \in R) BY <1>2
  <1>4. \A y \in T : ~(y < x)
    <2>1. R = {ss \in Nat \X Nat : ss[1] < ss[2]} BY DEF OpToRel
    <2> QED BY <1>3, <2>1
  <1>5. x # 0 /\ x \in Nat OBVIOUS
  <1>6. x - 1 \in Nat /\ x - 1 < x BY <1>5
  <1>7. x - 1 \in S BY <1>4, <1>6
  <1> QED BY <1>5, <1>6, <1>7

\* f starts with base and goes on with step.
Goes(f, T, base, step) ==
    f \in [Nat -> T] /\ f[0] = base /\ \A n \in Nat : f[n + 1] = step[<<n, f[n]>>]

\* There is such a function.
LEMMA Recursion ==
  ASSUME NEW T, NEW base, base \in T, NEW step, step \in [Nat \X T -> T]
  PROVE  \E f : Goes(f, T, base, step)
  <1> DEFINE A(n) == {g \in [0 .. n -> T] : /\ g[0] = base
                                            /\ \A k \in 0 .. n - 1 : g[k + 1] = step[<<k, g[k]>>]}
  <1>1. \A n \in Nat : \E g : g \in A(n)
    <2> DEFINE D == {n \in Nat : \E g : g \in A(n)}
    <2>1. 0 \in D
      <3>1. [k \in 0 .. 0 |-> base] \in A(0) OBVIOUS
      <3> QED BY <3>1
    <2>2. ASSUME NEW n \in Nat, n \in D PROVE n + 1 \in D
      <3>1. PICK g : g \in A(n) BY <2>2
      <3> DEFINE h == [k \in 0 .. n + 1 |-> IF k <= n THEN g[k] ELSE step[<<n, g[n]>>]]
      <3>2. h \in [0 .. n + 1 -> T] BY <3>1
      <3>3. h[0] = base BY <3>1
      <3>4. \A k \in 0 .. (n + 1) - 1 : h[k + 1] = step[<<k, h[k]>>] BY <3>1
      <3>5. h \in A(n + 1) BY <3>2, <3>3, <3>4
      <3> QED BY <3>5
    <2> HIDE DEF D
    <2>3. Nat \subseteq D BY <2>1, <2>2, NatInd
    <2> QED BY <2>3 DEF D
  <1>2. \A k \in Nat : \A n, m \in Nat : \A g \in A(n), h \in A(m) :
           k <= n /\ k <= m => g[k] = h[k]
    <2> DEFINE D == {k \in Nat : \A n, m \in Nat : \A g \in A(n), h \in A(m) :
                        k <= n /\ k <= m => g[k] = h[k]}
    <2>1. 0 \in D OBVIOUS
    <2>2. ASSUME NEW k \in Nat, k \in D PROVE k + 1 \in D
      <3> SUFFICES ASSUME NEW n \in Nat, NEW m \in Nat, NEW g \in A(n), NEW h \in A(m),
                          k + 1 <= n, k + 1 <= m
                   PROVE  g[k + 1] = h[k + 1]
        OBVIOUS
      <3>1. g[k] = h[k]
        <4> HIDE DEF A
        <4>1. k <= n /\ k <= m OBVIOUS
        <4> QED BY <2>2, <4>1
      <3>2. k \in 0 .. n - 1 /\ k \in 0 .. m - 1 OBVIOUS
      <3> QED BY <3>1, <3>2
    <2> HIDE DEF D
    <2>3. Nat \subseteq D BY <2>1, <2>2, NatInd
    <2> QED BY <2>3 DEF D
  <1> DEFINE G(n) == CHOOSE g : g \in A(n)
             f == [n \in Nat |-> G(n)[n]]
  <1>3. \A n \in Nat : G(n) \in A(n) BY <1>1
  <1> HIDE DEF G
  <1>4. f \in [Nat -> T]
    <2>1. \A n \in Nat : G(n)[n] \in T BY <1>3
    <2> QED BY <2>1
  <1>5. f[0] = base BY <1>3
  <1>6. ASSUME NEW n \in Nat PROVE f[n + 1] = step[<<n, f[n]>>]
    <2>1. G(n + 1) \in A(n + 1) /\ G(n) \in A(n) BY <1>3
    <2>2. G(n + 1)[n] = G(n)[n]
      <3> HIDE DEF A
      <3>1. n <= n /\ n <= n + 1 /\ n + 1 \in Nat OBVIOUS
      <3> QED BY <1>2, <2>1, <3>1
    <2>3. n \in 0 .. (n + 1) - 1 OBVIOUS
    <2>4. G(n + 1)[n + 1] = step[<<n, G(n + 1)[n]>>] BY <2>1, <2>3
    <2> QED BY <2>2, <2>4
  <1>7. Goes(f, T, base, step) BY <1>4, <1>5, <1>6 DEF Goes
  <1> QED BY <1>7

------------------------------------------------------------------------------
(* Ascending.                                                               *)

\* Ascending(S, n) is the sequence its recursion says.
LEMMA AscendingRec ==
  ASSUME NEW S
  PROVE  /\ Ascending(S, 0) = <<>>
         /\ \A n \in Nat :
              /\ Ascending(S, n) \in Seq(Nat)
              /\ Ascending(S, n + 1) = IF n + 1 \in S THEN Append(Ascending(S, n), n + 1)
                                       ELSE Ascending(S, n)
  <1> DEFINE T == Seq(Nat)
             step == [p \in Nat \X T |-> IF p[1] + 1 \in S THEN Append(p[2], p[1] + 1) ELSE p[2]]
  <1>1. step \in [Nat \X T -> T] /\ <<>> \in T
    <2>1. \A p \in Nat \X T : Append(p[2], p[1] + 1) \in T /\ p[2] \in T OBVIOUS
    <2> HIDE DEF T
    <2>2. step \in [Nat \X T -> T] BY <2>1
    <2> QED BY <2>2 DEF T
  <1>2. PICK f : Goes(f, T, <<>>, step)
    <2> HIDE DEF step, T
    <2> QED BY <1>1, Recursion
  <1>3. \A n \in Nat : f[n + 1] = IF n + 1 \in S THEN Append(f[n], n + 1) ELSE f[n]
    <2> SUFFICES ASSUME NEW n \in Nat
                 PROVE  f[n + 1] = IF n + 1 \in S THEN Append(f[n], n + 1) ELSE f[n]
      OBVIOUS
    <2> HIDE DEF T
    <2>1. <<n, f[n]>> \in Nat \X T BY <1>2 DEF Goes
    <2> QED BY <1>2, <2>1 DEF Goes
  <1> HIDE DEF step, T
  <1>4. ASSUME NEW n \in Nat PROVE Ascending(S, n) = f[n]
    <2> DEFINE Fix(a) == a = [k \in 0 .. n |-> IF k = 0 THEN <<>>
                                ELSE IF k \in S THEN Append(a[k - 1], k) ELSE a[k - 1]]
               C == CHOOSE a : Fix(a)
               D == {k \in Nat : k <= n => C[k] = f[k]}
    <2>1. Fix([k \in 0 .. n |-> f[k]])
      <3>1. \A k \in 0 .. n : k # 0 => f[k] = IF k \in S THEN Append(f[k - 1], k) ELSE f[k - 1]
        <4> SUFFICES ASSUME NEW k \in 0 .. n, k # 0
                     PROVE  f[k] = IF k \in S THEN Append(f[k - 1], k) ELSE f[k - 1]
          OBVIOUS
        <4>1. k - 1 \in Nat /\ (k - 1) + 1 = k OBVIOUS
        <4> QED BY <1>3, <4>1
      <3> DEFINE g == [k \in 0 .. n |-> f[k]]
      <3>2. \A k \in 0 .. n :
               f[k] = IF k = 0 THEN <<>> ELSE IF k \in S THEN Append(g[k - 1], k) ELSE g[k - 1]
        <4> SUFFICES ASSUME NEW k \in 0 .. n, k # 0 PROVE g[k - 1] = f[k - 1]
          BY <1>2, <3>1 DEF Goes
        <4> QED OBVIOUS
      <3> QED BY <3>2
    <2>2. Fix(C) BY <2>1
    <2>3. Ascending(S, n) = C[n] BY DEF Ascending
    <2> HIDE DEF C
    <2>4. 0 \in D BY <1>2, <2>2 DEF Goes
    <2>5. ASSUME NEW k \in Nat, k \in D PROVE k + 1 \in D
      <3> SUFFICES ASSUME k + 1 <= n PROVE C[k + 1] = f[k + 1] OBVIOUS
      <3>1. k + 1 \in 0 .. n /\ (k + 1) - 1 = k /\ k + 1 # 0 OBVIOUS
      <3>2. C[k + 1] = IF k + 1 \in S THEN Append(C[k], k + 1) ELSE C[k] BY <2>2, <3>1
      <3>3. C[k] = f[k] BY <2>5
      <3>4. f[k + 1] = IF k + 1 \in S THEN Append(f[k], k + 1) ELSE f[k] BY <1>3
      <3> QED BY <3>2, <3>3, <3>4
    <2> HIDE DEF D
    <2>6. Nat \subseteq D BY <2>4, <2>5, NatInd
    <2> QED BY <2>3, <2>6 DEF D
  <1>5. Ascending(S, 0) = <<>> BY <1>2, <1>4 DEF Goes
  <1>6. ASSUME NEW n \in Nat
        PROVE  Ascending(S, n + 1) = IF n + 1 \in S THEN Append(Ascending(S, n), n + 1)
                                     ELSE Ascending(S, n)
    <2>1. Ascending(S, n) = f[n] /\ Ascending(S, n + 1) = f[n + 1] BY <1>4
    <2> QED BY <1>3, <2>1
  <1>7. \A n \in Nat : Ascending(S, n) \in Seq(Nat) BY <1>2, <1>4 DEF T, Goes
  <1> QED BY <1>5, <1>6, <1>7

\* a has the members of S from 1 to n and no others, in order.
Lists(a, S, n) ==
    /\ a \in Seq(1 .. n)
    /\ \A ix \in 1 .. Len(a) : a[ix] \in S
    /\ \A ix, j \in 1 .. Len(a) : ix < j => a[ix] < a[j]
    /\ \A m \in 1 .. n : m \in S => \E ix \in 1 .. Len(a) : a[ix] = m

\* That is what Ascending(S, n) does.
LEMMA AscendingLists == ASSUME NEW S PROVE \A n \in Nat : Lists(Ascending(S, n), S, n)
  <1> DEFINE D == {n \in Nat : Lists(Ascending(S, n), S, n)}
  <1>1. 0 \in D BY AscendingRec DEF Lists
  <1>2. ASSUME NEW n \in Nat, n \in D PROVE n + 1 \in D
    <2> DEFINE a == Ascending(S, n)
               b == Ascending(S, n + 1)
    <2>1. Lists(a, S, n) /\ b = IF n + 1 \in S THEN Append(a, n + 1) ELSE a
      BY <1>2, AscendingRec
    <2> HIDE DEF a, b
    <2>2. a \in Seq(1 .. n + 1) /\ Len(a) \in Nat /\ \A ix \in 1 .. Len(a) : a[ix] \in 1 .. n
      <3>1. a \in Seq(1 .. n) BY <2>1 DEF Lists
      <3>2. 1 .. n \subseteq 1 .. n + 1 OBVIOUS
      <3> QED BY <3>1, <3>2, SeqMonotonic, ElementOfSeq
    <2>3. CASE n + 1 \notin S
      <3>1. \A m \in 1 .. n + 1 : m \in S => m \in 1 .. n BY <2>3
      <3> QED BY <2>1, <2>2, <2>3, <3>1 DEF Lists, b
    <2>4. CASE n + 1 \in S
      <3>1. /\ b \in Seq(1 .. n + 1) /\ Len(b) = Len(a) + 1 /\ b[Len(a) + 1] = n + 1
            /\ \A ix \in 1 .. Len(a) : b[ix] = a[ix]
        BY <2>1, <2>2, <2>4, AppendProperties
      <3>2. \A ix \in 1 .. Len(b) : b[ix] \in S
        BY <2>1, <2>2, <2>4, <3>1 DEF Lists
      <3>3. \A ix, j \in 1 .. Len(b) : ix < j => b[ix] < b[j]
        <4> SUFFICES ASSUME NEW ix \in 1 .. Len(b), NEW j \in 1 .. Len(b), ix < j
                     PROVE  b[ix] < b[j]
          OBVIOUS
        <4>1. ix \in 1 .. Len(a) /\ b[ix] = a[ix] /\ a[ix] \in 1 .. n BY <2>2, <3>1
        <4>2. CASE j \in 1 .. Len(a) BY <2>1, <3>1, <4>1, <4>2 DEF Lists
        <4>3. CASE j = Len(a) + 1 BY <3>1, <4>1, <4>3
        <4>4. Len(a) \in Nat BY <2>2
        <4>5. j \in 1 .. Len(a) \/ j = Len(a) + 1 BY <3>1, <4>4
        <4> QED BY <4>2, <4>3, <4>5
      <3>4. \A m \in 1 .. n + 1 : m \in S => \E ix \in 1 .. Len(b) : b[ix] = m
        <4> SUFFICES ASSUME NEW m \in 1 .. n + 1, m \in S
                     PROVE  \E ix \in 1 .. Len(b) : b[ix] = m
          OBVIOUS
        <4>1. CASE m = n + 1 BY <2>2, <3>1, <4>1
        <4>2. CASE m \in 1 .. n
          <5>1. PICK ix \in 1 .. Len(a) : a[ix] = m BY <2>1, <4>2 DEF Lists
          <5> QED BY <2>2, <3>1, <5>1
        <4> QED BY <4>1, <4>2
      <3> QED BY <3>1, <3>2, <3>3, <3>4 DEF Lists, b
    <2> QED BY <2>3, <2>4
  <1> HIDE DEF D
  <1>3. Nat \subseteq D BY <1>1, <1>2, NatInd
  <1> QED BY <1>3 DEF D

\* It depends on what S has from 1 to n only.
LEMMA AscendingSame ==
  ASSUME NEW S, NEW R, NEW n \in Nat, \A m \in 1 .. n : m \in S <=> m \in R
  PROVE  Ascending(S, n) = Ascending(R, n)
  <1> DEFINE D == {k \in Nat : k <= n => Ascending(S, k) = Ascending(R, k)}
  <1>1. 0 \in D BY AscendingRec
  <1>2. ASSUME NEW k \in Nat, k \in D PROVE k + 1 \in D
    <2> SUFFICES ASSUME k + 1 <= n PROVE Ascending(S, k + 1) = Ascending(R, k + 1) OBVIOUS
    <2>1. Ascending(S, k) = Ascending(R, k) BY <1>2
    <2>2. k + 1 \in S <=> k + 1 \in R OBVIOUS
    <2> QED BY <2>1, <2>2, AscendingRec
  <1> HIDE DEF D
  <1>3. Nat \subseteq D BY <1>1, <1>2, NatInd
  <1> QED BY <1>3 DEF D

\* Ascending(S, m) is how Ascending(S, n) begins.
LEMMA AscendingPrefix ==
  ASSUME NEW S, NEW m \in Nat
  PROVE  \A n \in Nat : m <= n =>
            /\ Len(Ascending(S, m)) <= Len(Ascending(S, n))
            /\ \A ix \in 1 .. Len(Ascending(S, m)) : Ascending(S, n)[ix] = Ascending(S, m)[ix]
  <1> DEFINE A == [k \in Nat |-> Ascending(S, k)]
             P(n) == m <= n => /\ Len(A[m]) <= Len(A[n])
                               /\ \A ix \in 1 .. Len(A[m]) : A[n][ix] = A[m][ix]
             D == {n \in Nat : P(n)}
  <1>1. \A k \in Nat : A[k] = Ascending(S, k) OBVIOUS
  <1> HIDE DEF A
  <1>2. \A k \in Nat : A[k] \in Seq(Nat) /\ Len(A[k]) \in Nat
    <2> SUFFICES ASSUME NEW k \in Nat PROVE A[k] \in Seq(Nat) /\ Len(A[k]) \in Nat
      OBVIOUS
    <2>1. Ascending(S, k) \in Seq(Nat) BY AscendingRec
    <2>2. A[k] \in Seq(Nat) BY <1>1, <2>1
    <2> QED BY <2>2, LenProperties
  <1>3. 0 \in D
    <2> SUFFICES ASSUME m = 0 PROVE P(0) OBVIOUS
    <2> QED BY <1>2
  <1>4. ASSUME NEW n \in Nat, n \in D PROVE n + 1 \in D
    <2>1. /\ Len(A[n]) <= Len(A[n + 1])
          /\ \A ix \in 1 .. Len(A[n]) : A[n + 1][ix] = A[n][ix]
      <3>1. A[n + 1] = IF n + 1 \in S THEN Append(A[n], n + 1) ELSE A[n]
        <4>1. Ascending(S, n + 1) = IF n + 1 \in S THEN Append(Ascending(S, n), n + 1)
                                    ELSE Ascending(S, n)
          BY AscendingRec
        <4> QED BY <1>1, <4>1
      <3>2. CASE n + 1 \notin S BY <1>2, <3>1, <3>2
      <3>3. CASE n + 1 \in S
        <4>1. A[n] \in Seq(Nat) /\ n + 1 \in Nat /\ A[n + 1] = Append(A[n], n + 1)
          BY <1>2, <3>1, <3>3
        <4> QED BY <1>2, <4>1, AppendProperties
      <3> QED BY <3>2, <3>3
    <2>2. CASE m = n + 1 BY <1>2, <2>2
    <2>3. CASE m <= n
      <3>1. P(n) BY <1>4
      <3>2. Len(A[m]) \in Nat /\ Len(A[n]) \in Nat /\ Len(A[n + 1]) \in Nat BY <1>2
      <3>3. P(n + 1) BY <2>1, <2>3, <3>1, <3>2
      <3> QED BY <3>3
    <2>4. CASE m > n + 1 BY <2>4
    <2> QED BY <2>2, <2>3, <2>4
  <1> HIDE DEF D
  <1>5. Nat \subseteq D BY <1>3, <1>4, NatInd
  <1>6. \A n \in Nat : P(n) BY <1>5 DEF D
  <1> QED BY <1>1, <1>6

------------------------------------------------------------------------------
(* Emulation prevention.                                                    *)

Byte == 0 .. 255

EndsInZeros(d) == Len(d) >= 2 /\ d[Len(d)] = 0 /\ d[Len(d) - 1] = 0

\* What Deescape takes out when one more byte has come.
LEMMA DeescapeAppend ==
  ASSUME NEW d \in Seq(Byte), NEW x \in Byte
  PROVE  /\ Deescape(d) \in Seq(Byte)
         /\ Deescape(Append(d, x)) = IF x = 3 /\ EndsInZeros(d) THEN Deescape(d)
                                     ELSE Append(Deescape(d), x)
  <1> DEFINE n == Len(d)
             e == Append(d, x)
             R == (1 .. n + 1) \ Emulation(e)
  <1>1. /\ n \in Nat /\ Len(e) = n + 1 /\ e[n + 1] = x /\ e \in Seq(Byte)
        /\ \A ix \in 1 .. n : e[ix] = d[ix] /\ d[ix] \in Byte
    BY AppendProperties, ElementOfSeq, LenProperties
  <1> HIDE DEF n, e
  <1>2. \A ix \in 1 .. n : ix \in Emulation(e) <=> ix \in Emulation(d)
    BY <1>1 DEF Emulation, n
  <1>3. n + 1 \in Emulation(e) <=> x = 3 /\ EndsInZeros(d)
    BY <1>1 DEF Emulation, EndsInZeros, n
  <1>4. Ascending(R, n) = Kept(d)
    <2>1. \A m \in 1 .. n : m \in R <=> m \in (1 .. n) \ Emulation(d) BY <1>1, <1>2
    <2> HIDE DEF R
    <2> QED BY <1>1, <2>1, AscendingSame DEF Kept, n
  <1>5. Kept(e) = IF n + 1 \in R THEN Append(Kept(d), n + 1) ELSE Kept(d)
    <2>1. Kept(e) = Ascending(R, n + 1) BY <1>1 DEF Kept
    <2> HIDE DEF R
    <2> QED BY <1>1, <1>4, <2>1, AscendingRec
  <1>6. /\ Kept(d) \in Seq(1 .. n) /\ Len(Kept(d)) \in Nat
        /\ \A k \in 1 .. Len(Kept(d)) : Kept(d)[k] \in 1 .. n
    <2>1. Kept(d) \in Seq(1 .. n) BY <1>1, AscendingLists DEF Kept, Lists, n
    <2> QED BY <2>1, ElementOfSeq, LenProperties
  <1>7. Deescape(d) = [k \in 1 .. Len(Kept(d)) |-> d[Kept(d)[k]]] BY DEF Deescape
  <1>8. Deescape(d) \in Seq(Byte) /\ Len(Deescape(d)) = Len(Kept(d))
    <2>1. \A k \in 1 .. Len(Kept(d)) : d[Kept(d)[k]] \in Byte BY <1>1, <1>6
    <2>2. Deescape(d) \in [1 .. Len(Kept(d)) -> Byte] BY <1>7, <2>1
    <2> QED BY <1>6, <2>2, SeqDef
  <1>9. Deescape(e) = [k \in 1 .. Len(Kept(e)) |-> e[Kept(e)[k]]] BY DEF Deescape
  <1>10. CASE x = 3 /\ EndsInZeros(d)
    <2>1. Kept(e) = Kept(d) BY <1>3, <1>5, <1>10
    <2>2. \A k \in 1 .. Len(Kept(d)) : e[Kept(d)[k]] = d[Kept(d)[k]] BY <1>1, <1>6
    <2>3. [k \in 1 .. Len(Kept(d)) |-> e[Kept(d)[k]]] = [k \in 1 .. Len(Kept(d)) |-> d[Kept(d)[k]]]
      BY <2>2
    <2>4. Deescape(e) = Deescape(d) BY <1>7, <1>9, <2>1, <2>3
    <2> QED BY <1>8, <1>10, <2>4 DEF e
  <1>11. CASE ~(x = 3 /\ EndsInZeros(d))
    <2>1. Kept(e) = Append(Kept(d), n + 1) BY <1>1, <1>3, <1>5, <1>11
    <2>2. /\ Len(Kept(e)) = Len(Kept(d)) + 1
          /\ \A k \in 1 .. Len(Kept(d)) : Kept(e)[k] = Kept(d)[k]
          /\ Kept(e)[Len(Kept(d)) + 1] = n + 1
      <3>1. Kept(d) \in Seq(Nat)
        <4>1. 1 .. n \subseteq Nat OBVIOUS
        <4> QED BY <1>6, <4>1, SeqMonotonic
      <3> QED BY <1>1, <2>1, <3>1, AppendProperties
    <2> DEFINE u == Deescape(e)
               v == Append(Deescape(d), x)
    <2>3. /\ v \in Seq(Byte) /\ Len(v) = Len(Kept(d)) + 1
          /\ \A k \in 1 .. Len(Kept(d)) : v[k] = d[Kept(d)[k]]
          /\ v[Len(Kept(d)) + 1] = x
      BY <1>7, <1>8, AppendProperties
    <2>4. \A k \in 1 .. Len(Kept(d)) + 1 : e[Kept(e)[k]] = v[k]
      BY <1>1, <1>6, <2>2, <2>3
    <2>5. v = [k \in 1 .. Len(Kept(d)) + 1 |-> v[k]]
      <3> HIDE DEF v
      <3> QED BY <2>3, LenProperties
    <2>6. u = v
      <3> HIDE DEF v
      <3> QED BY <1>9, <2>2, <2>4, <2>5
    <2> QED BY <1>8, <1>11, <2>6 DEF e
  <1> QED BY <1>10, <1>11

\* How Escape goes on from byte to byte.
LEMMA EscapeRec ==
  ASSUME NEW b \in Seq(Byte)
  PROVE  \E f : /\ f \in [Nat -> Seq(Byte)] /\ f[0] = <<>> /\ Escape(b) = f[Len(b)]
                /\ \A k \in 0 .. Len(b) - 1 :
                     f[k + 1] = IF b[k + 1] <= 3 /\ EndsInZeros(f[k])
                                THEN Append(Append(f[k], 3), b[k + 1])
                                ELSE Append(f[k], b[k + 1])
  <1> DEFINE T == Seq(Byte)
             n == Len(b)
             next(old, x) == IF x <= 3 /\ EndsInZeros(old) THEN Append(Append(old, 3), x)
                             ELSE Append(old, x)
             step == [p \in Nat \X T |-> IF p[1] + 1 \in 1 .. n THEN next(p[2], b[p[1] + 1])
                                         ELSE p[2]]
  <1>1. n \in Nat /\ \A k \in 1 .. n : b[k] \in Byte BY ElementOfSeq, LenProperties
  <1>2. \A old \in T, x \in Byte : next(old, x) \in T
    <2> SUFFICES ASSUME NEW old \in T, NEW x \in Byte PROVE next(old, x) \in T OBVIOUS
    <2>1. 3 \in Byte BY DEF Byte
    <2>2. Append(old, x) \in T /\ Append(old, 3) \in T BY <2>1, AppendProperties
    <2>3. Append(Append(old, 3), x) \in T BY <2>2, AppendProperties
    <2> QED BY <2>2, <2>3
  <1>3. \A old \in T, x \in Byte :
           next(old, x) = IF x <= 3 /\ Len(old) >= 2 /\ old[Len(old)] = 0
                                    /\ old[Len(old) - 1] = 0
                          THEN old \o <<3, x>> ELSE Append(old, x)
    <2> SUFFICES ASSUME NEW old \in T, NEW x \in Byte
                 PROVE  Append(Append(old, 3), x) = old \o <<3, x>>
      BY DEF EndsInZeros
    <2> QED BY DEF Byte
  <1>4. <<>> \in T OBVIOUS
  <1> HIDE DEF T, n, next
  <1>5. step \in [Nat \X T -> T] BY <1>1, <1>2
  <1>6. PICK f : Goes(f, T, <<>>, step)
    <2> HIDE DEF step
    <2> QED BY <1>4, <1>5, Recursion
  <1>7. f \in [Nat -> T] /\ f[0] = <<>> BY <1>6 DEF Goes
  <1>8. ASSUME NEW k \in 0 .. n - 1 PROVE f[k + 1] = next(f[k], b[k + 1])
    <2>1. k \in Nat /\ k + 1 \in 1 .. n /\ <<k, f[k]>> \in Nat \X T BY <1>1, <1>7
    <2> QED BY <1>6, <2>1 DEF Goes
  <1> HIDE DEF step
  <1>9. Escape(b) = f[n]
    <2> DEFINE body(old, k) == IF b[k] <= 3 /\ Len(old) >= 2 /\ old[Len(old)] = 0
                                            /\ old[Len(old) - 1] = 0
                               THEN old \o <<3, b[k]>> ELSE Append(old, b[k])
               Fix(e) == e = [k \in 0 .. n |-> IF k = 0 THEN <<>> ELSE body(e[k - 1], k)]
               C == CHOOSE e : Fix(e)
               D == {k \in Nat : k <= n => C[k] = f[k]}
    <2>1. Escape(b) = C[n] BY DEF Escape, n
    <2>2. \A k \in 1 .. n : f[k] = body(f[k - 1], k)
      <3> SUFFICES ASSUME NEW k \in 1 .. n PROVE f[k] = body(f[k - 1], k) OBVIOUS
      <3>1. k - 1 \in 0 .. n - 1 /\ (k - 1) + 1 = k /\ k - 1 \in Nat BY <1>1
      <3>2. f[k] = next(f[k - 1], b[k]) BY <1>8, <3>1
      <3>3. f[k - 1] \in T /\ b[k] \in Byte BY <1>1, <1>7, <3>1
      <3> QED BY <1>3, <3>2, <3>3
    <2> HIDE DEF body
    <2>3. Fix([k \in 0 .. n |-> f[k]])
      <3> DEFINE g == [k \in 0 .. n |-> f[k]]
      <3>1. \A k \in 0 .. n : f[k] = IF k = 0 THEN <<>> ELSE body(g[k - 1], k)
        <4> SUFFICES ASSUME NEW k \in 0 .. n, k # 0 PROVE g[k - 1] = f[k - 1] /\ k \in 1 .. n
          BY <1>7, <2>2
        <4> QED BY <1>1
      <3> QED BY <3>1
    <2>4. Fix(C) BY <2>3
    <2> HIDE DEF C
    <2>5. 0 \in D BY <1>1, <1>7, <2>4
    <2>6. ASSUME NEW k \in Nat, k \in D PROVE k + 1 \in D
      <3> SUFFICES ASSUME k + 1 <= n PROVE C[k + 1] = f[k + 1] OBVIOUS
      <3>1. k + 1 \in 0 .. n /\ k + 1 \in 1 .. n /\ (k + 1) - 1 = k /\ k + 1 # 0 BY <1>1
      <3>2. C[k + 1] = body(C[k], k + 1) BY <2>4, <3>1
      <3>3. C[k] = f[k] BY <1>1, <2>6
      <3>4. f[k + 1] = body(f[k], k + 1) BY <2>2, <3>1
      <3> QED BY <3>2, <3>3, <3>4
    <2> HIDE DEF D
    <2>7. Nat \subseteq D BY <2>5, <2>6, NatInd
    <2> QED BY <1>1, <2>1, <2>7 DEF D
  <1> QED BY <1>7, <1>8, <1>9 DEF T, n, next

\* No start code, and nothing that could be taken for one: behind two zeros there is
\* at least a 3.
NoStartCode(d) == \A ix \in 3 .. Len(d) : d[ix - 1] = 0 /\ d[ix - 2] = 0 => d[ix] >= 3

\* What the parser takes out is what was put in: a payload of any bytes comes back as
\* it was; and as it is in the stream it has no start code inside.
THEOREM EscapeIsUndone ==
  ASSUME NEW b \in Seq(Byte)
  PROVE  Escape(b) \in Seq(Byte) /\ Deescape(Escape(b)) = b /\ NoStartCode(Escape(b))
  <1>1. PICK f : /\ f \in [Nat -> Seq(Byte)] /\ f[0] = <<>> /\ Escape(b) = f[Len(b)]
                 /\ \A k \in 0 .. Len(b) - 1 :
                      f[k + 1] = IF b[k + 1] <= 3 /\ EndsInZeros(f[k])
                                 THEN Append(Append(f[k], 3), b[k + 1])
                                 ELSE Append(f[k], b[k + 1])
    BY EscapeRec
  <1> DEFINE n == Len(b)
             P(k) == Deescape(f[k]) = SubSeq(b, 1, k) /\ NoStartCode(f[k])
             D == {k \in Nat : k <= n => P(k)}
  <1>2. n \in Nat /\ \A k \in 1 .. n : b[k] \in Byte BY ElementOfSeq, LenProperties
  <1>3. 0 \in D
    <2>1. Deescape(<<>>) = <<>>
      <3>1. Kept(<<>>) = <<>>
        <4> DEFINE S == (1 .. 0) \ Emulation(<<>>)
        <4>1. Kept(<<>>) = Ascending(S, 0) BY DEF Kept
        <4> HIDE DEF S
        <4> QED BY <4>1, AscendingRec
      <3> QED BY <3>1 DEF Deescape
    <2>2. SubSeq(b, 1, 0) = <<>> BY SubSeqEmpty
    <2> QED BY <1>1, <2>1, <2>2 DEF NoStartCode
  <1>4. ASSUME NEW k \in Nat, k \in D PROVE k + 1 \in D
    <2> SUFFICES ASSUME k + 1 <= n PROVE P(k + 1) OBVIOUS
    <2> DEFINE d == f[k]
               x == b[k + 1]
    <2>1. /\ k \in 0 .. Len(b) - 1 /\ d \in Seq(Byte) /\ x \in Byte /\ Len(d) \in Nat
          /\ \A ix \in 1 .. Len(d) : d[ix] \in Byte
      <3>1. k \in 0 .. Len(b) - 1 /\ k + 1 \in 1 .. n BY <1>2
      <3>2. d \in Seq(Byte) BY <1>1
      <3>3. x \in Byte BY <1>2, <3>1
      <3> HIDE DEF d
      <3>4. Len(d) \in Nat /\ \A ix \in 1 .. Len(d) : d[ix] \in Byte
        BY <3>2, LenProperties, ElementOfSeq
      <3> QED BY <3>1, <3>2, <3>3, <3>4
    <2>2. P(k) BY <1>2, <1>4
    <2>3. Append(SubSeq(b, 1, k), x) = SubSeq(b, 1, k + 1)
      BY <1>2, <2>1
    <2>4. CASE x <= 3 /\ EndsInZeros(d)
      <3> DEFINE e == Append(d, 3)
      <3>1. f[k + 1] = Append(e, x) BY <1>1, <2>1, <2>4
      <3>2. /\ e \in Seq(Byte) /\ Len(e) = Len(d) + 1 /\ e[Len(e)] = 3
            /\ \A ix \in 1 .. Len(d) : e[ix] = d[ix]
        BY <2>1, AppendProperties DEF Byte
      <3>3. Deescape(e) = Deescape(d) BY <2>1, <2>4, DeescapeAppend DEF Byte
      <3>4. ~EndsInZeros(e) BY <3>2 DEF EndsInZeros
      <3>5. Deescape(f[k + 1]) = Append(Deescape(d), x)
        BY <2>1, <3>1, <3>2, <3>3, <3>4, DeescapeAppend
      <3>6. NoStartCode(f[k + 1])
        <4> DEFINE g == f[k + 1]
        <4>1. /\ Len(g) = Len(d) + 2 /\ g[Len(d) + 1] = 3
              /\ \A ix \in 1 .. Len(d) : g[ix] = d[ix]
          BY <2>1, <3>1, <3>2, AppendProperties
        <4> HIDE DEF g, d
        <4>2. NoStartCode(d) BY <2>2 DEF d
        <4>3. NoStartCode(g)
          <5> SUFFICES ASSUME NEW ix \in 3 .. Len(g), g[ix - 1] = 0, g[ix - 2] = 0 PROVE g[ix] >= 3
            BY DEF NoStartCode
          <5>1. CASE ix \in 3 .. Len(d)
            <6>1. /\ ix \in 1 .. Len(d) /\ ix - 1 \in 1 .. Len(d) /\ ix - 2 \in 1 .. Len(d)
                  /\ g[ix] = d[ix] /\ g[ix - 1] = d[ix - 1] /\ g[ix - 2] = d[ix - 2]
              BY <2>1, <4>1, <5>1
            <6> QED BY <4>2, <5>1, <6>1 DEF NoStartCode
          <5>2. CASE ix = Len(d) + 1 BY <4>1, <5>2
          <5>3. CASE ix = Len(d) + 2
            <6>1. ix - 1 = Len(d) + 1 BY <2>1, <5>3
            <6> QED BY <4>1, <6>1
          <5> QED BY <2>1, <4>1, <5>1, <5>2, <5>3
        <4> QED BY <4>3 DEF g
      <3> QED BY <2>2, <2>3, <3>5, <3>6
    <2>5. CASE ~(x <= 3 /\ EndsInZeros(d))
      <3>1. f[k + 1] = Append(d, x) BY <1>1, <2>1, <2>5
      <3>2. Deescape(f[k + 1]) = Append(Deescape(d), x)
        BY <2>1, <2>5, <3>1, DeescapeAppend
      <3>3. NoStartCode(f[k + 1])
        <4> DEFINE g == f[k + 1]
        <4>1. /\ Len(g) = Len(d) + 1 /\ g[Len(d) + 1] = x
              /\ \A ix \in 1 .. Len(d) : g[ix] = d[ix]
          BY <2>1, <3>1, AppendProperties
        <4> HIDE DEF g, d, x
        <4>2. x \in Nat BY <2>1 DEF Byte
        <4>3. NoStartCode(d) BY <2>2 DEF d
        <4>4. NoStartCode(g)
          <5> SUFFICES ASSUME NEW ix \in 3 .. Len(g), g[ix - 1] = 0, g[ix - 2] = 0 PROVE g[ix] >= 3
            BY DEF NoStartCode
          <5>1. CASE ix \in 3 .. Len(d)
            <6>1. /\ ix \in 1 .. Len(d) /\ ix - 1 \in 1 .. Len(d) /\ ix - 2 \in 1 .. Len(d)
                  /\ g[ix] = d[ix] /\ g[ix - 1] = d[ix - 1] /\ g[ix - 2] = d[ix - 2]
              BY <2>1, <4>1, <5>1
            <6> QED BY <4>3, <5>1, <6>1 DEF NoStartCode
          <5>2. CASE ix = Len(d) + 1
            <6>1. EndsInZeros(d) BY <2>1, <4>1, <5>2 DEF EndsInZeros
            <6> QED BY <2>5, <4>1, <4>2, <5>2, <6>1
          <5> QED BY <2>1, <4>1, <5>1, <5>2
        <4> QED BY <4>4 DEF g
      <3> QED BY <2>2, <2>3, <3>2, <3>3
    <2> QED BY <2>4, <2>5
  <1> HIDE DEF D
  <1>5. Nat \subseteq D BY <1>3, <1>4, NatInd
  <1>6. P(n) BY <1>2, <1>5 DEF D
  <1> QED BY <1>1, <1>2, <1>6, SubSeqFull

\* The numbers of the bytes that are kept, and how many of them are kept up to one of
\* the bytes of d.
LEMMA KeptFacts ==
  ASSUME NEW d \in Seq(Byte)
  PROVE  /\ Lists(Kept(d), (1 .. Len(d)) \ Emulation(d), Len(d))
         /\ Kept(d) \in Seq(1 .. Len(d)) /\ Len(Kept(d)) \in Nat /\ Len(d) \in Nat
         /\ \A ix \in 1 .. Len(Kept(d)) : Kept(d)[ix] \in (1 .. Len(d)) \ Emulation(d)
         /\ Len(Deescape(d)) = Len(Kept(d))
         /\ \A ix \in 1 .. Len(Kept(d)) : Deescape(d)[ix] = d[Kept(d)[ix]]
  <1>1. Len(d) \in Nat BY LenProperties
  <1>2. Lists(Kept(d), (1 .. Len(d)) \ Emulation(d), Len(d))
    BY <1>1, AscendingLists DEF Kept
  <1>3. Kept(d) \in Seq(1 .. Len(d)) BY <1>2 DEF Lists
  <1>4. Len(Kept(d)) \in Nat BY <1>3, LenProperties
  <1>5. \A ix \in 1 .. Len(Kept(d)) : Kept(d)[ix] \in (1 .. Len(d)) \ Emulation(d)
    BY <1>2 DEF Lists
  <1>6. Deescape(d) = [k \in 1 .. Len(Kept(d)) |-> d[Kept(d)[k]]] BY DEF Deescape
  <1> QED BY <1>1, <1>2, <1>3, <1>4, <1>5, <1>6

\* A number is kept up to p when the next one is behind it.
LEMMA KeptUpTo ==
  ASSUME NEW d \in Seq(Byte), NEW p \in 0 .. Len(d), NEW m \in 0 .. Len(Kept(d)),
         m > 0 => Kept(d)[m] <= p,
         m < Len(Kept(d)) => p < Kept(d)[m + 1]
  PROVE  Len(Deescape(SubSeq(d, 1, p))) = m
  <1> DEFINE n == Len(d)
             K == (1 .. n) \ Emulation(d)
             e == SubSeq(d, 1, p)
             a == Ascending(K, p)
             full == Kept(d)
  <1>1. /\ n \in Nat /\ full = Ascending(K, n) /\ Len(full) \in Nat
        /\ \A ix \in 1 .. Len(full) : full[ix] \in K
        /\ \A ix, j \in 1 .. Len(full) : ix < j => full[ix] < full[j]
    BY KeptFacts DEF Kept, Lists
  <1>2. /\ p \in Nat /\ e \in Seq(Byte) /\ Len(e) = p /\ \A ix \in 1 .. p : e[ix] = d[ix]
    <2>1. p \in Nat /\ p <= n BY <1>1
    <2>2. \A ix \in 1 .. p : d[ix] \in Byte BY <2>1, ElementOfSeq
    <2> QED BY <2>1, <2>2, SubSeqProperties
  <1>3. \A ix \in 1 .. p : ix \in Emulation(e) <=> ix \in Emulation(d)
    BY <1>1, <1>2 DEF Emulation
  <1>4. Kept(e) = a
    <2>1. \A ix \in 1 .. p : ix \in (1 .. p) \ Emulation(e) <=> ix \in K BY <1>1, <1>2, <1>3
    <2>2. Kept(e) = Ascending((1 .. p) \ Emulation(e), p) BY <1>2 DEF Kept
    <2> HIDE DEF K, e
    <2> QED BY <1>2, <2>1, <2>2, AscendingSame
  <1>5. Len(Deescape(e)) = Len(a) BY <1>2, <1>4, KeptFacts
  <1> HIDE DEF K, e, n, full
  <1>6. Lists(a, K, p) BY <1>2, AscendingLists
  <1>7. a \in Seq(1 .. p) /\ Len(a) \in Nat /\ \A ix \in 1 .. Len(a) : a[ix] \in 1 .. p
    <2> HIDE DEF a
    <2>1. a \in Seq(1 .. p) BY <1>6 DEF Lists
    <2> QED BY <2>1, ElementOfSeq, LenProperties
  <1>8. Len(a) <= Len(full) /\ \A ix \in 1 .. Len(a) : full[ix] = a[ix]
    BY <1>1, <1>2, AscendingPrefix DEF n
  <1> HIDE DEF a
  <1>9. ~(Len(a) > m)
    <2> SUFFICES ASSUME Len(a) > m PROVE FALSE OBVIOUS
    <2>1. m + 1 \in 1 .. Len(a) /\ m < Len(full) BY <1>1, <1>7, <1>8 DEF full
    <2>2. full[m + 1] = a[m + 1] /\ a[m + 1] \in 1 .. p BY <1>7, <1>8, <2>1
    <2> QED BY <2>1, <2>2 DEF full
  <1>10. ~(Len(a) < m)
    <2> SUFFICES ASSUME Len(a) < m PROVE FALSE OBVIOUS
    <2>1. m \in 1 .. Len(full) /\ full[m] \in K /\ full[m] <= p BY <1>1, <1>7 DEF full
    <2>2. full[m] \in 1 .. p BY <1>2, <2>1 DEF K
    <2>3. PICK ix \in 1 .. Len(a) : a[ix] = full[m] BY <1>6, <2>1, <2>2 DEF Lists
    <2>4. ix \in 1 .. Len(full) /\ ix < m /\ full[ix] = full[m] BY <1>1, <1>7, <1>8, <2>1, <2>3
    <2>5. full[ix] < full[m] BY <1>1, <2>1, <2>4
    <2> QED BY <1>2, <2>2, <2>4, <2>5
  <1> QED BY <1>1, <1>5, <1>7, <1>9, <1>10 DEF e, full

\* escaped_bit_offset is where its comment says: behind as many bits as were asked for,
\* the emulation prevention bytes taken out, and not inside one of these; and never
\* behind the end.
THEOREM OffsetIsExact ==
  ASSUME NEW d \in Seq(Byte), NEW bits \in Nat
  PROVE  LET o == EscapedBitOffset(d, bits)
         IN  /\ o \in 0 .. 8 * Len(d)
             /\ bits > 0 /\ bits <= 8 * Len(Deescape(d)) =>
                  /\ 8 * Len(Deescape(SubSeq(d, 1, o \div 8))) + (o % 8) = bits
                  /\ o % 8 # 0 => (o \div 8) + 1 \notin Emulation(d)
  <1> DEFINE whole == bits \div 8
             rest == bits % 8
             full == Kept(d)
             n == Len(d)
             o == EscapedBitOffset(d, bits)
  <1>1. whole \in Nat /\ rest \in 0 .. 7 /\ bits = 8 * whole + rest OBVIOUS
  <1>2. /\ n \in Nat /\ Len(full) \in Nat /\ Len(Deescape(d)) = Len(full)
        /\ \A ix \in 1 .. Len(full) : full[ix] \in (1 .. n) \ Emulation(d)
        /\ \A ix, j \in 1 .. Len(full) : ix < j => full[ix] < full[j]
    BY KeptFacts DEF Lists
  <1>3. CASE rest = 0 /\ whole \in 1 .. Len(full)
    <2>1. o = 8 * full[whole] BY <1>3 DEF EscapedBitOffset
    <2> HIDE DEF whole, rest, full, n, o
    <2>2. full[whole] \in 1 .. n BY <1>2, <1>3
    <2>3. o \in 0 .. 8 * n /\ o \div 8 = full[whole] /\ o % 8 = 0 BY <1>2, <2>1, <2>2
    <2>4. whole < Len(full) => full[whole] < full[whole + 1]
      <3>1. whole < Len(full) => whole + 1 \in 1 .. Len(full) /\ whole < whole + 1
        BY <1>1, <1>2, <1>3
      <3> QED BY <1>2, <1>3, <3>1
    <2>5. Len(Deescape(SubSeq(d, 1, full[whole]))) = whole
      <3>1. full[whole] \in 0 .. Len(d) /\ whole \in 0 .. Len(Kept(d))
        BY <1>2, <1>3, <2>2 DEF n, full
      <3>2. full[whole] <= full[whole] BY <2>2
      <3> QED BY <2>4, <3>1, <3>2, KeptUpTo DEF full
    <2>6. 8 * Len(Deescape(SubSeq(d, 1, o \div 8))) + (o % 8) = bits
      BY <1>1, <1>3, <2>3, <2>5
    <2> QED BY <2>3, <2>6 DEF o, n
  <1>4. CASE rest # 0 /\ whole < Len(full)
    <2>1. o = 8 * (full[whole + 1] - 1) + rest BY <1>4 DEF EscapedBitOffset
    <2> HIDE DEF whole, rest, full, n, o
    <2>2. whole + 1 \in 1 .. Len(full) /\ full[whole + 1] \in 1 .. n
          /\ full[whole + 1] \notin Emulation(d)
      BY <1>1, <1>2, <1>4
    <2>3. o \in 0 .. 8 * n /\ o \div 8 = full[whole + 1] - 1 /\ o % 8 = rest
      <3> DEFINE q == full[whole + 1] - 1
      <3>1. q \in 0 .. n - 1 /\ o = 8 * q + rest /\ rest \in 0 .. 7 BY <1>1, <1>2, <2>1, <2>2
      <3> HIDE DEF q
      <3>2. o \in 0 .. 8 * n /\ o \div 8 = q /\ o % 8 = rest BY <1>2, <3>1
      <3> QED BY <3>2 DEF q
    <2>4. whole > 0 => full[whole] <= full[whole + 1] - 1
      <3> SUFFICES ASSUME whole > 0 PROVE full[whole] <= full[whole + 1] - 1 OBVIOUS
      <3>1. whole \in 1 .. Len(full) /\ whole < whole + 1 BY <1>1, <1>2, <1>4
      <3>2. full[whole] < full[whole + 1] /\ full[whole] \in 1 .. n BY <1>2, <2>2, <3>1
      <3> QED BY <1>2, <2>2, <3>2
    <2>5. Len(Deescape(SubSeq(d, 1, full[whole + 1] - 1))) = whole
      <3> DEFINE p == full[whole + 1] - 1
      <3>1. p \in 0 .. Len(d) /\ whole \in 0 .. Len(Kept(d)) /\ p < full[whole + 1]
        BY <1>1, <1>2, <1>4, <2>2 DEF n, full
      <3> HIDE DEF p
      <3>2. whole > 0 => full[whole] <= p BY <2>4 DEF p
      <3> QED BY <3>1, <3>2, KeptUpTo DEF full, p
    <2>6. 8 * Len(Deescape(SubSeq(d, 1, o \div 8))) + (o % 8) = bits
      BY <1>1, <2>3, <2>5
    <2>7. (o \div 8) + 1 \notin Emulation(d)
      <3>1. (o \div 8) + 1 = full[whole + 1] BY <1>2, <2>2, <2>3
      <3> QED BY <2>2, <3>1
    <2> QED BY <2>3, <2>6, <2>7 DEF o, n
  <1>5. CASE ~(rest = 0 /\ whole \in 1 .. Len(full)) /\ ~(rest # 0 /\ whole < Len(full))
    <2>1. o = 8 * n BY <1>5 DEF EscapedBitOffset
    <2>2. ~(bits > 0 /\ bits <= 8 * Len(full))
      <3> HIDE DEF full, whole, rest
      <3> QED BY <1>1, <1>2, <1>5
    <2> QED BY <1>2, <2>1, <2>2
  <1> QED BY <1>3, <1>4, <1>5

------------------------------------------------------------------------------
(* Bits.                                                                    *)

\* The powers of two.
LEMMA Pow2Rec == /\ Pow2[0] = 1
                 /\ \A k \in Nat : Pow2[k] \in Nat \ {0} /\ Pow2[k + 1] = 2 * Pow2[k]
  <1> DEFINE T == Nat
             step == [p \in Nat \X T |-> 2 * p[2]]
             D == {k \in Nat : Pow2[k] \in Nat \ {0}}
  <1>1. step \in [Nat \X T -> T] /\ 1 \in T OBVIOUS
  <1>2. PICK f : Goes(f, T, 1, step)
    <2> HIDE DEF step, T
    <2> QED BY <1>1, Recursion
  <1>3. f \in [Nat -> Nat] /\ f[0] = 1 /\ \A k \in Nat : f[k + 1] = 2 * f[k]
    <2>1. f \in [Nat -> Nat] /\ f[0] = 1 BY <1>2 DEF Goes
    <2>2. ASSUME NEW k \in Nat PROVE f[k + 1] = 2 * f[k]
      <3>1. <<k, f[k]>> \in Nat \X T BY <2>1
      <3> QED BY <1>2, <3>1 DEF Goes
    <2> QED BY <2>1, <2>2
  <1>4. f = [k \in Nat |-> IF k = 0 THEN 1 ELSE 2 * f[k - 1]]
    <2>1. \A k \in Nat : f[k] = IF k = 0 THEN 1 ELSE 2 * f[k - 1]
      <3> SUFFICES ASSUME NEW k \in Nat, k # 0 PROVE f[k] = 2 * f[k - 1] BY <1>3
      <3>1. k - 1 \in Nat /\ (k - 1) + 1 = k OBVIOUS
      <3> QED BY <1>3, <3>1
    <2> QED BY <1>3, <2>1
  <1>5. Pow2 = [k \in Nat |-> IF k = 0 THEN 1 ELSE 2 * Pow2[k - 1]]
    BY <1>4 DEF Pow2
  <1>6. Pow2[0] = 1 BY <1>5
  <1>7. \A k \in Nat : Pow2[k + 1] = 2 * Pow2[k]
    <2> SUFFICES ASSUME NEW k \in Nat PROVE Pow2[k + 1] = 2 * Pow2[k] OBVIOUS
    <2>1. k + 1 \in Nat /\ k + 1 # 0 /\ (k + 1) - 1 = k OBVIOUS
    <2> QED BY <1>5, <2>1
  <1>8. 0 \in D BY <1>6
  <1>9. ASSUME NEW k \in Nat, k \in D PROVE k + 1 \in D BY <1>7, <1>9
  <1> HIDE DEF D
  <1>10. Nat \subseteq D BY <1>8, <1>9, NatInd
  <1> QED BY <1>6, <1>7, <1>10 DEF D

\* The first of them.
LEMMA Pow2Values ==
  /\ Pow2[0] = 1 /\ Pow2[1] = 2 /\ Pow2[2] = 4 /\ Pow2[3] = 8
  /\ Pow2[4] = 16 /\ Pow2[5] = 32 /\ Pow2[6] = 64 /\ Pow2[7] = 128
  <1>1. Pow2[0] = 1 /\ \A k \in Nat : Pow2[k + 1] = 2 * Pow2[k] BY Pow2Rec
  <1>2. /\ Pow2[0 + 1] = 2 * Pow2[0] /\ Pow2[1 + 1] = 2 * Pow2[1] /\ Pow2[2 + 1] = 2 * Pow2[2]
        /\ Pow2[3 + 1] = 2 * Pow2[3] /\ Pow2[4 + 1] = 2 * Pow2[4] /\ Pow2[5 + 1] = 2 * Pow2[5]
        /\ Pow2[6 + 1] = 2 * Pow2[6]
    BY <1>1
  <1> QED BY <1>1, <1>2

\* What is read: bytes, and the value of a shift that is undefined.
Reader == [buf : Seq(Byte), past : Nat]

\* A bit is 0 or 1.
LEMMA BitType == ASSUME NEW br \in Reader, NEW pos \in Nat PROVE BitAt(br, pos) \in {0, 1}
  <1>1. br.buf \in Seq(Byte) /\ Len(br.buf) \in Nat BY LenProperties DEF Reader
  <1>2. CASE pos < 8 * Len(br.buf)
    <2> DEFINE x == br.buf[pos \div 8 + 1]
               y == Pow2[7 - (pos % 8)]
    <2>1. pos \div 8 + 1 \in 1 .. Len(br.buf) /\ 7 - (pos % 8) \in Nat BY <1>1, <1>2
    <2>2. x \in Nat
      <3>1. x \in Byte BY <1>1, <2>1, ElementOfSeq
      <3> HIDE DEF x
      <3> QED BY <3>1 DEF Byte
    <2>3. y \in Nat \ {0} BY <2>1, Pow2Rec
    <2>4. BitAt(br, pos) = (x \div y) % 2 BY <1>2 DEF BitAt
    <2> HIDE DEF x, y
    <2>5. x \div y \in Int BY <2>2, <2>3
    <2> QED BY <2>4, <2>5
  <1>3. CASE ~(pos < 8 * Len(br.buf)) BY <1>3 DEF BitAt
  <1> QED BY <1>2, <1>3

\* A number is what its bits but the last say, doubled, and the last one more.
LEMMA NumberRec ==
  ASSUME NEW b \in Seq({0, 1}), NEW x \in {0, 1}
  PROVE  /\ Number(<<>>) = 0
         /\ Number(b) \in Nat
         /\ Number(Append(b, x)) = 2 * Number(b) + x
  <1> DEFINE T == Nat
             e == Append(b, x)
             m == Len(b)
             step == [p \in Nat \X T |-> 2 * p[2] + (IF p[1] + 1 \in 1 .. m + 1 THEN e[p[1] + 1]
                                                     ELSE 0)]
  <1>1. /\ m \in Nat /\ Len(e) = m + 1 /\ e[m + 1] = x /\ \A k \in 1 .. m : e[k] = b[k]
        /\ \A k \in 1 .. m + 1 : e[k] \in Nat
    <2>1. e \in Seq({0, 1}) BY AppendProperties
    <2>2. \A k \in 1 .. Len(e) : e[k] \in {0, 1} BY <2>1, ElementOfSeq
    <2> HIDE DEF e
    <2>3. m \in Nat /\ Len(e) = m + 1 /\ e[m + 1] = x /\ \A k \in 1 .. m : e[k] = b[k]
      BY AppendProperties, LenProperties DEF e
    <2> QED BY <2>2, <2>3
  <1> HIDE DEF e, m
  <1>2. step \in [Nat \X T -> T] /\ 0 \in T BY <1>1
  <1>3. PICK f : Goes(f, T, 0, step)
    <2> HIDE DEF step, T
    <2> QED BY <1>2, Recursion
  <1>4. f \in [Nat -> Nat] /\ f[0] = 0 BY <1>3 DEF Goes
  <1>5. ASSUME NEW k \in Nat, k <= m PROVE f[k + 1] = 2 * f[k] + e[k + 1]
    <2>1. <<k, f[k]>> \in Nat \X T BY <1>4
    <2>2. k + 1 \in 1 .. m + 1 BY <1>1, <1>5
    <2> QED BY <1>3, <2>1, <2>2 DEF Goes
  <1> HIDE DEF step, T
  <1>6. ASSUME NEW n \in Nat, n <= m + 1, NEW s, Len(s) = n, \A k \in 1 .. n : s[k] = e[k]
        PROVE  Number(s) = f[n]
    <2> DEFINE Fix(v) == v = [k \in 0 .. n |-> IF k = 0 THEN 0 ELSE 2 * v[k - 1] + s[k]]
               C == CHOOSE v : Fix(v)
               D == {k \in Nat : k <= n => C[k] = f[k]}
               g == [k \in 0 .. n |-> f[k]]
    <2>1. Number(s) = C[n] BY <1>6 DEF Number
    <2>2. \A k \in 0 .. n : f[k] = IF k = 0 THEN 0 ELSE 2 * g[k - 1] + s[k]
      <3> SUFFICES ASSUME NEW k \in 0 .. n, k # 0 PROVE f[k] = 2 * g[k - 1] + s[k]
        BY <1>4
      <3>1. k - 1 \in Nat /\ k - 1 <= m /\ (k - 1) + 1 = k /\ k \in 1 .. n BY <1>1, <1>6
      <3>2. g[k - 1] = f[k - 1] OBVIOUS
      <3> QED BY <1>5, <1>6, <3>1, <3>2
    <2>3. Fix(g) BY <2>2
    <2>4. Fix(C) BY <2>3
    <2> HIDE DEF C, g
    <2>5. 0 \in D BY <1>4, <2>4
    <2>6. ASSUME NEW k \in Nat, k \in D PROVE k + 1 \in D
      <3> SUFFICES ASSUME k + 1 <= n PROVE C[k + 1] = f[k + 1] OBVIOUS
      <3>1. k + 1 \in 0 .. n /\ (k + 1) - 1 = k /\ k + 1 # 0 /\ k + 1 \in 1 .. n /\ k <= m
        BY <1>1, <1>6
      <3>2. C[k + 1] = 2 * C[k] + s[k + 1] BY <2>4, <3>1
      <3>3. C[k] = f[k] BY <2>6
      <3> QED BY <1>5, <1>6, <3>1, <3>2, <3>3
    <2> HIDE DEF D
    <2>7. Nat \subseteq D BY <2>5, <2>6, NatInd
    <2> QED BY <2>1, <2>7 DEF D
  <1>7. Number(<<>>) = 0
    <2> DEFINE s == <<>>
    <2>1. Len(s) = 0 /\ \A k \in 1 .. 0 : s[k] = e[k] OBVIOUS
    <2> HIDE DEF s
    <2>2. Number(s) = f[0] BY <1>1, <1>6, <2>1
    <2> QED BY <1>4, <2>2 DEF s
  <1>8. Number(b) = f[m] BY <1>1, <1>6 DEF m
  <1>9. Number(e) = f[m + 1] BY <1>1, <1>6
  <1>10. f[m + 1] = 2 * f[m] + e[m + 1] BY <1>1, <1>5
  <1> QED BY <1>1, <1>4, <1>7, <1>8, <1>9, <1>10 DEF e

\* br_bits goes on from bit to bit.
LEMMA ValueRec ==
  ASSUME NEW br \in Reader, NEW pos \in Nat
  PROVE  /\ Value(br, pos, 0) = 0
         /\ \A n \in Nat : /\ Value(br, pos, n) \in Nat
                           /\ Value(br, pos, n + 1) = 2 * Value(br, pos, n) + BitAt(br, pos + n)
  <1> DEFINE bits(n) == [k \in 1 .. n |-> BitAt(br, pos + k - 1)]
  <1>1. ASSUME NEW n \in Nat
        PROVE  bits(n) \in Seq({0, 1}) /\ bits(n + 1) = Append(bits(n), BitAt(br, pos + n))
    <2>1. \A k \in 1 .. n + 1 : BitAt(br, pos + k - 1) \in {0, 1}
      <3> SUFFICES ASSUME NEW k \in 1 .. n + 1 PROVE BitAt(br, pos + k - 1) \in {0, 1} OBVIOUS
      <3>1. pos + k - 1 \in Nat OBVIOUS
      <3> QED BY <3>1, BitType
    <2>2. bits(n) \in Seq({0, 1}) BY <2>1, IsASeq
    <2>3. pos + (n + 1) - 1 = pos + n /\ n + 1 \in 1 .. n + 1 OBVIOUS
    <2>4. BitAt(br, pos + n) \in {0, 1} BY <2>1, <2>3
    <2>5. bits(n + 1) \in Seq({0, 1}) BY <2>1, IsASeq
    <2> DEFINE a == Append(bits(n), BitAt(br, pos + n))
               c == bits(n + 1)
    <2>6. Len(bits(n)) = n /\ Len(c) = n + 1 OBVIOUS
    <2>7. /\ a \in Seq({0, 1}) /\ Len(a) = n + 1 /\ a[n + 1] = BitAt(br, pos + n)
          /\ \A k \in 1 .. n : a[k] = bits(n)[k]
      <3> HIDE DEF bits
      <3> QED BY <2>2, <2>4, <2>6, AppendProperties
    <2>8. \A k \in 1 .. n + 1 : c[k] = a[k]
      <3> SUFFICES ASSUME NEW k \in 1 .. n + 1 PROVE c[k] = a[k] OBVIOUS
      <3>1. CASE k = n + 1 BY <2>3, <2>7, <3>1
      <3>2. CASE k \in 1 .. n BY <2>7, <3>2
      <3> QED BY <3>1, <3>2
    <2>9. c = a
      <3> HIDE DEF a, c
      <3> QED BY <2>5, <2>6, <2>7, <2>8, SeqEqual DEF c
    <2> QED BY <2>2, <2>9
  <1>2. \A n : Value(br, pos, n) = Number(bits(n)) BY DEF Value
  <1>3. bits(0) = <<>> OBVIOUS
  <1> HIDE DEF bits
  <1>4. Value(br, pos, 0) = 0
    <2>1. bits(0) \in Seq({0, 1}) BY <1>1
    <2> QED BY <1>2, <1>3, <2>1, NumberRec
  <1>5. ASSUME NEW n \in Nat
        PROVE  /\ Value(br, pos, n) \in Nat
               /\ Value(br, pos, n + 1) = 2 * Value(br, pos, n) + BitAt(br, pos + n)
    <2>1. pos + n \in Nat OBVIOUS
    <2>2. BitAt(br, pos + n) \in {0, 1} BY <2>1, BitType
    <2>3. Number(bits(n)) \in Nat
          /\ Number(Append(bits(n), BitAt(br, pos + n))) = 2 * Number(bits(n)) + BitAt(br, pos + n)
      BY <1>1, <2>2, NumberRec
    <2> QED BY <1>1, <1>2, <2>3
  <1> QED BY <1>4, <1>5

\* The least of some natural numbers.
LEMMA MinIsLeast ==
  ASSUME NEW S, S \subseteq Nat, S # {}
  PROVE  Min(S) \in S /\ \A x \in S : Min(S) <= x
  <1> DEFINE D == {n \in Nat : \A x \in S : x > n}
             Least(x) == x \in S /\ \A y \in S : x <= y
  <1>1. \E x : Least(x)
    <2> SUFFICES ASSUME ~\E x : Least(x) PROVE FALSE OBVIOUS
    <2>1. 0 \in D
      <3>1. ~Least(0) OBVIOUS
      <3> QED BY <3>1
    <2>2. ASSUME NEW n \in Nat, n \in D PROVE n + 1 \in D
      <3>1. \A x \in S : x >= n + 1 BY <2>2
      <3>2. ~Least(n + 1) OBVIOUS
      <3> QED BY <3>1, <3>2
    <2> HIDE DEF D
    <2>3. Nat \subseteq D BY <2>1, <2>2, NatInd
    <2>4. PICK x \in S : TRUE OBVIOUS
    <2> QED BY <2>3, <2>4 DEF D
  <1>2. Min(S) = CHOOSE x \in S : \A y \in S : x <= y BY DEF Min
  <1> QED BY <1>1, <1>2

\* The zeros in front of a code: all before them, and a one behind them or else 32.
LEMMA LeadingZerosFacts ==
  ASSUME NEW br \in Reader, NEW pos \in Nat
  PROVE  LET z == LeadingZeros(br, pos)
         IN  /\ z \in 0 .. 32
             /\ z = 32 \/ BitAt(br, pos + z) = 1
             /\ \A y \in 0 .. z - 1 : BitAt(br, pos + y) = 0
  <1> DEFINE S == {z \in 0 .. 32 : z = 32 \/ BitAt(br, pos + z) = 1}
             z == LeadingZeros(br, pos)
  <1>1. S \subseteq Nat /\ 32 \in S OBVIOUS
  <1>2. z = Min(S) BY DEF LeadingZeros
  <1>3. z \in S /\ \A x \in S : z <= x
    <2> HIDE DEF S
    <2> QED BY <1>1, <1>2, MinIsLeast
  <1> HIDE DEF z
  <1>4. \A y \in 0 .. z - 1 : BitAt(br, pos + y) = 0
    <2> SUFFICES ASSUME NEW y \in 0 .. z - 1 PROVE BitAt(br, pos + y) = 0 OBVIOUS
    <2>1. y \notin S /\ y \in 0 .. 32 /\ y # 32 /\ pos + y \in Nat BY <1>3
    <2> QED BY <2>1, BitType
  <1> QED BY <1>3, <1>4 DEF z

\* The value of a code is a natural number.
LEMMA UeType ==
  ASSUME NEW br \in Reader, NEW pos \in Nat PROVE UeAt(br, pos) \in Nat
  <1> DEFINE z == LeadingZeros(br, pos)
  <1>1. z \in 0 .. 32 BY LeadingZerosFacts
  <1>2. pos + z + 1 \in Nat /\ z \in Nat BY <1>1
  <1>3. Value(br, pos + z + 1, z) \in Nat /\ Pow2[z] \in Nat \ {0}
    <2> HIDE DEF z
    <2> QED BY <1>2, ValueRec, Pow2Rec
  <1>4. UeAt(br, pos) = IF z = 32 THEN br.past ELSE Pow2[z] - 1 + Value(br, pos + z + 1, z)
    BY DEF UeAt
  <1>5. br.past \in Nat BY DEF Reader
  <1> HIDE DEF z
  <1> QED BY <1>3, <1>4, <1>5

------------------------------------------------------------------------------
(* Fields.                                                                  *)

Fields == {U(n) : n \in Nat} \cup {Ue, Se}
Results == [pos : Nat, val : Seq(Int)]

\* What one field adds to the result.
ReadOne(br, old, f) ==
    IF f.kind = "u"
    THEN [pos |-> old.pos + f.n, val |-> Append(old.val, Value(br, old.pos, f.n))]
    ELSE [pos |-> old.pos + 2 * LeadingZeros(br, old.pos) + 1,
          val |-> Append(old.val, IF f.kind = "ue" THEN UeAt(br, old.pos)
                                  ELSE SignedOf(UeAt(br, old.pos)))]

\* It is a position and a number more.
LEMMA ReadOneType ==
  ASSUME NEW br \in Reader, NEW old \in Results, NEW f \in Fields
  PROVE  /\ ReadOne(br, old, f) \in Results
         /\ Len(ReadOne(br, old, f).val) = Len(old.val) + 1
  <1>1. old.pos \in Nat /\ old.val \in Seq(Int) BY DEF Results
  <1> DEFINE Plus(p, v) == [pos |-> p, val |-> Append(old.val, v)]
  <1>2. ASSUME NEW p \in Nat, NEW v \in Int
        PROVE  Plus(p, v) \in Results /\ Len(Plus(p, v).val) = Len(old.val) + 1
    <2>1. Append(old.val, v) \in Seq(Int) /\ Len(Append(old.val, v)) = Len(old.val) + 1
      BY <1>1, AppendProperties
    <2> QED BY <2>1 DEF Results
  <1>3. CASE f.kind = "u"
    <2>1. f.n \in Nat BY <1>3 DEF Fields, U, Ue, Se
    <2>2. Value(br, old.pos, f.n) \in Nat BY <1>1, <2>1, ValueRec
    <2>3. ReadOne(br, old, f) = Plus(old.pos + f.n, Value(br, old.pos, f.n))
      BY <1>3 DEF ReadOne
    <2>4. old.pos + f.n \in Nat /\ Value(br, old.pos, f.n) \in Int BY <1>1, <2>1, <2>2
    <2> HIDE DEF Plus
    <2> QED BY <1>2, <2>3, <2>4
  <1>4. CASE f.kind # "u"
    <2> DEFINE u == UeAt(br, old.pos)
               v == IF f.kind = "ue" THEN u ELSE SignedOf(u)
               q == old.pos + 2 * LeadingZeros(br, old.pos) + 1
    <2>1. u \in Nat BY <1>1, UeType
    <2>2. SignedOf(u) \in Int
      <3> HIDE DEF u
      <3> QED BY <2>1 DEF SignedOf
    <2>3. LeadingZeros(br, old.pos) \in Nat
      <3>1. LeadingZeros(br, old.pos) \in 0 .. 32 BY <1>1, LeadingZerosFacts
      <3> QED BY <3>1
    <2>4. q \in Nat /\ v \in Int BY <1>1, <2>1, <2>2, <2>3
    <2>5. ReadOne(br, old, f) = Plus(q, v) BY <1>4 DEF ReadOne
    <2> HIDE DEF Plus, q, v
    <2> QED BY <1>2, <2>4, <2>5
  <1> QED BY <1>3, <1>4

\* Read goes on from field to field.
LEMMA ReadSteps ==
  ASSUME NEW br \in Reader, NEW pos \in Nat, NEW fields \in Seq(Fields)
  PROVE  \E r : /\ r \in [Nat -> Results] /\ r[0] = [pos |-> pos, val |-> <<>>]
                /\ \A ix \in 0 .. Len(fields) - 1 : r[ix + 1] = ReadOne(br, r[ix], fields[ix + 1])
                /\ Read(br, pos, fields) = r[Len(fields)]
  <1> DEFINE T == Results
             n == Len(fields)
             base == [pos |-> pos, val |-> <<>>]
             step == [p \in Nat \X T |-> IF p[1] + 1 \in 1 .. n
                                         THEN ReadOne(br, p[2], fields[p[1] + 1]) ELSE p[2]]
  <1>1. n \in Nat /\ \A ix \in 1 .. n : fields[ix] \in Fields BY ElementOfSeq, LenProperties
  <1>2. base \in T BY DEF Results
  <1> HIDE DEF n, base
  <1>3. step \in [Nat \X T -> T]
    <2>1. \A p \in Nat \X T : p[1] + 1 \in 1 .. n => ReadOne(br, p[2], fields[p[1] + 1]) \in T
      BY <1>1, ReadOneType
    <2> HIDE DEF T
    <2> QED BY <2>1
  <1> HIDE DEF T
  <1>4. PICK r : Goes(r, T, base, step)
    <2> HIDE DEF step
    <2> QED BY <1>2, <1>3, Recursion
  <1>5. r \in [Nat -> T] /\ r[0] = base BY <1>4 DEF Goes
  <1>6. ASSUME NEW ix \in 0 .. n - 1 PROVE r[ix + 1] = ReadOne(br, r[ix], fields[ix + 1])
    <2>1. ix \in Nat /\ ix + 1 \in 1 .. n /\ <<ix, r[ix]>> \in Nat \X T BY <1>1, <1>5
    <2> QED BY <1>4, <2>1 DEF Goes
  <1> HIDE DEF step
  <1>7. Read(br, pos, fields) = r[n]
    <2> DEFINE body(old, f) ==
                 IF f.kind = "u"
                 THEN [pos |-> old.pos + f.n, val |-> Append(old.val, Value(br, old.pos, f.n))]
                 ELSE LET u == UeAt(br, old.pos)
                      IN  [pos |-> old.pos + 2 * LeadingZeros(br, old.pos) + 1,
                           val |-> Append(old.val, IF f.kind = "ue" THEN u ELSE SignedOf(u))]
               Fix(e) == e = [ix \in 0 .. n |-> IF ix = 0 THEN [pos |-> pos, val |-> <<>>]
                                               ELSE body(e[ix - 1], fields[ix])]
               C == CHOOSE e : Fix(e)
               D == {k \in Nat : k <= n => C[k] = r[k]}
               g == [ix \in 0 .. n |-> r[ix]]
    <2>1. Read(br, pos, fields) = C[n] BY DEF Read, n
    <2>2. \A old, f : body(old, f) = ReadOne(br, old, f) BY DEF ReadOne
    <2> HIDE DEF body
    <2>3. \A ix \in 0 .. n : r[ix] = IF ix = 0 THEN [pos |-> pos, val |-> <<>>]
                                   ELSE body(g[ix - 1], fields[ix])
      <3> SUFFICES ASSUME NEW ix \in 0 .. n, ix # 0 PROVE r[ix] = body(g[ix - 1], fields[ix])
        BY <1>5 DEF base
      <3>1. ix - 1 \in 0 .. n - 1 /\ (ix - 1) + 1 = ix BY <1>1
      <3>2. g[ix - 1] = r[ix - 1] BY <1>1, <3>1
      <3> QED BY <1>6, <2>2, <3>1, <3>2
    <2>4. Fix(g) BY <2>3
    <2>5. Fix(C) BY <2>4
    <2> HIDE DEF C, g
    <2>6. 0 \in D BY <1>1, <1>5, <2>5 DEF base
    <2>7. ASSUME NEW k \in Nat, k \in D PROVE k + 1 \in D
      <3> SUFFICES ASSUME k + 1 <= n PROVE C[k + 1] = r[k + 1] OBVIOUS
      <3>1. k + 1 \in 0 .. n /\ k \in 0 .. n - 1 /\ (k + 1) - 1 = k /\ k + 1 # 0 BY <1>1
      <3>2. C[k + 1] = body(C[k], fields[k + 1]) BY <2>5, <3>1
      <3>3. C[k] = r[k] BY <1>1, <2>7
      <3>4. r[k + 1] = body(r[k], fields[k + 1]) BY <1>6, <2>2, <3>1
      <3> QED BY <3>2, <3>3, <3>4
    <2> HIDE DEF D
    <2>8. Nat \subseteq D BY <2>6, <2>7, NatInd
    <2> QED BY <1>1, <2>1, <2>8 DEF D
  <1> QED BY <1>5, <1>6, <1>7 DEF T, n, base

\* A field more at the end.
LEMMA ReadAppend ==
  ASSUME NEW br \in Reader, NEW pos \in Nat, NEW fields \in Seq(Fields), NEW f \in Fields
  PROVE  /\ Read(br, pos, <<>>) = [pos |-> pos, val |-> <<>>]
         /\ Read(br, pos, fields) \in Results /\ Len(Read(br, pos, fields).val) = Len(fields)
         /\ Read(br, pos, Append(fields, f)) = ReadOne(br, Read(br, pos, fields), f)
  <1> DEFINE n == Len(fields)
             more == Append(fields, f)
  <1>1. /\ n \in Nat /\ more \in Seq(Fields) /\ Len(more) = n + 1 /\ more[n + 1] = f
        /\ \A ix \in 1 .. n : more[ix] = fields[ix] /\ fields[ix] \in Fields
    BY AppendProperties, ElementOfSeq, LenProperties
  <1>2. PICK r : /\ r \in [Nat -> Results] /\ r[0] = [pos |-> pos, val |-> <<>>]
                 /\ \A ix \in 0 .. Len(fields) - 1 : r[ix + 1] = ReadOne(br, r[ix], fields[ix + 1])
                 /\ Read(br, pos, fields) = r[Len(fields)]
    BY ReadSteps
  <1> HIDE DEF more
  <1>3. PICK q : /\ q \in [Nat -> Results] /\ q[0] = [pos |-> pos, val |-> <<>>]
                 /\ \A ix \in 0 .. Len(more) - 1 : q[ix + 1] = ReadOne(br, q[ix], more[ix + 1])
                 /\ Read(br, pos, more) = q[Len(more)]
    BY <1>1, ReadSteps
  <1> HIDE DEF n
  <1>4. \A k \in Nat : k <= n => q[k] = r[k] /\ Len(r[k].val) = k
    <2> DEFINE D == {k \in Nat : k <= n => q[k] = r[k] /\ Len(r[k].val) = k}
    <2>1. 0 \in D BY <1>2, <1>3
    <2>2. ASSUME NEW k \in Nat, k \in D PROVE k + 1 \in D
      <3> SUFFICES ASSUME k + 1 <= n PROVE q[k + 1] = r[k + 1] /\ Len(r[k + 1].val) = k + 1
        OBVIOUS
      <3>1. k \in 0 .. n - 1 /\ k \in 0 .. Len(more) - 1 /\ k + 1 \in 1 .. n BY <1>1
      <3>2. q[k] = r[k] /\ Len(r[k].val) = k /\ r[k] \in Results BY <1>1, <1>2, <2>2
      <3>3. q[k + 1] = ReadOne(br, q[k], more[k + 1]) BY <1>3, <3>1
      <3>4. r[k + 1] = ReadOne(br, r[k], fields[k + 1]) BY <1>2, <3>1 DEF n
      <3>5. more[k + 1] = fields[k + 1] /\ fields[k + 1] \in Fields BY <1>1, <3>1
      <3>6. Len(ReadOne(br, r[k], fields[k + 1]).val) = k + 1 BY <3>2, <3>5, ReadOneType
      <3> QED BY <3>2, <3>3, <3>4, <3>5, <3>6
    <2> HIDE DEF D
    <2>3. Nat \subseteq D BY <2>1, <2>2, NatInd
    <2> QED BY <2>3 DEF D
  <1>5. q[n + 1] = ReadOne(br, r[n], f)
    <2>1. n \in 0 .. Len(more) - 1 /\ q[n] = r[n] BY <1>1, <1>4
    <2> QED BY <1>1, <1>3, <2>1
  <1>6. Read(br, pos, <<>>) = [pos |-> pos, val |-> <<>>]
    <2> DEFINE none == <<>>
    <2>1. none \in Seq(Fields) /\ Len(none) = 0 OBVIOUS
    <2> HIDE DEF none
    <2>2. PICK e : /\ e \in [Nat -> Results] /\ e[0] = [pos |-> pos, val |-> <<>>]
                   /\ Read(br, pos, none) = e[Len(none)]
      BY <2>1, ReadSteps
    <2> QED BY <2>1, <2>2 DEF none
  <1> QED BY <1>1, <1>2, <1>3, <1>4, <1>5, <1>6 DEF n, more

------------------------------------------------------------------------------
(* What was written is what is read.                                        *)

\* w is what stands at pos.
Written(br, pos, w) == \A j \in 1 .. Len(w) : BitAt(br, pos + j - 1) = w[j]

\* Halving twice the divisor's quotient.
LEMMA HalfQuotient ==
  ASSUME NEW v \in Nat, NEW p \in Nat \ {0}
  PROVE  v \div p \in Nat /\ v \div p = 2 * (v \div (2 * p)) + ((v \div p) % 2)
  <1> DEFINE q == v \div p
             h == v \div (2 * p)
  <1>1. q \in Int /\ p * q <= v /\ v < p * q + p OBVIOUS
  <1>2. h \in Int /\ (2 * p) * h <= v /\ v < (2 * p) * h + 2 * p OBVIOUS
  <1> HIDE DEF q, h
  <1>3. q >= 0
    <2> SUFFICES ASSUME q <= -1 PROVE FALSE BY <1>1
    <2>1. p * q + p <= 0
      <3>1. p * (q + 1) <= 0 BY <1>1
      <3> QED BY <1>1, <3>1
    <2> QED BY <1>1, <2>1
  <1>4. 2 * h <= q
    <2> SUFFICES ASSUME q + 1 <= 2 * h PROVE FALSE BY <1>1, <1>2
    <2>1. p * (q + 1) <= p * (2 * h) BY <1>1, <1>2
    <2> QED BY <1>1, <1>2, <2>1
  <1>5. q <= 2 * h + 1
    <2> SUFFICES ASSUME 2 * h + 2 <= q PROVE FALSE BY <1>1, <1>2
    <2>1. p * (2 * h + 2) <= p * q BY <1>1, <1>2
    <2> QED BY <1>1, <1>2, <2>1
  <1>6. q = 2 * h + (q % 2) BY <1>1, <1>2, <1>4, <1>5
  <1> QED BY <1>1, <1>3, <1>6 DEF q, h

\* n bits are read as the number that was put into them.
LEMMA BitsReadBack ==
  ASSUME NEW br \in Reader, NEW pos \in Nat, NEW n \in Nat, NEW v \in Nat, v < Pow2[n],
         Written(br, pos, PutBits(v, n))
  PROVE  Value(br, pos, n) = v
  <1> DEFINE D == {k \in Nat : k <= n => Value(br, pos, k) = v \div Pow2[n - k]}
  <1>1. 0 \in D
    <2>1. v \div Pow2[n] = 0
      <3>1. Pow2[n] \in Nat BY Pow2Rec
      <3> QED BY <3>1
    <2> QED BY <2>1, ValueRec
  <1>2. ASSUME NEW k \in Nat, k \in D PROVE k + 1 \in D
    <2> SUFFICES ASSUME k + 1 <= n PROVE Value(br, pos, k + 1) = v \div Pow2[n - (k + 1)] OBVIOUS
    <2> DEFINE p == Pow2[n - (k + 1)]
    <2>1. n - (k + 1) \in Nat /\ (n - (k + 1)) + 1 = n - k OBVIOUS
    <2>2. p \in Nat \ {0} /\ Pow2[n - k] = 2 * p BY <2>1, Pow2Rec
    <2>3. BitAt(br, pos + k) = (v \div p) % 2
      <3>1. k + 1 \in 1 .. Len(PutBits(v, n)) /\ PutBits(v, n)[k + 1] = (v \div p) % 2
        BY DEF PutBits
      <3>2. pos + (k + 1) - 1 = pos + k OBVIOUS
      <3> QED BY <3>1, <3>2 DEF Written
    <2>4. Value(br, pos, k + 1) = 2 * Value(br, pos, k) + BitAt(br, pos + k) BY ValueRec
    <2>5. Value(br, pos, k) = v \div (2 * p) BY <1>2, <2>2
    <2> HIDE DEF p
    <2>6. v \div p = 2 * (v \div (2 * p)) + ((v \div p) % 2) BY <2>2, HalfQuotient
    <2> QED BY <2>3, <2>4, <2>5, <2>6 DEF p
  <1> HIDE DEF D
  <1>3. Nat \subseteq D BY <1>1, <1>2, NatInd
  <1>4. Value(br, pos, n) = v \div Pow2[n - n] BY <1>3 DEF D
  <1>5. Pow2[n - n] = 1 BY Pow2Rec
  <1> QED BY <1>4, <1>5

\* A leading one counts for its power of two.
LEMMA LeadingOne ==
  ASSUME NEW br \in Reader, NEW pos \in Nat, BitAt(br, pos) = 1
  PROVE  \A n \in Nat : Value(br, pos, n + 1) = Pow2[n] + Value(br, pos + 1, n)
  <1> DEFINE D == {n \in Nat : Value(br, pos, n + 1) = Pow2[n] + Value(br, pos + 1, n)}
  <1>1. 0 \in D
    <2>1. Value(br, pos, 0 + 1) = 2 * Value(br, pos, 0) + BitAt(br, pos + 0) BY ValueRec
    <2>2. Value(br, pos, 0) = 0 /\ Value(br, pos + 1, 0) = 0 /\ Pow2[0] = 1 /\ pos + 0 = pos
      BY ValueRec, Pow2Rec
    <2> QED BY <2>1, <2>2
  <1>2. ASSUME NEW n \in Nat, n \in D PROVE n + 1 \in D
    <2>1. pos + 1 \in Nat /\ n + 1 \in Nat /\ pos + (n + 1) = (pos + 1) + n OBVIOUS
    <2>2. Value(br, pos, (n + 1) + 1) = 2 * Value(br, pos, n + 1) + BitAt(br, pos + (n + 1))
      BY <2>1, ValueRec
    <2>3. Value(br, pos + 1, n + 1) = 2 * Value(br, pos + 1, n) + BitAt(br, (pos + 1) + n)
      BY <2>1, ValueRec
    <2>4. Pow2[n + 1] = 2 * Pow2[n] /\ Pow2[n] \in Nat /\ Value(br, pos + 1, n) \in Nat
      BY <2>1, Pow2Rec, ValueRec
    <2>5. BitAt(br, (pos + 1) + n) \in {0, 1} BY <2>1, BitType
    <2>6. Value(br, pos, n + 1) = Pow2[n] + Value(br, pos + 1, n) BY <1>2
    <2> QED BY <2>1, <2>2, <2>3, <2>4, <2>5, <2>6
  <1> HIDE DEF D
  <1>3. Nat \subseteq D BY <1>1, <1>2, NatInd
  <1> QED BY <1>3 DEF D

\* The width of a code is that of the number after it.
LEMMA WidthFacts ==
  ASSUME NEW v \in Nat \ {0}, v <= 2147483647
  PROVE  Width(v) \in 1 .. 31 /\ Pow2[Width(v) - 1] <= v /\ v < Pow2[Width(v)]
  <1> DEFINE D == {k \in Nat : v < Pow2[k] => \E j \in 1 .. k : Pow2[j - 1] <= v /\ v < Pow2[j]}
  <1>1. 0 \in D BY Pow2Rec
  <1>2. ASSUME NEW k \in Nat, k \in D PROVE k + 1 \in D
    <2> SUFFICES ASSUME v < Pow2[k + 1]
                 PROVE  \E j \in 1 .. k + 1 : Pow2[j - 1] <= v /\ v < Pow2[j]
      OBVIOUS
    <2>1. Pow2[k] \in Nat /\ Pow2[k + 1] \in Nat BY Pow2Rec
    <2>2. CASE v < Pow2[k]
      <3>1. PICK j \in 1 .. k : Pow2[j - 1] <= v /\ v < Pow2[j] BY <1>2, <2>2
      <3> QED BY <3>1
    <2>3. CASE Pow2[k] <= v
      <3>1. (k + 1) - 1 = k /\ k + 1 \in 1 .. k + 1 OBVIOUS
      <3> QED BY <2>3, <3>1
    <2> QED BY <2>1, <2>2, <2>3
  <1> HIDE DEF D
  <1>3. Nat \subseteq D BY <1>1, <1>2, NatInd
  <1>4. Pow2[31] = 2147483648
    <2>1. \A k \in Nat : Pow2[k + 1] = 2 * Pow2[k] BY Pow2Rec
    <2>2. /\ Pow2[7 + 1] = 2 * Pow2[7] /\ Pow2[8 + 1] = 2 * Pow2[8] /\ Pow2[9 + 1] = 2 * Pow2[9]
          /\ Pow2[10 + 1] = 2 * Pow2[10] /\ Pow2[11 + 1] = 2 * Pow2[11]
          /\ Pow2[12 + 1] = 2 * Pow2[12] /\ Pow2[13 + 1] = 2 * Pow2[13]
          /\ Pow2[14 + 1] = 2 * Pow2[14] /\ Pow2[15 + 1] = 2 * Pow2[15]
          /\ Pow2[16 + 1] = 2 * Pow2[16] /\ Pow2[17 + 1] = 2 * Pow2[17]
          /\ Pow2[18 + 1] = 2 * Pow2[18] /\ Pow2[19 + 1] = 2 * Pow2[19]
      BY <2>1
    <2>3. /\ Pow2[20 + 1] = 2 * Pow2[20] /\ Pow2[21 + 1] = 2 * Pow2[21]
          /\ Pow2[22 + 1] = 2 * Pow2[22] /\ Pow2[23 + 1] = 2 * Pow2[23]
          /\ Pow2[24 + 1] = 2 * Pow2[24] /\ Pow2[25 + 1] = 2 * Pow2[25]
          /\ Pow2[26 + 1] = 2 * Pow2[26] /\ Pow2[27 + 1] = 2 * Pow2[27]
          /\ Pow2[28 + 1] = 2 * Pow2[28] /\ Pow2[29 + 1] = 2 * Pow2[29]
          /\ Pow2[30 + 1] = 2 * Pow2[30]
      BY <2>1
    <2>4. Pow2[20] = 1048576 BY <2>2, Pow2Values
    <2> QED BY <2>3, <2>4
  <1>5. PICK j \in 1 .. 31 : Pow2[j - 1] <= v /\ v < Pow2[j] BY <1>3, <1>4 DEF D
  <1>6. \A k \in 1 .. 31 : (v < Pow2[k]) <=> (v \div 2 < Pow2[k - 1])
    <2> SUFFICES ASSUME NEW k \in 1 .. 31 PROVE (v < Pow2[k]) <=> (v \div 2 < Pow2[k - 1])
      OBVIOUS
    <2>1. k - 1 \in Nat /\ (k - 1) + 1 = k OBVIOUS
    <2>2. Pow2[k] = 2 * Pow2[k - 1] /\ Pow2[k - 1] \in Nat BY <2>1, Pow2Rec
    <2> QED BY <2>2
  <1> DEFINE W(k) == Pow2[k - 1] <= v /\ v \div 2 < Pow2[k - 1]
  <1>7. W(j) BY <1>5, <1>6
  <1>8. Width(v) = CHOOSE k \in 1 .. 31 : W(k) BY DEF Width
  <1> HIDE DEF W
  <1>9. Width(v) \in 1 .. 31 /\ W(Width(v)) BY <1>7, <1>8
  <1> QED BY <1>6, <1>9 DEF W

\* Bits of a number, and zeros, are bits.
LEMMA PutBitsType ==
  ASSUME NEW v \in Nat, NEW n \in Nat
  PROVE  /\ PutBits(v, n) \in Seq({0, 1}) /\ Len(PutBits(v, n)) = n
         /\ \A ix \in 1 .. n : PutBits(v, n)[ix] = (v \div Pow2[n - ix]) % 2
         /\ Zeros(n) \in Seq({0, 1}) /\ Len(Zeros(n)) = n /\ \A ix \in 1 .. n : Zeros(n)[ix] = 0
  <1>1. \A ix \in 1 .. n : (v \div Pow2[n - ix]) % 2 \in {0, 1}
    <2> SUFFICES ASSUME NEW ix \in 1 .. n PROVE (v \div Pow2[n - ix]) % 2 \in {0, 1} OBVIOUS
    <2>1. n - ix \in Nat OBVIOUS
    <2>2. Pow2[n - ix] \in Nat \ {0} BY <2>1, Pow2Rec
    <2>3. v \div Pow2[n - ix] \in Int BY <2>2
    <2> QED BY <2>3
  <1>2. PutBits(v, n) \in Seq({0, 1}) /\ Len(PutBits(v, n)) = n BY <1>1, IsASeq DEF PutBits
  <1>3. Zeros(n) \in Seq({0, 1}) /\ Len(Zeros(n)) = n BY IsASeq DEF Zeros
  <1> QED BY <1>2, <1>3 DEF PutBits, Zeros

\* What is written in two parts is one part and, behind it, the other.
LEMMA WrittenParts ==
  ASSUME NEW br, NEW pos \in Nat, NEW s \in Seq({0, 1}), NEW t \in Seq({0, 1}),
         Written(br, pos, s \o t)
  PROVE  Written(br, pos, s) /\ Written(br, pos + Len(s), t)
  <1> DEFINE m == Len(s)
             n == Len(t)
             w == s \o t
  <1>1. /\ m \in Nat /\ n \in Nat /\ Len(w) = m + n
        /\ \A ix \in 1 .. m : w[ix] = s[ix]
        /\ \A ix \in 1 .. n : w[m + ix] = t[ix]
    BY ConcatProperties, LenProperties
  <1>2. \A j \in 1 .. Len(w) : BitAt(br, pos + j - 1) = w[j] BY DEF Written
  <1> HIDE DEF m, n, w
  <1>3. \A j \in 1 .. m : BitAt(br, pos + j - 1) = s[j]
    <2> SUFFICES ASSUME NEW j \in 1 .. m PROVE BitAt(br, pos + j - 1) = s[j] OBVIOUS
    <2>1. j \in 1 .. Len(w) BY <1>1
    <2> QED BY <1>1, <1>2, <2>1
  <1>4. \A j \in 1 .. n : BitAt(br, (pos + m) + j - 1) = t[j]
    <2> SUFFICES ASSUME NEW j \in 1 .. n PROVE BitAt(br, (pos + m) + j - 1) = t[j] OBVIOUS
    <2>1. m + j \in 1 .. Len(w) /\ pos + (m + j) - 1 = (pos + m) + j - 1 BY <1>1
    <2> QED BY <1>1, <1>2, <2>1
  <1> QED BY <1>3, <1>4 DEF Written, m, n

\* An unsigned code: its bits, and how many.
LEMMA PutUeType ==
  ASSUME NEW v \in Codes
  PROVE  /\ Width(v + 1) \in 1 .. 31
         /\ PutUe(v) \in Seq({0, 1}) /\ Len(PutUe(v)) = 2 * Width(v + 1) - 1
  <1> DEFINE w == Width(v + 1)
  <1>1. w \in 1 .. 31 BY WidthFacts DEF Codes
  <1>2. w - 1 \in Nat /\ w \in Nat /\ v + 1 \in Nat BY <1>1 DEF Codes
  <1> HIDE DEF w
  <1>3. PutUe(v) = Zeros(w - 1) \o PutBits(v + 1, w) BY DEF PutUe, w
  <1>4. /\ Zeros(w - 1) \in Seq({0, 1}) /\ PutBits(v + 1, w) \in Seq({0, 1})
        /\ Len(Zeros(w - 1)) = w - 1 /\ Len(PutBits(v + 1, w)) = w
    BY <1>2, PutBitsType
  <1>5. PutUe(v) \in Seq({0, 1}) /\ Len(PutUe(v)) = (w - 1) + w
    BY <1>3, <1>4, ConcatProperties
  <1>6. Len(PutUe(v)) = 2 * w - 1 BY <1>2, <1>5
  <1> QED BY <1>1, <1>5, <1>6 DEF w

\* An unsigned Exp-Golomb code is read as the number it was written for, and reading
\* goes on right behind it: whatever number below 2^31 - 1, at any position.
THEOREM UeReadBack ==
  ASSUME NEW br \in Reader, NEW pos \in Nat, NEW v \in Codes, Written(br, pos, PutUe(v))
  PROVE  UeAt(br, pos) = v /\ 2 * LeadingZeros(br, pos) + 1 = Len(PutUe(v))
  <1> DEFINE w == Width(v + 1)
             x == v + 1
             z == LeadingZeros(br, pos)
  <1>1. w \in 1 .. 31 /\ Pow2[w - 1] <= x /\ x < Pow2[w] BY WidthFacts DEF Codes
  <1>2. w - 1 \in Nat /\ w \in Nat /\ x \in Nat /\ v \in Nat BY <1>1 DEF Codes
  <1>3. Len(PutUe(v)) = 2 * w - 1 BY PutUeType
  <1>4. PutUe(v) = Zeros(w - 1) \o PutBits(x, w) BY DEF PutUe
  <1> HIDE DEF w, x
  <1>5. /\ Zeros(w - 1) \in Seq({0, 1}) /\ PutBits(x, w) \in Seq({0, 1})
        /\ Len(Zeros(w - 1)) = w - 1 /\ Len(PutBits(x, w)) = w
        /\ \A ix \in 1 .. w - 1 : Zeros(w - 1)[ix] = 0
        /\ \A ix \in 1 .. w : PutBits(x, w)[ix] = (x \div Pow2[w - ix]) % 2
    BY <1>2, PutBitsType
  <1>6. Written(br, pos, Zeros(w - 1)) /\ Written(br, pos + (w - 1), PutBits(x, w))
    BY <1>4, <1>5, WrittenParts
  <1> DEFINE q == pos + (w - 1)
             p == Pow2[w - 1]
  <1>7. q \in Nat /\ q + 1 \in Nat BY <1>2
  <1>8. p \in Nat \ {0} /\ Pow2[w] = 2 * p
    <2>1. (w - 1) + 1 = w BY <1>2
    <2> QED BY <1>2, <2>1, Pow2Rec
  <1>9. BitAt(br, q) = 1
    <2>1. 1 \in 1 .. w /\ q + 1 - 1 = q BY <1>1, <1>7
    <2>2. BitAt(br, q) = PutBits(x, w)[1] BY <1>5, <1>6, <2>1 DEF Written
    <2>3. PutBits(x, w)[1] = (x \div p) % 2 BY <1>5, <2>1
    <2>4. p <= x /\ x < 2 * p BY <1>1, <1>8
    <2> HIDE DEF p
    <2>5. x \div p = 1 BY <1>2, <1>8, <2>4
    <2> QED BY <2>2, <2>3, <2>5
  <1>10. \A y \in Nat : y < w - 1 => BitAt(br, pos + y) = 0
    <2> SUFFICES ASSUME NEW y \in Nat, y < w - 1 PROVE BitAt(br, pos + y) = 0 OBVIOUS
    <2>1. y + 1 \in 1 .. w - 1 /\ pos + (y + 1) - 1 = pos + y BY <1>2
    <2> QED BY <1>5, <1>6, <2>1 DEF Written
  <1>11. z = w - 1
    <2>1. /\ z \in 0 .. 32
          /\ z = 32 \/ BitAt(br, pos + z) = 1
          /\ \A y \in 0 .. z - 1 : BitAt(br, pos + y) = 0
      BY LeadingZerosFacts
    <2> HIDE DEF z, q
    <2>2. z \in Nat BY <2>1
    <2>3. ~(z < w - 1)
      <3> SUFFICES ASSUME z < w - 1 PROVE FALSE OBVIOUS
      <3>1. BitAt(br, pos + z) = 0 /\ z # 32 BY <1>1, <1>10, <2>2
      <3> QED BY <2>1, <3>1
    <2>4. ~(w - 1 < z)
      <3> SUFFICES ASSUME w - 1 < z PROVE FALSE OBVIOUS
      <3>1. w - 1 \in 0 .. z - 1 BY <1>2, <2>2
      <3> QED BY <1>9, <2>1, <3>1 DEF q
    <2> QED BY <1>2, <2>2, <2>3, <2>4
  <1>12. Value(br, q, w) = x BY <1>1, <1>2, <1>6, <1>7, BitsReadBack
  <1>13. Value(br, q, (w - 1) + 1) = p + Value(br, q + 1, w - 1)
    <2> HIDE DEF q
    <2> QED BY <1>2, <1>7, <1>9, LeadingOne
  <1>14. UeAt(br, pos) = p - 1 + Value(br, q + 1, w - 1)
    <2>1. UeAt(br, pos) = IF z = 32 THEN br.past ELSE Pow2[z] - 1 + Value(br, pos + z + 1, z)
      BY DEF UeAt
    <2> HIDE DEF z
    <2>2. z # 32 /\ pos + z + 1 = q + 1 BY <1>1, <1>11
    <2> QED BY <1>11, <2>1, <2>2
  <1>15. (w - 1) + 1 = w BY <1>2
  <1>16. Value(br, q + 1, w - 1) \in Nat
    <2> HIDE DEF q
    <2> QED BY <1>2, <1>7, ValueRec
  <1>17. x = v + 1 BY DEF x
  <1> HIDE DEF q, p, z
  <1> QED BY <1>2, <1>3, <1>8, <1>11, <1>12, <1>13, <1>14, <1>15, <1>16, <1>17 DEF z

\* The same for a signed code.
THEOREM SeReadBack ==
  ASSUME NEW br \in Reader, NEW pos \in Nat, NEW v \in SignedCodes, Written(br, pos, PutSe(v))
  PROVE  SignedOf(UeAt(br, pos)) = v /\ 2 * LeadingZeros(br, pos) + 1 = Len(PutSe(v))
  <1>1. PICK c \in Codes : PutSe(v) = PutUe(c) /\ SignedOf(c) = v
    <2> DEFINE c == IF v <= 0 THEN 2 * (0 - v) ELSE 2 * v - 1
    <2>1. v \in Int /\ c \in Codes BY SMT DEF Codes, SignedCodes
    <2>2. PutSe(v) = PutUe(c)
      <3>1. v \in Int => -2 * v = 2 * (0 - v) BY SMT
      <3> QED BY <2>1, <3>1, SMT DEF PutSe
    <2>3. SignedOf(c) = v
      <3>1. CASE v <= 0 BY <2>1, <3>1, SMT DEF SignedOf
      <3>2. CASE ~(v <= 0) BY <2>1, <3>2, SMT DEF SignedOf
      <3> QED BY <3>1, <3>2
    <2> HIDE DEF c
    <2> QED BY <2>1, <2>2, <2>3
  <1>2. UeAt(br, pos) = c /\ 2 * LeadingZeros(br, pos) + 1 = Len(PutUe(c))
    BY <1>1, UeReadBack
  <1> QED BY <1>1, <1>2

\* The bits of a number are those it was made of; of eight it is a byte, and zero only
\* if they all are.
LEMMA NumberIsBits ==
  ASSUME NEW b \in Seq({0, 1})
  PROVE  /\ Number(b) \in Nat /\ Number(b) < Pow2[Len(b)]
         /\ \A j \in 1 .. Len(b) : (Number(b) \div Pow2[Len(b) - j]) % 2 = b[j]
  <1> DEFINE P(s) == /\ Number(s) \in Nat /\ Number(s) < Pow2[Len(s)]
                     /\ \A j \in 1 .. Len(s) : (Number(s) \div Pow2[Len(s) - j]) % 2 = s[j]
             D == {n \in Nat : \A s \in Seq({0, 1}) : Len(s) = n => P(s)}
  <1>1. 0 \in D
    <2> SUFFICES ASSUME NEW s \in Seq({0, 1}), Len(s) = 0 PROVE P(s) OBVIOUS
    <2>1. s = <<>> BY EmptySeq
    <2>2. Number(s) = 0 BY <2>1, NumberRec
    <2> QED BY <2>2, Pow2Rec
  <1>2. ASSUME NEW n \in Nat, n \in D PROVE n + 1 \in D
    <2> SUFFICES ASSUME NEW s \in Seq({0, 1}), Len(s) = n + 1 PROVE P(s) OBVIOUS
    <2> DEFINE c == SubSeq(s, 1, n)
               x == s[n + 1]
               p == Pow2[n]
    <2>1. /\ x \in {0, 1} /\ c \in Seq({0, 1}) /\ Len(c) = n /\ \A j \in 1 .. n : c[j] = s[j]
      <3>1. n + 1 \in 1 .. Len(s) OBVIOUS
      <3>2. x \in {0, 1} BY <3>1, ElementOfSeq
      <3>3. \A j \in 1 .. n : s[j] \in {0, 1} BY ElementOfSeq
      <3> QED BY <3>2, <3>3, SubSeqProperties
    <2>2. s = Append(c, x)
      <3>1. /\ Append(c, x) \in Seq({0, 1}) /\ Len(Append(c, x)) = n + 1
            /\ Append(c, x)[n + 1] = x /\ \A j \in 1 .. n : Append(c, x)[j] = c[j]
        BY <2>1, AppendProperties
      <3>2. \A j \in 1 .. Len(s) : s[j] = Append(c, x)[j]
        <4> SUFFICES ASSUME NEW j \in 1 .. n + 1 PROVE s[j] = Append(c, x)[j] OBVIOUS
        <4>1. CASE j = n + 1 BY <3>1, <4>1
        <4>2. CASE j \in 1 .. n BY <2>1, <3>1, <4>2
        <4> QED BY <4>1, <4>2
      <3> HIDE DEF c, x
      <3> QED BY <3>1, <3>2, SeqEqual
    <2>3. P(c) BY <1>2, <2>1
    <2> DEFINE N == Number(c)
               M == Number(s)
    <2>4. M = 2 * N + x BY <2>1, <2>2, NumberRec
    <2>5. N \in Nat /\ N < p /\ \A j \in 1 .. n : (N \div Pow2[n - j]) % 2 = s[j]
      BY <2>1, <2>3
    <2>6. p \in Nat /\ Pow2[n + 1] = 2 * p BY Pow2Rec
    <2> HIDE DEF N, M, c, x, p
    <2>7. M \in Nat /\ M < 2 * p BY <2>1, <2>4, <2>5, <2>6
    <2>8. \A j \in 1 .. n + 1 : (M \div Pow2[(n + 1) - j]) % 2 = s[j]
      <3> SUFFICES ASSUME NEW j \in 1 .. n + 1 PROVE (M \div Pow2[(n + 1) - j]) % 2 = s[j]
        OBVIOUS
      <3>1. CASE j = n + 1
        <4>1. (n + 1) - j = 0 /\ Pow2[0] = 1 BY <3>1, Pow2Rec
        <4>2. M % 2 = x BY <2>1, <2>4, <2>5
        <4> QED BY <2>7, <3>1, <4>1, <4>2 DEF x
      <3>2. CASE j \in 1 .. n
        <4> DEFINE q == Pow2[n - j]
        <4>1. n - j \in Nat /\ (n - j) + 1 = (n + 1) - j BY <3>2
        <4>2. q \in Nat \ {0} /\ Pow2[(n + 1) - j] = 2 * q BY <4>1, Pow2Rec
        <4>3. (N \div q) % 2 = s[j] BY <2>5, <3>2
        <4> HIDE DEF q
        <4>4. M \div (2 * q) = N \div q
          <5> DEFINE d == N \div q
          <5>1. d \in Int /\ q * d <= N /\ N < q * d + q BY <2>5, <4>2
          <5> HIDE DEF d
          <5>2. (2 * q) * d <= M /\ M < (2 * q) * d + 2 * q BY <2>1, <2>4, <2>5, <4>2, <5>1
          <5>3. M \div (2 * q) = d
            <6> DEFINE h == M \div (2 * q)
            <6>1. h \in Int /\ (2 * q) * h <= M /\ M < (2 * q) * h + 2 * q BY <2>7, <4>2
            <6> HIDE DEF h
            <6>2. ~(h + 1 <= d)
              <7> SUFFICES ASSUME h + 1 <= d PROVE FALSE OBVIOUS
              <7>1. (2 * q) * (h + 1) <= (2 * q) * d BY <4>2, <5>1, <6>1
              <7> QED BY <4>2, <5>1, <5>2, <6>1, <7>1, <2>7
            <6>3. ~(d + 1 <= h)
              <7> SUFFICES ASSUME d + 1 <= h PROVE FALSE OBVIOUS
              <7>1. (2 * q) * (d + 1) <= (2 * q) * h BY <4>2, <5>1, <6>1
              <7> QED BY <4>2, <5>1, <5>2, <6>1, <7>1, <2>7
            <6>4. h = d BY <5>1, <6>1, <6>2, <6>3
            <6> QED BY <6>4 DEF h
          <5> QED BY <5>3 DEF d
        <4> QED BY <4>2, <4>3, <4>4
      <3> QED BY <3>1, <3>2
    <2> QED BY <2>6, <2>7, <2>8 DEF M
  <1> HIDE DEF D
  <1>3. Nat \subseteq D BY <1>1, <1>2, NatInd
  <1>4. Len(b) \in Nat BY LenProperties
  <1>5. P(b) BY <1>3, <1>4 DEF D
  <1> QED BY <1>5

\* Eight bits are a byte; one of them is set in every byte but 0.
LEMMA ByteOfBits ==
  ASSUME NEW b \in Seq({0, 1}), Len(b) = 8
  PROVE  /\ Number(b) \in Byte
         /\ \A j \in 1 .. 8 : (Number(b) \div Pow2[8 - j]) % 2 = b[j]
         /\ (\E j \in 1 .. 8 : b[j] = 1) => Number(b) # 0
  <1>1. /\ Number(b) \in Nat /\ Number(b) < Pow2[8]
        /\ \A j \in 1 .. 8 : (Number(b) \div Pow2[8 - j]) % 2 = b[j]
    BY NumberIsBits
  <1>2. Pow2[8] = 256
    <2>1. Pow2[7 + 1] = 2 * Pow2[7] BY Pow2Rec
    <2> QED BY <2>1, Pow2Values
  <1>3. ASSUME Number(b) = 0, NEW j \in 1 .. 8 PROVE b[j] = 0
    <2>1. 8 - j \in Nat OBVIOUS
    <2>2. Pow2[8 - j] \in Nat \ {0} BY <2>1, Pow2Rec
    <2>3. (0 \div Pow2[8 - j]) % 2 = 0 BY <2>2
    <2> QED BY <1>1, <1>3, <2>3
  <1>4. Number(b) \in Byte
    <2>1. Number(b) < 256 BY <1>1, <1>2
    <2>2. \A m \in Nat : m < 256 => m \in Byte BY DEF Byte
    <2> QED BY <1>1, <2>1, <2>2
  <1> QED BY <1>1, <1>3, <1>4

\* The bytes of a NAL unit, and their bits: those behind the start code.
LEMMA BytesFacts ==
  ASSUME NEW bits \in Seq({0, 1}), Len(bits) >= 24
  PROVE  /\ Bytes(bits) \in Seq(Byte) /\ Len(Bytes(bits)) = Len(bits) \div 8 - 3
         /\ \A k \in 1 .. Len(Bytes(bits)), j \in 1 .. 8 :
              (Bytes(bits)[k] \div Pow2[8 - j]) % 2 = bits[8 * (k + 2) + j]
         /\ \A k \in 1 .. Len(Bytes(bits)) :
              (\E j \in 1 .. 8 : bits[8 * (k + 2) + j] = 1) => Bytes(bits)[k] # 0
  <1> DEFINE n == Len(bits) \div 8 - 3
             eight(k) == [j \in 1 .. 8 |-> bits[8 * (k + 2) + j]]
  <1>1. n \in Nat /\ Len(bits) \in Nat BY LenProperties
  <1>2. ASSUME NEW k \in 1 .. n PROVE eight(k) \in Seq({0, 1}) /\ Len(eight(k)) = 8
    <2>1. \A j \in 1 .. 8 : 8 * (k + 2) + j \in 1 .. Len(bits) BY <1>1
    <2>2. \A j \in 1 .. 8 : bits[8 * (k + 2) + j] \in {0, 1} BY <2>1, ElementOfSeq
    <2>3. eight(k) \in Seq({0, 1}) BY <2>2, IsASeq
    <2> QED BY <2>3
  <1>3. \A k : \A j \in 1 .. 8 : eight(k)[j] = bits[8 * (k + 2) + j] OBVIOUS
  <1>4. Bytes(bits) = [k \in 1 .. n |-> Number(eight(k))] BY DEF Bytes
  <1> HIDE DEF eight, n
  <1>5. \A k \in 1 .. n : Number(eight(k)) \in Byte BY <1>2, ByteOfBits
  <1> DEFINE B == Bytes(bits)
  <1>6. /\ B \in Seq(Byte) /\ Len(B) = n /\ \A k \in 1 .. n : B[k] = Number(eight(k))
    <2>1. [k \in 1 .. n |-> Number(eight(k))] \in Seq(Byte) BY <1>1, <1>5, IsASeq
    <2> QED BY <1>1, <1>4, <2>1
  <1> HIDE DEF B
  <1>7. ASSUME NEW k \in 1 .. n
        PROVE  /\ \A j \in 1 .. 8 : (B[k] \div Pow2[8 - j]) % 2 = bits[8 * (k + 2) + j]
               /\ (\E j \in 1 .. 8 : bits[8 * (k + 2) + j] = 1) => B[k] # 0
    <2>1. eight(k) \in Seq({0, 1}) /\ Len(eight(k)) = 8 BY <1>2
    <2>2. \A j \in 1 .. 8 : (Number(eight(k)) \div Pow2[8 - j]) % 2 = eight(k)[j]
      BY <2>1, ByteOfBits
    <2>3. (\E j \in 1 .. 8 : eight(k)[j] = 1) => Number(eight(k)) # 0 BY <2>1, ByteOfBits
    <2> QED BY <1>3, <1>6, <2>2, <2>3
  <1> QED BY <1>6, <1>7 DEF B, n

------------------------------------------------------------------------------
(* Headers as bits.                                                          *)

Bits == Seq({0, 1})

\* The bits of an SPS and of a PPS, up to the stop bit.
SpsText == SpsHead(pic.sps) \o PocFields \o SpsTail(pic.sps)
PpsText == PpsHead(pic.pps) \o SliceGroups \o PpsTail(pic.pps)

\* w begins with h.
Begins(w, h) == /\ w \in Bits /\ Len(h) <= Len(w)
                /\ \A j \in 1 .. Len(h) : w[j] = h[j]

\* Bits and more bits are bits.
LEMMA MoreBits ==
  ASSUME NEW s \in Bits, NEW t \in Bits
  PROVE  /\ s \o t \in Bits /\ Len(s \o t) = Len(s) + Len(t)
         /\ Len(s) \in Nat /\ Len(t) \in Nat
  BY ConcatProperties, LenProperties DEF Bits

\* What is where in two sequences, one behind the other.
LEMMA CatAt ==
  ASSUME NEW S, NEW s \in Seq(S), NEW t \in Seq(S)
  PROVE  /\ s \o t \in Seq(S) /\ Len(s \o t) = Len(s) + Len(t)
         /\ Len(s) \in Nat /\ Len(t) \in Nat
         /\ \A k \in 1 .. Len(s) : (s \o t)[k] = s[k]
         /\ \A k \in 1 .. Len(t) : (s \o t)[Len(s) + k] = t[k]
  <1> DEFINE w == s \o t
             m == Len(s)
             n == Len(t)
  <1>1. /\ w \in Seq(S) /\ Len(w) = m + n /\ m \in Nat /\ n \in Nat
        /\ \A k \in 1 .. m + n : w[k] = IF k <= m THEN s[k] ELSE t[k - m]
    BY ConcatProperties, LenProperties
  <1> HIDE DEF w, m, n
  <1>2. \A k \in 1 .. m : w[k] = s[k] BY <1>1
  <1>3. ASSUME NEW k \in 1 .. n PROVE w[m + k] = t[k]
    <2>1. m + k \in 1 .. m + n /\ ~(m + k <= m) /\ (m + k) - m = k BY <1>1
    <2> QED BY <1>1, <2>1
  <1> QED BY <1>1, <1>2, <1>3 DEF w, m, n

\* Which bits they are.
LEMMA WhichBits ==
  ASSUME NEW s \in Bits, NEW t \in Bits
  PROVE  /\ \A k \in 1 .. Len(s) : (s \o t)[k] = s[k]
         /\ \A k \in 1 .. Len(t) : (s \o t)[Len(s) + k] = t[k]
  BY CatAt DEF Bits

\* They begin as the first did.
LEMMA StillBegins ==
  ASSUME NEW s \in Bits, NEW t \in Bits, NEW h, Len(h) \in Nat, Begins(s, h)
  PROVE  Begins(s \o t, h)
  <1> DEFINE w == s \o t
  <1>1. /\ w \in Bits /\ Len(w) = Len(s) + Len(t) /\ Len(s) \in Nat /\ Len(t) \in Nat
        /\ \A j \in 1 .. Len(s) : w[j] = s[j]
    BY MoreBits, WhichBits
  <1> HIDE DEF w
  <1>2. Len(h) <= Len(s) /\ \A j \in 1 .. Len(h) : s[j] = h[j] BY DEF Begins
  <1>3. \A j \in 1 .. Len(h) : w[j] = h[j]
    <2> SUFFICES ASSUME NEW j \in 1 .. Len(h) PROVE w[j] = h[j] OBVIOUS
    <2>1. j \in 1 .. Len(s) BY <1>1, <1>2
    <2> QED BY <1>1, <1>2, <2>1
  <1>4. Begins(w, h) BY <1>1, <1>2, <1>3 DEF Begins
  <1> QED BY <1>4 DEF w

\* A code is bits, and so is what else is written.
LEMMA CodesAreBits ==
  /\ \A v \in Codes : PutUe(v) \in Bits
  /\ \A v \in SignedCodes : PutSe(v) \in Bits
  /\ \A v, n \in Nat : PutBits(v, n) \in Bits
  /\ \A n \in Nat : Zeros(n) \in Bits
  <1>1. \A v \in Codes : PutUe(v) \in Bits BY PutUeType DEF Bits
  <1>2. ASSUME NEW v \in SignedCodes PROVE PutSe(v) \in Bits
    <2> DEFINE c == IF v <= 0 THEN 2 * (0 - v) ELSE 2 * v - 1
    <2>1. v \in Int /\ c \in Codes BY SMT DEF Codes, SignedCodes
    <2>2. PutSe(v) = PutUe(c)
      <3>1. v \in Int => -2 * v = 2 * (0 - v) BY SMT
      <3> QED BY <2>1, <3>1, SMT DEF PutSe
    <2> HIDE DEF c
    <2> QED BY <1>1, <2>1, <2>2
  <1>3. \A v, n \in Nat : PutBits(v, n) \in Bits BY PutBitsType DEF Bits
  <1>4. \A n \in Nat : Zeros(n) \in Bits
    <2> SUFFICES ASSUME NEW n \in Nat PROVE Zeros(n) \in Bits OBVIOUS
    <2>1. 0 \in Nat OBVIOUS
    <2> QED BY <2>1, PutBitsType DEF Bits
  <1> QED BY <1>1, <1>2, <1>3, <1>4

\* Start code and header: 32 bits, and the header byte says what it was given.
LEMMA StartFacts ==
  ASSUME NEW ref \in 0 .. 3, NEW type \in 0 .. 31
  PROVE  LET h == StartCodeAndNalHeader(ref, type)
         IN  /\ h \in Bits /\ Len(h) = 32 /\ h[25] = 0
             /\ h[26] = (ref \div 2) % 2 /\ h[27] = ref % 2
             /\ \A j \in 1 .. 5 : h[27 + j] = (type \div Pow2[5 - j]) % 2
  <1> DEFINE a == PutBits(1, 24)
             z == <<0>>
             b == PutBits(ref, 2)
             c == PutBits(type, 5)
             az == a \o z
             azb == az \o b
             h == azb \o c
  <1>1. /\ a \in Bits /\ Len(a) = 24 /\ b \in Bits /\ Len(b) = 2 /\ c \in Bits /\ Len(c) = 5
        /\ b[1] = (ref \div Pow2[2 - 1]) % 2 /\ b[2] = (ref \div Pow2[2 - 2]) % 2
        /\ \A j \in 1 .. 5 : c[j] = (type \div Pow2[5 - j]) % 2
    <2>1. /\ 1 \in Nat /\ 24 \in Nat /\ ref \in Nat /\ 2 \in Nat /\ type \in Nat /\ 5 \in Nat
          /\ 1 \in 1 .. 2 /\ 2 \in 1 .. 2
      OBVIOUS
    <2>2. a \in Bits /\ Len(a) = 24 BY <2>1, PutBitsType DEF Bits
    <2>3. /\ b \in Bits /\ Len(b) = 2 /\ \A k \in 1 .. 2 : b[k] = (ref \div Pow2[2 - k]) % 2
      BY <2>1, PutBitsType DEF Bits
    <2>4. /\ c \in Bits /\ Len(c) = 5 /\ \A k \in 1 .. 5 : c[k] = (type \div Pow2[5 - k]) % 2
      BY <2>1, PutBitsType DEF Bits
    <2> HIDE DEF a, b, c
    <2> QED BY <2>1, <2>2, <2>3, <2>4
  <1>2. z \in Bits /\ Len(z) = 1 /\ z[1] = 0 BY DEF Bits
  <1>3. StartCodeAndNalHeader(ref, type) = h BY DEF StartCodeAndNalHeader
  <1> HIDE DEF a, z, b, c
  <1>4. az \in Bits /\ Len(az) = 25 /\ az[24 + 1] = z[1]
    <2>1. 1 \in 1 .. Len(z) BY <1>2
    <2>2. az \in Bits /\ Len(az) = 25
      <3>1. a \in Bits /\ Len(a) = 24 /\ z \in Bits /\ Len(z) = 1 BY <1>1, <1>2
      <3>2. az \in Bits /\ Len(az) = Len(a) + Len(z) BY <3>1, MoreBits
      <3> QED BY <3>1, <3>2
    <2>3. az[Len(a) + 1] = z[1] BY <1>1, <1>2, <2>1, WhichBits
    <2>4. Len(a) + 1 = 24 + 1 BY <1>1
    <2> QED BY <2>2, <2>3, <2>4
  <1> HIDE DEF az
  <1>5. /\ azb \in Bits /\ Len(azb) = 27 /\ azb[25] = az[25]
        /\ azb[25 + 1] = b[1] /\ azb[25 + 2] = b[2]
    <2>1. 1 \in 1 .. Len(b) /\ 2 \in 1 .. Len(b) /\ 25 \in 1 .. Len(az) BY <1>1, <1>4
    <2>2. azb \in Bits /\ Len(azb) = 27
      <3>1. az \in Bits /\ Len(az) = 25 /\ b \in Bits /\ Len(b) = 2 BY <1>1, <1>4
      <3>2. azb \in Bits /\ Len(azb) = Len(az) + Len(b) BY <3>1, MoreBits
      <3> QED BY <3>1, <3>2
    <2>3. azb[25] = az[25] /\ azb[Len(az) + 1] = b[1] /\ azb[Len(az) + 2] = b[2]
      BY <1>1, <1>4, <2>1, WhichBits
    <2>4. Len(az) + 1 = 25 + 1 /\ Len(az) + 2 = 25 + 2 BY <1>4
    <2> QED BY <2>2, <2>3, <2>4
  <1> HIDE DEF azb
  <1>6. /\ h \in Bits /\ Len(h) = 32 /\ h[25] = azb[25] /\ h[26] = azb[26] /\ h[27] = azb[27]
        /\ \A j \in 1 .. 5 : h[27 + j] = c[j]
    <2>1. 25 \in 1 .. Len(azb) /\ 26 \in 1 .. Len(azb) /\ 27 \in 1 .. Len(azb) BY <1>5
    <2>2. 1 .. Len(c) = 1 .. 5 BY <1>1
    <2>3. h \in Bits /\ Len(h) = 32
      <3>1. azb \in Bits /\ Len(azb) = 27 /\ c \in Bits /\ Len(c) = 5 BY <1>1, <1>5
      <3>2. h \in Bits /\ Len(h) = Len(azb) + Len(c) BY <3>1, MoreBits
      <3> QED BY <3>1, <3>2
    <2>4. h[25] = azb[25] /\ h[26] = azb[26] /\ h[27] = azb[27]
      BY <1>1, <1>5, <2>1, WhichBits
    <2>5. \A j \in 1 .. Len(c) : h[Len(azb) + j] = c[j] BY <1>1, <1>5, WhichBits
    <2>6. Len(azb) = 27 BY <1>5
    <2> QED BY <2>2, <2>3, <2>4, <2>5, <2>6
  <1> HIDE DEF h
  <1>7. ref \div Pow2[2 - 1] = ref \div 2 /\ ref \div Pow2[2 - 2] = ref
    <2>1. Pow2[2 - 1] = 2 /\ Pow2[2 - 2] = 1 BY Pow2Values
    <2> QED BY <2>1
  <1> QED BY <1>1, <1>2, <1>3, <1>4, <1>5, <1>6, <1>7

\* The stop bit: whole bytes, of which the last is not 0.
LEMMA TrailingFacts ==
  ASSUME NEW b \in Bits
  PROVE  LET t == TrailingBits(b)
         IN  /\ t \in Bits /\ Len(t) = 8 * (Len(b) \div 8) + 8
             /\ t[Len(b) + 1] = 1
             /\ \A h : Len(h) \in Nat /\ Begins(b, h) => Begins(t, h)
  <1> DEFINE n == Len(b)
             one == <<1>>
             z == Zeros(7 - (n % 8))
             c == b \o one
             t == c \o z
  <1>1. n \in Nat /\ 7 - (n % 8) \in Nat BY LenProperties DEF Bits
  <1>2. z \in Bits /\ Len(z) = 7 - (n % 8)
    <2> DEFINE k == 7 - (n % 8)
    <2>1. k \in Nat /\ 0 \in Nat BY <1>1
    <2> HIDE DEF k
    <2>2. Zeros(k) \in Seq({0, 1}) /\ Len(Zeros(k)) = k BY <2>1, PutBitsType
    <2> QED BY <2>2 DEF k, Bits
  <1>3. one \in Bits /\ Len(one) = 1 /\ one[1] = 1 BY DEF Bits
  <1>4. TrailingBits(b) = t BY DEF TrailingBits
  <1> HIDE DEF one, z, n
  <1>5. /\ c \in Bits /\ Len(c) = n + 1 /\ c[n + 1] = 1
        /\ \A h : Len(h) \in Nat /\ Begins(b, h) => Begins(c, h)
    <2>1. 1 \in 1 .. Len(one) BY <1>3
    <2>2. c[n + 1] = one[1] BY <1>3, <2>1, WhichBits DEF n
    <2>3. c \in Bits /\ Len(c) = n + 1 BY <1>3, MoreBits DEF n
    <2> QED BY <1>3, <2>2, <2>3, StillBegins
  <1> HIDE DEF c
  <1>6. /\ t \in Bits /\ Len(t) = (n + 1) + (7 - (n % 8)) /\ t[n + 1] = 1
        /\ \A h : Len(h) \in Nat /\ Begins(b, h) => Begins(t, h)
    <2>1. n + 1 \in 1 .. Len(c) BY <1>1, <1>5
    <2>2. t[n + 1] = c[n + 1] BY <1>2, <1>5, <2>1, WhichBits
    <2>3. t \in Bits /\ Len(t) = (n + 1) + (7 - (n % 8)) BY <1>2, <1>5, MoreBits
    <2> QED BY <1>2, <1>5, <2>2, <2>3, StillBegins
  <1>7. (n + 1) + (7 - (n % 8)) = 8 * (n \div 8) + 8 BY <1>1
  <1> QED BY <1>4, <1>6, <1>7 DEF n

\* The header byte is what the header was given.
LEMMA HeaderByte ==
  ASSUME NEW ref \in 0 .. 3, NEW type \in 0 .. 31, NEW w,
         Begins(w, StartCodeAndNalHeader(ref, type))
  PROVE  Len(Bytes(w)) >= 1 /\ Bytes(w)[1] = 32 * ref + type
  <1> DEFINE h == StartCodeAndNalHeader(ref, type)
             b == Bytes(w)[1]
  <1>1. /\ h \in Bits /\ Len(h) = 32 /\ h[25] = 0
        /\ h[26] = (ref \div 2) % 2 /\ h[27] = ref % 2
        /\ \A j \in 1 .. 5 : h[27 + j] = (type \div Pow2[5 - j]) % 2
    BY StartFacts
  <1>2. w \in Seq({0, 1}) /\ Len(w) >= 32 /\ \A j \in 1 .. 32 : w[j] = h[j]
    BY <1>1 DEF Begins, Bits
  <1> HIDE DEF h
  <1>3. Len(w) \in Nat /\ Len(w) >= 24
    <2>1. Len(w) \in Nat BY <1>2, LenProperties
    <2>2. Len(w) >= 32 BY <1>2
    <2> QED BY <2>1, <2>2
  <1>4. /\ Bytes(w) \in Seq(Byte) /\ Len(Bytes(w)) = Len(w) \div 8 - 3
        /\ \A k \in 1 .. Len(Bytes(w)), j \in 1 .. 8 :
             (Bytes(w)[k] \div Pow2[8 - j]) % 2 = w[8 * (k + 2) + j]
    BY <1>2, <1>3, BytesFacts
  <1>5. Len(Bytes(w)) >= 1 /\ 1 \in 1 .. Len(Bytes(w))
    <2>1. \A m \in Nat : m >= 32 => m \div 8 - 3 >= 1 OBVIOUS
    <2>2. Len(Bytes(w)) >= 1 BY <1>2, <1>3, <1>4, <2>1
    <2>3. Len(Bytes(w)) \in Nat BY <1>4, LenProperties
    <2> QED BY <2>2, <2>3
  <1>6. b \in 0 .. 255 BY <1>4, <1>5, ElementOfSeq DEF Byte
  <1>7. \A j \in 1 .. 8 : (b \div Pow2[8 - j]) % 2 = h[24 + j]
    <2> SUFFICES ASSUME NEW j \in 1 .. 8 PROVE (b \div Pow2[8 - j]) % 2 = h[24 + j] OBVIOUS
    <2>1. 8 * (1 + 2) + j = 24 + j /\ 24 + j \in 1 .. 32 OBVIOUS
    <2>2. (b \div Pow2[8 - j]) % 2 = w[8 * (1 + 2) + j] BY <1>4, <1>5
    <2> QED BY <1>2, <2>1, <2>2
  <1> HIDE DEF b
  <1>8. /\ (b \div Pow2[8 - 1]) % 2 = h[24 + 1] /\ (b \div Pow2[8 - 2]) % 2 = h[24 + 2]
        /\ (b \div Pow2[8 - 3]) % 2 = h[24 + 3] /\ (b \div Pow2[8 - 4]) % 2 = h[24 + 4]
        /\ (b \div Pow2[8 - 5]) % 2 = h[24 + 5] /\ (b \div Pow2[8 - 6]) % 2 = h[24 + 6]
        /\ (b \div Pow2[8 - 7]) % 2 = h[24 + 7] /\ (b \div Pow2[8 - 8]) % 2 = h[24 + 8]
    BY <1>7
  <1>9. /\ h[27 + 1] = (type \div Pow2[5 - 1]) % 2 /\ h[27 + 2] = (type \div Pow2[5 - 2]) % 2
        /\ h[27 + 3] = (type \div Pow2[5 - 3]) % 2 /\ h[27 + 4] = (type \div Pow2[5 - 4]) % 2
        /\ h[27 + 5] = (type \div Pow2[5 - 5]) % 2
    BY <1>1
  <1>10. /\ (b \div 128) % 2 = 0 /\ (b \div 64) % 2 = (ref \div 2) % 2
         /\ (b \div 32) % 2 = ref % 2
    BY <1>1, <1>8, Pow2Values
  <1>11. /\ (b \div 16) % 2 = (type \div 16) % 2 /\ (b \div 8) % 2 = (type \div 8) % 2
         /\ (b \div 4) % 2 = (type \div 4) % 2 /\ (b \div 2) % 2 = (type \div 2) % 2
         /\ (b \div 1) % 2 = (type \div 1) % 2
    BY <1>8, <1>9, Pow2Values
  <1>12. b = 32 * ref + type
    <2>1. b \div 32 = ref BY <1>6, <1>10
    <2>2. b % 32 = type BY <1>6, <1>11
    <2> QED BY <1>6, <2>1, <2>2
  <1> QED BY <1>5, <1>12 DEF b

\* The last byte of whole bytes with a bit set in it is not 0.
LEMMA LastByte ==
  ASSUME NEW b \in Bits, Len(b) >= 24
  PROVE  LET t == Bytes(TrailingBits(b)) IN Len(t) = Len(b) \div 8 - 2 /\ t[Len(t)] # 0
  <1> DEFINE w == TrailingBits(b)
             t == Bytes(w)
             n == Len(b)
  <1>1. w \in Bits /\ Len(w) = 8 * (n \div 8) + 8 /\ w[n + 1] = 1 BY TrailingFacts
  <1>2. n \in Nat /\ n >= 24 BY LenProperties DEF Bits
  <1> HIDE DEF w, n
  <1>3. Len(w) >= 24 BY <1>1, <1>2
  <1>4. /\ Len(t) = Len(w) \div 8 - 3
        /\ \A k \in 1 .. Len(t) : (\E j \in 1 .. 8 : w[8 * (k + 2) + j] = 1) => t[k] # 0
    BY <1>1, <1>3, BytesFacts DEF Bits
  <1>5. Len(t) = n \div 8 - 2 BY <1>1, <1>2, <1>4
  <1> HIDE DEF t
  <1>6. Len(t) \in 1 .. Len(t) BY <1>2, <1>5
  <1>7. (n % 8) + 1 \in 1 .. 8 /\ 8 * (Len(t) + 2) + ((n % 8) + 1) = n + 1 BY <1>2, <1>5
  <1>8. t[Len(t)] # 0
    <2>1. w[8 * (Len(t) + 2) + ((n % 8) + 1)] = 1 BY <1>1, <1>7
    <2> QED BY <1>4, <1>6, <1>7, <2>1
  <1> QED BY <1>5, <1>8 DEF t, w, n

\* Escape leaves the first and the last byte where they are.
LEMMA EscapeEnds ==
  ASSUME NEW b \in Seq(Byte), Len(b) > 0
  PROVE  LET e == Escape(b)
         IN  e \in Seq(Byte) /\ Len(e) >= Len(b) /\ e[1] = b[1] /\ e[Len(e)] = b[Len(b)]
  <1> DEFINE n == Len(b)
             e == Escape(b)
  <1>1. n \in Nat /\ n > 0 BY LenProperties
  <1>2. PICK f : /\ f \in [Nat -> Seq(Byte)] /\ f[0] = <<>> /\ e = f[n]
                 /\ \A k \in 0 .. n - 1 :
                      f[k + 1] = IF b[k + 1] <= 3 /\ EndsInZeros(f[k])
                                 THEN Append(Append(f[k], 3), b[k + 1])
                                 ELSE Append(f[k], b[k + 1])
    BY EscapeRec
  <1> HIDE DEF e, n
  <1> DEFINE P(k) == /\ Len(f[k]) \in Nat /\ Len(f[k]) >= k
                     /\ k > 0 => f[k][1] = b[1] /\ f[k][Len(f[k])] = b[k]
             D == {k \in Nat : k <= n => P(k)}
  <1>3. 0 \in D BY <1>2
  <1>4. ASSUME NEW k \in Nat, k \in D PROVE k + 1 \in D
    <2> SUFFICES ASSUME k + 1 <= n PROVE P(k + 1) OBVIOUS
    <2> DEFINE d == f[k]
               x == b[k + 1]
               g == f[k + 1]
    <2>1. P(k) /\ k \in 0 .. n - 1 /\ k + 1 \in 1 .. n BY <1>1, <1>4
    <2>2. x \in Byte BY <2>1, ElementOfSeq DEF n
    <2>3. d \in Seq(Byte) /\ Len(d) \in Nat /\ Len(d) >= k BY <1>2, <2>1
    <2>4. g = IF x <= 3 /\ EndsInZeros(d) THEN Append(Append(d, 3), x) ELSE Append(d, x)
      BY <1>2, <2>1
    <2>5. k > 0 => d[1] = b[1] BY <2>1
    <2> HIDE DEF d, x, g
    <2>6. 3 \in Byte BY DEF Byte
    <2>7. CASE x <= 3 /\ EndsInZeros(d)
      <3> DEFINE a == Append(d, 3)
      <3>1. /\ a \in Seq(Byte) /\ Len(a) = Len(d) + 1 /\ \A m \in 1 .. Len(d) : a[m] = d[m]
        BY <2>3, <2>6, AppendProperties
      <3> HIDE DEF a
      <3>2. g = Append(a, x) BY <2>4, <2>7 DEF a
      <3>3. /\ Len(g) = Len(a) + 1 /\ g[Len(a) + 1] = x /\ \A m \in 1 .. Len(a) : g[m] = a[m]
        BY <2>2, <3>1, <3>2, AppendProperties
      <3>4. k > 0
        <4> SUFFICES ASSUME k = 0 PROVE FALSE OBVIOUS
        <4>1. d = <<>> BY <1>2 DEF d
        <4> QED BY <2>7, <4>1 DEF EndsInZeros
      <3>5. 1 \in 1 .. Len(d) /\ 1 \in 1 .. Len(a) BY <2>3, <3>1, <3>4
      <3>6. g[1] = b[1] BY <2>5, <3>1, <3>3, <3>4, <3>5
      <3>7. Len(g) \in Nat /\ Len(g) >= k + 1 /\ g[Len(g)] = x BY <2>3, <3>1, <3>3
      <3> QED BY <3>6, <3>7 DEF g, x
    <2>8. CASE ~(x <= 3 /\ EndsInZeros(d))
      <3>1. g = Append(d, x) BY <2>4, <2>8
      <3>2. /\ Len(g) = Len(d) + 1 /\ g[Len(d) + 1] = x /\ \A m \in 1 .. Len(d) : g[m] = d[m]
        BY <2>2, <2>3, <3>1, AppendProperties
      <3>3. Len(g) \in Nat /\ Len(g) >= k + 1 /\ g[Len(g)] = x BY <2>3, <3>2
      <3>4. g[1] = b[1]
        <4>1. CASE k = 0
          <5>1. d = <<>> BY <1>2, <4>1 DEF d
          <5>2. Len(d) + 1 = 1 /\ x = b[1] BY <4>1, <5>1 DEF x
          <5> QED BY <3>2, <5>2
        <4>2. CASE k > 0
          <5>1. 1 \in 1 .. Len(d) BY <2>3, <4>2
          <5> QED BY <2>5, <3>2, <4>2, <5>1
        <4> QED BY <4>1, <4>2
      <3> QED BY <3>3, <3>4 DEF g, x
    <2> QED BY <2>7, <2>8
  <1> HIDE DEF D
  <1>5. Nat \subseteq D BY <1>3, <1>4, NatInd
  <1>6. P(n) BY <1>1, <1>5 DEF D
  <1> QED BY <1>1, <1>2, <1>6 DEF e, n

\* What is written for a picture begins with its start code and header.
LEMMA HeadersBegin ==
  ASSUME PictureFields(pic)
  PROVE  /\ SpsBits = TrailingBits(SpsText) /\ Begins(SpsText, StartCodeAndNalHeader(3, 7))
         /\ PpsBits = TrailingBits(PpsText) /\ Begins(PpsText, StartCodeAndNalHeader(3, 8))
         /\ Begins(SliceBits, StartCodeAndNalHeader(3, 5))
         /\ pic.data \in Bits
  <1> DEFINE s == pic.sps
             p == pic.pps
             h == pic.slice
  <1>1. SpsFields(s) /\ PpsFields(p) /\ SliceFields(s, h) BY DEF PictureFields
  <1>2. /\ pic.pocLog2 \in Codes /\ pic.groups \in Codes /\ pic.pocLsb \in Nat /\ pic.data \in Bits
        /\ s.log2 \in Codes
    <2>1. \A m \in 0 .. 12 : m \in Codes BY SMT DEF Codes
    <2>2. /\ pic.pocLog2 \in 0 .. 12 /\ pic.groups \in Codes /\ pic.pocLsb \in Nat
          /\ pic.data \in Bits
      BY DEF PictureFields, Bits
    <2>3. s.log2 \in 0 .. 12 BY <1>1 DEF SpsFields
    <2> QED BY <2>1, <2>2, <2>3
  <1> HIDE DEF s, p, h
  <1>3. \A v \in Codes : v \in Nat BY DEF Codes
  <1>4. 0 \in Codes /\ 0 \in SignedCodes BY SMT DEF Codes, SignedCodes
  <1>5. /\ \A v \in Codes : PutUe(v) \in Bits
        /\ \A v \in SignedCodes : PutSe(v) \in Bits
        /\ \A v, n \in Nat : PutBits(v, n) \in Bits
        /\ \A n \in Nat : Zeros(n) \in Bits
    BY CodesAreBits
  <1>6. \A u, v \in Bits : u \o v \in Bits BY MoreBits
  <1>7. /\ <<>> \in Bits /\ <<0>> \in Bits /\ <<1, 1, 0, 0>> \in Bits BY DEF Bits
  <1>8. ASSUME NEW ref \in 0 .. 3, NEW type \in 0 .. 31
        PROVE  LET c == StartCodeAndNalHeader(ref, type)
               IN  /\ Begins(c, c)
                   /\ \A u, v : Begins(u, c) /\ v \in Bits => Begins(u \o v, c)
    <2> DEFINE c == StartCodeAndNalHeader(ref, type)
    <2>1. c \in Bits /\ Len(c) = 32 BY StartFacts
    <2> HIDE DEF c
    <2>2. Begins(c, c) BY <2>1 DEF Begins
    <2>3. ASSUME NEW u, NEW v, Begins(u, c), v \in Bits PROVE Begins(u \o v, c)
      <3>1. u \in Bits /\ Len(c) \in Nat BY <2>1, <2>3 DEF Begins
      <3> QED BY <2>3, <3>1, StillBegins
    <2> QED BY <2>2, <2>3 DEF c
  <1>9. SpsBits = TrailingBits(SpsText) /\ Begins(SpsText, StartCodeAndNalHeader(3, 7))
    <2> DEFINE c == StartCodeAndNalHeader(3, 7)
    <2>1. Begins(c, c) /\ \A u, v : Begins(u, c) /\ v \in Bits => Begins(u \o v, c) BY <1>8
    <2> HIDE DEF c
    <2>2. /\ s.level \in Nat /\ s.mbsOnly \in {0, 1} /\ s.id \in Codes /\ s.log2 \in Codes
          /\ s.poc \in Codes /\ s.refs \in Codes /\ s.width - 1 \in Codes /\ s.height - 1 \in Codes
          /\ s.crop \in Seq(Codes) /\ Len(s.crop) \in {0, 4}
      <3>1. /\ s.level \in 0 .. 255 /\ s.mbsOnly \in {0, 1}
            /\ {s.id, s.poc, s.refs, s.width - 1, s.height - 1} \subseteq Codes
            /\ s.crop \in Seq(Codes) /\ Len(s.crop) \in {0, 4}
        BY <1>1 DEF SpsFields
      <3>2. \A m \in 0 .. 255 : m \in Nat OBVIOUS
      <3> QED BY <1>2, <3>1, <3>2
    <2>3. Begins(SpsHead(s), c)
      <3>1. Begins(c \o PutBits(66, 8) \o <<1, 1, 0, 0>> \o Zeros(4), c)
        BY <1>5, <1>7, <2>1
      <3>2. PutBits(s.level, 8) \in Bits /\ PutUe(s.id) \in Bits /\ PutUe(s.log2) \in Bits
            /\ PutUe(s.poc) \in Bits
        BY <1>5, <2>2
      <3> QED BY <2>1, <3>1, <3>2 DEF SpsHead, c
    <2>4. SpsTail(s) \in Bits
      <3> DEFINE flags == <<s.mbsOnly, 1, IF s.crop = <<>> THEN 0 ELSE 1>>
                 crop == IF s.crop = <<>> THEN <<>>
                         ELSE PutUe(s.crop[1]) \o PutUe(s.crop[2]) \o PutUe(s.crop[3])
                              \o PutUe(s.crop[4])
      <3>1. flags \in Bits BY <2>2 DEF Bits
      <3>2. crop \in Bits
        <4>1. CASE s.crop = <<>> BY <1>7, <4>1
        <4>2. CASE s.crop # <<>>
          <5>1. Len(s.crop) = 4 BY <2>2, <4>2, EmptySeq
          <5>2. /\ s.crop[1] \in Codes /\ s.crop[2] \in Codes
                /\ s.crop[3] \in Codes /\ s.crop[4] \in Codes
            BY <2>2, <5>1, ElementOfSeq
          <5>3. /\ PutUe(s.crop[1]) \in Bits /\ PutUe(s.crop[2]) \in Bits
                /\ PutUe(s.crop[3]) \in Bits /\ PutUe(s.crop[4]) \in Bits
            BY <1>5, <5>2
          <5> QED BY <1>6, <4>2, <5>3
        <4> QED BY <4>1, <4>2
      <3>3. /\ PutUe(s.refs) \in Bits /\ PutUe(s.width - 1) \in Bits /\ PutUe(s.height - 1) \in Bits
        BY <1>5, <2>2
      <3>4. SpsTail(s) = PutUe(s.refs) \o <<0>> \o PutUe(s.width - 1) \o PutUe(s.height - 1)
                         \o flags \o crop \o <<0>>
        BY DEF SpsTail
      <3> HIDE DEF flags, crop
      <3>5. PutUe(s.refs) \o <<0>> \o PutUe(s.width - 1) \o PutUe(s.height - 1) \in Bits
        BY <1>6, <1>7, <3>3
      <3> QED BY <1>6, <1>7, <3>1, <3>2, <3>4, <3>5
    <2>5. PocFields \in Bits
      <3>1. CASE s.poc = 0 BY <1>2, <1>5, <3>1 DEF PocFields, s
      <3>2. CASE s.poc = 1
        <4>1. PutSe(0) \in Bits /\ PutUe(0) \in Bits BY <1>4, <1>5
        <4>2. PocFields = <<0>> \o PutSe(0) \o PutSe(0) \o PutUe(0) BY <3>2 DEF PocFields, s
        <4> QED BY <1>6, <1>7, <4>1, <4>2
      <3>3. CASE s.poc # 0 /\ s.poc # 1 BY <1>7, <3>3 DEF PocFields, s
      <3> QED BY <3>1, <3>2, <3>3
    <2>6. SpsBits = TrailingBits(SpsText)
      <3>1. CASE s.poc = 2
        <4>1. SpsBits = TrailingBits(SpsHead(s) \o SpsTail(s)) BY <3>1 DEF SpsBits, BuildSps, s
        <4>2. PocFields = <<>> BY <3>1 DEF PocFields, s
        <4>3. SpsHead(s) \o <<>> = SpsHead(s) BY <2>3, ConcatEmptySeq DEF Begins, Bits
        <4>4. SpsText = SpsHead(s) \o SpsTail(s)
          <5> HIDE DEF s
          <5> QED BY <4>2, <4>3 DEF SpsText, s
        <4> QED BY <4>1, <4>4
      <3>2. CASE s.poc # 2 BY <3>2 DEF SpsBits, SpsText, s
      <3> QED BY <3>1, <3>2
    <2>7. Begins(SpsText, c)
      <3>1. Begins(SpsHead(s) \o PocFields, c) BY <2>1, <2>3, <2>5
      <3>2. Begins(SpsHead(s) \o PocFields \o SpsTail(s), c) BY <2>1, <2>4, <3>1
      <3> QED BY <3>2 DEF SpsText, s
    <2> QED BY <2>6, <2>7 DEF c
  <1>10. PpsBits = TrailingBits(PpsText) /\ Begins(PpsText, StartCodeAndNalHeader(3, 8))
    <2> DEFINE c == StartCodeAndNalHeader(3, 8)
    <2>1. Begins(c, c) /\ \A u, v : Begins(u, c) /\ v \in Bits => Begins(u \o v, c) BY <1>8
    <2> HIDE DEF c
    <2>2. /\ p.cabac \in {0, 1} /\ p.deblocking \in {0, 1} /\ p.id \in Codes /\ p.spsId \in Codes
          /\ p.l0 \in Codes /\ p.qp - 26 \in SignedCodes
      BY <1>1 DEF PpsFields
    <2>3. Begins(PpsHead(p), c)
      <3>1. <<p.cabac, 0>> \in Bits BY <2>2 DEF Bits
      <3>2. PutUe(p.id) \in Bits /\ PutUe(p.spsId) \in Bits BY <1>5, <2>2
      <3> QED BY <2>1, <3>1, <3>2 DEF PpsHead, c
    <2>4. PpsTail(p) \in Bits
      <3>1. <<p.deblocking, 0, 0>> \in Bits BY <2>2 DEF Bits
      <3>2. /\ PutUe(p.l0) \in Bits /\ PutUe(0) \in Bits /\ Zeros(2) \in Bits
            /\ PutSe(p.qp - 26) \in Bits /\ PutSe(0) \in Bits
        BY <1>4, <1>5, <2>2
      <3>3. PpsTail(p) = PutUe(p.l0) \o PutUe(0) \o <<0>> \o Zeros(2)
                         \o PutSe(p.qp - 26) \o PutSe(0) \o PutSe(0) \o <<p.deblocking, 0, 0>>
        BY DEF PpsTail
      <3>4. PutUe(p.l0) \o PutUe(0) \o <<0>> \o Zeros(2) \in Bits BY <1>6, <1>7, <3>2
      <3>5. PutUe(p.l0) \o PutUe(0) \o <<0>> \o Zeros(2) \o PutSe(p.qp - 26) \o PutSe(0) \in Bits
        BY <1>6, <3>2, <3>4
      <3> QED BY <1>6, <3>1, <3>2, <3>3, <3>5
    <2>5. SliceGroups \in Bits
      <3>1. PutUe(0) \in Bits /\ PutUe(pic.groups) \in Bits BY <1>2, <1>4, <1>5
      <3> QED BY <1>6, <3>1 DEF SliceGroups
    <2>6. PpsBits = TrailingBits(PpsText)
      <3>1. CASE pic.groups = 0 BY <3>1 DEF PpsBits, BuildPps, PpsText, SliceGroups
      <3>2. CASE pic.groups # 0 BY <3>2 DEF PpsBits, PpsText
      <3> QED BY <3>1, <3>2
    <2>7. Begins(PpsText, c)
      <3>1. Begins(PpsHead(p) \o SliceGroups, c) BY <2>1, <2>3, <2>5
      <3>2. Begins(PpsHead(p) \o SliceGroups \o PpsTail(p), c) BY <2>1, <2>4, <3>1
      <3> QED BY <3>2 DEF PpsText, p
    <2> QED BY <2>6, <2>7 DEF c
  <1>11. Begins(SliceBits, StartCodeAndNalHeader(3, 5))
    <2> DEFINE c == StartCodeAndNalHeader(3, 5)
    <2>1. Begins(c, c) /\ \A u, v : Begins(u, c) /\ v \in Bits => Begins(u \o v, c) BY <1>8
    <2> HIDE DEF c
    <2>2. /\ h.firstMb \in Codes /\ h.type \in Codes /\ h.ppsId \in Codes /\ h.idrId \in Codes
          /\ h.disable \in Codes /\ h.qpDelta \in SignedCodes /\ h.frameNum \in Nat
          /\ s.log2 + 4 \in Nat /\ pic.pocLog2 + 4 \in Nat
      <3>1. /\ {h.firstMb, h.type, h.ppsId, h.idrId, h.disable} \subseteq Codes
            /\ h.qpDelta \in SignedCodes /\ h.frameNum \in Nat
        BY <1>1 DEF SliceFields
      <3>3. s.log2 \in Nat /\ pic.pocLog2 \in Nat BY <1>2, <1>3
      <3> QED BY <3>1, <3>3
    <2>3. Begins(SliceHead(s, h), c)
      <3>1. /\ PutUe(h.firstMb) \in Bits /\ PutUe(h.type) \in Bits /\ PutUe(h.ppsId) \in Bits
            /\ PutBits(h.frameNum, s.log2 + 4) \in Bits /\ PutUe(h.idrId) \in Bits
        BY <1>5, <2>2
      <3> QED BY <2>1, <3>1 DEF SliceHead, c
    <2>4. SliceTail(p, h) \in Bits
      <3> DEFINE filter == IF p.deblocking = 0 THEN <<>>
                           ELSE PutUe(h.disable)
                                \o IF h.disable = 1 THEN <<>> ELSE PutSe(0) \o PutSe(0)
      <3>1. Zeros(2) \in Bits /\ PutSe(h.qpDelta) \in Bits /\ PutUe(h.disable) \in Bits
            /\ PutSe(0) \in Bits
        BY <1>4, <1>5, <2>2
      <3>2. filter \in Bits
        <4>1. CASE p.deblocking = 0 BY <1>7, <4>1
        <4>2. CASE p.deblocking # 0 /\ h.disable = 1 BY <1>6, <1>7, <3>1, <4>2
        <4>3. CASE p.deblocking # 0 /\ h.disable # 1 BY <1>6, <3>1, <4>3
        <4> QED BY <4>1, <4>2, <4>3
      <3>3. SliceTail(p, h) = Zeros(2) \o PutSe(h.qpDelta) \o filter BY DEF SliceTail
      <3> HIDE DEF filter
      <3> QED BY <1>6, <3>1, <3>2, <3>3
    <2>5. PocLsb \in Bits BY <1>2, <1>5, <1>7, <2>2 DEF PocLsb
    <2>6. CASE s.poc = 2
      <3>1. SliceBits = SliceHead(s, h) \o SliceTail(p, h)
        BY <2>6 DEF SliceBits, BuildSliceHeader, s, p, h
      <3> QED BY <2>1, <2>3, <2>4, <3>1 DEF c
    <2>7. CASE s.poc # 2
      <3>1. SliceBits = SliceHead(s, h) \o PocLsb \o SliceTail(p, h)
        BY <2>7 DEF SliceBits, s, p, h
      <3> QED BY <2>1, <2>3, <2>4, <2>5, <3>1 DEF c
    <2> QED BY <2>6, <2>7
  <1> QED BY <1>2, <1>9, <1>10, <1>11

\* A NAL unit that can be found: no start code inside, and ends that no zeros stick to.
Clean(n) ==
    /\ n \in Seq(Byte) /\ NoStartCode(n)
    /\ n # <<>> => n[1] \in 2 .. 127 /\ n[Len(n)] # 0

\* Every NAL unit of a picture is one; its header byte says what it is.
LEMMA NalUnitsAreClean ==
  ASSUME PictureFields(pic), NEW kind
  PROVE  /\ Clean(NalUnit(kind))
         /\ NalUnit("sps")[1] = 103 /\ NalUnit("pps")[1] = 104 /\ NalUnit("idr")[1] = 101
         /\ NalUnit("sps") # <<>> /\ NalUnit("pps") # <<>> /\ NalUnit("idr") # <<>>
  <1>1. ASSUME NEW type \in {5, 7, 8}, NEW b, Begins(b, StartCodeAndNalHeader(3, type))
        PROVE  LET n == Escape(Bytes(TrailingBits(b)))
               IN  Clean(n) /\ n # <<>> /\ n[1] = 96 + type
    <2> DEFINE h == StartCodeAndNalHeader(3, type)
               w == TrailingBits(b)
               x == Bytes(w)
               n == Escape(x)
    <2>1. 3 \in 0 .. 3 /\ type \in 0 .. 31 /\ type \in Nat OBVIOUS
    <2>2. h \in Bits /\ Len(h) = 32 BY <2>1, StartFacts
    <2>3. b \in Bits /\ Len(b) >= 32 BY <1>1, <2>2 DEF Begins
    <2>4. w \in Bits /\ Begins(w, h) BY <1>1, <2>2, <2>3, TrailingFacts
    <2>5. Len(x) >= 1 /\ x[1] = 32 * 3 + type BY <2>1, <2>4, HeaderByte
    <2>6. Len(w) >= 24
      <3>1. Len(h) <= Len(w) BY <2>4 DEF Begins
      <3>2. Len(w) \in Nat BY <2>4, LenProperties DEF Bits
      <3>3. Len(w) >= 32 BY <2>2, <3>1
      <3> QED BY <3>2, <3>3
    <2>7. x \in Seq(Byte) BY <2>4, <2>6, BytesFacts DEF Bits
    <2>8. x[Len(x)] # 0
      <3>1. Len(b) \in Nat BY <2>3, LenProperties DEF Bits
      <3>2. Len(b) >= 24 BY <2>3, <3>1
      <3> QED BY <2>3, <3>2, LastByte
    <2> HIDE DEF h, w, x
    <2>9. Len(x) \in Nat /\ Len(x) > 0 BY <2>5, <2>7, LenProperties
    <2>10. n \in Seq(Byte) /\ NoStartCode(n) BY <2>7, EscapeIsUndone
    <2>11. /\ Len(n) >= Len(x) /\ n[1] = x[1] /\ n[Len(n)] = x[Len(x)] BY <2>7, <2>9, EscapeEnds
    <2> HIDE DEF n
    <2>12. n # <<>>
      <3>1. Len(n) \in Nat BY <2>10, LenProperties
      <3>2. Len(n) > 0 BY <2>9, <2>11, <3>1
      <3> QED BY <3>2
    <2>13. n[1] = 96 + type /\ n[1] \in 2 .. 127 BY <2>1, <2>5, <2>11
    <2> QED BY <2>8, <2>10, <2>11, <2>12, <2>13 DEF Clean, n, x, w
  <1>2. SpsBits = TrailingBits(SpsText) /\ Begins(SpsText, StartCodeAndNalHeader(3, 7))
    BY HeadersBegin
  <1>3. PpsBits = TrailingBits(PpsText) /\ Begins(PpsText, StartCodeAndNalHeader(3, 8))
    BY HeadersBegin
  <1>4. Begins(SliceBits \o pic.data, StartCodeAndNalHeader(3, 5))
    <2> DEFINE h == StartCodeAndNalHeader(3, 5)
    <2>1. Begins(SliceBits, h) /\ pic.data \in Bits BY HeadersBegin
    <2>2. 3 \in 0 .. 3 /\ 5 \in 0 .. 31 OBVIOUS
    <2>3. Len(h) = 32 BY <2>2, StartFacts
    <2>4. SliceBits \in Bits BY <2>1 DEF Begins
    <2> HIDE DEF h
    <2>5. Len(h) \in Nat BY <2>3
    <2>6. Begins(SliceBits \o pic.data, h) BY <2>1, <2>4, <2>5, StillBegins
    <2> QED BY <2>6 DEF h
  <1>5. 5 \in {5, 7, 8} /\ 7 \in {5, 7, 8} /\ 8 \in {5, 7, 8} OBVIOUS
  <1>6. Clean(NalUnit("sps")) /\ NalUnit("sps") # <<>> /\ NalUnit("sps")[1] = 103
    <2>1. NalUnit("sps") = Escape(Bytes(TrailingBits(SpsText))) BY <1>2 DEF NalUnit
    <2>2. NalUnit("sps")[1] = 96 + 7 BY <1>1, <1>2, <1>5, <2>1
    <2> QED BY <1>1, <1>2, <1>5, <2>1, <2>2
  <1>7. Clean(NalUnit("pps")) /\ NalUnit("pps") # <<>> /\ NalUnit("pps")[1] = 104
    <2>1. NalUnit("pps") = Escape(Bytes(TrailingBits(PpsText))) BY <1>3 DEF NalUnit
    <2>2. NalUnit("pps")[1] = 96 + 8 BY <1>1, <1>3, <1>5, <2>1
    <2> QED BY <1>1, <1>3, <1>5, <2>1, <2>2
  <1>8. Clean(NalUnit("idr")) /\ NalUnit("idr") # <<>> /\ NalUnit("idr")[1] = 101
    <2>1. NalUnit("idr") = Escape(Bytes(TrailingBits(SliceBits \o pic.data))) BY DEF NalUnit
    <2>2. NalUnit("idr")[1] = 96 + 5 BY <1>1, <1>4, <1>5, <2>1
    <2> QED BY <1>1, <1>4, <1>5, <2>1, <2>2
  <1>9. Clean(<<6, 5, 1, 0, 128>>)
    <2> DEFINE n == <<6, 5, 1, 0, 128>>
    <2>1. n \in Seq(Byte) /\ Len(n) = 5 BY DEF Byte
    <2>2. NoStartCode(n)
      <3> SUFFICES ASSUME NEW k \in 3 .. 5, n[k - 1] = 0, n[k - 2] = 0 PROVE FALSE
        BY <2>1 DEF NoStartCode
      <3>1. k = 3 \/ k = 4 \/ k = 5 OBVIOUS
      <3>2. n[1] # 0 /\ n[2] # 0 /\ n[3] # 0 OBVIOUS
      <3> QED BY <3>1, <3>2
    <2>3. n[1] \in 2 .. 127 /\ n[Len(n)] # 0 BY <2>1
    <2> QED BY <2>1, <2>2, <2>3 DEF Clean
  <1>10. Clean(<<>>) BY DEF Clean, NoStartCode
  <1>11. Clean(NalUnit(kind))
    <2>1. CASE kind = "sei" BY <1>9, <2>1 DEF NalUnit
    <2>2. CASE kind \notin {"sps", "pps", "idr", "sei"} BY <1>10, <2>2 DEF NalUnit
    <2> QED BY <1>6, <1>7, <1>8, <2>1, <2>2
  <1> QED BY <1>6, <1>7, <1>8, <1>11

------------------------------------------------------------------------------
(* Splitting.                                                               *)

\* Nothing is added where S has nothing.
LEMMA AscendingGap ==
  ASSUME NEW S, NEW m \in Nat, NEW n \in Nat, m <= n, \A k \in m + 1 .. n : k \notin S
  PROVE  Ascending(S, n) = Ascending(S, m)
  <1> DEFINE D == {d \in Nat : m + d <= n => Ascending(S, m + d) = Ascending(S, m)}
  <1>1. 0 \in D
    <2>1. m + 0 = m OBVIOUS
    <2> QED BY <2>1
  <1>2. ASSUME NEW d \in Nat, d \in D PROVE d + 1 \in D
    <2> SUFFICES ASSUME m + (d + 1) <= n PROVE Ascending(S, m + (d + 1)) = Ascending(S, m) OBVIOUS
    <2>1. m + d \in Nat /\ m + (d + 1) = (m + d) + 1 /\ (m + d) + 1 \in m + 1 .. n /\ m + d <= n
      OBVIOUS
    <2>2. (m + d) + 1 \notin S BY <2>1
    <2>3. Ascending(S, (m + d) + 1) = Ascending(S, m + d) BY <2>1, <2>2, AscendingRec
    <2>4. Ascending(S, m + d) = Ascending(S, m) BY <1>2, <2>1
    <2> QED BY <2>1, <2>3, <2>4
  <1> HIDE DEF D
  <1>3. Nat \subseteq D BY <1>1, <1>2, NatInd
  <1>4. n - m \in Nat /\ m + (n - m) = n OBVIOUS
  <1>5. n - m \in D => (m + (n - m) <= n => Ascending(S, m + (n - m)) = Ascending(S, m)) BY DEF D
  <1> QED BY <1>3, <1>4, <1>5

\* One member more, above the others.
LEMMA AscendingOneMore ==
  ASSUME NEW S, NEW m \in Nat, \A k \in S : k \in 1 .. m,
         NEW c \in Nat, m < c, NEW n \in Nat, c <= n
  PROVE  Ascending(S \cup {c}, n) = Append(Ascending(S, m), c)
  <1> DEFINE T == S \cup {c}
  <1>1. \A k : k \in T <=> (k \in S \/ k = c) OBVIOUS
  <1> HIDE DEF T
  <1>2. Ascending(T, m) = Ascending(S, m)
    <2>1. \A k \in 1 .. m : k \in T <=> k \in S BY <1>1
    <2> QED BY <2>1, AscendingSame
  <1>3. c - 1 \in Nat /\ m <= c - 1 /\ (c - 1) + 1 = c OBVIOUS
  <1>4. Ascending(T, c - 1) = Ascending(T, m)
    <2>1. \A k \in m + 1 .. c - 1 : k \notin T BY <1>1
    <2> QED BY <1>3, <2>1, AscendingGap
  <1>5. Ascending(T, c) = Append(Ascending(T, c - 1), c)
    <2>1. c \in T BY <1>1
    <2>2. Ascending(T, (c - 1) + 1) = IF (c - 1) + 1 \in T
                                      THEN Append(Ascending(T, c - 1), (c - 1) + 1)
                                      ELSE Ascending(T, c - 1)
      BY <1>3, AscendingRec
    <2> QED BY <1>3, <2>1, <2>2
  <1>6. Ascending(T, n) = Ascending(T, c)
    <2>1. \A k \in c + 1 .. n : k \notin T BY <1>1
    <2> QED BY <2>1, AscendingGap
  <1> QED BY <1>2, <1>4, <1>5, <1>6 DEF T

\* The greatest of some natural numbers.
LEMMA MaxIsGreatest ==
  ASSUME NEW S, NEW n \in Nat, S \subseteq 0 .. n, S # {}
  PROVE  Max(S) \in S /\ \A x \in S : x <= Max(S)
  <1> DEFINE R == {n - x : x \in S}
  <1>1. R \subseteq Nat /\ R # {}
    <2>1. \A x \in S : n - x \in Nat
      <3> SUFFICES ASSUME NEW x \in S PROVE n - x \in Nat OBVIOUS
      <3>1. x \in 0 .. n OBVIOUS
      <3> QED BY <3>1
    <2>2. PICK x \in S : TRUE OBVIOUS
    <2>3. n - x \in R OBVIOUS
    <2> QED BY <2>1, <2>3
  <1>2. Min(R) \in R /\ \A y \in R : Min(R) <= y
    <2> HIDE DEF R
    <2> QED BY <1>1, MinIsLeast
  <1>3. PICK x \in S : Min(R) = n - x BY <1>2
  <1>4. \A y \in S : x >= y
    <2> SUFFICES ASSUME NEW y \in S PROVE x >= y OBVIOUS
    <2>1. n - y \in R /\ x \in 0 .. n /\ y \in 0 .. n OBVIOUS
    <2>2. n - x <= n - y BY <1>2, <1>3, <2>1
    <2> QED BY <2>1, <2>2
  <1>5. Max(S) = CHOOSE z \in S : \A y \in S : z >= y BY DEF Max
  <1>6. Max(S) \in S /\ \A y \in S : Max(S) >= y BY <1>4, <1>5
  <1>7. \A y \in S : y \in Int OBVIOUS
  <1> QED BY <1>6, <1>7

\* Trim: the type; nothing to trim; and zeros at the end make no difference.
LEMMA TrimFacts ==
  ASSUME NEW b \in Seq(Byte)
  PROVE  /\ Trim(b) \in Seq(Byte)
         /\ (b = <<>> \/ b[Len(b)] # 0) => Trim(b) = b
         /\ \A e \in Seq(Byte) :
              /\ Len(b) <= Len(e)
              /\ \A k \in 1 .. Len(b) : e[k] = b[k]
              /\ \A k \in Len(b) + 1 .. Len(e) : e[k] = 0
              => Trim(e) = Trim(b)
  <1> DEFINE full(d) == {k \in 1 .. Len(d) : d[k] # 0}
             n == Len(b)
  <1>1. n \in Nat /\ \A k \in 1 .. n : b[k] \in Byte BY LenProperties, ElementOfSeq
  <1>2. \A d : Trim(d) = IF full(d) = {} THEN <<>> ELSE SubSeq(d, 1, Max(full(d))) BY DEF Trim
  <1>3. ASSUME full(b) # {}
        PROVE  Max(full(b)) \in full(b) /\ \A k \in full(b) : k <= Max(full(b))
    <2> DEFINE S == full(b)
    <2>1. S \subseteq 0 .. n OBVIOUS
    <2> HIDE DEF S
    <2> QED BY <1>1, <1>3, <2>1, MaxIsGreatest DEF S
  <1>4. Trim(b) \in Seq(Byte)
    <2>1. CASE full(b) = {}
      <3>1. <<>> \in Seq(Byte) OBVIOUS
      <3> QED BY <1>2, <2>1, <3>1
    <2>2. CASE full(b) # {}
      <3>1. Max(full(b)) \in 1 .. n BY <1>3, <2>2
      <3> DEFINE m == Max(full(b))
      <3> HIDE DEF m
      <3>2. m \in 1 .. n BY <3>1 DEF m
      <3>3. m \in Int /\ \A k \in 1 .. m : b[k] \in Byte BY <1>1, <3>2
      <3>4. SubSeq(b, 1, m) \in Seq(Byte) BY <3>3, SubSeqProperties
      <3> QED BY <1>2, <2>2, <3>4 DEF m
    <2> QED BY <2>1, <2>2
  <1>5. ASSUME b # <<>>, b[n] # 0 PROVE Trim(b) = b
    <2>1. n \in 1 .. n BY <1>1, <1>5, EmptySeq
    <2>2. n \in full(b) BY <1>5, <2>1
    <2>3. Max(full(b)) \in 1 .. n /\ n <= Max(full(b)) BY <1>3, <2>2
    <2>4. Max(full(b)) = n BY <1>1, <2>3
    <2>5. Trim(b) = SubSeq(b, 1, n) BY <1>2, <2>2, <2>4
    <2> QED BY <2>5, SubSeqFull
  <1>6. b = <<>> => Trim(b) = b
    <2> SUFFICES ASSUME b = <<>> PROVE Trim(b) = b OBVIOUS
    <2>1. full(b) = {} OBVIOUS
    <2> QED BY <1>2, <2>1
  <1>7. ASSUME NEW e \in Seq(Byte), n <= Len(e), \A k \in 1 .. n : e[k] = b[k],
               \A k \in n + 1 .. Len(e) : e[k] = 0
        PROVE  Trim(e) = Trim(b)
    <2>1. Len(e) \in Nat BY LenProperties
    <2>2. full(e) = full(b)
      <3>1. \A k \in 1 .. Len(e) : k \in 1 .. n \/ k \in n + 1 .. Len(e) BY <1>1, <2>1
      <3>2. \A k \in 1 .. n : k \in 1 .. Len(e) BY <1>1, <1>7, <2>1
      <3> QED BY <1>7, <3>1, <3>2
    <2>3. CASE full(b) = {} BY <1>2, <2>2, <2>3
    <2>4. CASE full(b) # {}
      <3> DEFINE m == Max(full(b))
      <3>1. m \in 1 .. n BY <1>3, <2>4
      <3>2. Trim(e) = SubSeq(e, 1, m) /\ Trim(b) = SubSeq(b, 1, m) BY <1>2, <2>2, <2>4
      <3> HIDE DEF m
      <3>3. m \in Int /\ \A k \in 1 .. m : b[k] \in Byte /\ e[k] = b[k] BY <1>1, <1>7, <3>1
      <3>4. /\ SubSeq(b, 1, m) \in Seq(Byte) /\ Len(SubSeq(b, 1, m)) = m
            /\ \A k \in 1 .. m : SubSeq(b, 1, m)[k] = b[k]
        BY <1>1, <3>1, <3>3, SubSeqProperties
      <3>5. /\ SubSeq(e, 1, m) \in Seq(Byte) /\ Len(SubSeq(e, 1, m)) = m
            /\ \A k \in 1 .. m : SubSeq(e, 1, m)[k] = e[k]
        BY <1>1, <3>1, <3>3, SubSeqProperties
      <3>6. SubSeq(e, 1, m) = SubSeq(b, 1, m) BY <3>3, <3>4, <3>5, SeqEqual
      <3> QED BY <3>2, <3>6
    <2> QED BY <2>3, <2>4
  <1> HIDE DEF full
  <1> QED BY <1>4, <1>5, <1>6, <1>7

\* The NAL units of a stream are bytes, one behind every start code.
LEMMA AllNalsFacts ==
  ASSUME NEW s \in Seq(Byte)
  PROVE  LET a == Ascending(StartCodes(s), Len(s))
         IN  /\ Lists(a, StartCodes(s), Len(s)) /\ Len(a) \in Nat
             /\ \A k \in 1 .. Len(a) : a[k] \in StartCodes(s)
             /\ \A c \in StartCodes(s) : NalAt(s, c) \in Seq(Byte)
             /\ AllNals(s) \in Seq(Seq(Byte)) /\ Len(AllNals(s)) = Len(a)
             /\ \A k \in 1 .. Len(a) : AllNals(s)[k] = NalAt(s, a[k])
  <1> DEFINE S == StartCodes(s)
             n == Len(s)
             a == Ascending(S, n)
  <1>1. n \in Nat /\ \A k \in 1 .. n : s[k] \in Byte BY LenProperties, ElementOfSeq
  <1>2. \A c \in S : c \in 1 .. n - 2 BY DEF StartCodes
  <1> HIDE DEF S, n
  <1>3. Lists(a, S, n) BY <1>1, AscendingLists
  <1> HIDE DEF a
  <1>4. a \in Seq(1 .. n) /\ Len(a) \in Nat /\ \A k \in 1 .. Len(a) : a[k] \in S
    BY <1>3, LenProperties DEF Lists
  <1>5. ASSUME NEW c \in S PROVE NalAt(s, c) \in Seq(Byte)
    <2> DEFINE later == {k \in S : k > c}
               hi == IF later = {} THEN n ELSE Min(later) - 1
               x == SubSeq(s, c + 3, hi)
    <2>1. NalAt(s, c) = Trim(x) BY DEF NalAt, S, n
    <2>2. hi \in Int /\ hi <= n
      <3>1. CASE later = {} BY <1>1, <3>1
      <3>2. CASE later # {}
        <4>1. later \subseteq Nat BY <1>1, <1>2
        <4>2. Min(later) \in later
          <5> HIDE DEF later
          <5> QED BY <3>2, <4>1, MinIsLeast
        <4>3. Min(later) \in 1 .. n - 2 BY <1>2, <4>2
        <4> QED BY <1>1, <3>2, <4>3
      <3> QED BY <3>1, <3>2
    <2> HIDE DEF hi
    <2>3. c + 3 \in Int /\ \A k \in c + 3 .. hi : s[k] \in Byte BY <1>1, <1>2, <2>2
    <2>4. x \in Seq(Byte) BY <2>2, <2>3, SubSeqProperties
    <2> HIDE DEF x
    <2> QED BY <2>1, <2>4, TrimFacts
  <1>6. /\ AllNals(s) \in Seq(Seq(Byte)) /\ Len(AllNals(s)) = Len(a)
        /\ \A k \in 1 .. Len(a) : AllNals(s)[k] = NalAt(s, a[k])
    <2>1. DOMAIN a = 1 .. Len(a) BY <1>4, LenProperties
    <2>2. AllNals(s) = [k \in DOMAIN a |-> NalAt(s, a[k])] BY DEF AllNals, a, S, n
    <2>3. AllNals(s) = [k \in 1 .. Len(a) |-> NalAt(s, a[k])] BY <2>1, <2>2
    <2>4. \A k \in 1 .. Len(a) : NalAt(s, a[k]) \in Seq(Byte) BY <1>4, <1>5
    <2>5. [k \in 1 .. Len(a) |-> NalAt(s, a[k])] \in Seq(Seq(Byte)) BY <1>4, <2>4, IsASeq
    <2> QED BY <1>4, <2>3, <2>5
  <1> QED BY <1>3, <1>4, <1>5, <1>6 DEF a, S, n

\* A start code and a NAL unit behind a stream: what stands where.
LEMMA StreamBytes ==
  ASSUME NEW s \in Seq(Byte), NEW g \in Nat, NEW n \in Seq(Byte)
  PROVE  LET w == s \o (Zeros(g) \o <<0, 0, 1>>) \o n
             m == Len(s)
         IN  /\ w \in Seq(Byte) /\ m \in Nat /\ Len(n) \in Nat /\ Len(w) = m + g + 3 + Len(n)
             /\ \A k \in 1 .. m : w[k] = s[k]
             /\ \A k \in m + 1 .. m + g + 2 : w[k] = 0
             /\ w[m + g + 3] = 1
             /\ \A k \in 1 .. Len(n) : w[m + g + 3 + k] = n[k]
  <1> DEFINE z == Zeros(g)
             c == <<0, 0, 1>>
             zc == z \o c
             sz == s \o zc
             w == sz \o n
             m == Len(s)
  <1>1. z \in Seq(Byte) /\ Len(z) = g /\ \A k \in 1 .. g : z[k] = 0
    <2>1. 0 \in Byte /\ \A k \in 1 .. g : 0 \in Byte BY DEF Byte
    <2>2. z = [k \in 1 .. g |-> 0] BY DEF Zeros
    <2>3. [k \in 1 .. g |-> 0] \in Seq(Byte) BY <2>1, IsASeq
    <2> QED BY <2>2, <2>3
  <1>2. c \in Seq(Byte) /\ Len(c) = 3 /\ c[1] = 0 /\ c[2] = 0 /\ c[3] = 1 BY DEF Byte
  <1> HIDE DEF z, c
  <1>3. /\ zc \in Seq(Byte) /\ Len(zc) = g + 3
        /\ \A k \in 1 .. g + 2 : zc[k] = 0
        /\ zc[g + 3] = 1
    <2>1. /\ zc \in Seq(Byte) /\ Len(zc) = Len(z) + Len(c)
          /\ \A k \in 1 .. Len(z) : zc[k] = z[k]
          /\ \A k \in 1 .. Len(c) : zc[Len(z) + k] = c[k]
      <3>1. z \in Seq(Byte) /\ c \in Seq(Byte) BY <1>1, <1>2
      <3> QED BY <3>1, CatAt
    <2> HIDE DEF zc
    <2>2. zc[g + 1] = 0 /\ zc[g + 2] = 0 /\ zc[g + 3] = 1
      <3>1. 1 \in 1 .. Len(c) /\ 2 \in 1 .. Len(c) /\ 3 \in 1 .. Len(c) BY <1>2
      <3>2. zc[Len(z) + 1] = c[1] /\ zc[Len(z) + 2] = c[2] /\ zc[Len(z) + 3] = c[3]
        BY <2>1, <3>1
      <3> QED BY <1>1, <1>2, <3>2
    <2>3. ASSUME NEW k \in 1 .. g + 2 PROVE zc[k] = 0
      <3>1. k \in 1 .. g \/ k = g + 1 \/ k = g + 2 OBVIOUS
      <3> QED BY <1>1, <2>1, <2>2, <3>1
    <2> QED BY <1>1, <1>2, <2>1, <2>2, <2>3
  <1> HIDE DEF zc
  <1>4. /\ sz \in Seq(Byte) /\ Len(sz) = m + Len(zc) /\ m \in Nat
        /\ \A k \in 1 .. m : sz[k] = s[k]
        /\ \A k \in 1 .. Len(zc) : sz[m + k] = zc[k]
    <2>1. s \in Seq(Byte) /\ zc \in Seq(Byte) BY <1>3
    <2> QED BY <2>1, CatAt
  <1> HIDE DEF sz
  <1>5. /\ w \in Seq(Byte) /\ Len(w) = Len(sz) + Len(n) /\ Len(n) \in Nat
        /\ \A k \in 1 .. Len(sz) : w[k] = sz[k]
        /\ \A k \in 1 .. Len(n) : w[Len(sz) + k] = n[k]
    <2>1. sz \in Seq(Byte) /\ n \in Seq(Byte) BY <1>4
    <2> QED BY <2>1, CatAt
  <1> HIDE DEF w, m
  <1>6. Len(sz) = m + g + 3 /\ Len(zc) = g + 3 BY <1>3, <1>4
  <1>7. Len(w) = m + g + 3 + Len(n) BY <1>5, <1>6
  <1>8. ASSUME NEW k \in 1 .. m PROVE w[k] = s[k]
    <2>1. k \in 1 .. Len(sz) BY <1>4, <1>6
    <2> QED BY <1>4, <1>5, <2>1
  <1>9. ASSUME NEW k \in 1 .. g + 3 PROVE w[m + k] = zc[k]
    <2>1. m + k \in 1 .. Len(sz) /\ k \in 1 .. Len(zc) BY <1>4, <1>6
    <2> QED BY <1>4, <1>5, <2>1
  <1>10. ASSUME NEW k \in m + 1 .. m + g + 2 PROVE w[k] = 0
    <2>1. k - m \in 1 .. g + 3 /\ k - m \in 1 .. g + 2 /\ m + (k - m) = k BY <1>4
    <2> QED BY <1>3, <1>9, <2>1
  <1>11. w[m + g + 3] = 1
    <2>1. g + 3 \in 1 .. g + 3 /\ m + (g + 3) = m + g + 3 BY <1>4
    <2> QED BY <1>3, <1>9, <2>1
  <1>12. ASSUME NEW k \in 1 .. Len(n) PROVE w[m + g + 3 + k] = n[k] BY <1>5, <1>6
  <1>13. w = s \o (Zeros(g) \o <<0, 0, 1>>) \o n BY DEF w, sz, zc, z, c
  <1> QED BY <1>4, <1>5, <1>7, <1>8, <1>10, <1>11, <1>12, <1>13 DEF m

\* There is one start code more.
LEMMA OneStartCodeMore ==
  ASSUME NEW s \in Seq(Byte), NEW g \in Nat, NEW n, Clean(n)
  PROVE  StartCodes(s \o (Zeros(g) \o <<0, 0, 1>>) \o n)
           = StartCodes(s) \cup {Len(s) + g + 1}
  <1> DEFINE w == s \o (Zeros(g) \o <<0, 0, 1>>) \o n
             m == Len(s)
             c == m + g + 1
  <1>1. n \in Seq(Byte) /\ NoStartCode(n) BY DEF Clean
  <1>2. /\ w \in Seq(Byte) /\ m \in Nat /\ Len(n) \in Nat /\ Len(w) = m + g + 3 + Len(n)
        /\ \A k \in 1 .. m : w[k] = s[k]
        /\ \A k \in m + 1 .. m + g + 2 : w[k] = 0
        /\ w[m + g + 3] = 1
        /\ \A k \in 1 .. Len(n) : w[m + g + 3 + k] = n[k]
    BY <1>1, StreamBytes
  <1>3. StartCodes(w) = {k \in 1 .. Len(w) - 2 : w[k] = 0 /\ w[k + 1] = 0 /\ w[k + 2] = 1}
    BY DEF StartCodes
  <1>4. StartCodes(s) = {k \in 1 .. m - 2 : s[k] = 0 /\ s[k + 1] = 0 /\ s[k + 2] = 1}
    BY DEF StartCodes
  <1> HIDE DEF w, m
  <1>5. c \in StartCodes(w)
    <2>1. c \in 1 .. Len(w) - 2 /\ c \in m + 1 .. m + g + 2 /\ c + 1 \in m + 1 .. m + g + 2
          /\ c + 2 = m + g + 3
      BY <1>2
    <2> QED BY <1>2, <1>3, <2>1
  <1>6. ASSUME NEW k \in StartCodes(s) PROVE k \in StartCodes(w)
    <2>1. k \in 1 .. m - 2 /\ s[k] = 0 /\ s[k + 1] = 0 /\ s[k + 2] = 1 BY <1>4
    <2>2. k \in 1 .. Len(w) - 2 /\ k \in 1 .. m /\ k + 1 \in 1 .. m /\ k + 2 \in 1 .. m
      BY <1>2, <2>1
    <2> QED BY <1>2, <1>3, <2>1, <2>2
  <1>7. ASSUME NEW k \in StartCodes(w), k # c PROVE k \in StartCodes(s)
    <2>1. k \in 1 .. Len(w) - 2 /\ w[k] = 0 /\ w[k + 1] = 0 /\ w[k + 2] = 1 BY <1>3
    <2>2. CASE k + 2 <= m
      <3>1. k \in 1 .. m - 2 /\ k \in 1 .. m /\ k + 1 \in 1 .. m /\ k + 2 \in 1 .. m
        BY <1>2, <2>1, <2>2
      <3> QED BY <1>2, <1>4, <2>1, <3>1
    <2>3. ASSUME m < k + 2, k + 2 <= m + g + 2 PROVE FALSE
      <3>1. k + 2 \in m + 1 .. m + g + 2 BY <1>2, <2>1, <2>3
      <3> QED BY <1>2, <2>1, <3>1
    <2>4. k + 2 # m + g + 3 BY <1>2, <1>7, <2>1
    <2>5. ASSUME m + g + 3 < k + 2 PROVE FALSE
      <3> DEFINE r == (k + 2) - (m + g + 3)
      <3>1. r \in 1 .. Len(n) /\ m + g + 3 + r = k + 2 BY <1>2, <2>1, <2>5
      <3> HIDE DEF r
      <3>2. n[r] = 1 BY <1>2, <2>1, <3>1
      <3>3. CASE r = 1
        <4>1. k + 1 = m + g + 3 BY <1>2, <2>1, <3>1, <3>3
        <4> DEFINE p == k + 1
        <4>2. w[p] = 0 BY <2>1
        <4>3. w[p] = 1 BY <1>2, <4>1
        <4> HIDE DEF p
        <4> QED BY <4>2, <4>3
      <3>4. CASE r = 2
        <4>1. k = m + g + 3 BY <1>2, <2>1, <3>1, <3>4
        <4> QED BY <1>2, <2>1, <4>1
      <3>5. CASE r >= 3
        <4>1. /\ r - 1 \in 1 .. Len(n) /\ m + g + 3 + (r - 1) = k + 1
              /\ r - 2 \in 1 .. Len(n) /\ m + g + 3 + (r - 2) = k
              /\ r \in 3 .. Len(n)
          BY <1>2, <2>1, <3>1, <3>5
        <4>2. n[r - 1] = 0 /\ n[r - 2] = 0 BY <1>2, <2>1, <4>1
        <4>3. n[r] >= 3 BY <1>1, <4>1, <4>2 DEF NoStartCode
        <4> QED BY <3>2, <4>3
      <3> QED BY <3>1, <3>3, <3>4, <3>5
    <2> QED BY <1>2, <2>1, <2>2, <2>3, <2>4, <2>5
  <1> QED BY <1>5, <1>6, <1>7 DEF w, m

\* It ends the NAL unit before it and begins its own; the others stay.
LEMMA NalsStay ==
  ASSUME NEW s \in Seq(Byte), NEW g \in Nat, NEW n, Clean(n)
  PROVE  LET w == s \o (Zeros(g) \o <<0, 0, 1>>) \o n
         IN  /\ NalAt(w, Len(s) + g + 1) = n
             /\ \A k \in StartCodes(s) : NalAt(w, k) = NalAt(s, k)
  <1> DEFINE w == s \o (Zeros(g) \o <<0, 0, 1>>) \o n
             m == Len(s)
             c == m + g + 1
             S == StartCodes(s)
             T == StartCodes(w)
             later(R, k) == {x \in R : x > k}
  <1>1. n \in Seq(Byte) BY DEF Clean
  <1>2. /\ w \in Seq(Byte) /\ m \in Nat /\ Len(n) \in Nat /\ Len(w) = m + g + 3 + Len(n)
        /\ \A k \in 1 .. m : w[k] = s[k]
        /\ \A k \in m + 1 .. m + g + 2 : w[k] = 0
        /\ \A k \in 1 .. Len(n) : w[m + g + 3 + k] = n[k]
    BY <1>1, StreamBytes
  <1>3. T = S \cup {c} BY OneStartCodeMore
  <1>4. \A k \in S : k \in 1 .. m - 2 BY DEF StartCodes
  <1>5. \A k : /\ NalAt(s, k) = Trim(SubSeq(s, k + 3, IF later(S, k) = {} THEN m
                                                      ELSE Min(later(S, k)) - 1))
               /\ NalAt(w, k) = Trim(SubSeq(w, k + 3, IF later(T, k) = {} THEN Len(w)
                                                      ELSE Min(later(T, k)) - 1))
    BY DEF NalAt
  <1>6. \A k \in 1 .. m : s[k] \in Byte BY ElementOfSeq
  <1>7. \A k \in 1 .. Len(n) : n[k] \in Byte BY <1>1, ElementOfSeq
  <1> HIDE DEF w, m, S, T
  <1>8. NalAt(w, c) = n
    <2>1. later(T, c) = {} BY <1>2, <1>3, <1>4
    <2> DEFINE x == SubSeq(w, c + 3, Len(w))
    <2>2. NalAt(w, c) = Trim(x) BY <1>5, <2>1
    <2>3. /\ c + 3 \in Int /\ Len(w) \in Int
          /\ \A k \in 1 .. Len(n) : c + 3 + k - 1 = m + g + 3 + k
      BY <1>2
    <2>4. \A k \in c + 3 .. Len(w) : w[k] \in Byte
      <3>1. c + 3 \in Nat BY <1>2
      <3>2. \A k \in 1 .. Len(w) : w[k] \in Byte BY <1>2, ElementOfSeq
      <3> QED BY <1>2, <3>1, <3>2
    <2>5. /\ x \in Seq(Byte)
          /\ Len(x) = IF c + 3 <= Len(w) THEN Len(w) - (c + 3) + 1 ELSE 0
          /\ \A k \in 1 .. Len(w) - (c + 3) + 1 : x[k] = w[c + 3 + k - 1]
      BY <2>3, <2>4, SubSeqProperties
    <2> HIDE DEF x
    <2>6. Len(x) = Len(n) /\ Len(w) - (c + 3) + 1 = Len(n) BY <1>2, <2>5
    <2>7. \A k \in 1 .. Len(x) : x[k] = n[k] BY <1>2, <2>3, <2>5, <2>6
    <2>8. x = n BY <1>1, <2>5, <2>6, <2>7, SeqEqual
    <2>9. Trim(n) = n BY <1>1, TrimFacts DEF Clean
    <2> QED BY <2>2, <2>8, <2>9
  <1>9. ASSUME NEW k \in S PROVE NalAt(w, k) = NalAt(s, k)
    <2>1. k \in 1 .. m - 2 /\ k + 3 \in Int /\ k < c BY <1>2, <1>4
    <2>2. CASE later(S, k) = {}
      <3>1. later(T, k) = {c} BY <1>3, <2>1, <2>2
      <3>2. Min({c}) = c
        <4>1. {c} \subseteq Nat /\ {c} # {} BY <1>2
        <4> HIDE DEF c
        <4> QED BY <4>1, MinIsLeast
      <3>3. NalAt(w, k) = Trim(SubSeq(w, k + 3, c - 1)) BY <1>5, <3>1, <3>2
      <3>4. NalAt(s, k) = Trim(SubSeq(s, k + 3, m)) BY <1>5, <2>2
      <3> DEFINE x == SubSeq(w, k + 3, c - 1)
                 y == SubSeq(s, k + 3, m)
      <3>5. c - 1 = m + g /\ c - 1 \in Int /\ m \in Int BY <1>2
      <3>6. /\ y \in Seq(Byte) /\ Len(y) = IF k + 3 <= m THEN m - (k + 3) + 1 ELSE 0
            /\ \A j \in 1 .. m - (k + 3) + 1 : y[j] = s[k + 3 + j - 1]
        <4>1. \A j \in k + 3 .. m : s[j] \in Byte BY <1>2, <1>6, <2>1
        <4> QED BY <2>1, <3>5, <4>1, SubSeqProperties
      <3>7. /\ x \in Seq(Byte) /\ Len(x) = IF k + 3 <= c - 1 THEN (c - 1) - (k + 3) + 1 ELSE 0
            /\ \A j \in 1 .. (c - 1) - (k + 3) + 1 : x[j] = w[k + 3 + j - 1]
        <4>1. \A j \in k + 3 .. c - 1 : w[j] \in Byte
          <5>1. \A j \in 1 .. Len(w) : w[j] \in Byte BY <1>2, ElementOfSeq
          <5> QED BY <1>2, <2>1, <3>5, <5>1
        <4> QED BY <2>1, <3>5, <4>1, SubSeqProperties
      <3> HIDE DEF x, y
      <3>8. Len(y) = m - (k + 3) + 1 /\ Len(x) = m + g - (k + 3) + 1 BY <1>2, <2>1, <3>5, <3>6, <3>7
      <3>9. \A j \in 1 .. Len(y) : x[j] = y[j]
        <4> SUFFICES ASSUME NEW j \in 1 .. Len(y) PROVE x[j] = y[j] OBVIOUS
        <4>1. k + 3 + j - 1 \in 1 .. m /\ j \in 1 .. (c - 1) - (k + 3) + 1
              /\ j \in 1 .. m - (k + 3) + 1
          BY <1>2, <2>1, <3>5, <3>8
        <4> QED BY <1>2, <3>6, <3>7, <4>1
      <3>10. \A j \in Len(y) + 1 .. Len(x) : x[j] = 0
        <4> SUFFICES ASSUME NEW j \in Len(y) + 1 .. Len(x) PROVE x[j] = 0 OBVIOUS
        <4>1. k + 3 + j - 1 \in m + 1 .. m + g + 2 /\ j \in 1 .. (c - 1) - (k + 3) + 1
          BY <1>2, <2>1, <3>5, <3>8
        <4> QED BY <1>2, <3>7, <4>1
      <3>11. Len(y) <= Len(x) BY <1>2, <2>1, <3>8
      <3>12. Trim(x) = Trim(y) BY <3>6, <3>7, <3>9, <3>10, <3>11, TrimFacts
      <3> QED BY <3>3, <3>4, <3>12 DEF x, y
    <2>3. CASE later(S, k) # {}
      <3> DEFINE L == later(S, k)
                 h == Min(L)
      <3>1. L \subseteq Nat /\ L # {} /\ c \in Nat /\ \A j \in L : j <= m - 2
        BY <1>2, <1>4, <2>3
      <3>2. later(T, k) = L \cup {c} BY <1>3, <2>1
      <3> HIDE DEF L
      <3>3. h \in L /\ \A j \in L : h <= j BY <3>1, MinIsLeast
      <3> HIDE DEF h
      <3>4. L \cup {c} \subseteq Nat /\ L \cup {c} # {} BY <3>1
      <3>5. Min(L \cup {c}) \in L \cup {c} /\ \A j \in L \cup {c} : Min(L \cup {c}) <= j
        BY <3>4, MinIsLeast
      <3>6. h \in Nat /\ h < c /\ h <= m - 2 BY <1>2, <3>1, <3>3
      <3>7. Min(L \cup {c}) = h
        <4>1. Min(L \cup {c}) <= h BY <3>3, <3>5
        <4>2. Min(L \cup {c}) \in L BY <1>2, <3>5, <3>6, <4>1
        <4>3. h <= Min(L \cup {c}) /\ Min(L \cup {c}) \in Nat BY <3>1, <3>3, <4>2
        <4> QED BY <3>6, <4>1, <4>3
      <3>8. later(T, k) # {} BY <3>2
      <3>9. NalAt(w, k) = Trim(SubSeq(w, k + 3, h - 1)) BY <1>5, <3>2, <3>7, <3>8
      <3>10. NalAt(s, k) = Trim(SubSeq(s, k + 3, h - 1)) BY <1>5, <2>3 DEF h, L
      <3> DEFINE x == SubSeq(w, k + 3, h - 1)
                 y == SubSeq(s, k + 3, h - 1)
      <3>11. h - 1 \in Int /\ \A j \in k + 3 .. h - 1 : j \in 1 .. m BY <1>2, <2>1, <3>6
      <3>12. \A j \in k + 3 .. h - 1 : s[j] \in Byte /\ w[j] = s[j] BY <1>2, <1>6, <3>11
      <3>13. /\ y \in Seq(Byte) /\ Len(y) = IF k + 3 <= h - 1 THEN (h - 1) - (k + 3) + 1 ELSE 0
             /\ \A j \in 1 .. (h - 1) - (k + 3) + 1 : y[j] = s[k + 3 + j - 1]
        BY <2>1, <3>11, <3>12, SubSeqProperties
      <3>14. /\ x \in Seq(Byte) /\ Len(x) = IF k + 3 <= h - 1 THEN (h - 1) - (k + 3) + 1 ELSE 0
             /\ \A j \in 1 .. (h - 1) - (k + 3) + 1 : x[j] = w[k + 3 + j - 1]
        BY <2>1, <3>11, <3>12, SubSeqProperties
      <3> HIDE DEF x, y
      <3>15. \A j \in 1 .. Len(y) : x[j] = y[j]
        <4> SUFFICES ASSUME NEW j \in 1 .. Len(y) PROVE x[j] = y[j] OBVIOUS
        <4>1. j \in 1 .. (h - 1) - (k + 3) + 1 /\ k + 3 + j - 1 \in k + 3 .. h - 1
          BY <2>1, <3>6, <3>13
        <4> QED BY <3>12, <3>13, <3>14, <4>1
      <3>16. x = y BY <3>13, <3>14, <3>15, SeqEqual
      <3> QED BY <3>9, <3>10, <3>16 DEF x, y
    <2> QED BY <2>2, <2>3
  <1> QED BY <1>8, <1>9 DEF w, m, S

\* extract_nals finds one NAL unit more, the one that was written, and those before it
\* as they were: whatever is in the stream so far and however long the start code is.
THEOREM OneNalMore ==
  ASSUME NEW s \in Seq(Byte), NEW g \in Nat, NEW n, Clean(n)
  PROVE  AllNals(s \o (Zeros(g) \o <<0, 0, 1>>) \o n) = Append(AllNals(s), n)
  <1> DEFINE w == s \o (Zeros(g) \o <<0, 0, 1>>) \o n
             m == Len(s)
             c == m + g + 1
             a == Ascending(StartCodes(s), m)
             b == Ascending(StartCodes(w), Len(w))
  <1>1. n \in Seq(Byte) BY DEF Clean
  <1>2. w \in Seq(Byte) /\ m \in Nat /\ Len(n) \in Nat /\ Len(w) = m + g + 3 + Len(n)
    BY <1>1, StreamBytes
  <1>3. StartCodes(w) = StartCodes(s) \cup {c} BY OneStartCodeMore
  <1>4. NalAt(w, c) = n /\ \A k \in StartCodes(s) : NalAt(w, k) = NalAt(s, k) BY NalsStay
  <1> HIDE DEF w
  <1>5. b = Append(a, c)
    <2> DEFINE S == StartCodes(s)
               l == Len(w)
    <2>1. \A k \in S : k \in 1 .. m BY <1>2 DEF StartCodes
    <2>2. m \in Nat /\ c \in Nat /\ m < c /\ l \in Nat /\ c <= l BY <1>2
    <2> HIDE DEF m, c, S, l
    <2>3. Ascending(S \cup {c}, l) = Append(Ascending(S, m), c)
      BY <2>1, <2>2, AscendingOneMore, ZenonT(60)
    <2> QED BY <1>3, <2>3 DEF S, l
  <1>6. /\ Len(a) \in Nat /\ \A k \in 1 .. Len(a) : a[k] \in StartCodes(s)
        /\ AllNals(s) \in Seq(Seq(Byte)) /\ Len(AllNals(s)) = Len(a)
        /\ \A k \in 1 .. Len(a) : AllNals(s)[k] = NalAt(s, a[k])
        /\ a \in Seq(Nat)
    BY <1>2, AllNalsFacts, AscendingRec
  <1>7. /\ AllNals(w) \in Seq(Seq(Byte)) /\ Len(AllNals(w)) = Len(b)
        /\ \A k \in 1 .. Len(b) : AllNals(w)[k] = NalAt(w, b[k])
    BY <1>2, AllNalsFacts
  <1> HIDE DEF a, b
  <1>8. Len(b) = Len(a) + 1 /\ b[Len(a) + 1] = c /\ \A k \in 1 .. Len(a) : b[k] = a[k]
    <2>1. c \in Nat BY <1>2
    <2> HIDE DEF c
    <2> QED BY <1>5, <1>6, <2>1, AppendProperties
  <1> DEFINE x == Append(AllNals(s), n)
  <1>9. /\ x \in Seq(Seq(Byte)) /\ Len(x) = Len(a) + 1 /\ x[Len(a) + 1] = n
        /\ \A k \in 1 .. Len(a) : x[k] = AllNals(s)[k]
    BY <1>1, <1>6, AppendProperties
  <1> HIDE DEF x
  <1>10. \A k \in 1 .. Len(AllNals(w)) : AllNals(w)[k] = x[k]
    <2> SUFFICES ASSUME NEW k \in 1 .. Len(a) + 1 PROVE AllNals(w)[k] = x[k] BY <1>7, <1>8
    <2>1. AllNals(w)[k] = NalAt(w, b[k]) BY <1>7, <1>8
    <2>2. CASE k = Len(a) + 1 BY <1>4, <1>8, <1>9, <2>1, <2>2
    <2>3. CASE k \in 1 .. Len(a)
      <3>1. b[k] = a[k] /\ a[k] \in StartCodes(s) BY <1>6, <1>8, <2>3
      <3>2. NalAt(w, b[k]) = NalAt(s, a[k]) BY <1>4, <3>1
      <3> QED BY <1>6, <1>9, <2>1, <2>3, <3>2
    <2> QED BY <1>6, <2>2, <2>3
  <1>11. AllNals(w) = x BY <1>7, <1>8, <1>9, <1>10, SeqEqual
  <1> QED BY <1>11 DEF w, x

\* What extract_nals leaves out leaves the others as they are.
LEMMA NonEmptyFacts ==
  ASSUME NEW a \in Seq(Seq(Byte))
  PROVE  LET b == NonEmpty(a)
         IN  /\ b \in Seq(Seq(Byte)) /\ Len(b) \in Nat
             /\ \A k \in 1 .. Len(b) : b[k] # <<>> /\ \E j \in 1 .. Len(a) : b[k] = a[j]
  <1> DEFINE F == {k \in DOMAIN a : a[k] # <<>>}
             full == Ascending(F, Len(a))
             b == NonEmpty(a)
  <1>1. Len(a) \in Nat /\ DOMAIN a = 1 .. Len(a) BY LenProperties
  <1>2. \A k \in 1 .. Len(a) : a[k] \in Seq(Byte) BY ElementOfSeq
  <1>3. Lists(full, F, Len(a)) BY <1>1, AscendingLists
  <1>4. b = [k \in DOMAIN full |-> a[full[k]]] BY DEF NonEmpty
  <1>5. \A k \in F : k \in 1 .. Len(a) /\ a[k] # <<>> BY <1>1
  <1> HIDE DEF full, b, F
  <1>6. full \in Seq(1 .. Len(a)) /\ \A k \in 1 .. Len(full) : full[k] \in F BY <1>3 DEF Lists
  <1>7. Len(full) \in Nat /\ DOMAIN full = 1 .. Len(full) BY <1>6, LenProperties
  <1>8. b = [k \in 1 .. Len(full) |-> a[full[k]]] BY <1>4, <1>7
  <1>9. \A k \in 1 .. Len(full) : a[full[k]] \in Seq(Byte) BY <1>2, <1>5, <1>6
  <1>10. [k \in 1 .. Len(full) |-> a[full[k]]] \in Seq(Seq(Byte)) BY <1>7, <1>9, IsASeq
  <1>11. b \in Seq(Seq(Byte)) /\ Len(b) = Len(full) BY <1>7, <1>8, <1>10
  <1>12. \A k \in 1 .. Len(b) : full[k] \in 1 .. Len(a) /\ b[k] = a[full[k]] /\ b[k] # <<>>
    BY <1>5, <1>6, <1>8, <1>11
  <1> QED BY <1>7, <1>11, <1>12 DEF b

\* Those that there is room for are the first.
LEMMA FirstNalsFacts ==
  ASSUME NEW a \in Seq(Seq(Byte))
  PROVE  LET b == FirstNals(a)
         IN  /\ b \in Seq(Seq(Byte)) /\ Len(b) \in Nat /\ Len(b) <= MaxNals /\ Len(b) <= Len(a)
             /\ \A k \in 1 .. Len(b) : b[k] = a[k]
  <1> DEFINE n == IF Len(a) < MaxNals THEN Len(a) ELSE MaxNals
             b == SubSeq(a, 1, n)
  <1>1. Len(a) \in Nat BY LenProperties
  <1>2. n \in Nat /\ n <= Len(a) /\ n <= MaxNals BY <1>1, ParserAssumption
  <1>3. FirstNals(a) = b BY DEF FirstNals
  <1>4. \A k \in 1 .. Len(a) : a[k] \in Seq(Byte) BY ElementOfSeq
  <1> HIDE DEF n
  <1>5. \A k \in 1 .. n : a[k] \in Seq(Byte) BY <1>1, <1>2, <1>4
  <1>6. 1 \in Int /\ n \in Int BY <1>2
  <1>7. /\ b \in Seq(Seq(Byte)) /\ Len(b) = IF 1 <= n THEN n - 1 + 1 ELSE 0
        /\ \A k \in 1 .. n - 1 + 1 : b[k] = a[1 + k - 1]
    BY <1>5, <1>6, SubSeqProperties
  <1> HIDE DEF b
  <1>8. n - 1 + 1 = n /\ Len(b) = n BY <1>2, <1>7
  <1>9. \A k \in 1 .. n : b[k] = a[k]
    <2>1. \A k \in 1 .. n : 1 + k - 1 = k BY <1>2
    <2> QED BY <1>7, <1>8, <2>1
  <1> QED BY <1>2, <1>3, <1>7, <1>8, <1>9

\* A NAL unit after its header byte is taken off.
NalRecord == [type : 0 .. 31, ref : 0 .. 3, data : Seq(Byte)]

\* The header byte is split into type and reference number; bytes below 128 have no
\* forbidden_zero_bit, and two bits are all of the number.
LEMMA NalsFacts ==
  ASSUME NEW a \in Seq(Seq(Byte)), \A k \in 1 .. Len(a) : a[k] # <<>>
  PROVE  LET b == Nals(a)
         IN  /\ b \in Seq(NalRecord) /\ Len(b) = Len(a) /\ Len(b) \in Nat
             /\ \A k \in 1 .. Len(a) :
                  /\ b[k].type = a[k][1] % 32 /\ b[k].data = Tail(a[k])
                  /\ a[k][1] \in Byte
                  /\ a[k][1] < 128 => b[k].ref = a[k][1] \div 32
  <1> DEFINE e(k) == [type |-> a[k][1] % 32, ref |-> (a[k][1] \div 32) % 4, data |-> Tail(a[k])]
             b == Nals(a)
  <1>1. Len(a) \in Nat /\ DOMAIN a = 1 .. Len(a) BY LenProperties
  <1>2. ASSUME NEW k \in 1 .. Len(a) PROVE e(k) \in NalRecord /\ a[k][1] \in Byte
    <2>1. a[k] \in Seq(Byte) /\ a[k] # <<>> BY ElementOfSeq
    <2>2. Len(a[k]) \in Nat \ {0} BY <2>1, EmptySeq
    <2>3. a[k][1] \in Byte /\ Tail(a[k]) \in Seq(Byte)
      <3>1. 1 \in 1 .. Len(a[k]) BY <2>2
      <3> QED BY <2>1, <3>1, ElementOfSeq, HeadTailProperties
    <2>4. \A x \in Byte : x % 32 \in 0 .. 31 /\ (x \div 32) % 4 \in 0 .. 3 BY SMT DEF Byte
    <2> QED BY <2>3, <2>4 DEF NalRecord
  <1>3. b = [k \in 1 .. Len(a) |-> e(k)] BY <1>1 DEF Nals
  <1>4. [k \in 1 .. Len(a) |-> e(k)] \in Seq(NalRecord)
    <2> HIDE DEF e
    <2> QED BY <1>1, <1>2, IsASeq
  <1>5. b \in Seq(NalRecord) /\ Len(b) = Len(a) BY <1>1, <1>3, <1>4
  <1>6. ASSUME NEW x \in Byte, x < 128 PROVE (x \div 32) % 4 = x \div 32
    <2>1. x \div 32 \in 0 .. 3 BY <1>6 DEF Byte
    <2>2. \A y \in 0 .. 3 : y % 4 = y OBVIOUS
    <2> QED BY <2>1, <2>2
  <1> HIDE DEF b
  <1>7. \A k \in 1 .. Len(a) : b[k] = e(k) BY <1>3
  <1>8. ASSUME NEW k \in 1 .. Len(a)
        PROVE  /\ b[k].type = a[k][1] % 32 /\ b[k].data = Tail(a[k])
               /\ b[k].ref = (a[k][1] \div 32) % 4
    <2>1. b[k] = e(k) BY <1>7
    <2> QED BY <2>1
  <1> QED BY <1>1, <1>2, <1>5, <1>6, <1>8 DEF b

\* Whatever the stream, extract_nals gives MaxNals of them at most.
LEMMA ExtractNalsFacts ==
  ASSUME NEW s \in Seq(Byte)
  PROVE  LET f == FirstNals(NonEmpty(AllNals(s)))
         IN  /\ f \in Seq(Seq(Byte)) /\ Len(f) <= MaxNals /\ ExtractNals(s) = Nals(f)
             /\ \A k \in 1 .. Len(f) : f[k] # <<>>
             /\ ExtractNals(s) \in Seq(NalRecord) /\ Len(ExtractNals(s)) = Len(f)
             /\ Len(f) \in Nat
  <1> DEFINE a == AllNals(s)
             b == NonEmpty(a)
             f == FirstNals(b)
  <1>1. a \in Seq(Seq(Byte)) BY AllNalsFacts
  <1>2. ExtractNals(s) = Nals(f) BY DEF ExtractNals
  <1> HIDE DEF a
  <1>3. b \in Seq(Seq(Byte)) /\ Len(b) \in Nat /\ \A k \in 1 .. Len(b) : b[k] # <<>>
    BY <1>1, NonEmptyFacts
  <1> HIDE DEF b
  <1>4. /\ f \in Seq(Seq(Byte)) /\ Len(f) <= MaxNals /\ Len(f) <= Len(b) /\ Len(f) \in Nat
        /\ \A k \in 1 .. Len(f) : f[k] = b[k]
    BY <1>3, FirstNalsFacts
  <1> HIDE DEF f
  <1>5. \A k \in 1 .. Len(f) : f[k] # <<>>
    <2>1. \A k \in 1 .. Len(f) : k \in 1 .. Len(b) BY <1>3, <1>4
    <2> QED BY <1>3, <1>4, <2>1
  <1>6. Nals(f) \in Seq(NalRecord) /\ Len(Nals(f)) = Len(f) BY <1>4, <1>5, NalsFacts
  <1> QED BY <1>2, <1>4, <1>5, <1>6 DEF f, b, a

\* The last byte is no zero.
FullEnd(s) == s # <<>> => s[Len(s)] # 0

\* NAL units that are put together without start codes have none in them: none of them
\* has one, and what ends in a byte that is no zero does not begin one.
LEMMA BareHasNone ==
  ASSUME NEW s \in Seq(Byte), StartCodes(s) = {}, FullEnd(s), NEW n, Clean(n)
  PROVE  s \o n \in Seq(Byte) /\ StartCodes(s \o n) = {} /\ FullEnd(s \o n)
  <1> DEFINE w == s \o n
             m == Len(s)
  <1>1. n \in Seq(Byte) /\ NoStartCode(n) /\ (n # <<>> => n[Len(n)] # 0) BY DEF Clean
  <1>2. /\ w \in Seq(Byte) /\ Len(w) = m + Len(n) /\ m \in Nat /\ Len(n) \in Nat
        /\ \A k \in 1 .. m : w[k] = s[k]
        /\ \A k \in 1 .. Len(n) : w[m + k] = n[k]
    BY <1>1, CatAt
  <1>3. /\ \A k \in StartCodes(w) :
             k \in 1 .. Len(w) - 2 /\ w[k] = 0 /\ w[k + 1] = 0 /\ w[k + 2] = 1
        /\ ~ \E k \in 1 .. m - 2 : s[k] = 0 /\ s[k + 1] = 0 /\ s[k + 2] = 1
    BY DEF StartCodes
  <1>4. m > 0 => s[m] # 0
    <2>1. m > 0 => s # <<>> BY EmptySeq
    <2> QED BY <2>1 DEF FullEnd
  <1>5. Len(n) > 0 => n[Len(n)] # 0 BY <1>1, EmptySeq
  <1> HIDE DEF w, m
  <1>6. ASSUME NEW k \in StartCodes(w) PROVE FALSE
    <2>1. k \in 1 .. Len(w) - 2 /\ w[k] = 0 /\ w[k + 1] = 0 /\ w[k + 2] = 1 BY <1>3
    <2>2. CASE k + 2 <= m
      <3>1. k \in 1 .. m - 2 /\ k \in 1 .. m /\ k + 1 \in 1 .. m /\ k + 2 \in 1 .. m
        BY <1>2, <2>1, <2>2
      <3>2. w[k] = s[k] /\ w[k + 1] = s[k + 1] /\ w[k + 2] = s[k + 2] BY <1>2, <3>1
      <3> QED BY <1>3, <2>1, <3>1, <3>2
    <2>3. CASE m = k \/ m = k + 1
      <3>1. m \in 1 .. m /\ m > 0 BY <1>2, <2>1, <2>3
      <3>2. w[m] = s[m] /\ s[m] # 0 BY <1>2, <1>4, <3>1
      <3> QED BY <2>1, <2>3, <3>2
    <2>4. CASE m < k
      <3> DEFINE r == k - m + 2
      <3>1. /\ r \in 3 .. Len(n) /\ r \in 1 .. Len(n)
            /\ r - 1 \in 1 .. Len(n) /\ r - 2 \in 1 .. Len(n)
            /\ m + r = k + 2 /\ m + (r - 1) = k + 1 /\ m + (r - 2) = k
        BY <1>2, <2>1, <2>4
      <3> HIDE DEF r
      <3>2. w[k + 2] = n[r] /\ w[k + 1] = n[r - 1] /\ w[k] = n[r - 2] BY <1>2, <3>1
      <3>3. n[r - 1] = 0 /\ n[r - 2] = 0 /\ n[r] = 1 BY <2>1, <3>2
      <3>4. n[r] >= 3 BY <1>1, <3>1, <3>3 DEF NoStartCode
      <3> QED BY <3>3, <3>4
    <2> QED BY <1>2, <2>1, <2>2, <2>3, <2>4
  <1>7. FullEnd(w)
    <2>1. CASE Len(n) > 0
      <3>1. Len(n) \in 1 .. Len(n) BY <1>2, <2>1
      <3>2. w[Len(w)] = n[Len(n)] BY <1>2, <3>1
      <3> QED BY <1>5, <2>1, <3>2 DEF FullEnd
    <2>2. CASE Len(n) = 0 /\ m > 0
      <3>1. m \in 1 .. m /\ Len(w) = m BY <1>2, <2>2
      <3>2. w[Len(w)] = s[m] BY <1>2, <3>1
      <3> QED BY <1>4, <2>2, <3>2 DEF FullEnd
    <2>3. CASE Len(n) = 0 /\ m = 0
      <3>1. Len(w) = 0 BY <1>2, <2>3
      <3>2. w = <<>> BY <1>2, <3>1, EmptySeq
      <3> QED BY <3>2 DEF FullEnd
    <2> QED BY <1>2, <2>1, <2>2, <2>3
  <1> QED BY <1>2, <1>6, <1>7 DEF w

\* Nor has what is left of a stream without start codes when its end is missing.
LEMMA BeginningOfStream ==
  ASSUME NEW s \in Seq(Byte), NEW m \in 0 .. Len(s)
  PROVE  LET w == SubSeq(s, 1, m)
         IN  /\ w \in Seq(Byte)
             /\ m = Len(s) => w = s
             /\ StartCodes(s) = {} => StartCodes(w) = {}
  <1> DEFINE w == SubSeq(s, 1, m)
  <1>1. Len(s) \in Nat BY LenProperties
  <1>2. m \in Nat /\ m <= Len(s) /\ m \in Int /\ 1 \in Int BY <1>1
  <1>3. \A k \in 1 .. m : s[k] \in Byte
    <2>1. \A k \in 1 .. Len(s) : s[k] \in Byte BY ElementOfSeq
    <2> QED BY <1>1, <1>2, <2>1
  <1>4. /\ w \in Seq(Byte) /\ Len(w) = IF 1 <= m THEN m - 1 + 1 ELSE 0
        /\ \A k \in 1 .. m - 1 + 1 : w[k] = s[1 + k - 1]
    BY <1>2, <1>3, SubSeqProperties
  <1>5. StartCodes(w) = {k \in 1 .. Len(w) - 2 : w[k] = 0 /\ w[k + 1] = 0 /\ w[k + 2] = 1}
    BY DEF StartCodes
  <1> HIDE DEF w
  <1>6. Len(w) = m BY <1>2, <1>4
  <1>7. ASSUME NEW k \in 1 .. m PROVE w[k] = s[k]
    <2>1. k \in 1 .. m - 1 + 1 /\ 1 + k - 1 = k BY <1>2
    <2> QED BY <1>4, <2>1
  <1>8. m = Len(s) => w = s BY <1>4, <1>6, <1>7, SeqEqual
  <1>9. ASSUME NEW k \in StartCodes(w) PROVE k \in StartCodes(s)
    <2>1. k \in 1 .. m - 2 /\ w[k] = 0 /\ w[k + 1] = 0 /\ w[k + 2] = 1 BY <1>5, <1>6
    <2>2. /\ k \in 1 .. Len(s) - 2 /\ k \in 1 .. m /\ k + 1 \in 1 .. m /\ k + 2 \in 1 .. m
      BY <1>1, <1>2, <2>1
    <2>3. w[k] = s[k] /\ w[k + 1] = s[k + 1] /\ w[k + 2] = s[k + 2] BY <1>7, <2>2
    <2> QED BY <2>1, <2>2, <2>3 DEF StartCodes
  <1> QED BY <1>4, <1>8, <1>9 DEF w

\* Where there is no start code there is no NAL unit.
LEMMA NoStartCodeNoNal ==
  ASSUME NEW s \in Seq(Byte), StartCodes(s) = {}
  PROVE  AllNals(s) = <<>> /\ ExtractNals(s) = <<>>
  <1> DEFINE a == Ascending(StartCodes(s), Len(s))
             f == FirstNals(NonEmpty(AllNals(s)))
  <1>1. Len(a) \in Nat /\ (\A k \in 1 .. Len(a) : a[k] \in StartCodes(s))
        /\ AllNals(s) \in Seq(Seq(Byte)) /\ Len(AllNals(s)) = Len(a)
    BY AllNalsFacts
  <1>2. Len(AllNals(s)) = 0
    <2> HIDE DEF a
    <2>1. Len(a) > 0 => 1 \in 1 .. Len(a) BY <1>1
    <2> QED BY <1>1, <2>1
  <1>3. AllNals(s) = <<>> BY <1>1, <1>2, EmptySeq
  <1>4. NonEmpty(AllNals(s)) \in Seq(Seq(Byte)) /\ Len(NonEmpty(AllNals(s))) = 0
    <2> DEFINE b == NonEmpty(AllNals(s))
    <2>1. b \in Seq(Seq(Byte)) /\ Len(b) \in Nat
          /\ \A k \in 1 .. Len(b) : \E j \in 1 .. Len(AllNals(s)) : b[k] = AllNals(s)[j]
      BY <1>1, NonEmptyFacts
    <2> HIDE DEF b
    <2>2. Len(b) > 0 => 1 \in 1 .. Len(b) BY <2>1
    <2>3. ~ \E j \in 1 .. Len(AllNals(s)) : TRUE BY <1>2
    <2>4. Len(b) = 0 BY <2>1, <2>2, <2>3
    <2> QED BY <2>1, <2>4 DEF b
  <1>5. /\ Len(f) \in Nat /\ Len(f) <= Len(NonEmpty(AllNals(s)))
    BY <1>4, FirstNalsFacts
  <1>6. ExtractNals(s) \in Seq(NalRecord) /\ Len(ExtractNals(s)) = Len(f) BY ExtractNalsFacts
  <1>7. Len(ExtractNals(s)) = 0
    <2> HIDE DEF f
    <2> QED BY <1>4, <1>5, <1>6
  <1> QED BY <1>3, <1>6, <1>7, EmptySeq

\* A value that is not signed is a number.
LEMMA ReadNat ==
  ASSUME NEW br \in Reader, NEW pos \in Nat, NEW fields \in Seq(Fields)
  PROVE  \A k \in 1 .. Len(fields) : fields[k] # Se => Read(br, pos, fields).val[k] \in Nat
  <1> DEFINE n == Len(fields)
  <1>1. n \in Nat /\ \A k \in 1 .. n : fields[k] \in Fields BY ElementOfSeq, LenProperties
  <1> HIDE DEF n
  <1>2. PICK r : /\ r \in [Nat -> Results] /\ r[0] = [pos |-> pos, val |-> <<>>]
                 /\ \A ix \in 0 .. n - 1 : r[ix + 1] = ReadOne(br, r[ix], fields[ix + 1])
                 /\ Read(br, pos, fields) = r[n]
    BY ReadSteps DEF n
  <1> DEFINE P(m) == m <= n => /\ r[m] \in Results /\ Len(r[m].val) = m
                               /\ \A k \in 1 .. m : fields[k] # Se => r[m].val[k] \in Nat
             D == {m \in Nat : P(m)}
  <1>3. 0 \in D
    <2>1. Len(r[0].val) = 0 /\ r[0] \in Results BY <1>2
    <2> QED BY <2>1
  <1>4. ASSUME NEW m \in Nat, m \in D PROVE m + 1 \in D
    <2> SUFFICES ASSUME m + 1 <= n PROVE P(m + 1) OBVIOUS
    <2> DEFINE old == r[m]
               new == r[m + 1]
               f == fields[m + 1]
    <2>1. /\ old \in Results /\ Len(old.val) = m
          /\ \A k \in 1 .. m : fields[k] # Se => old.val[k] \in Nat
      BY <1>1, <1>4
    <2>2. m \in 0 .. n - 1 /\ m + 1 \in 1 .. n BY <1>1, <1>4
    <2>3. new = ReadOne(br, old, f) /\ f \in Fields BY <1>1, <1>2, <2>2
    <2> HIDE DEF old, new, f
    <2>4. new \in Results /\ Len(new.val) = m + 1 BY <2>1, <2>3, ReadOneType
    <2>5. \E v \in Int : new.val = Append(old.val, v) /\ (f # Se => v \in Nat)
      <3>1. old.pos \in Nat /\ old.val \in Seq(Int) BY <2>1 DEF Results
      <3>2. CASE f \in {U(j) : j \in Nat}
        <4>1. PICK j \in Nat : f = U(j) BY <3>2
        <4>2. f.kind = "u" /\ f.n = j BY <4>1 DEF U
        <4>3. Value(br, old.pos, j) \in Nat BY <3>1, ValueRec
        <4>4. new.val = Append(old.val, Value(br, old.pos, j)) BY <2>3, <4>2 DEF ReadOne
        <4> QED BY <4>3, <4>4
      <3>3. CASE f = Ue
        <4>1. f.kind = "ue" BY <3>3 DEF Ue
        <4>2. UeAt(br, old.pos) \in Nat BY <3>1, UeType
        <4>3. new.val = Append(old.val, UeAt(br, old.pos)) BY <2>3, <4>1 DEF ReadOne
        <4> QED BY <4>2, <4>3
      <3>4. CASE f = Se
        <4>1. new.val = Append(old.val, new.val[m + 1]) /\ new.val[m + 1] \in Int
          <5>1. f.kind = "se" BY <3>4 DEF Se
          <5>2. PICK v : new.val = Append(old.val, v) BY <2>3, <5>1 DEF ReadOne
          <5>3. new.val \in Seq(Int) /\ m + 1 \in 1 .. Len(new.val) BY <2>4 DEF Results
          <5>4. new.val[m + 1] \in Int BY <5>3, ElementOfSeq
          <5>5. new.val[Len(old.val) + 1] = v BY <3>1, <5>2
          <5>6. new.val[m + 1] = v BY <2>1, <5>5
          <5> QED BY <5>2, <5>4, <5>6
        <4> QED BY <3>4, <4>1
      <3> QED BY <2>3, <3>2, <3>3, <3>4 DEF Fields
    <2>6. PICK v \in Int : new.val = Append(old.val, v) /\ (f # Se => v \in Nat) BY <2>5
    <2>7. old.val \in Seq(Int) BY <2>1 DEF Results
    <2>8. /\ new.val[Len(old.val) + 1] = v
          /\ \A k \in 1 .. Len(old.val) : new.val[k] = old.val[k]
      BY <2>6, <2>7, AppendProperties
    <2>9. ASSUME NEW k \in 1 .. m + 1, fields[k] # Se PROVE new.val[k] \in Nat
      <3>1. k = m + 1 \/ k \in 1 .. m OBVIOUS
      <3>2. CASE k = m + 1 BY <2>1, <2>6, <2>8, <2>9, <3>2 DEF f
      <3>3. CASE k \in 1 .. m BY <2>1, <2>8, <2>9, <3>3
      <3> QED BY <3>1, <3>2, <3>3
    <2> QED BY <2>4, <2>9 DEF new
  <1> HIDE DEF D
  <1>5. Nat \subseteq D BY <1>3, <1>4, NatInd
  <1>6. P(n) BY <1>1, <1>5 DEF D
  <1> QED BY <1>1, <1>2, <1>6 DEF n

\* The three kinds of fields are told apart.
LEMMA FieldLists ==
  /\ Ue \in Fields /\ Se \in Fields /\ \A n \in Nat : U(n) \in Fields /\ U(n) # Se
  /\ Ue # Se
  <1>1. \A n \in Nat : U(n).kind = "u" BY DEF U
  <1>2. Ue.kind = "ue" /\ Se.kind = "se" BY DEF Ue, Se
  <1> QED BY <1>1, <1>2 DEF Fields

\* What the later headers need of an SPS.
Widths(s) == s.log2 \in Nat /\ s.poc \in Nat /\ s.pocLog2 \in Nat

\* parse_sps gives numbers for whatever bytes.
LEMMA ParseSpsType ==
  ASSUME NEW br \in Reader
  PROVE  LET s == ParseSps(br) IN s.ok \in BOOLEAN /\ (s.ok => Widths(s))
  <1> DEFINE F == <<U(8), U(8), U(8), Ue, Ue, Ue>>
             G == <<Ue>>
             a == Read(br, 0, F)
             b == Read(br, a.pos, IF a.val[6] = 0 THEN <<Ue>> ELSE <<>>)
             s == ParseSps(br)
  <1>1. F \in Seq(Fields) /\ Len(F) = 6 /\ F[4] = Ue /\ F[5] = Ue /\ F[6] = Ue
        /\ G \in Seq(Fields) /\ Len(G) = 1 /\ G[1] = Ue
    BY FieldLists
  <1>2. 0 \in Nat OBVIOUS
  <1> HIDE DEF F, G
  <1>3. 4 \in 1 .. Len(F) /\ 5 \in 1 .. Len(F) /\ 6 \in 1 .. Len(F) /\ 1 \in 1 .. Len(G) BY <1>1
  <1>4. Read(br, 0, F) \in Results BY <1>1, ReadAppend, FieldLists
  <1>5. \A k \in 1 .. Len(F) : F[k] # Se => Read(br, 0, F).val[k] \in Nat BY <1>1, ReadNat
  <1>6. a.pos \in Nat /\ a.val[5] \in Nat /\ a.val[6] \in Nat
    <2>1. Ue # Se BY FieldLists
    <2> QED BY <1>1, <1>3, <1>4, <1>5, <2>1 DEF Results
  <1> HIDE DEF a
  <1>7. a.val[6] = 0 => b.val[1] \in Nat
    <2> SUFFICES ASSUME a.val[6] = 0 PROVE b.val[1] \in Nat OBVIOUS
    <2>1. b = Read(br, a.pos, G) BY DEF G
    <2>2. \A k \in 1 .. Len(G) : G[k] # Se => Read(br, a.pos, G).val[k] \in Nat
      BY <1>1, <1>6, ReadNat
    <2>3. Ue # Se BY FieldLists
    <2> QED BY <1>1, <1>3, <2>1, <2>2, <2>3
  <1>8. \/ s = No
        \/ s.ok = TRUE /\ s.log2 = a.val[5] /\ s.poc = a.val[6]
           /\ s.pocLog2 = IF a.val[6] = 0 THEN b.val[1] ELSE 0
    <2> DEFINE c == Read(br, b.pos, <<Ue, U(1), Ue, Ue, U(1)>>)
    <2>1. s = IF a.val[6] = 1 \/ c.val[5] = 0 THEN No
              ELSE [ok |-> TRUE, id |-> a.val[4], log2 |-> a.val[5], poc |-> a.val[6],
                    pocLog2 |-> IF a.val[6] = 0 THEN b.val[1] ELSE 0,
                    refs |-> c.val[1], width |-> c.val[3] + 1, height |-> c.val[4] + 1]
      BY DEF ParseSps, a, F
    <2> HIDE DEF s, b, c
    <2> QED BY <2>1
  <1> HIDE DEF s, b
  <1>9. s = No => s.ok = FALSE BY DEF No
  <1> QED BY <1>2, <1>6, <1>7, <1>8, <1>9 DEF Widths, s

\* parse_pps accepts or not.
LEMMA ParsePpsType ==
  ASSUME NEW br PROVE ParsePps(br).ok \in BOOLEAN
  <1> DEFINE a == Read(br, 0, <<Ue, Ue, U(1), U(1), Ue>>)
             b == Read(br, a.pos, <<Ue, Ue, U(1), U(2), Se, Se, Se, U(1), U(1), U(1)>>)
             p == ParsePps(br)
  <1>1. p = IF a.val[5] # 0 THEN No
            ELSE [ok |-> TRUE, id |-> a.val[1], spsId |-> a.val[2], cabac |-> a.val[3],
                  l0 |-> b.val[1], qp |-> b.val[5] + 26, deblocking |-> b.val[8]]
    BY DEF ParsePps
  <1> HIDE DEF a, b, p
  <1>2. p.ok = FALSE \/ p.ok = TRUE BY <1>1 DEF No
  <1> QED BY <1>2 DEF p

\* parse_slice_header reads a number of bits, whatever the bytes are.
LEMMA ParseSliceType ==
  ASSUME NEW br \in Reader, NEW ref, NEW s, NEW p, Widths(s)
  PROVE  LET h == ParseSliceHeader(br, ref, s, p)
         IN  h.ok \in BOOLEAN /\ (h.ok => h.bits \in Nat)
  <1> DEFINE A == <<Ue, Ue, Ue, U(s.log2 + 4), Ue>>
                  \o (IF s.poc = 0 THEN <<U(s.pocLog2 + 4)>> ELSE <<>>)
             B == (IF ref # 0 THEN <<U(1), U(1)>> ELSE <<>>) \o <<Se>>
             C == IF p.deblocking = 1 THEN <<Ue>> ELSE <<>>
             a == Read(br, 0, A)
             b == Read(br, a.pos, B)
             c == Read(br, b.pos, C)
             D == IF c.val \in {<<>>, <<1>>} THEN <<>> ELSE <<Se, Se>>
             d == Read(br, c.pos, D)
             h == ParseSliceHeader(br, ref, s, p)
  <1>1. \A u, v \in Seq(Fields) : u \o v \in Seq(Fields) BY ConcatProperties
  <1>2. s.log2 + 4 \in Nat /\ s.pocLog2 + 4 \in Nat /\ 1 \in Nat /\ 0 \in Nat BY DEF Widths
  <1>3. /\ U(s.log2 + 4) \in Fields /\ U(s.pocLog2 + 4) \in Fields /\ U(1) \in Fields
        /\ Ue \in Fields /\ Se \in Fields
    BY <1>2, FieldLists
  <1>4. A \in Seq(Fields)
    <2>1. <<Ue, Ue, Ue, U(s.log2 + 4), Ue>> \in Seq(Fields) BY <1>3
    <2>2. (IF s.poc = 0 THEN <<U(s.pocLog2 + 4)>> ELSE <<>>) \in Seq(Fields) BY <1>3
    <2> QED BY <1>1, <2>1, <2>2
  <1>5. B \in Seq(Fields)
    <2>1. (IF ref # 0 THEN <<U(1), U(1)>> ELSE <<>>) \in Seq(Fields) BY <1>3
    <2>2. <<Se>> \in Seq(Fields) BY <1>3
    <2> QED BY <1>1, <2>1, <2>2
  <1>6. C \in Seq(Fields) /\ D \in Seq(Fields)
    <2>1. <<Ue>> \in Seq(Fields) /\ <<Se, Se>> \in Seq(Fields) /\ <<>> \in Seq(Fields) BY <1>3
    <2> QED BY <2>1
  <1>7. \A q \in Nat, F \in Seq(Fields) : Read(br, q, F).pos \in Nat
    BY <1>3, ReadAppend DEF Results
  <1>8. d.pos \in Nat
    <2> HIDE DEF A, B, C, D
    <2>1. a.pos \in Nat BY <1>2, <1>4, <1>7
    <2>2. b.pos \in Nat BY <1>5, <1>7, <2>1
    <2>3. c.pos \in Nat BY <1>6, <1>7, <2>2
    <2> QED BY <1>6, <1>7, <2>3
  <1>9. h = IF a.val[2] % 5 \notin {2, 4} \/ p.cabac = 1 THEN No
            ELSE [ok |-> TRUE, firstMb |-> a.val[1], type |-> a.val[2] % 5, frameNum |-> a.val[4],
                  pocLsb |-> IF s.poc = 0 THEN a.val[6] ELSE 0,
                  qpDelta |-> Last(b.val), bits |-> d.pos]
    BY DEF ParseSliceHeader
  <1> HIDE DEF a, b, c, d, h
  <1>10. h.ok = FALSE \/ (h.ok = TRUE /\ h.bits = d.pos) BY <1>9 DEF No
  <1> QED BY <1>8, <1>10 DEF h

------------------------------------------------------------------------------
(* The invariants of H264Stream.                                           *)

InputInv ==
    /\ scenario \in DOMAIN Scenarios /\ pic \in Given.pictures
    /\ gap \in Given.gaps /\ past \in Given.pasts

TypeInv ==
    /\ InputInv
    /\ pc \in {"write", "split", "scan", "slice", "accepted", "rejected"}
    /\ stream \in Seq(Byte) /\ written \in Seq(Seq(Byte))
    /\ nals \in Seq(NalRecord) /\ Len(nals) <= MaxNals
    /\ i \in 1 .. Len(nals) + 1 /\ idr \in 0 .. Len(nals)
    /\ sps.ok \in BOOLEAN /\ (sps.ok => Widths(sps)) /\ pps.ok \in BOOLEAN
    /\ offset \in 0 .. Pow2[16] - 1

\* The stream has the NAL units that were written, and none when they were written
\* without start codes; what is parsed was found in it.
StreamInv ==
    /\ \A k \in 1 .. Len(written) : Clean(written[k])
    /\ cut = 0 /\ Given.framing = "annexb" => AllNals(stream) = written
    /\ Given.framing = "bare" => StartCodes(stream) = {}
    /\ Given.framing = "bare" /\ pc = "write" => FullEnd(stream)
    /\ pc = "write" => cut = 0
    /\ pc \in {"write", "split"} => nals = <<>> /\ i = 1
    /\ pc \notin {"write", "split"} => nals = ExtractNals(stream)
    /\ pc \in {"slice", "accepted"} => Found
    /\ pc = "accepted" => offset <= 8 * (Len(nals[idr].data) + 1)

Inv == TypeInv /\ StreamInv

\* What a scenario gives is what it is assumed to give.
LEMMA InputFacts ==
  ASSUME InputInv
  PROVE  /\ PictureFields(pic) /\ Given.written \in Nat /\ Given.framing \in {"annexb", "bare"}
         /\ gap \in Nat /\ past \in Nat /\ Given.cuts \subseteq Nat
  <1>1. scenario \in DOMAIN Scenarios BY DEF InputInv
  <1>2. /\ \A p \in Given.pictures : PictureFields(p)
        /\ Given.written \in Nat /\ Given.framing \in {"annexb", "bare"}
        /\ Given.gaps \subseteq Nat /\ Given.cuts \subseteq Nat /\ Given.pasts \subseteq Nat
    BY <1>1, ScenariosAssumption DEF Given
  <1> QED BY <1>2 DEF InputInv

\* What the parser of headers is given is bytes.
LEMMA RbspType ==
  ASSUME TypeInv, NEW k \in 1 .. Len(nals)
  PROVE  Rbsp(k) \in Reader
  <1>1. past \in Nat BY InputFacts DEF TypeInv
  <1>2. nals[k] \in NalRecord BY ElementOfSeq DEF TypeInv
  <1>3. nals[k].data \in Seq(Byte) BY <1>2 DEF NalRecord
  <1>4. 0 \in Byte BY DEF Byte
  <1>5. Deescape(nals[k].data) \in Seq(Byte) BY <1>3, <1>4, DeescapeAppend
  <1> QED BY <1>1, <1>5 DEF Rbsp, Reader

\* At first nothing is written and nothing found.
LEMMA InitInv == ASSUME Init PROVE Inv
  <1>1. stream = <<>> /\ written = <<>> /\ nals = <<>> /\ pc = "write" /\ cut = 0
        /\ i = 1 /\ idr = 0 /\ offset = 0 /\ sps = No /\ pps = No /\ InputInv
    BY DEF Init, InputInv
  <1>2. <<>> \in Seq(Byte) /\ <<>> \in Seq(Seq(Byte)) /\ <<>> \in Seq(NalRecord)
        /\ Len(<<>>) = 0
    OBVIOUS
  <1>3. StartCodes(<<>>) = {} BY DEF StartCodes
  <1>4. AllNals(<<>>) = <<>> BY <1>2, <1>3, NoStartCodeNoNal
  <1>5. 0 \in 0 .. Pow2[16] - 1
    <2>1. Pow2[16] \in Nat \ {0} BY Pow2Rec
    <2> QED BY <2>1
  <1>6. No.ok = FALSE BY DEF No
  <1>7. TypeInv
    <2>1. Len(nals) = 0 /\ 0 <= MaxNals BY <1>1, <1>2, ParserAssumption
    <2>2. i \in 1 .. Len(nals) + 1 /\ idr \in 0 .. Len(nals) BY <1>1, <2>1
    <2>3. stream \in Seq(Byte) /\ written \in Seq(Seq(Byte)) /\ nals \in Seq(NalRecord)
      BY <1>1, <1>2
    <2>4. sps.ok = FALSE /\ pps.ok = FALSE BY <1>1, <1>6
    <2> QED BY <1>1, <1>5, <2>1, <2>2, <2>3, <2>4 DEF TypeInv
  <1>8. FullEnd(<<>>) BY DEF FullEnd
  <1>9. StreamInv BY <1>1, <1>2, <1>3, <1>4, <1>8 DEF StreamInv
  <1> QED BY <1>7, <1>9 DEF Inv

\* A NAL unit more in the stream is one more that is found; without start code, none.
LEMMA EmitInv ==
  ASSUME Inv, NEW kind, Emit(kind)
  PROVE  Inv'
  <1> DEFINE n == NalUnit(kind)
  <1>1. /\ pc = "write" /\ pc' = pc /\ cut' = cut /\ nals' = nals /\ i' = i /\ idr' = idr
        /\ sps' = sps /\ pps' = pps /\ slice' = slice /\ offset' = offset
        /\ scenario' = scenario /\ pic' = pic /\ gap' = gap /\ past' = past
        /\ written' = Append(written, n) /\ stream' = stream \o StartCode \o n
    BY DEF Emit, input
  <1>2. InputInv /\ stream \in Seq(Byte) /\ written \in Seq(Seq(Byte)) BY DEF Inv, TypeInv
  <1>3. PictureFields(pic) /\ gap \in Nat /\ Given.framing \in {"annexb", "bare"}
    BY <1>2, InputFacts
  <1>4. Clean(n) /\ n \in Seq(Byte)
    <2>1. Clean(n) BY <1>3, NalUnitsAreClean
    <2> QED BY <2>1 DEF Clean
  <1> HIDE DEF n
  <1>5. cut = 0 BY <1>1 DEF Inv, StreamInv
  <1>6. Given' = Given BY <1>1 DEF Given
  <1>7. /\ written' \in Seq(Seq(Byte)) /\ Len(written') = Len(written) + 1
        /\ written'[Len(written) + 1] = n
        /\ \A k \in 1 .. Len(written) : written'[k] = written[k]
        /\ Len(written) \in Nat
    BY <1>1, <1>2, <1>4, AppendProperties, LenProperties
  <1>8. \A k \in 1 .. Len(written') : Clean(written'[k])
    <2> SUFFICES ASSUME NEW k \in 1 .. Len(written') PROVE Clean(written'[k]) OBVIOUS
    <2>1. k = Len(written) + 1 \/ k \in 1 .. Len(written) BY <1>7
    <2>2. CASE k = Len(written) + 1 BY <1>4, <1>7, <2>2
    <2>3. CASE k \in 1 .. Len(written) BY <1>7, <2>3 DEF Inv, StreamInv
    <2> QED BY <2>1, <2>2, <2>3
  <1>9. CASE Given.framing = "annexb"
    <2>1. StartCode = Zeros(gap) \o <<0, 0, 1>> BY <1>9 DEF StartCode
    <2>2. AllNals(stream) = written BY <1>5, <1>9 DEF Inv, StreamInv
    <2>3. AllNals(stream') = written'
      <3>1. AllNals(stream \o (Zeros(gap) \o <<0, 0, 1>>) \o n) = Append(AllNals(stream), n)
        BY <1>2, <1>3, <1>4, OneNalMore
      <3>2. stream' = stream \o (Zeros(gap) \o <<0, 0, 1>>) \o n BY <1>1, <2>1
      <3> QED BY <1>1, <2>2, <3>1, <3>2
    <2>4. stream' \in Seq(Byte) BY <1>1, <1>2, <1>3, <1>4, <2>1, StreamBytes
    <2>5. TypeInv' BY <1>1, <1>6, <1>7, <2>4 DEF Inv, TypeInv, InputInv
    <2>6. StreamInv' BY <1>1, <1>6, <1>8, <1>9, <2>3 DEF Inv, StreamInv
    <2> QED BY <2>5, <2>6 DEF Inv
  <1>10. CASE Given.framing = "bare"
    <2>1. StartCode = <<>> BY <1>10 DEF StartCode
    <2>2. StartCodes(stream) = {} /\ FullEnd(stream) BY <1>1, <1>10 DEF Inv, StreamInv
    <2>3. stream' = stream \o n
      <3>1. stream \o <<>> = stream BY <1>2, ConcatEmptySeq
      <3> QED BY <1>1, <2>1, <3>1
    <2>4. stream' \in Seq(Byte) /\ StartCodes(stream') = {} /\ FullEnd(stream')
      BY <1>2, <1>4, <2>2, <2>3, BareHasNone
    <2>5. TypeInv' BY <1>1, <1>6, <1>7, <2>4 DEF Inv, TypeInv, InputInv
    <2>6. StreamInv' BY <1>1, <1>6, <1>8, <1>10, <2>4 DEF Inv, StreamInv
    <2> QED BY <2>5, <2>6 DEF Inv
  <1> QED BY <1>3, <1>9, <1>10

\* A stream that is not cut off is the stream that was written.
LEMMA RequestInv ==
  ASSUME Inv, NEW c \in Given.cuts, Request(c)
  PROVE  Inv'
  <1>1. /\ pc = "write" /\ pc' = "split" /\ cut' = c /\ nals' = nals /\ i' = i /\ idr' = idr
        /\ sps' = sps /\ pps' = pps /\ slice' = slice /\ offset' = offset /\ written' = written
        /\ scenario' = scenario /\ pic' = pic /\ gap' = gap /\ past' = past
        /\ c < Len(stream) /\ stream' = SubSeq(stream, 1, Len(stream) - c)
    BY DEF Request, input
  <1>2. InputInv /\ stream \in Seq(Byte) BY DEF Inv, TypeInv
  <1>3. c \in Nat BY <1>2, InputFacts
  <1>4. Len(stream) \in Nat BY <1>2, LenProperties
  <1>5. Len(stream) - c \in 0 .. Len(stream) /\ (c = 0 => Len(stream) - c = Len(stream))
    BY <1>1, <1>3, <1>4
  <1>6. /\ stream' \in Seq(Byte) /\ (c = 0 => stream' = stream)
        /\ (StartCodes(stream) = {} => StartCodes(stream') = {})
    BY <1>1, <1>2, <1>5, BeginningOfStream
  <1>7. Given' = Given BY <1>1 DEF Given
  <1>8. cut = 0 BY <1>1 DEF Inv, StreamInv
  <1>9. TypeInv' BY <1>1, <1>6, <1>7 DEF Inv, TypeInv, InputInv
  <1>10. StreamInv' BY <1>1, <1>6, <1>7, <1>8 DEF Inv, StreamInv
  <1> QED BY <1>9, <1>10 DEF Inv

\* extract_nals finds no more than there is room for.
LEMMA SplitInv ==
  ASSUME Inv, Split
  PROVE  Inv'
  <1>1. /\ pc = "split" /\ pc' = "scan" /\ cut' = cut /\ nals' = ExtractNals(stream)
        /\ i' = i /\ idr' = idr
        /\ sps' = sps /\ pps' = pps /\ slice' = slice /\ offset' = offset /\ written' = written
        /\ scenario' = scenario /\ pic' = pic /\ gap' = gap /\ past' = past
        /\ stream' = stream
    BY DEF Split, input
  <1>2. stream \in Seq(Byte) BY DEF Inv, TypeInv
  <1>3. nals' \in Seq(NalRecord) /\ Len(nals') <= MaxNals /\ Len(nals') \in Nat
    BY <1>1, <1>2, ExtractNalsFacts
  <1>4. i = 1 /\ idr = 0
    <2>1. nals = <<>> /\ i = 1 BY <1>1 DEF Inv, StreamInv
    <2>2. idr \in 0 .. Len(nals) BY DEF Inv, TypeInv
    <2>3. Len(nals) = 0 BY <2>1
    <2> QED BY <2>1, <2>2, <2>3
  <1>5. i' \in 1 .. Len(nals') + 1 /\ idr' \in 0 .. Len(nals') BY <1>1, <1>3, <1>4
  <1>6. Given' = Given BY <1>1 DEF Given
  <1>7. TypeInv' BY <1>1, <1>3, <1>5, <1>6 DEF Inv, TypeInv, InputInv
  <1>8. StreamInv' BY <1>1, <1>6 DEF Inv, StreamInv
  <1> QED BY <1>7, <1>8 DEF Inv

\* A step of the loop parses a header, or keeps the number of a slice.
LEMMA ScanInv ==
  ASSUME Inv, ScanSps \/ ScanPps \/ ScanIdr \/ ScanOther
  PROVE  Inv'
  <1>1. PICK type : At(type) BY DEF ScanSps, ScanPps, ScanIdr, ScanOther
  <1>2. /\ pc = "scan" /\ i <= Len(nals) /\ i' = i + 1 /\ cut' = cut /\ nals' = nals
        /\ slice' = slice /\ offset' = offset /\ written' = written /\ stream' = stream
        /\ scenario' = scenario /\ pic' = pic /\ gap' = gap /\ past' = past
    BY <1>1 DEF At, input
  <1>3. nals \in Seq(NalRecord) /\ i \in 1 .. Len(nals) + 1 BY DEF Inv, TypeInv
  <1>4. i \in 1 .. Len(nals) /\ i' \in 1 .. Len(nals') + 1
    <2>1. Len(nals) \in Nat BY <1>3, LenProperties
    <2> QED BY <1>2, <1>3, <2>1
  <1>5. Rbsp(i) \in Reader BY <1>4, RbspType DEF Inv
  <1>6. /\ ParseSps(Rbsp(i)).ok \in BOOLEAN
        /\ (ParseSps(Rbsp(i)).ok => Widths(ParseSps(Rbsp(i))))
        /\ ParsePps(Rbsp(i)).ok \in BOOLEAN
    BY <1>5, ParseSpsType, ParsePpsType
  <1>7. Given' = Given BY <1>2 DEF Given
  <1>8. /\ sps'.ok \in BOOLEAN /\ (sps'.ok => Widths(sps')) /\ pps'.ok \in BOOLEAN
        /\ idr' \in 0 .. Len(nals) /\ pc' \in {"scan", "rejected"}
    <2>1. /\ sps.ok \in BOOLEAN /\ (sps.ok => Widths(sps)) /\ pps.ok \in BOOLEAN
          /\ idr \in 0 .. Len(nals)
      BY DEF Inv, TypeInv
    <2>2. CASE ScanSps BY <1>6, <2>1, <2>2 DEF ScanSps
    <2>3. CASE ScanPps BY <1>6, <2>1, <2>3 DEF ScanPps
    <2>4. CASE ScanIdr BY <1>2, <1>4, <2>1, <2>4 DEF ScanIdr
    <2>5. CASE ScanOther BY <1>2, <2>1, <2>5 DEF ScanOther
    <2> QED BY <2>2, <2>3, <2>4, <2>5
  <1>9. TypeInv' BY <1>2, <1>4, <1>7, <1>8 DEF Inv, TypeInv, InputInv
  <1>10. StreamInv' BY <1>2, <1>7, <1>8 DEF Inv, StreamInv
  <1> QED BY <1>9, <1>10 DEF Inv

\* The loop ends with all three found, or in rejection.
LEMMA EndScanInv ==
  ASSUME Inv, EndScan
  PROVE  Inv'
  <1>1. /\ pc = "scan" /\ pc' = (IF Found THEN "slice" ELSE "rejected")
        /\ cut' = cut /\ nals' = nals
        /\ i' = i /\ idr' = idr
        /\ sps' = sps /\ pps' = pps /\ slice' = slice /\ offset' = offset /\ written' = written
        /\ scenario' = scenario /\ pic' = pic /\ gap' = gap /\ past' = past
        /\ stream' = stream
    BY DEF EndScan, input
  <1>2. Given' = Given /\ Found' = Found BY <1>1 DEF Given, Found
  <1>3. TypeInv' BY <1>1, <1>2 DEF Inv, TypeInv, InputInv
  <1>4. StreamInv' BY <1>1, <1>2 DEF Inv, StreamInv
  <1> QED BY <1>3, <1>4 DEF Inv

\* The driver's bit offset fits its type and is in the slice.
LEMMA SliceInv ==
  ASSUME Inv, Slice
  PROVE  Inv'
  <1> DEFINE d == nals[idr].data
             o == EscapedBitOffset(d, slice'.bits)
  <1>1. /\ pc = "slice" /\ cut' = cut /\ nals' = nals /\ i' = i /\ idr' = idr
        /\ sps' = sps /\ pps' = pps /\ written' = written
        /\ scenario' = scenario /\ pic' = pic /\ gap' = gap /\ past' = past
        /\ stream' = stream
        /\ slice' = ParseSliceHeader(Rbsp(idr), nals[idr].ref, sps, pps)
        /\ IF slice'.ok THEN offset' = (8 + o) % Pow2[16] /\ pc' = "accepted"
                        ELSE pc' = "rejected" /\ offset' = offset
    BY DEF Slice, input
  <1>2. Found BY <1>1 DEF Inv, StreamInv
  <1>3. sps.ok /\ Widths(sps) /\ idr \in 1 .. Len(nals) /\ nals \in Seq(NalRecord)
    <2>1. sps.ok /\ idr # 0 BY <1>2 DEF Found
    <2>2. idr \in 0 .. Len(nals) /\ nals \in Seq(NalRecord) /\ (sps.ok => Widths(sps))
      BY DEF Inv, TypeInv
    <2>3. Len(nals) \in Nat BY <2>2, LenProperties
    <2> QED BY <2>1, <2>2, <2>3
  <1>4. d \in Seq(Byte)
    <2>1. nals[idr] \in NalRecord BY <1>3, ElementOfSeq
    <2> QED BY <2>1 DEF NalRecord
  <1>5. Rbsp(idr) \in Reader BY <1>3, RbspType DEF Inv
  <1>6. slice'.ok \in BOOLEAN /\ (slice'.ok => slice'.bits \in Nat)
    BY <1>1, <1>3, <1>5, ParseSliceType
  <1>7. slice'.ok => o \in 0 .. 8 * Len(d) BY <1>4, <1>6, OffsetIsExact
  <1>8. Given' = Given /\ Found' = Found BY <1>1 DEF Given, Found
  <1>9. Len(d) \in Nat /\ Pow2[16] \in Nat \ {0} BY <1>4, Pow2Rec, LenProperties
  <1>10. offset \in 0 .. Pow2[16] - 1 BY DEF Inv, TypeInv
  <1> HIDE DEF o, d
  <1>11. slice'.ok => offset' \in 0 .. Pow2[16] - 1 /\ offset' <= 8 * (Len(d) + 1)
    <2> SUFFICES ASSUME slice'.ok
                 PROVE  offset' \in 0 .. Pow2[16] - 1 /\ offset' <= 8 * (Len(d) + 1)
      OBVIOUS
    <2> DEFINE x == 8 + o
               q == Pow2[16]
    <2>1. x \in Nat /\ x <= 8 * (Len(d) + 1) BY <1>7, <1>9
    <2>2. offset' = x % q /\ q \in Nat \ {0} BY <1>1, <1>9
    <2> HIDE DEF x, q
    <2>3. x % q \in 0 .. q - 1 /\ x % q <= x BY <2>1, <2>2
    <2> QED BY <1>9, <2>1, <2>2, <2>3 DEF q
  <1>12. offset' \in 0 .. Pow2[16] - 1 /\ pc' \in {"accepted", "rejected"}
         /\ (pc' = "accepted" => offset' <= 8 * (Len(d) + 1))
    BY <1>1, <1>6, <1>10, <1>11
  <1>13. TypeInv' BY <1>1, <1>8, <1>12 DEF Inv, TypeInv, InputInv
  <1>14. StreamInv' BY <1>1, <1>2, <1>8, <1>12 DEF Inv, StreamInv, d
  <1> QED BY <1>13, <1>14 DEF Inv

\* The invariant of a decode request, for every scenario: the NAL units that are found
\* are those that were written, and what is parsed is of its type.
THEOREM StreamInvariance == Spec => []Inv
  <1>1. Init => Inv BY InitInv
  <1>2. Inv /\ [Next]_vars => Inv'
    <2> SUFFICES ASSUME Inv, [Next]_vars PROVE Inv' OBVIOUS
    <2>1. CASE \E kind \in Given.kinds : Emit(kind) BY <2>1, EmitInv
    <2>2. CASE \E c \in Given.cuts : Request(c) BY <2>2, RequestInv
    <2>3. CASE Split BY <2>3, SplitInv
    <2>4. CASE ScanSps \/ ScanPps \/ ScanIdr \/ ScanOther BY <2>4, ScanInv
    <2>5. CASE EndScan BY <2>5, EndScanInv
    <2>6. CASE Slice BY <2>6, SliceInv
    <2>7. CASE UNCHANGED vars
      <3>1. TypeInv' = TypeInv BY <2>7 DEF vars, input, TypeInv, InputInv, Given
      <3>2. StreamInv' = StreamInv BY <2>7 DEF vars, input, StreamInv, Given, Found
      <3> QED BY <3>1, <3>2 DEF Inv
    <2> QED BY <2>1, <2>2, <2>3, <2>4, <2>5, <2>6, <2>7 DEF Next
  <1> QED BY <1>1, <1>2, PTL DEF Spec

\* TypeOK holds whatever the scenarios are: bytes are bytes, there are never more NAL
\* units than decode_h264_frame has room for, and the bit offset fits its 16 bits.
THEOREM TypeCorrect == Spec => []TypeOK
  <1>1. Inv => TypeOK
    <2> SUFFICES ASSUME Inv PROVE TypeOK OBVIOUS
    <2>1. /\ pc \in {"write", "split", "scan", "slice", "accepted", "rejected"}
          /\ stream \in Seq(Byte) /\ nals \in Seq(NalRecord) /\ Len(nals) <= MaxNals
          /\ i \in 1 .. Len(nals) + 1 /\ idr \in 0 .. Len(nals)
          /\ offset \in 0 .. Pow2[16] - 1
      BY DEF Inv, TypeInv
    <2>2. /\ Len(nals) \in Nat /\ DOMAIN nals = 1 .. Len(nals) /\ DOMAIN stream = 1 .. Len(stream)
      BY <2>1, LenProperties
    <2>3. \A k \in DOMAIN stream : stream[k] \in 0 .. 255 BY <2>1, <2>2, ElementOfSeq DEF Byte
    <2>4. i \in 1 .. MaxNals + 1 BY <2>1, <2>2, ParserAssumption
    <2>5. \A k \in DOMAIN nals : nals[k].type \in 0 .. 31 /\ nals[k].ref \in 0 .. 3
      <3>1. \A k \in DOMAIN nals : nals[k] \in NalRecord BY <2>1, <2>2, ElementOfSeq
      <3> QED BY <3>1 DEF NalRecord
    <2> QED BY <2>1, <2>3, <2>4, <2>5 DEF TypeOK
  <1> QED BY <1>1, StreamInvariance, PTL

\* What Split finds in a whole stream is what was written.
LEMMA WholeStream ==
  ASSUME Inv, pc \notin {"write", "split"}, cut = 0, Given.framing = "annexb"
  PROVE  /\ nals = Nals(Taken) /\ Taken \in Seq(Seq(Byte)) /\ Len(nals) = Len(Taken)
         /\ Len(Taken) \in Nat /\ Len(Taken) <= MaxNals
         /\ \A k \in 1 .. Len(Taken) :
              /\ Taken[k] # <<>> /\ Clean(Taken[k])
              /\ \E j \in 1 .. Len(written) : Taken[k] = written[j]
              /\ nals[k].data = Tail(Taken[k])
              /\ nals[k].type = Taken[k][1] % 32 /\ nals[k].ref = Taken[k][1] \div 32
  <1> DEFINE b == NonEmpty(written)
  <1>1. stream \in Seq(Byte) /\ written \in Seq(Seq(Byte)) BY DEF Inv, TypeInv
  <1>2. nals = ExtractNals(stream) /\ AllNals(stream) = written
        /\ \A k \in 1 .. Len(written) : Clean(written[k])
    BY DEF Inv, StreamInv
  <1>3. Taken = FirstNals(b) BY DEF Taken
  <1>4. nals = Nals(Taken) BY <1>2 DEF ExtractNals, Taken
  <1>5. b \in Seq(Seq(Byte)) /\ Len(b) \in Nat
        /\ \A k \in 1 .. Len(b) : b[k] # <<>> /\ \E j \in 1 .. Len(written) : b[k] = written[j]
    BY <1>1, NonEmptyFacts
  <1> HIDE DEF b
  <1>6. /\ Taken \in Seq(Seq(Byte)) /\ Len(Taken) \in Nat /\ Len(Taken) <= MaxNals
        /\ Len(Taken) <= Len(b)
        /\ \A k \in 1 .. Len(Taken) : Taken[k] = b[k]
    BY <1>3, <1>5, FirstNalsFacts
  <1>7. ASSUME NEW k \in 1 .. Len(Taken)
        PROVE  /\ Taken[k] # <<>> /\ Clean(Taken[k])
               /\ \E j \in 1 .. Len(written) : Taken[k] = written[j]
    <2>1. k \in 1 .. Len(b) /\ Taken[k] = b[k] BY <1>5, <1>6
    <2>2. Taken[k] # <<>> /\ \E j \in 1 .. Len(written) : Taken[k] = written[j] BY <1>5, <2>1
    <2> QED BY <1>2, <2>2
  <1>8. /\ Len(nals) = Len(Taken)
        /\ \A k \in 1 .. Len(Taken) :
             /\ nals[k].type = Taken[k][1] % 32 /\ nals[k].data = Tail(Taken[k])
             /\ Taken[k][1] < 128 => nals[k].ref = Taken[k][1] \div 32
    BY <1>4, <1>6, <1>7, NalsFacts
  <1>9. ASSUME NEW k \in 1 .. Len(Taken) PROVE Taken[k][1] < 128
    <2>1. Taken[k][1] \in 2 .. 127 BY <1>7 DEF Clean
    <2>2. \A x \in 2 .. 127 : x < 128 OBVIOUS
    <2> QED BY <2>1, <2>2
  <1> QED BY <1>4, <1>6, <1>7, <1>8, <1>9

\* SplitsAsWritten holds whatever the scenarios are: extract_nals gives back every NAL
\* unit that was written, byte for byte, and never one where there is no start code.
THEOREM SplitsBack == Spec => []SplitsAsWritten
  <1>1. Inv => SplitsAsWritten
    <2> SUFFICES ASSUME Inv PROVE SplitsAsWritten OBVIOUS
    <2>1. ASSUME Given.framing = "bare" PROVE nals = <<>> /\ pc # "accepted"
      <3>1. StartCodes(stream) = {} /\ stream \in Seq(Byte)
        BY <2>1 DEF Inv, StreamInv, TypeInv
      <3>2. nals = <<>>
        <4>1. ExtractNals(stream) = <<>> BY <3>1, NoStartCodeNoNal
        <4> QED BY <4>1 DEF Inv, StreamInv
      <3>3. Len(nals) = 0 /\ idr \in 0 .. Len(nals) BY <3>2 DEF Inv, TypeInv
      <3>4. idr = 0 BY <3>3
      <3> QED BY <3>2, <3>4 DEF Inv, StreamInv, Found
    <2>2. ASSUME pc \notin {"write", "split"}, cut = 0, Given.framing = "annexb"
          PROVE  /\ Len(nals) = Len(Taken)
                 /\ \A k \in DOMAIN nals :
                      /\ nals[k].data = Tail(Taken[k])
                      /\ nals[k].type = Taken[k][1] % 32 /\ nals[k].ref = Taken[k][1] \div 32
      <3>1. /\ Len(nals) = Len(Taken)
            /\ \A k \in 1 .. Len(Taken) :
                 /\ nals[k].data = Tail(Taken[k])
                 /\ nals[k].type = Taken[k][1] % 32 /\ nals[k].ref = Taken[k][1] \div 32
        BY <2>2, WholeStream
      <3>2. DOMAIN nals = 1 .. Len(nals)
        <4>1. nals \in Seq(NalRecord) BY DEF Inv, TypeInv
        <4> QED BY <4>1, LenProperties
      <3> QED BY <3>1, <3>2
    <2> QED BY <2>1, <2>2 DEF SplitsAsWritten
  <1> QED BY <1>1, StreamInvariance, PTL

------------------------------------------------------------------------------
(* Headers, read field by field from what was written field by field.      *)

\* The bits of br from q on are w; nothing is said of those before the first.
Shows(br, q, w) == \A j \in 1 .. Len(w) : q + j - 1 >= 0 => BitAt(br, q + j - 1) = w[j]

\* Where w was written from q on, the first k of the fields that are read from pos on end
\* where w ends.
Reads(br, q, pos, fields, k, w) ==
    /\ q \in Int /\ pos \in Nat /\ fields \in Seq(Fields) /\ k \in 0 .. Len(fields)
    /\ w \in Bits /\ q + Len(w) \in Nat
    /\ Shows(br, q, w) => Read(br, pos, SubSeq(fields, 1, k)).pos = q + Len(w)

\* Bits that are written one after the other are there one after the other.
LEMMA ShowsParts ==
  ASSUME NEW br, NEW q \in Int, NEW s \in Bits, NEW t \in Bits
  PROVE  Shows(br, q, s \o t) <=> Shows(br, q, s) /\ Shows(br, q + Len(s), t)
  <1> DEFINE m == Len(s)
             n == Len(t)
             w == s \o t
  <1>1. /\ w \in Bits /\ Len(w) = m + n /\ m \in Nat /\ n \in Nat
        /\ \A k \in 1 .. m : w[k] = s[k]
        /\ \A k \in 1 .. n : w[m + k] = t[k]
    BY MoreBits, WhichBits
  <1>2. /\ Shows(br, q, w) <=> \A j \in 1 .. Len(w) : q + j - 1 >= 0 => BitAt(br, q + j - 1) = w[j]
        /\ Shows(br, q, s) <=> \A j \in 1 .. m : q + j - 1 >= 0 => BitAt(br, q + j - 1) = s[j]
        /\ Shows(br, q + m, t) <=>
             \A j \in 1 .. n : q + m + j - 1 >= 0 => BitAt(br, q + m + j - 1) = t[j]
    BY DEF Shows
  <1> HIDE DEF m, n, w
  <1>3. ASSUME Shows(br, q, w) PROVE Shows(br, q, s) /\ Shows(br, q + m, t)
    <2>1. ASSUME NEW j \in 1 .. m, q + j - 1 >= 0 PROVE BitAt(br, q + j - 1) = s[j]
      <3>1. j \in 1 .. Len(w) BY <1>1
      <3> QED BY <1>1, <1>2, <1>3, <2>1, <3>1
    <2>2. ASSUME NEW j \in 1 .. n, q + m + j - 1 >= 0 PROVE BitAt(br, q + m + j - 1) = t[j]
      <3>1. m + j \in 1 .. Len(w) /\ q + (m + j) - 1 = q + m + j - 1 BY <1>1
      <3>2. BitAt(br, q + (m + j) - 1) = w[m + j] BY <1>2, <1>3, <2>2, <3>1
      <3> QED BY <1>1, <3>1, <3>2
    <2> QED BY <1>2, <2>1, <2>2
  <1>4. ASSUME Shows(br, q, s), Shows(br, q + m, t) PROVE Shows(br, q, w)
    <2>1. ASSUME NEW j \in 1 .. Len(w), q + j - 1 >= 0 PROVE BitAt(br, q + j - 1) = w[j]
      <3>1. CASE j \in 1 .. m BY <1>1, <1>2, <1>4, <2>1, <3>1
      <3>2. CASE j > m
        <4> DEFINE k == j - m
        <4>1. k \in 1 .. n /\ m + k = j /\ q + m + k - 1 = q + j - 1 BY <1>1, <3>2
        <4> HIDE DEF k
        <4>2. q + m + k - 1 >= 0 BY <2>1, <4>1
        <4>3. BitAt(br, q + m + k - 1) = t[k] BY <1>2, <1>4, <4>1, <4>2
        <4>4. w[m + k] = t[k] BY <1>1, <4>1
        <4> QED BY <4>1, <4>3, <4>4
      <3> QED BY <1>1, <3>1, <3>2
    <2> QED BY <1>2, <2>1
  <1> QED BY <1>3, <1>4 DEF m, w

\* A field after the first k: where it ends, and its value among those of all fields.
LEMMA ReadStep ==
  ASSUME NEW br \in Reader, NEW pos \in Nat, NEW fields \in Seq(Fields)
  PROVE  LET n == Len(fields)
             R(k) == Read(br, pos, SubSeq(fields, 1, k))
         IN  /\ R(0) = [pos |-> pos, val |-> <<>>] /\ R(n) = Read(br, pos, fields) /\ n \in Nat
             /\ \A k \in 0 .. n - 1 :
                  LET one == ReadOne(br, R(k), fields[k + 1])
                  IN  /\ R(k) \in Results /\ R(k + 1) = one /\ Len(R(k).val) = k
                      /\ Read(br, pos, fields).val[k + 1] = one.val[k + 1]
  <1> DEFINE n == Len(fields)
             R(k) == Read(br, pos, SubSeq(fields, 1, k))
  <1>1. n \in Nat /\ \A k \in 1 .. n : fields[k] \in Fields BY ElementOfSeq, LenProperties
  <1>2. Ue \in Fields BY FieldLists
  <1>3. R(0) = [pos |-> pos, val |-> <<>>]
    <2>1. SubSeq(fields, 1, 0) = <<>> BY SubSeqEmpty
    <2> QED BY <1>2, <2>1, ReadAppend
  <1>4. SubSeq(fields, 1, n) = fields
    <2> DEFINE s == SubSeq(fields, 1, n)
    <2>1. 1 \in Int /\ n \in Int /\ n - 1 + 1 = n /\ \A k \in 1 .. n : 1 + k - 1 = k BY <1>1
    <2>2. /\ s \in Seq(Fields) /\ Len(s) = IF 1 <= n THEN n - 1 + 1 ELSE 0
          /\ \A k \in 1 .. n - 1 + 1 : s[k] = fields[1 + k - 1]
      BY <1>1, <2>1, SubSeqProperties
    <2> HIDE DEF s
    <2>3. Len(s) = n BY <1>1, <2>2
    <2>4. \A k \in 1 .. Len(s) : s[k] = fields[k] BY <2>1, <2>2, <2>3
    <2>5. s = fields BY <2>2, <2>3, <2>4, SeqEqual
    <2> QED BY <2>5 DEF s
  <1>5. ASSUME NEW k \in 0 .. n
        PROVE  SubSeq(fields, 1, k) \in Seq(Fields) /\ Len(SubSeq(fields, 1, k)) = k
    <2>1. 1 \in Int /\ k \in Int /\ k - 1 + 1 = k /\ k >= 0 OBVIOUS
    <2>2. \A j \in 1 .. k : fields[j] \in Fields BY <1>1
    <2>3. /\ SubSeq(fields, 1, k) \in Seq(Fields)
          /\ Len(SubSeq(fields, 1, k)) = IF 1 <= k THEN k - 1 + 1 ELSE 0
      BY <2>1, <2>2, SubSeqProperties
    <2> QED BY <2>1, <2>3
  <1>6. ASSUME NEW k \in 0 .. n
        PROVE  R(k) \in Results /\ Len(R(k).val) = k
    BY <1>2, <1>5, ReadAppend
  <1>7. ASSUME NEW k \in 0 .. n - 1
        PROVE  R(k + 1) = ReadOne(br, R(k), fields[k + 1])
    <2>1. k + 1 \in 1 .. n /\ k \in 0 .. n BY <1>1
    <2>2. SubSeq(fields, 1, k + 1) = Append(SubSeq(fields, 1, k), fields[k + 1])
      BY <1>1, <2>1
    <2> QED BY <1>1, <1>5, <2>1, <2>2, ReadAppend
  <1> HIDE DEF n, R
  <1>8. ASSUME NEW k \in 1 .. n
        PROVE  \A m \in Nat : k <= m /\ m <= n => R(m).val[k] = R(k).val[k]
    <2> DEFINE P(m) == k <= m /\ m <= n => R(m).val[k] = R(k).val[k]
               D == {m \in Nat : P(m)}
    <2>1. 0 \in D OBVIOUS
    <2>2. ASSUME NEW m \in Nat, m \in D PROVE m + 1 \in D
      <3> SUFFICES ASSUME k <= m + 1, m + 1 <= n PROVE R(m + 1).val[k] = R(k).val[k] OBVIOUS
      <3>1. CASE k = m + 1 BY <3>1
      <3>2. CASE k <= m
        <4>1. R(m).val[k] = R(k).val[k] BY <1>1, <2>2, <3>2
        <4>2. m \in 0 .. n - 1 /\ m \in 0 .. n /\ m + 1 \in 0 .. n BY <1>1
        <4>3. R(m + 1) = ReadOne(br, R(m), fields[m + 1]) BY <1>7, <4>2
        <4>4. R(m) \in Results /\ Len(R(m).val) = m /\ R(m + 1) \in Results BY <1>6, <4>2
        <4>5. \E v : R(m + 1).val = Append(R(m).val, v)
          <5> DEFINE f == fields[m + 1]
                     old == R(m)
          <5> HIDE DEF f, old
          <5>1. \E v : ReadOne(br, old, f).val = Append(old.val, v) BY DEF ReadOne
          <5> QED BY <4>3, <5>1 DEF f, old
        <4>6. PICK v : R(m + 1).val = Append(R(m).val, v) BY <4>5
        <4>7. R(m).val \in Seq(Int) BY <4>4 DEF Results
        <4>8. k \in 1 .. Len(R(m).val) BY <3>2, <4>4
        <4>9. Append(R(m).val, v)[k] = R(m).val[k] BY <4>7, <4>8
        <4> QED BY <4>1, <4>6, <4>9
      <3> QED BY <3>1, <3>2
    <2> HIDE DEF D
    <2>3. Nat \subseteq D BY <2>1, <2>2, NatInd
    <2> QED BY <2>3 DEF D
  <1>9. ASSUME NEW k \in 0 .. n - 1
        PROVE  Read(br, pos, fields).val[k + 1] = ReadOne(br, R(k), fields[k + 1]).val[k + 1]
    <2>1. k + 1 \in 1 .. n /\ n \in Nat /\ k + 1 <= n /\ n <= n BY <1>1
    <2>2. R(n).val[k + 1] = R(k + 1).val[k + 1] BY <1>8, <2>1
    <2>3. R(n) = Read(br, pos, fields) BY <1>4 DEF R
    <2> QED BY <1>7, <2>2, <2>3
  <1>10. \A k \in 0 .. n - 1 : k \in 0 .. n BY <1>1
  <1>11. R(n) = Read(br, pos, fields) BY <1>4 DEF R
  <1> QED BY <1>1, <1>3, <1>6, <1>7, <1>9, <1>10, <1>11 DEF n, R

\* Before the first field.
LEMMA ReadsNothing ==
  ASSUME NEW br \in Reader, NEW q \in Int, NEW w \in Bits, q + Len(w) \in Nat,
         NEW fields \in Seq(Fields)
  PROVE  Reads(br, q, q + Len(w), fields, 0, w)
  <1> DEFINE p == q + Len(w)
  <1>1. p \in Nat /\ 0 \in 0 .. Len(fields)
    <2>1. Len(fields) \in Nat BY LenProperties
    <2> QED BY <2>1
  <1> HIDE DEF p
  <1>2. Read(br, p, SubSeq(fields, 1, 0)) = [pos |-> p, val |-> <<>>] BY <1>1, ReadStep
  <1> QED BY <1>1, <1>2 DEF Reads, p

\* One field more.
LEMMA ReadsMore ==
  ASSUME NEW br \in Reader, NEW q, NEW pos, NEW fields, NEW k, NEW w,
         Reads(br, q, pos, fields, k, w), k < Len(fields)
  PROVE  LET f == fields[k + 1]
             More(x) == Reads(br, q, pos, fields, k + 1, w \o x)
             Gives(x, v) == Shows(br, q, w \o x) => Read(br, pos, fields).val[k + 1] = v
         IN  /\ f = Ue => \A v \in Codes : More(PutUe(v)) /\ Gives(PutUe(v), v)
             /\ f = Se => \A v \in SignedCodes : More(PutSe(v)) /\ Gives(PutSe(v), v)
             /\ \A n \in Nat : f = U(n) =>
                  /\ \A v \in Nat : v < Pow2[n] =>
                       More(PutBits(v, n)) /\ Gives(PutBits(v, n), v)
                  /\ \A x \in Bits : Len(x) = n => More(x)
  <1> DEFINE p == q + Len(w)
             f == fields[k + 1]
             old == Read(br, pos, SubSeq(fields, 1, k))
             More(x) == Reads(br, q, pos, fields, k + 1, w \o x)
             Gives(x, v) == Shows(br, q, w \o x) => Read(br, pos, fields).val[k + 1] = v
  <1>1. /\ q \in Int /\ pos \in Nat /\ fields \in Seq(Fields) /\ w \in Bits /\ p \in Nat
        /\ k \in 0 .. Len(fields) /\ Len(fields) \in Nat
        /\ (Shows(br, q, w) => old.pos = p)
    BY LenProperties DEF Reads
  <1>2. Len(w) \in Nat BY <1>1, MoreBits
  <1>3. k \in 0 .. Len(fields) - 1 /\ k + 1 \in 0 .. Len(fields) /\ k \in Nat BY <1>1
  <1>4. /\ old \in Results /\ Len(old.val) = k
        /\ Read(br, pos, SubSeq(fields, 1, k + 1)) = ReadOne(br, old, f)
        /\ Read(br, pos, fields).val[k + 1] = ReadOne(br, old, f).val[k + 1]
    BY <1>1, <1>3, ReadStep
  <1>5. old.val \in Seq(Int) BY <1>4 DEF Results
  <1> HIDE DEF old, p, f
  <1>6. ASSUME NEW x \in Bits, NEW v,
               Shows(br, p, x) /\ old.pos = p =>
                 ReadOne(br, old, f) = [pos |-> p + Len(x), val |-> Append(old.val, v)]
        PROVE  More(x) /\ Gives(x, v)
    <2>1. /\ w \o x \in Bits /\ Len(w \o x) = Len(w) + Len(x) /\ Len(x) \in Nat
      BY <1>1, MoreBits
    <2>2. q + Len(w \o x) = p + Len(x) /\ p + Len(x) \in Nat BY <1>1, <1>2, <2>1 DEF p
    <2>3. ASSUME Shows(br, q, w \o x)
          PROVE  /\ Read(br, pos, SubSeq(fields, 1, k + 1)).pos = q + Len(w \o x)
                 /\ Read(br, pos, fields).val[k + 1] = v
      <3>1. Shows(br, q, w) /\ Shows(br, q + Len(w), x) BY <1>1, <2>3, ShowsParts
      <3>2. Shows(br, p, x) /\ old.pos = p BY <1>1, <3>1 DEF p
      <3>3. ReadOne(br, old, f) = [pos |-> p + Len(x), val |-> Append(old.val, v)]
        BY <1>6, <3>2
      <3>4. Append(old.val, v)[k + 1] = v
        <4>1. Append(old.val, v)[Len(old.val) + 1] = v BY <1>5
        <4> QED BY <1>4, <4>1
      <3> QED BY <1>4, <2>2, <3>3, <3>4
    <2> QED BY <1>1, <1>3, <2>1, <2>2, <2>3 DEF Reads
  <1>7. ASSUME NEW x \in Bits, Shows(br, p, x) PROVE Written(br, p, x)
    <2>1. Len(x) \in Nat BY MoreBits
    <2>2. \A j \in 1 .. Len(x) : p + j - 1 >= 0 BY <1>1, <2>1
    <2> QED BY <1>7, <2>2 DEF Shows, Written
  <1> HIDE DEF More, Gives
  <1>8. ASSUME f = Ue, NEW v \in Codes PROVE More(PutUe(v)) /\ Gives(PutUe(v), v)
    <2>1. PutUe(v) \in Bits BY CodesAreBits
    <2>2. ASSUME Shows(br, p, PutUe(v)), old.pos = p
          PROVE  ReadOne(br, old, f) = [pos |-> p + Len(PutUe(v)), val |-> Append(old.val, v)]
      <3>1. UeAt(br, p) = v /\ 2 * LeadingZeros(br, p) + 1 = Len(PutUe(v))
        <4>1. Written(br, p, PutUe(v)) BY <1>7, <2>1, <2>2
        <4> QED BY <1>1, <4>1, UeReadBack
      <3>2. LeadingZeros(br, p) \in 0 .. 32 BY <1>1, LeadingZerosFacts
      <3>3. p + 2 * LeadingZeros(br, p) + 1 = p + Len(PutUe(v))
        <4>1. \A z \in 0 .. 32 : p + 2 * z + 1 = p + (2 * z + 1) BY <1>1
        <4> QED BY <3>1, <3>2, <4>1
      <3>4. ReadOne(br, old, f) = [pos |-> p + 2 * LeadingZeros(br, p) + 1,
                                   val |-> Append(old.val, UeAt(br, p))]
        BY <1>8, <2>2 DEF ReadOne, Ue
      <3> QED BY <3>1, <3>3, <3>4
    <2> QED BY <1>6, <2>1, <2>2
  <1>9. ASSUME f = Se, NEW v \in SignedCodes PROVE More(PutSe(v)) /\ Gives(PutSe(v), v)
    <2>1. PutSe(v) \in Bits BY CodesAreBits
    <2>2. ASSUME Shows(br, p, PutSe(v)), old.pos = p
          PROVE  ReadOne(br, old, f) = [pos |-> p + Len(PutSe(v)), val |-> Append(old.val, v)]
      <3>1. SignedOf(UeAt(br, p)) = v /\ 2 * LeadingZeros(br, p) + 1 = Len(PutSe(v))
        <4>1. Written(br, p, PutSe(v)) BY <1>7, <2>1, <2>2
        <4> QED BY <1>1, <4>1, SeReadBack
      <3>2. LeadingZeros(br, p) \in 0 .. 32 BY <1>1, LeadingZerosFacts
      <3>3. p + 2 * LeadingZeros(br, p) + 1 = p + Len(PutSe(v))
        <4>1. \A z \in 0 .. 32 : p + 2 * z + 1 = p + (2 * z + 1) BY <1>1
        <4> QED BY <3>1, <3>2, <4>1
      <3>4. ReadOne(br, old, f) = [pos |-> p + 2 * LeadingZeros(br, p) + 1,
                                   val |-> Append(old.val, SignedOf(UeAt(br, p)))]
        BY <1>9, <2>2 DEF ReadOne, Se
      <3> QED BY <3>1, <3>3, <3>4
    <2> QED BY <1>6, <2>1, <2>2
  <1>10. ASSUME NEW n \in Nat, f = U(n)
         PROVE  ReadOne(br, old, f) = [pos |-> old.pos + n,
                                       val |-> Append(old.val, Value(br, old.pos, n))]
    BY <1>10 DEF ReadOne, U
  <1>11. ASSUME NEW n \in Nat, f = U(n), NEW v \in Nat, v < Pow2[n]
         PROVE  More(PutBits(v, n)) /\ Gives(PutBits(v, n), v)
    <2>1. PutBits(v, n) \in Bits /\ Len(PutBits(v, n)) = n BY PutBitsType DEF Bits
    <2>2. ASSUME Shows(br, p, PutBits(v, n)) PROVE Value(br, p, n) = v
      <3>1. Written(br, p, PutBits(v, n)) BY <1>7, <2>1, <2>2
      <3> QED BY <1>1, <1>11, <3>1, BitsReadBack
    <2> QED BY <1>6, <1>10, <1>11, <2>1, <2>2
  <1>12. ASSUME NEW n \in Nat, f = U(n), NEW x \in Bits, Len(x) = n PROVE More(x)
    BY <1>6, <1>10, <1>12
  <1> QED BY <1>8, <1>9, <1>11, <1>12 DEF f, More, Gives

\* When all fields are read.
LEMMA ReadsAll ==
  ASSUME NEW br \in Reader, NEW q, NEW pos, NEW fields, NEW w,
         Reads(br, q, pos, fields, Len(fields), w), Shows(br, q, w)
  PROVE  Read(br, pos, fields).pos = q + Len(w)
  <1>1. pos \in Nat /\ fields \in Seq(Fields) BY DEF Reads
  <1>2. Read(br, pos, SubSeq(fields, 1, Len(fields))) = Read(br, pos, fields) BY <1>1, ReadStep
  <1> QED BY <1>2 DEF Reads

\* Nothing stays nothing.
LEMMA DeescapeNothing == Deescape(<<>>) = <<>>
  <1> DEFINE d == <<>>
  <1>1. d \in Seq(Byte) /\ Len(d) = 0 OBVIOUS
  <1> HIDE DEF d
  <1>2. /\ Len(Kept(d)) \in Nat /\ Len(Deescape(d)) = Len(Kept(d))
        /\ \A ix \in 1 .. Len(Kept(d)) : Kept(d)[ix] \in (1 .. Len(d)) \ Emulation(d)
    BY <1>1, KeptFacts
  <1>3. Len(Kept(d)) = 0
    <2> SUFFICES ASSUME Len(Kept(d)) # 0 PROVE FALSE OBVIOUS
    <2>1. 1 \in 1 .. Len(Kept(d)) BY <1>2
    <2>2. Kept(d)[1] \in 1 .. Len(d) BY <1>2, <2>1
    <2> QED BY <1>1, <2>2
  <1>4. 0 \in Byte BY DEF Byte
  <1>5. Deescape(d) \in Seq(Byte) BY <1>1, <1>4, DeescapeAppend
  <1> QED BY <1>2, <1>3, <1>5, EmptySeq DEF d

\* The header byte, which is no zero, has no part in emulation prevention: it does not
\* matter whether it is taken off before or after the bytes are taken out.
LEMMA HeaderStaysOut ==
  ASSUME NEW e \in Seq(Byte), e # <<>>, e[1] # 0
  PROVE  /\ Deescape(e) \in Seq(Byte) /\ Deescape(e) # <<>>
         /\ Deescape(Tail(e)) = Tail(Deescape(e))
         /\ Deescape(Tail(e)) \in Seq(Byte)
         /\ Len(Deescape(e)) = Len(Deescape(Tail(e))) + 1
  <1> DEFINE P(d) == /\ Deescape(d) \in Seq(Byte) /\ Deescape(d) # <<>>
                     /\ Deescape(Tail(d)) = Tail(Deescape(d))
             D == {n \in Nat : \A d \in Seq(Byte) : Len(d) = n + 1 /\ d[1] # 0 => P(d)}
  <1>1. 0 \in D
    <2> SUFFICES ASSUME NEW d \in Seq(Byte), Len(d) = 1, d[1] # 0 PROVE P(d) OBVIOUS
    <2> DEFINE x == d[1]
    <2>1. x \in Byte
      <3>1. 1 \in 1 .. Len(d) OBVIOUS
      <3> QED BY <3>1, ElementOfSeq
    <2>2. d = <<x>> OBVIOUS
    <2> HIDE DEF x
    <2>3. Append(<<>>, x) = <<x>> OBVIOUS
    <2>4. ~EndsInZeros(<<>>) BY DEF EndsInZeros
    <2>5. <<>> \in Seq(Byte) OBVIOUS
    <2>6. Deescape(<<x>>) = <<x>> BY <2>1, <2>3, <2>4, <2>5, DeescapeAppend, DeescapeNothing
    <2>7. Tail(<<x>>) = <<>> /\ <<x>> # <<>> /\ <<x>> \in Seq(Byte) BY <2>1
    <2> QED BY <2>2, <2>6, <2>7, DeescapeNothing
  <1>2. ASSUME NEW n \in Nat, n \in D PROVE n + 1 \in D
    <2> SUFFICES ASSUME NEW d \in Seq(Byte), Len(d) = n + 2, d[1] # 0 PROVE P(d) OBVIOUS
    <2>1. d # <<>> OBVIOUS
    <2>2. PICK s \in Seq(Byte), x \in Byte : d = Append(s, x) BY <2>1, SequenceEmptyOrAppend
    <2>3. /\ Len(s) = n + 1 /\ s[1] = d[1] /\ s # <<>> /\ Len(s) \in Nat
      <3>1. Len(d) = Len(s) + 1 /\ Len(s) \in Nat /\ \A k \in 1 .. Len(s) : d[k] = s[k]
        BY <2>2, AppendProperties, LenProperties
      <3>2. Len(s) = n + 1 BY <3>1
      <3>3. 1 \in 1 .. Len(s) BY <3>2
      <3> QED BY <3>1, <3>2, <3>3, EmptySeq
    <2>4. P(s) BY <1>2, <2>3
    <2>5. /\ Tail(s) \in Seq(Byte) /\ Len(Tail(s)) = Len(s) - 1
          /\ \A k \in 1 .. Len(Tail(s)) : Tail(s)[k] = s[k + 1]
      BY <2>3, HeadTailProperties
    <2>6. Tail(d) = Append(Tail(s), x) BY <2>2, <2>3, HeadTailAppend
    <2>7. EndsInZeros(Tail(s)) <=> EndsInZeros(s)
      <3>1. Len(s) = 2 => ~EndsInZeros(s)
        <4>1. EndsInZeros(s) => s[Len(s) - 1] = 0 BY DEF EndsInZeros
        <4>2. Len(s) = 2 => Len(s) - 1 = 1 OBVIOUS
        <4>3. Len(s) = 2 => s[Len(s) - 1] = s[1] BY <4>2
        <4> QED BY <2>3, <4>1, <4>3
      <3>2. Len(s) < 2 => ~EndsInZeros(s) /\ ~EndsInZeros(Tail(s)) BY <2>3, <2>5 DEF EndsInZeros
      <3>3. Len(s) = 2 => ~EndsInZeros(Tail(s))
        <4> DEFINE l == Len(Tail(s))
        <4>1. EndsInZeros(Tail(s)) => l >= 2 BY DEF EndsInZeros
        <4>2. Len(s) = 2 => l = 1 BY <2>5
        <4> HIDE DEF l
        <4> QED BY <4>1, <4>2
      <3>4. CASE Len(s) > 2
        <4> DEFINE l == Len(s)
                   t == Tail(s)
        <4>1. Len(t) = l - 1 /\ l - 1 \in 1 .. l - 1 /\ l - 2 \in 1 .. l - 1
          BY <2>3, <2>5, <3>4
        <4>2. t[l - 1] = s[l - 1 + 1] /\ t[l - 2] = s[l - 2 + 1] BY <2>5, <4>1
        <4>3. l - 1 + 1 = l /\ l - 2 + 1 = l - 1 /\ l - 1 - 1 = l - 2 /\ l \in Nat
              /\ l - 1 >= 2 /\ l >= 2
          BY <2>3, <3>4
        <4>4. t[Len(t)] = s[l] /\ t[Len(t) - 1] = s[l - 1] BY <4>1, <4>2, <4>3
        <4>5. Len(t) >= 2 /\ Len(s) >= 2 BY <4>1, <4>3
        <4> QED BY <4>4, <4>5 DEF EndsInZeros
      <3> QED BY <2>3, <3>1, <3>2, <3>3, <3>4
    <2>8. /\ Deescape(d) = IF x = 3 /\ EndsInZeros(s) THEN Deescape(s) ELSE Append(Deescape(s), x)
          /\ Deescape(Tail(d)) = IF x = 3 /\ EndsInZeros(Tail(s)) THEN Deescape(Tail(s))
                                 ELSE Append(Deescape(Tail(s)), x)
      BY <2>2, <2>5, <2>6, DeescapeAppend
    <2>9. Tail(Append(Deescape(s), x)) = Append(Tail(Deescape(s)), x)
      BY <2>4, HeadTailAppend
    <2>10. Append(Deescape(s), x) \in Seq(Byte) /\ Append(Deescape(s), x) # <<>>
      BY <2>4, AppendProperties
    <2> QED BY <2>4, <2>7, <2>8, <2>9, <2>10
  <1> HIDE DEF P
  <1>3. Len(e) \in Nat \ {0} BY EmptySeq
  <1>4. Len(e) - 1 \in Nat /\ Len(e) = Len(e) - 1 + 1 BY <1>3
  <1>5. Nat \subseteq D
    <2> HIDE DEF D
    <2> QED BY <1>1, <1>2, NatInd
  <1>6. P(e) BY <1>4, <1>5
  <1>7. Tail(Deescape(e)) \in Seq(Byte) /\ Len(Tail(Deescape(e))) = Len(Deescape(e)) - 1
        /\ Len(Deescape(e)) \in Nat
    BY <1>6, HeadTailProperties, LenProperties DEF P
  <1>8. Len(Deescape(e)) = Len(Tail(Deescape(e))) + 1 BY <1>7
  <1>9. Deescape(Tail(e)) = Tail(Deescape(e)) BY <1>6 DEF P
  <1>10. Len(Deescape(e)) = Len(Deescape(Tail(e))) + 1 BY <1>8, <1>9
  <1>11. Deescape(Tail(e)) \in Seq(Byte) BY <1>7, <1>9
  <1> QED BY <1>6, <1>9, <1>10, <1>11 DEF P

\* What the parser is given of a header shows the bits that were written, from behind the
\* start code and the header byte on: "the mirror image of the bit writer".
LEMMA RbspShows ==
  ASSUME NEW b \in Bits, Len(b) >= 32, Bytes(TrailingBits(b))[1] # 0, NEW p \in Nat
  PROVE  LET n == Escape(Bytes(TrailingBits(b)))
             br == [buf |-> Deescape(Tail(n)), past |-> p]
         IN  /\ n \in Seq(Byte) /\ n # <<>> /\ n[1] # 0
             /\ br \in Reader /\ Shows(br, 0 - 32, b)
             /\ Len(Deescape(Tail(n))) = Len(b) \div 8 - 3
  <1> DEFINE w == TrailingBits(b)
             y == Bytes(w)
             n == Escape(y)
             br == [buf |-> Deescape(Tail(n)), past |-> p]
             l == Len(b)
  <1>1. /\ w \in Bits /\ Len(w) = 8 * (l \div 8) + 8 /\ l \in Nat
        /\ \A j \in 1 .. l : w[j] = b[j]
    <2>1. l \in Nat BY MoreBits
    <2>2. Begins(b, b) BY <2>1 DEF Begins
    <2>3. w \in Bits /\ Len(w) = 8 * (l \div 8) + 8 /\ Begins(w, b) BY <2>1, <2>2, TrailingFacts
    <2> QED BY <2>1, <2>3 DEF Begins
  <1> HIDE DEF w
  <1>2. l \div 8 \in Nat /\ l \div 8 >= 4 /\ 8 * (l \div 8) <= l /\ l < 8 * (l \div 8) + 8
    <2> HIDE DEF l
    <2> QED BY <1>1 DEF l
  <1>3. Len(w) >= 24 BY <1>1, <1>2
  <1>4. /\ y \in Seq(Byte) /\ Len(y) = Len(w) \div 8 - 3
        /\ \A k \in 1 .. Len(y), j \in 1 .. 8 :
             (y[k] \div Pow2[8 - j]) % 2 = w[8 * (k + 2) + j]
    <2>1. w \in Seq({0, 1}) BY <1>1 DEF Bits
    <2> QED BY <1>3, <2>1, BytesFacts
  <1>5. Len(y) = l \div 8 - 2
    <2> DEFINE q == l \div 8
    <2>1. q \in Nat BY <1>2
    <2>2. Len(w) = 8 * q + 8 BY <1>1
    <2> HIDE DEF q, l
    <2>3. (8 * q + 8) \div 8 = q + 1 BY <2>1
    <2> QED BY <1>4, <2>1, <2>2, <2>3 DEF q
  <1>6. y[1] # 0 BY DEF w
  <1> HIDE DEF y
  <1>7. Len(y) > 0 BY <1>2, <1>5
  <1>8. n \in Seq(Byte) /\ Len(n) >= Len(y) /\ n[1] = y[1] /\ Deescape(n) = y
    BY <1>4, <1>7, EscapeEnds, EscapeIsUndone
  <1> HIDE DEF n
  <1>9. n # <<>>
    <2>1. Len(n) # 0 BY <1>2, <1>5, <1>8
    <2> QED BY <2>1
  <1>10. /\ Deescape(Tail(n)) = Tail(y) /\ Deescape(Tail(n)) \in Seq(Byte)
         /\ Len(y) = Len(Deescape(Tail(n))) + 1
    BY <1>6, <1>8, <1>9, HeaderStaysOut
  <1>11. Len(Deescape(Tail(n))) = l \div 8 - 3
    <2>1. Len(Deescape(Tail(n))) \in Nat BY <1>10, LenProperties
    <2> QED BY <1>2, <1>5, <1>10, <2>1
  <1>12. \A k \in 1 .. Len(Tail(y)) : Tail(y)[k] = y[k + 1]
    <2>1. y # <<>> BY <1>7
    <2> QED BY <1>4, <2>1, HeadTailProperties
  <1>13. br \in Reader /\ br.buf = Tail(y) BY <1>10 DEF Reader
  <1>14. Len(Tail(y)) = l \div 8 - 3 BY <1>10, <1>11
  <1> HIDE DEF br, l
  <1>15. ASSUME NEW j \in 1 .. l, 0 - 32 + j - 1 >= 0 PROVE BitAt(br, 0 - 32 + j - 1) = b[j]
    <2> DEFINE x == 0 - 32 + j - 1
               c == x \div 8
               r == x % 8
    <2>1. x \in Nat /\ x = j - 33 BY <1>1, <1>15
    <2> HIDE DEF x
    <2>2. c \in Nat /\ r \in 0 .. 7 /\ x = 8 * c + r BY <2>1
    <2>3. BitAt(br, x) = IF x < 8 * Len(br.buf) THEN (br.buf[c + 1] \div Pow2[7 - r]) % 2 ELSE 0
      BY DEF BitAt
    <2> HIDE DEF c, r
    <2>4. x < 8 * Len(br.buf)
      <3>1. Len(br.buf) = l \div 8 - 3 BY <1>13, <1>14
      <3> QED BY <1>1, <1>2, <2>1, <3>1
    <2>5. c + 1 \in 1 .. Len(Tail(y)) /\ c + 2 \in 1 .. Len(y)
      <3>1. Len(Tail(y)) = l \div 8 - 3 /\ Len(br.buf) = l \div 8 - 3 BY <1>13, <1>14
      <3> QED BY <1>2, <1>5, <2>2, <2>4, <3>1
    <2>6. br.buf[c + 1] = y[c + 2]
      <3>1. Tail(y)[c + 1] = y[c + 1 + 1] /\ c + 1 + 1 = c + 2 BY <1>12, <2>2, <2>5
      <3> QED BY <1>13, <3>1
    <2>7. r + 1 \in 1 .. 8 /\ 8 - (r + 1) = 7 - r BY <2>2
    <2>8. (y[c + 2] \div Pow2[8 - (r + 1)]) % 2 = w[8 * (c + 2 + 2) + (r + 1)]
      BY <1>4, <2>5, <2>7
    <2>9. 8 * (c + 2 + 2) + (r + 1) = j BY <1>1, <2>1, <2>2
    <2>10. BitAt(br, x) = w[j] BY <2>3, <2>4, <2>6, <2>7, <2>8, <2>9
    <2> QED BY <1>1, <2>10 DEF x
  <1>16. Shows(br, 0 - 32, b) BY <1>15 DEF Shows, l
  <1> QED BY <1>6, <1>8, <1>9, <1>11, <1>13, <1>16 DEF br, n, y, w, l

\* Two parts, one behind the other.
Join(u, v) == u \o v

\* Behind the first k fields comes f, as the j-th.
FieldIs(fields, k, j, f) == j = k + 1 /\ j <= Len(fields) /\ fields[j] = f

\* An unsigned code more.
LEMMA ReadsUe ==
  ASSUME NEW br \in Reader, NEW q, NEW pos, NEW fields, NEW k, NEW w, NEW v \in Codes, NEW j,
         Reads(br, q, pos, fields, k, w), FieldIs(fields, k, j, Ue)
  PROVE  /\ Reads(br, q, pos, fields, j, Join(w, PutUe(v)))
         /\ Shows(br, q, Join(w, PutUe(v))) => Read(br, pos, fields).val[j] = v
  <1>1. k \in 0 .. Len(fields) /\ Len(fields) \in Nat /\ j = k + 1 /\ j <= Len(fields)
    BY LenProperties DEF Reads, FieldIs
  <1>2. k < Len(fields) /\ fields[k + 1] = fields[j] BY <1>1
  <1> QED BY <1>1, <1>2, ReadsMore DEF Join, FieldIs

\* A signed code more.
LEMMA ReadsSe ==
  ASSUME NEW br \in Reader, NEW q, NEW pos, NEW fields, NEW k, NEW w, NEW v \in SignedCodes,
         NEW j,
         Reads(br, q, pos, fields, k, w), FieldIs(fields, k, j, Se)
  PROVE  /\ Reads(br, q, pos, fields, j, Join(w, PutSe(v)))
         /\ Shows(br, q, Join(w, PutSe(v))) => Read(br, pos, fields).val[j] = v
  <1>1. k \in 0 .. Len(fields) /\ Len(fields) \in Nat /\ j = k + 1 /\ j <= Len(fields)
    BY LenProperties DEF Reads, FieldIs
  <1>2. k < Len(fields) /\ fields[k + 1] = fields[j] BY <1>1
  <1> QED BY <1>1, <1>2, ReadsMore DEF Join, FieldIs

\* A number of n bits more.
LEMMA ReadsU ==
  ASSUME NEW br \in Reader, NEW q, NEW pos, NEW fields, NEW k, NEW w, NEW n \in Nat,
         NEW v \in Nat, v < Pow2[n],
         NEW j,
         Reads(br, q, pos, fields, k, w), FieldIs(fields, k, j, U(n))
  PROVE  /\ Reads(br, q, pos, fields, j, Join(w, PutBits(v, n)))
         /\ Shows(br, q, Join(w, PutBits(v, n))) => Read(br, pos, fields).val[j] = v
  <1>1. k \in 0 .. Len(fields) /\ Len(fields) \in Nat /\ j = k + 1 /\ j <= Len(fields)
    BY LenProperties DEF Reads, FieldIs
  <1>2. k < Len(fields) /\ fields[k + 1] = fields[j] BY <1>1
  <1> QED BY <1>1, <1>2, ReadsMore DEF Join, FieldIs

\* Any n bits more.
LEMMA ReadsBits ==
  ASSUME NEW br \in Reader, NEW q, NEW pos, NEW fields, NEW k, NEW w, NEW x \in Bits,
         NEW n \in Nat, Len(x) = n,
         NEW j,
         Reads(br, q, pos, fields, k, w), FieldIs(fields, k, j, U(n))
  PROVE  Reads(br, q, pos, fields, j, Join(w, x))
  <1>1. k \in 0 .. Len(fields) /\ Len(fields) \in Nat /\ j = k + 1 /\ j <= Len(fields)
    BY LenProperties DEF Reads, FieldIs
  <1>2. k < Len(fields) /\ fields[k + 1] = fields[j] BY <1>1
  <1> QED BY <1>1, <1>2, ReadsMore DEF Join, FieldIs

\* A flag more.
LEMMA ReadsFlag ==
  ASSUME NEW br \in Reader, NEW q, NEW pos, NEW fields, NEW k, NEW w, NEW b \in {0, 1},
         NEW j,
         Reads(br, q, pos, fields, k, w), FieldIs(fields, k, j, U(1))
  PROVE  /\ Reads(br, q, pos, fields, j, Join(w, <<b>>))
         /\ Shows(br, q, Join(w, <<b>>)) => Read(br, pos, fields).val[j] = b
  <1>1. b \in Nat /\ 1 \in Nat /\ Pow2[0] = 1 /\ Pow2[1] = 2 BY Pow2Values
  <1>2. /\ PutBits(b, 1) \in Seq({0, 1}) /\ Len(PutBits(b, 1)) = 1
        /\ \A ix \in 1 .. 1 : PutBits(b, 1)[ix] = (b \div Pow2[1 - ix]) % 2
    BY <1>1, PutBitsType
  <1>3. PutBits(b, 1)[1] = b
    <2>1. 1 \in 1 .. 1 /\ 1 - 1 = 0 OBVIOUS
    <2>2. PutBits(b, 1)[1] = (b \div 1) % 2 BY <1>1, <1>2, <2>1
    <2> QED BY <2>2
  <1>4. PutBits(b, 1) = <<b>> BY <1>2, <1>3
  <1>5. b < Pow2[1] BY <1>1
  <1> QED BY <1>1, <1>4, <1>5, ReadsU

\* It does not matter which are joined first.
LEMMA JoinThree ==
  ASSUME NEW u \in Bits, NEW v \in Bits, NEW t \in Bits
  PROVE  Join(u, v) \in Bits /\ Join(u, Join(v, t)) = Join(Join(u, v), t)
  <1>1. (u \o v) \o t = u \o (v \o t) BY ConcatAssociative DEF Bits
  <1>2. u \o v \in Bits BY MoreBits
  <1> QED BY ONLY <1>1, <1>2, Zenon DEF Join

\* The beginning of what is there is there.
LEMMA ShowsFirst ==
  ASSUME NEW br, NEW q \in Int, NEW s \in Bits, NEW t \in Bits, Shows(br, q, Join(s, t))
  PROVE  Shows(br, q, s)
  <1>1. Shows(br, q, s \o t) BY DEF Join
  <1> QED BY <1>1, ShowsParts

\* What parse_sps is to make of an SPS.
SpsRead ==
    LET s == pic.sps
    IN  IF s.poc = 1 \/ s.mbsOnly = 0 THEN No
        ELSE [ok |-> TRUE, id |-> s.id, log2 |-> s.log2, poc |-> s.poc,
              pocLog2 |-> IF s.poc = 0 THEN pic.pocLog2 ELSE 0,
              refs |-> s.refs, width |-> s.width, height |-> s.height]

\* The types of the fields.
LEMMA FieldTypes ==
  ASSUME PictureFields(pic)
  PROVE  LET s == pic.sps
             p == pic.pps
             h == pic.slice
         IN  /\ s.mbsOnly \in {0, 1} /\ s.level \in Nat /\ s.id \in Codes /\ s.log2 \in Codes
             /\ s.poc \in Codes /\ s.refs \in Codes
             /\ s.width - 1 \in Codes /\ s.height - 1 \in Codes
             /\ s.width \in Nat /\ s.height \in Nat /\ pic.pocLog2 \in Codes
             /\ s.crop \in Seq(Codes) /\ Len(s.crop) \in {0, 4}
             /\ p.cabac \in {0, 1} /\ p.deblocking \in {0, 1} /\ p.id \in Codes
             /\ p.spsId \in Codes /\ p.l0 \in Codes /\ p.qp \in Int /\ p.qp - 26 \in SignedCodes
             /\ pic.groups \in Codes
             /\ h.firstMb \in Codes /\ h.type \in Codes /\ h.ppsId \in Codes
             /\ h.idrId \in Codes /\ h.disable \in Codes /\ h.qpDelta \in SignedCodes
             /\ h.frameNum \in Nat /\ s.log2 + 4 \in Nat /\ h.frameNum < Pow2[s.log2 + 4]
             /\ pic.pocLsb \in Nat /\ pic.pocLog2 + 4 \in Nat
             /\ pic.pocLsb < Pow2[pic.pocLog2 + 4] /\ pic.data \in Bits
  <1> DEFINE s == pic.sps
             p == pic.pps
             h == pic.slice
  <1>1. /\ SpsFields(s) /\ PpsFields(p) /\ SliceFields(s, h)
        /\ pic.pocLog2 \in 0 .. 12 /\ pic.groups \in Codes
        /\ pic.pocLsb \in Nat /\ pic.pocLsb < Pow2[pic.pocLog2 + 4] /\ pic.data \in Bits
    BY DEF PictureFields, Bits
  <1>2. /\ \A m \in 0 .. 255 : m \in Nat
        /\ \A m \in 0 .. 12 : m \in Codes /\ m + 4 \in Nat
    <2>1. \A m \in 0 .. 12 : m \in Codes BY SMT DEF Codes
    <2> QED BY <2>1
  <1> HIDE DEF s, p, h
  <1>3. /\ s.mbsOnly \in {0, 1} /\ s.level \in Nat /\ s.id \in Codes /\ s.log2 \in Codes
        /\ s.poc \in Codes /\ s.refs \in Codes
        /\ s.width - 1 \in Codes /\ s.height - 1 \in Codes
        /\ s.width \in Nat /\ s.height \in Nat
        /\ s.crop \in Seq(Codes) /\ Len(s.crop) \in {0, 4} /\ s.log2 + 4 \in Nat
    BY <1>1, <1>2 DEF SpsFields
  <1>4. /\ p.cabac \in {0, 1} /\ p.deblocking \in {0, 1} /\ p.id \in Codes
        /\ p.spsId \in Codes /\ p.l0 \in Codes /\ p.qp \in Int /\ p.qp - 26 \in SignedCodes
    BY <1>1 DEF PpsFields
  <1>5. /\ h.firstMb \in Codes /\ h.type \in Codes /\ h.ppsId \in Codes
        /\ h.idrId \in Codes /\ h.disable \in Codes /\ h.qpDelta \in SignedCodes
        /\ h.frameNum \in Nat /\ h.frameNum < Pow2[s.log2 + 4]
    BY <1>1 DEF SliceFields
  <1>6. pic.pocLog2 \in Codes /\ pic.pocLog2 + 4 \in Nat BY <1>1, <1>2
  <1> QED BY <1>1, <1>3, <1>4, <1>5, <1>6 DEF s, p, h

\* What is written of the flags and the crop, and for the picture order, are bits.
LEMMA PieceTypes ==
  ASSUME PictureFields(pic)
  PROVE  LET s == pic.sps
         IN  /\ (IF s.crop = <<>> THEN <<>>
                 ELSE PutUe(s.crop[1]) \o PutUe(s.crop[2]) \o PutUe(s.crop[3])
                      \o PutUe(s.crop[4])) \in Bits
             /\ PocFields \in Bits
             /\ s.poc = 0 => PocFields = PutUe(pic.pocLog2)
             /\ s.poc # 0 /\ s.poc # 1 => PocFields = <<>>
  <1> DEFINE s == pic.sps
             crop == IF s.crop = <<>> THEN <<>>
                     ELSE PutUe(s.crop[1]) \o PutUe(s.crop[2]) \o PutUe(s.crop[3])
                          \o PutUe(s.crop[4])
  <1>1. s.crop \in Seq(Codes) /\ Len(s.crop) \in {0, 4} /\ pic.pocLog2 \in Codes BY FieldTypes
  <1> HIDE DEF s
  <1>2. /\ \A v \in Codes : PutUe(v) \in Bits
        /\ \A v \in SignedCodes : PutSe(v) \in Bits
    BY CodesAreBits
  <1>3. \A u, v \in Bits : u \o v \in Bits BY MoreBits
  <1>4. <<>> \in Bits /\ <<0>> \in Bits BY DEF Bits
  <1>5. crop \in Bits
    <2>1. CASE s.crop = <<>> BY <1>4, <2>1
    <2>2. CASE s.crop # <<>>
      <3>1. Len(s.crop) = 4 BY <1>1, <2>2, EmptySeq
      <3>2. /\ s.crop[1] \in Codes /\ s.crop[2] \in Codes
            /\ s.crop[3] \in Codes /\ s.crop[4] \in Codes
        BY <1>1, <3>1, ElementOfSeq
      <3>3. /\ PutUe(s.crop[1]) \in Bits /\ PutUe(s.crop[2]) \in Bits
            /\ PutUe(s.crop[3]) \in Bits /\ PutUe(s.crop[4]) \in Bits
        BY <1>2, <3>2
      <3> QED BY <1>3, <2>2, <3>3
    <2> QED BY <2>1, <2>2
  <1>6. PocFields = IF s.poc = 0 THEN PutUe(pic.pocLog2)
                    ELSE IF s.poc = 1 THEN <<0>> \o PutSe(0) \o PutSe(0) \o PutUe(0)
                    ELSE <<>>
    BY DEF PocFields, s
  <1>7. PocFields \in Bits
    <2>1. 0 \in Codes /\ 0 \in SignedCodes BY SMT DEF Codes, SignedCodes
    <2>2. PutSe(0) \in Bits /\ PutUe(0) \in Bits /\ PutUe(pic.pocLog2) \in Bits BY <1>1, <1>2, <2>1
    <2>3. <<0>> \o PutSe(0) \o PutSe(0) \o PutUe(0) \in Bits BY <1>3, <1>4, <2>2
    <2> QED BY <1>4, <1>6, <2>2, <2>3
  <1> HIDE DEF crop
  <1> QED BY <1>5, <1>6, <1>7 DEF crop, s

\* The eight flags of a profile, which parse_sps skips.
LEMMA Constraints == <<1, 1, 0, 0>> \o Zeros(4) \in Bits /\ Len(<<1, 1, 0, 0>> \o Zeros(4)) = 8
                     /\ Zeros(4) \in Bits /\ <<1, 1, 0, 0>> \in Bits
  <1> DEFINE e == <<1, 1, 0, 0>>
             z == Zeros(4)
  <1>1. e \in Bits /\ Len(e) = 4 BY DEF Bits
  <1>2. z \in Bits /\ Len(z) = 4
    <2>1. 4 \in Nat /\ 0 \in Nat OBVIOUS
    <2> QED BY <2>1, PutBitsType DEF Bits
  <1> HIDE DEF e, z
  <1>3. e \o z \in Bits /\ Len(e \o z) = Len(e) + Len(z) BY <1>1, <1>2, MoreBits
  <1>4. Len(e \o z) = 8 BY <1>1, <1>2, <1>3
  <1> QED BY <1>1, <1>2, <1>3, <1>4, Zenon DEF e, z

\* An SPS, one field behind the other.
LEMMA SpsLaidOut ==
  ASSUME PictureFields(pic)
  PROVE  LET s == pic.sps
             head == Join(Join(Join(Join(Join(Join(StartCodeAndNalHeader(3, 7), PutBits(66, 8)),
                                                   <<1, 1, 0, 0>> \o Zeros(4)),
                                              PutBits(s.level, 8)),
                                         PutUe(s.id)), PutUe(s.log2)), PutUe(s.poc))
             crop == IF s.crop = <<>> THEN <<>>
                     ELSE PutUe(s.crop[1]) \o PutUe(s.crop[2]) \o PutUe(s.crop[3])
                          \o PutUe(s.crop[4])
         IN  SpsText = Join(Join(Join(Join(Join(Join(Join(head, PocFields), PutUe(s.refs)), <<0>>),
                                           PutUe(s.width - 1)), PutUe(s.height - 1)),
                                 <<s.mbsOnly>>),
                            Join(Join(<<1, IF s.crop = <<>> THEN 0 ELSE 1>>, crop), <<0>>))
  <1> DEFINE s == pic.sps
             flags == <<1, IF s.crop = <<>> THEN 0 ELSE 1>>
             crop == IF s.crop = <<>> THEN <<>>
                     ELSE PutUe(s.crop[1]) \o PutUe(s.crop[2]) \o PutUe(s.crop[3])
                          \o PutUe(s.crop[4])
             z == <<0>>
             m == <<s.mbsOnly>>
             x1 == PutBits(66, 8)
             x2 == <<1, 1, 0, 0>> \o Zeros(4)
             x3 == PutBits(s.level, 8)
             w0 == StartCodeAndNalHeader(3, 7)
             w1 == Join(w0, x1)
             w2 == Join(w1, x2)
             w3 == Join(w2, x3)
             w4 == Join(w3, PutUe(s.id))
             w5 == Join(w4, PutUe(s.log2))
             w6 == Join(w5, PutUe(s.poc))
             w7 == Join(w6, PocFields)
             w8 == Join(w7, PutUe(s.refs))
             w9 == Join(w8, z)
             wA == Join(w9, PutUe(s.width - 1))
             wB == Join(wA, PutUe(s.height - 1))
             wC == Join(wB, m)
             rest == Join(Join(flags, crop), z)
  <1>1. /\ s.mbsOnly \in {0, 1} /\ s.level \in Nat /\ s.id \in Codes /\ s.log2 \in Codes
        /\ s.poc \in Codes /\ s.refs \in Codes /\ s.width - 1 \in Codes /\ s.height - 1 \in Codes
    BY FieldTypes
  <1>2. crop \in Bits /\ PocFields \in Bits BY PieceTypes
  <1>3. SpsText = Join(wC, rest)
    <2>1. flags \in Bits /\ z \in Bits /\ m \in Bits BY <1>1 DEF Bits
    <2>2. <<s.mbsOnly, 1, IF s.crop = <<>> THEN 0 ELSE 1>> = m \o flags OBVIOUS
    <2>3. /\ SpsHead(s) = w0 \o x1 \o <<1, 1, 0, 0>> \o Zeros(4) \o x3 \o PutUe(s.id)
                          \o PutUe(s.log2) \o PutUe(s.poc)
          /\ SpsTail(s) = PutUe(s.refs) \o z \o PutUe(s.width - 1) \o PutUe(s.height - 1)
                          \o <<s.mbsOnly, 1, IF s.crop = <<>> THEN 0 ELSE 1>> \o crop \o z
          /\ SpsText = SpsHead(s) \o PocFields \o SpsTail(s)
      BY Zenon DEF SpsHead, SpsTail, SpsText
    <2> DEFINE e == <<1, 1, 0, 0>>
               n == Zeros(4)
    <2>4. e \in Bits /\ n \in Bits BY Constraints
    <2>5. w0 \in Bits /\ x1 \in Bits /\ x3 \in Bits
      <3>1. 66 \in Nat /\ 8 \in Nat OBVIOUS
      <3> QED BY <1>1, <3>1, StartFacts, CodesAreBits
    <2>6. /\ PutUe(s.id) \in Bits /\ PutUe(s.log2) \in Bits /\ PutUe(s.poc) \in Bits
          /\ PutUe(s.refs) \in Bits /\ PutUe(s.width - 1) \in Bits /\ PutUe(s.height - 1) \in Bits
      BY <1>1, CodesAreBits
    <2>7. x2 = Join(e, n) /\ Join(m, flags) = m \o flags BY DEF Join
    <2> HIDE DEF s, flags, crop, z, m, e, n, w0, x1, x2, x3
    <2>8. /\ SpsHead(s) = Join(Join(Join(Join(Join(Join(w1, e), n), x3), PutUe(s.id)),
                                    PutUe(s.log2)), PutUe(s.poc))
          /\ SpsTail(s) = Join(Join(Join(Join(Join(Join(PutUe(s.refs), z), PutUe(s.width - 1)),
                                               PutUe(s.height - 1)), Join(m, flags)), crop), z)
          /\ SpsText = Join(Join(SpsHead(s), PocFields), SpsTail(s))
      BY <2>2, <2>3, Zenon DEF Join, e, n
    <2>9. w1 \in Bits BY <2>5, JoinThree
    <2>10. Join(Join(w1, e), n) = w2
      <3> HIDE DEF w1
      <3> QED BY <2>4, <2>7, <2>9, JoinThree
    <2>11. SpsHead(s) = w6
      <3> HIDE DEF w1, w2
      <3>1. w2 = Join(Join(w1, e), n) BY <2>10
      <3> QED BY <2>8, <3>1
    <2>12. w7 \in Bits
      <3>1. \A u, v \in Bits : Join(u, v) \in Bits BY JoinThree
      <3>2. x2 \in Bits BY <2>4, <2>7, <3>1
      <3> QED BY <1>2, <2>5, <2>6, <2>9, <3>1, <3>2
    <2>13. SpsText = Join(w7, SpsTail(s))
      <3> HIDE DEF w6
      <3> QED BY <2>8, <2>11
    <2> HIDE DEF w7
    <2>14. Join(w7, SpsTail(s)) = Join(wC, rest)
      <3> DEFINE r == PutUe(s.refs)
                 x == PutUe(s.width - 1)
                 y == PutUe(s.height - 1)
      <3>1. r \in Bits /\ x \in Bits /\ y \in Bits BY <2>6
      <3>2. /\ SpsTail(s) = Join(Join(Join(Join(Join(Join(r, z), x), y), Join(m, flags)), crop), z)
            /\ Join(wC, rest) = Join(Join(Join(Join(Join(Join(w7, r), z), x), y), m),
                                     Join(Join(flags, crop), z))
        BY <2>8
      <3> HIDE DEF r, x, y, wC, rest
      <3>3. Join(w7, Join(Join(Join(Join(Join(Join(r, z), x), y), Join(m, flags)), crop), z))
              = Join(Join(Join(Join(Join(Join(w7, r), z), x), y), m), Join(Join(flags, crop), z))
        <4>0. /\ w7 \in Bits /\ r \in Bits /\ z \in Bits /\ x \in Bits /\ y \in Bits
              /\ m \in Bits /\ flags \in Bits /\ crop \in Bits
          BY <1>2, <2>1, <2>12, <3>1
        <4> DEFINE rz == Join(r, z)
                   rx == Join(rz, x)
                   ry == Join(rx, y)
                   mf == Join(m, flags)
                   rf == Join(ry, mf)
                   rc == Join(rf, crop)
                   fc == Join(flags, crop)
                   wr == Join(w7, r)
                   wz == Join(wr, z)
                   wx == Join(wz, x)
                   wy == Join(wx, y)
                   wm == Join(wy, m)
                   wf == Join(wm, flags)
                   wc == Join(wf, crop)
        <4>1. \A u, v \in Bits : Join(u, v) \in Bits BY JoinThree
        <4>2. \A u, v, t \in Bits : Join(u, Join(v, t)) = Join(Join(u, v), t) BY JoinThree
        <4>3. /\ rz \in Bits /\ rx \in Bits /\ ry \in Bits /\ mf \in Bits /\ rf \in Bits
              /\ rc \in Bits /\ fc \in Bits /\ wr \in Bits /\ wz \in Bits /\ wx \in Bits
              /\ wy \in Bits /\ wm \in Bits /\ wf \in Bits
          BY <4>0, <4>1
        <4>4. Join(w7, rz) = wz BY <4>0, <4>2
        <4>5. Join(w7, rx) = wx BY <4>0, <4>2, <4>3, <4>4
        <4>6. Join(w7, ry) = wy BY <4>0, <4>2, <4>3, <4>5
        <4>7. Join(w7, rf) = wf
          <5>1. Join(w7, rf) = Join(wy, mf) BY <4>0, <4>2, <4>3, <4>6
          <5>2. Join(wy, mf) = wf BY <4>0, <4>2, <4>3
          <5> QED BY <5>1, <5>2
        <4>8. Join(w7, rc) = wc BY <4>0, <4>2, <4>3, <4>7
        <4>9. Join(wm, fc) = wc BY <4>0, <4>2, <4>3
        <4>10. Join(w7, Join(rc, z)) = Join(wc, z) BY <4>0, <4>2, <4>3, <4>8
        <4>11. Join(wm, Join(fc, z)) = Join(wc, z) BY <4>0, <4>2, <4>3, <4>9
        <4>12. Join(w7, Join(rc, z)) = Join(wm, Join(fc, z)) BY <4>10, <4>11
        <4> QED BY <4>12 DEF rc, rf, ry, rx, rz, mf, fc, wm, wy, wx, wz, wr
      <3> QED BY <3>2, <3>3
    <2> QED BY <2>13, <2>14
  <1> QED BY <1>3, Zenon DEF wC, wB, wA, w9, w8, w7, w6, w5, w4, w3, w2, w1, w0, x1, x2, x3,
                          z, m, flags, crop, rest, s

\* "The mirror image of the bit writer": parse_sps of what was written as an SPS.
LEMMA SpsReadBack ==
  ASSUME PictureFields(pic), NEW br \in Reader, Shows(br, 0 - 32, SpsText)
  PROVE  ParseSps(br) = SpsRead
  <1> DEFINE s == pic.sps
             q == 0 - 32
             F == <<U(8), U(8), U(8), Ue, Ue, Ue>>
             G == <<Ue>>
             H == <<Ue, U(1), Ue, Ue, U(1)>>
             flags == <<1, IF s.crop = <<>> THEN 0 ELSE 1>>
             crop == IF s.crop = <<>> THEN <<>>
                     ELSE PutUe(s.crop[1]) \o PutUe(s.crop[2]) \o PutUe(s.crop[3])
                          \o PutUe(s.crop[4])
             z == <<0>>
             m == <<s.mbsOnly>>
             x1 == PutBits(66, 8)
             x2 == <<1, 1, 0, 0>> \o Zeros(4)
             x3 == PutBits(s.level, 8)
             w0 == StartCodeAndNalHeader(3, 7)
             w1 == Join(w0, x1)
             w2 == Join(w1, x2)
             w3 == Join(w2, x3)
             w4 == Join(w3, PutUe(s.id))
             w5 == Join(w4, PutUe(s.log2))
             w6 == Join(w5, PutUe(s.poc))
             w7 == Join(w6, PocFields)
             w8 == Join(w7, PutUe(s.refs))
             w9 == Join(w8, z)
             wA == Join(w9, PutUe(s.width - 1))
             wB == Join(wA, PutUe(s.height - 1))
             wC == Join(wB, m)
             rest == Join(Join(flags, crop), z)
             a == Read(br, 0, F)
             b == Read(br, a.pos, IF a.val[6] = 0 THEN <<Ue>> ELSE <<>>)
             c == Read(br, b.pos, H)
  <1>1. /\ s.mbsOnly \in {0, 1} /\ s.level \in Nat /\ s.id \in Codes /\ s.log2 \in Codes
        /\ s.poc \in Codes /\ s.refs \in Codes /\ s.width - 1 \in Codes /\ s.height - 1 \in Codes
        /\ s.width \in Nat /\ s.height \in Nat /\ pic.pocLog2 \in Codes
    BY FieldTypes
  <1>2. /\ crop \in Bits /\ PocFields \in Bits
        /\ s.poc = 0 => PocFields = PutUe(pic.pocLog2)
        /\ s.poc # 0 /\ s.poc # 1 => PocFields = <<>>
    BY PieceTypes
  <1>3. /\ F \in Seq(Fields) /\ G \in Seq(Fields) /\ H \in Seq(Fields)
        /\ Len(F) = 6 /\ Len(G) = 1 /\ Len(H) = 5
    BY FieldLists
  <1>4. /\ FieldIs(F, 0, 1, U(8)) /\ FieldIs(F, 1, 2, U(8)) /\ FieldIs(F, 2, 3, U(8))
        /\ FieldIs(F, 3, 4, Ue) /\ FieldIs(F, 4, 5, Ue) /\ FieldIs(F, 5, 6, Ue)
        /\ FieldIs(G, 0, 1, Ue)
        /\ FieldIs(H, 0, 1, Ue) /\ FieldIs(H, 1, 2, U(1)) /\ FieldIs(H, 2, 3, Ue)
        /\ FieldIs(H, 3, 4, Ue) /\ FieldIs(H, 4, 5, U(1))
    BY DEF FieldIs
  <1>5. SpsText = Join(wC, rest) BY SpsLaidOut
  <1>6. q \in Int /\ q + 32 = 0 /\ 0 \in Nat /\ 1 \in Nat /\ 8 \in Nat /\ 66 \in Nat OBVIOUS
  <1>7. /\ w0 \in Bits /\ Len(w0) = 32
        /\ x1 \in Bits /\ Len(x1) = 8 /\ x2 \in Bits /\ Len(x2) = 8
        /\ x3 \in Bits /\ Len(x3) = 8 /\ z \in Bits /\ m \in Bits /\ rest \in Bits
    <2>1. x1 \in Bits /\ Len(x1) = 8 /\ x3 \in Bits /\ Len(x3) = 8
      BY <1>1, <1>6, PutBitsType DEF Bits
    <2>2. flags \in Bits /\ z \in Bits /\ m \in Bits BY <1>1 DEF Bits
    <2>3. rest \in Bits
      <3> HIDE DEF flags, crop, z
      <3> QED BY <1>2, <2>2, JoinThree
    <2>4. w0 \in Bits /\ Len(w0) = 32 BY StartFacts
    <2>5. x2 \in Bits /\ Len(x2) = 8 BY Constraints
    <2> QED BY <2>1, <2>2, <2>3, <2>4, <2>5
  <1> HIDE DEF s, F, G, H, flags, crop, z, m, x1, x2, x3, rest
  <1> HIDE DEF q, w0, w1, w2, w3, w4, w5, w6, w7, w8, w9, wA, wB, wC
  <1>8. /\ w1 \in Bits /\ w2 \in Bits /\ w3 \in Bits /\ w4 \in Bits /\ w5 \in Bits /\ w6 \in Bits
        /\ w7 \in Bits /\ w8 \in Bits /\ w9 \in Bits /\ wA \in Bits /\ wB \in Bits /\ wC \in Bits
    <2>1. \A u, v \in Bits : Join(u, v) \in Bits BY JoinThree
    <2>2. \A v \in Codes : PutUe(v) \in Bits BY CodesAreBits
    <2>3. w1 \in Bits /\ w2 \in Bits /\ w3 \in Bits BY <1>7, <2>1 DEF w1, w2, w3
    <2>4. w4 \in Bits /\ w5 \in Bits /\ w6 \in Bits BY <1>1, <2>1, <2>2, <2>3 DEF w4, w5, w6
    <2>5. w7 \in Bits /\ w8 \in Bits /\ w9 \in Bits
      BY <1>1, <1>2, <1>7, <2>1, <2>2, <2>4 DEF w7, w8, w9
    <2>6. wA \in Bits /\ wB \in Bits /\ wC \in Bits
      BY <1>1, <1>7, <2>1, <2>2, <2>5 DEF wA, wB, wC
    <2> QED BY <2>3, <2>4, <2>5, <2>6
  <1>9. /\ Shows(br, q, w4) /\ Shows(br, q, w5) /\ Shows(br, q, w6) /\ Shows(br, q, w7)
        /\ Shows(br, q, w8) /\ Shows(br, q, w9) /\ Shows(br, q, wA) /\ Shows(br, q, wB)
        /\ Shows(br, q, wC)
    <2>1. Shows(br, q, Join(wC, rest)) BY <1>5 DEF q
    <2>2. Shows(br, q, wC) BY <1>6, <1>7, <1>8, <2>1, ShowsFirst
    <2>3. Shows(br, q, wB) BY <1>6, <1>7, <1>8, <2>2, ShowsFirst DEF wC
    <2>4. Shows(br, q, wA) BY <1>1, <1>6, <1>8, <2>3, ShowsFirst, CodesAreBits DEF wB
    <2>5. Shows(br, q, w9) BY <1>1, <1>6, <1>8, <2>4, ShowsFirst, CodesAreBits DEF wA
    <2>6. Shows(br, q, w8) BY <1>6, <1>7, <1>8, <2>5, ShowsFirst DEF w9
    <2>7. Shows(br, q, w7) BY <1>1, <1>6, <1>8, <2>6, ShowsFirst, CodesAreBits DEF w8
    <2>8. Shows(br, q, w6) BY <1>2, <1>6, <1>8, <2>7, ShowsFirst DEF w7
    <2>9. Shows(br, q, w5) BY <1>1, <1>6, <1>8, <2>8, ShowsFirst, CodesAreBits DEF w6
    <2>10. Shows(br, q, w4) BY <1>1, <1>6, <1>8, <2>9, ShowsFirst, CodesAreBits DEF w5
    <2> QED BY <2>2, <2>3, <2>4, <2>5, <2>6, <2>7, <2>8, <2>9, <2>10
  <1>10. a.val[4] = s.id /\ a.val[5] = s.log2 /\ a.val[6] = s.poc /\ a.pos = q + Len(w6)
    <2>1. Reads(br, q, 0, F, 0, w0)
      <3>1. q + Len(w0) = 0 BY <1>6, <1>7
      <3>2. Reads(br, q, q + Len(w0), F, 0, w0) BY <1>3, <1>6, <1>7, <3>1, ReadsNothing
      <3> QED BY <3>1, <3>2
    <2>2. Reads(br, q, 0, F, 1, w1) BY <1>4, <1>6, <1>7, <2>1, ReadsBits DEF w1
    <2>3. Reads(br, q, 0, F, 2, w2) BY <1>4, <1>6, <1>7, <2>2, ReadsBits DEF w2
    <2>4. Reads(br, q, 0, F, 3, w3) BY <1>4, <1>6, <1>7, <2>3, ReadsBits DEF w3
    <2>5. Reads(br, q, 0, F, 4, w4) /\ a.val[4] = s.id
      BY <1>1, <1>4, <1>9, <2>4, ReadsUe DEF w4
    <2>6. Reads(br, q, 0, F, 5, w5) /\ a.val[5] = s.log2
      BY <1>1, <1>4, <1>9, <2>5, ReadsUe DEF w5
    <2>7. Reads(br, q, 0, F, 6, w6) /\ a.val[6] = s.poc
      BY <1>1, <1>4, <1>9, <2>6, ReadsUe DEF w6
    <2>8. a.pos = q + Len(w6)
      <3>1. Reads(br, q, 0, F, Len(F), w6) BY <1>3, <2>7
      <3> QED BY <1>9, <3>1, ReadsAll
    <2> QED BY <2>5, <2>6, <2>7, <2>8
  <1>11. ParseSps(br) = IF a.val[6] = 1 \/ c.val[5] = 0 THEN No
                        ELSE [ok |-> TRUE, id |-> a.val[4], log2 |-> a.val[5], poc |-> a.val[6],
                              pocLog2 |-> IF a.val[6] = 0 THEN b.val[1] ELSE 0,
                              refs |-> c.val[1], width |-> c.val[3] + 1, height |-> c.val[4] + 1]
    BY DEF ParseSps, F, H
  <1>12. SpsRead = IF s.poc = 1 \/ s.mbsOnly = 0 THEN No
                   ELSE [ok |-> TRUE, id |-> s.id, log2 |-> s.log2, poc |-> s.poc,
                         pocLog2 |-> IF s.poc = 0 THEN pic.pocLog2 ELSE 0,
                         refs |-> s.refs, width |-> s.width, height |-> s.height]
    BY DEF SpsRead, s
  <1>13. \A p \in Nat, l \in Seq(Fields) : Read(br, p, l).pos \in Nat
    BY FieldLists, ReadAppend DEF Results
  <1>14. a.pos \in Nat BY <1>3, <1>6, <1>13
  <1> HIDE DEF a
  <1>15. ASSUME s.poc # 1
         PROVE  /\ s.poc = 0 => b.val[1] = pic.pocLog2
                /\ b.pos = q + Len(w7)
    <2> DEFINE g == Read(br, a.pos, G)
    <2>2. CASE s.poc = 0
      <3>1. b = g BY <1>10, <2>2 DEF G
      <3>2. Reads(br, q, a.pos, G, 0, w6) BY <1>3, <1>6, <1>8, <1>10, <1>14, ReadsNothing
      <3>3. w7 = Join(w6, PutUe(pic.pocLog2)) BY <1>2, <2>2 DEF w7
      <3>4. Reads(br, q, a.pos, G, 1, w7) /\ g.val[1] = pic.pocLog2
        BY <1>1, <1>4, <1>9, <3>2, <3>3, ReadsUe
      <3>5. g.pos = q + Len(w7)
        <4>1. Reads(br, q, a.pos, G, Len(G), w7) BY <1>3, <3>4
        <4> QED BY <1>9, <4>1, ReadsAll
      <3> QED BY <3>1, <3>4, <3>5
    <2>3. CASE s.poc # 0
      <3>1. b = Read(br, a.pos, <<>>) BY <1>10, <2>3
      <3>2. Read(br, a.pos, <<>>).pos = a.pos BY <1>3, <1>14, ReadAppend, FieldLists
      <3>3. w7 = w6
        <4>1. PocFields = <<>> BY <1>2, <1>15, <2>3
        <4>2. w6 \o <<>> = w6 BY <1>8, ConcatEmptySeq DEF Bits
        <4> QED BY <4>1, <4>2, Zenon DEF w7, Join
      <3> QED BY <1>10, <2>3, <3>1, <3>2, <3>3
    <2> QED BY <2>2, <2>3
  <1>16. b.pos \in Nat
    <2>1. G \in Seq(Fields) /\ <<>> \in Seq(Fields) BY <1>3
    <2>2. b = Read(br, a.pos, G) \/ b = Read(br, a.pos, <<>>) BY DEF G
    <2> QED BY <1>13, <1>14, <2>1, <2>2
  <1> HIDE DEF b
  <1>17. ASSUME s.poc # 1
         PROVE  /\ c.val[1] = s.refs /\ c.val[3] = s.width - 1 /\ c.val[4] = s.height - 1
                /\ c.val[5] = s.mbsOnly
    <2>1. b.pos \in Nat /\ b.pos = q + Len(w7) BY <1>15, <1>17, <1>16
    <2>2. Reads(br, q, b.pos, H, 0, w7) BY <1>3, <1>6, <1>8, <2>1, ReadsNothing
    <2>3. Reads(br, q, b.pos, H, 1, w8) /\ c.val[1] = s.refs
      BY <1>1, <1>4, <1>9, <2>2, ReadsUe DEF w8
    <2>4. Reads(br, q, b.pos, H, 2, w9)
      <3>1. 0 \in {0, 1} OBVIOUS
      <3> QED BY <1>4, <1>9, <2>3, <3>1, ReadsFlag DEF w9, z
    <2>5. Reads(br, q, b.pos, H, 3, wA) /\ c.val[3] = s.width - 1
      BY <1>1, <1>4, <1>9, <2>4, ReadsUe DEF wA
    <2>6. Reads(br, q, b.pos, H, 4, wB) /\ c.val[4] = s.height - 1
      BY <1>1, <1>4, <1>9, <2>5, ReadsUe DEF wB
    <2>7. c.val[5] = s.mbsOnly
      BY <1>1, <1>4, <1>9, <2>6, ReadsFlag DEF wC, m
    <2> QED BY <2>3, <2>5, <2>6, <2>7
  <1> HIDE DEF c
  <1>18. CASE s.poc = 1 BY <1>10, <1>11, <1>12, <1>18
  <1>19. CASE s.poc # 1
    <2>1. c.val[3] + 1 = s.width /\ c.val[4] + 1 = s.height BY <1>1, <1>17, <1>19
    <2> QED BY <1>10, <1>11, <1>12, <1>15, <1>17, <1>19, <2>1
  <1> QED BY <1>18, <1>19

\* What parse_pps is to make of a PPS.
PpsRead ==
    LET p == pic.pps
    IN  IF pic.groups # 0 THEN No
        ELSE [ok |-> TRUE, id |-> p.id, spsId |-> p.spsId, cabac |-> p.cabac,
              l0 |-> p.l0, qp |-> p.qp, deblocking |-> p.deblocking]

\* parse_pps of what was written as a PPS.
LEMMA PpsReadBack ==
  ASSUME PictureFields(pic), NEW br \in Reader, Shows(br, 0 - 32, PpsText)
  PROVE  ParsePps(br) = PpsRead
  <1> DEFINE p == pic.pps
             g == pic.groups
             q == 0 - 32
             F == <<Ue, Ue, U(1), U(1), Ue>>
             G == <<Ue, Ue, U(1), U(2), Se, Se, Se, U(1), U(1), U(1)>>
             e == <<p.cabac>>
             z == <<0>>
             d == <<p.deblocking>>
             zz == <<0, 0>>
             n == Zeros(2)
             w0 == StartCodeAndNalHeader(3, 8)
             w1 == Join(w0, PutUe(p.id))
             w2 == Join(w1, PutUe(p.spsId))
             w3 == Join(w2, e)
             w4 == Join(w3, z)
             w5 == Join(w4, PutUe(g))
             w6 == Join(w5, PutUe(p.l0))
             w7 == Join(w6, PutUe(0))
             w8 == Join(w7, z)
             w9 == Join(w8, n)
             wA == Join(w9, PutSe(p.qp - 26))
             wB == Join(wA, PutSe(0))
             wC == Join(wB, PutSe(0))
             wD == Join(wC, d)
             a == Read(br, 0, F)
             b == Read(br, a.pos, G)
  <1>1. /\ p.cabac \in {0, 1} /\ p.deblocking \in {0, 1} /\ p.id \in Codes
        /\ p.spsId \in Codes /\ p.l0 \in Codes /\ p.qp \in Int /\ p.qp - 26 \in SignedCodes
        /\ g \in Codes
    BY FieldTypes
  <1>2. 0 \in Codes /\ 0 \in SignedCodes BY SMT DEF Codes, SignedCodes
  <1>3. F \in Seq(Fields) /\ G \in Seq(Fields) /\ Len(F) = 5
    <2>1. 1 \in Nat /\ 2 \in Nat OBVIOUS
    <2> QED BY <2>1, FieldLists
  <1>4. /\ FieldIs(F, 0, 1, Ue) /\ FieldIs(F, 1, 2, Ue) /\ FieldIs(F, 2, 3, U(1))
        /\ FieldIs(F, 3, 4, U(1)) /\ FieldIs(F, 4, 5, Ue)
        /\ FieldIs(G, 0, 1, Ue) /\ FieldIs(G, 1, 2, Ue) /\ FieldIs(G, 2, 3, U(1))
        /\ FieldIs(G, 3, 4, U(2)) /\ FieldIs(G, 4, 5, Se) /\ FieldIs(G, 5, 6, Se)
        /\ FieldIs(G, 6, 7, Se) /\ FieldIs(G, 7, 8, U(1))
    BY DEF FieldIs
  <1>5. q \in Int /\ q + 32 = 0 /\ 0 \in Nat /\ 1 \in Nat /\ 2 \in Nat OBVIOUS
  <1>6. /\ w0 \in Bits /\ Len(w0) = 32 /\ e \in Bits /\ z \in Bits /\ d \in Bits /\ zz \in Bits
        /\ n \in Bits /\ Len(n) = 2
    <2>1. w0 \in Bits /\ Len(w0) = 32 BY StartFacts
    <2>2. n \in Bits /\ Len(n) = 2 BY <1>5, PutBitsType DEF Bits
    <2>3. e \in Bits /\ z \in Bits /\ d \in Bits /\ zz \in Bits BY <1>1 DEF Bits
    <2> QED BY <2>1, <2>2, <2>3
  <1>7. /\ PutUe(p.id) \in Bits /\ PutUe(p.spsId) \in Bits /\ PutUe(p.l0) \in Bits
        /\ PutUe(g) \in Bits /\ PutUe(0) \in Bits /\ PutSe(0) \in Bits /\ PutSe(p.qp - 26) \in Bits
    BY <1>1, <1>2, CodesAreBits
  <1>8. /\ <<p.cabac, 0>> = e \o z /\ <<p.deblocking, 0, 0>> = d \o zz OBVIOUS
  <1>9. /\ PpsHead(p) = w0 \o PutUe(p.id) \o PutUe(p.spsId) \o <<p.cabac, 0>>
        /\ SliceGroups = IF g = 0 THEN PutUe(0) ELSE PutUe(g) \o PutUe(0)
        /\ PpsTail(p) = PutUe(p.l0) \o PutUe(0) \o z \o n \o PutSe(p.qp - 26) \o PutSe(0)
                        \o PutSe(0) \o <<p.deblocking, 0, 0>>
        /\ PpsText = PpsHead(p) \o SliceGroups \o PpsTail(p)
    BY Zenon DEF PpsHead, PpsTail, PpsText, SliceGroups
  <1> DEFINE t == PpsTail(p)
  <1> HIDE DEF p, g, q, F, G, e, z, d, zz, n, w0, a
  <1>10. /\ PpsHead(p) = Join(w2, Join(e, z))
         /\ SliceGroups = IF g = 0 THEN PutUe(0) ELSE Join(PutUe(g), PutUe(0))
         /\ t = Join(Join(Join(Join(Join(Join(Join(PutUe(p.l0), PutUe(0)), z), n),
                                    PutSe(p.qp - 26)), PutSe(0)), PutSe(0)), Join(d, zz))
         /\ PpsText = Join(Join(PpsHead(p), SliceGroups), t)
    BY <1>8, <1>9, Zenon DEF Join
  <1>11. \A u, v \in Bits : Join(u, v) \in Bits BY JoinThree
  <1>12. \A u, v, x \in Bits : Join(u, Join(v, x)) = Join(Join(u, v), x) BY JoinThree
  <1> HIDE DEF w1, w2, w3, w4, w5, w6, w7, w8, w9, wA, wB, wC, wD, t
  <1>13. /\ w1 \in Bits /\ w2 \in Bits /\ w3 \in Bits /\ w4 \in Bits /\ w5 \in Bits
         /\ w6 \in Bits /\ w7 \in Bits /\ w8 \in Bits /\ w9 \in Bits
         /\ wA \in Bits /\ wB \in Bits /\ wC \in Bits /\ wD \in Bits
    <2>1. w1 \in Bits /\ w2 \in Bits /\ w3 \in Bits BY <1>6, <1>7, <1>11 DEF w1, w2, w3
    <2>2. w4 \in Bits /\ w5 \in Bits /\ w6 \in Bits BY <1>6, <1>7, <1>11, <2>1 DEF w4, w5, w6
    <2>3. w7 \in Bits /\ w8 \in Bits /\ w9 \in Bits BY <1>6, <1>7, <1>11, <2>2 DEF w7, w8, w9
    <2>4. wA \in Bits /\ wB \in Bits /\ wC \in Bits BY <1>6, <1>7, <1>11, <2>3 DEF wA, wB, wC
    <2>5. wD \in Bits BY <1>6, <1>11, <2>4 DEF wD
    <2> QED BY <2>1, <2>2, <2>3, <2>4, <2>5
  <1>14. PpsHead(p) = w4
    <2>1. Join(w2, Join(e, z)) = Join(Join(w2, e), z) BY <1>6, <1>12, <1>13
    <2> QED BY <1>10, <2>1 DEF w3, w4
  <1>15. t \in Bits
    <2> DEFINE t4 == Join(Join(Join(PutUe(p.l0), PutUe(0)), z), n)
               t7 == Join(Join(Join(t4, PutSe(p.qp - 26)), PutSe(0)), PutSe(0))
    <2>1. t4 \in Bits BY <1>6, <1>7, <1>11
    <2>2. t = Join(t7, Join(d, zz)) BY <1>10
    <2> HIDE DEF t4
    <2>3. t7 \in Bits BY <1>7, <1>11, <2>1
    <2> HIDE DEF t7
    <2> QED BY <1>6, <1>11, <2>2, <2>3
  <1>16. /\ g # 0 => PpsText = Join(Join(w5, PutUe(0)), t)
         /\ g = 0 => PpsText = Join(w5, t)
    <2>1. Join(w4, Join(PutUe(g), PutUe(0))) = Join(Join(w4, PutUe(g)), PutUe(0))
      BY <1>7, <1>12, <1>13
    <2> QED BY <1>10, <1>14, <2>1 DEF w5
  <1>17. Shows(br, q, w5)
    <2>1. CASE g # 0
      <3>1. Shows(br, q, Join(Join(w5, PutUe(0)), t)) BY <1>16, <2>1 DEF q
      <3>2. Join(w5, PutUe(0)) \in Bits BY <1>7, <1>11, <1>13
      <3>3. Shows(br, q, Join(w5, PutUe(0))) BY <1>5, <1>15, <3>1, <3>2, ShowsFirst
      <3> QED BY <1>5, <1>7, <1>13, <3>3, ShowsFirst
    <2>2. CASE g = 0
      <3>1. Shows(br, q, Join(w5, t)) BY <1>16, <2>2 DEF q
      <3> QED BY <1>5, <1>13, <1>15, <3>1, ShowsFirst
    <2> QED BY <2>1, <2>2
  <1>18. /\ Shows(br, q, w4) /\ Shows(br, q, w3) /\ Shows(br, q, w2) /\ Shows(br, q, w1)
    <2>1. Shows(br, q, w4) BY <1>5, <1>7, <1>13, <1>17, ShowsFirst DEF w5
    <2>2. Shows(br, q, w3) BY <1>5, <1>6, <1>13, <2>1, ShowsFirst DEF w4
    <2>3. Shows(br, q, w2) BY <1>5, <1>6, <1>13, <2>2, ShowsFirst DEF w3
    <2>4. Shows(br, q, w1) BY <1>5, <1>7, <1>13, <2>3, ShowsFirst DEF w2
    <2> QED BY <2>1, <2>2, <2>3, <2>4
  <1>19. /\ a.val[1] = p.id /\ a.val[2] = p.spsId /\ a.val[3] = p.cabac /\ a.val[5] = g
         /\ a.pos = q + Len(w5) /\ a.pos \in Nat
    <2>1. Reads(br, q, 0, F, 0, w0)
      <3>1. q + Len(w0) = 0 BY <1>5, <1>6
      <3>2. Reads(br, q, q + Len(w0), F, 0, w0) BY <1>3, <1>5, <1>6, <3>1, ReadsNothing
      <3> QED BY <3>1, <3>2
    <2>2. Reads(br, q, 0, F, 1, w1) /\ a.val[1] = p.id
      BY <1>1, <1>4, <1>18, <2>1, ReadsUe DEF w1, a
    <2>3. Reads(br, q, 0, F, 2, w2) /\ a.val[2] = p.spsId
      BY <1>1, <1>4, <1>18, <2>2, ReadsUe DEF w2, a
    <2>4. Reads(br, q, 0, F, 3, w3) /\ a.val[3] = p.cabac
      BY <1>1, <1>4, <1>18, <2>3, ReadsFlag DEF w3, a, e
    <2>5. Reads(br, q, 0, F, 4, w4)
      <3>1. 0 \in {0, 1} OBVIOUS
      <3> QED BY <1>4, <1>18, <2>4, <3>1, ReadsFlag DEF w4, z
    <2>6. Reads(br, q, 0, F, 5, w5) /\ a.val[5] = g
      BY <1>1, <1>4, <1>17, <2>5, ReadsUe DEF w5, a
    <2>7. a.pos = q + Len(w5)
      <3>1. Reads(br, q, 0, F, Len(F), w5) BY <1>3, <2>6
      <3> QED BY <1>17, <3>1, ReadsAll DEF a
    <2>8. a.pos \in Nat BY <1>3, <1>5, FieldLists, ReadAppend DEF Results, a
    <2> QED BY <2>2, <2>3, <2>4, <2>6, <2>7, <2>8
  <1>20. ParsePps(br) = IF a.val[5] # 0 THEN No
                        ELSE [ok |-> TRUE, id |-> a.val[1], spsId |-> a.val[2],
                              cabac |-> a.val[3], l0 |-> b.val[1], qp |-> b.val[5] + 26,
                              deblocking |-> b.val[8]]
    BY DEF ParsePps, F, G, a
  <1>21. PpsRead = IF g # 0 THEN No
                   ELSE [ok |-> TRUE, id |-> p.id, spsId |-> p.spsId, cabac |-> p.cabac,
                         l0 |-> p.l0, qp |-> p.qp, deblocking |-> p.deblocking]
    BY DEF PpsRead, p, g
  <1>22. CASE g # 0
    <2> HIDE DEF b
    <2> QED BY <1>19, <1>20, <1>21, <1>22
  <1>23. CASE g = 0
    <2>1. PpsText = Join(wD, zz)
      <3> DEFINE t1 == PutUe(p.l0)
                 t2 == Join(t1, PutUe(0))
                 t3 == Join(t2, z)
                 t4 == Join(t3, n)
                 t5 == Join(t4, PutSe(p.qp - 26))
                 t6 == Join(t5, PutSe(0))
                 t7 == Join(t6, PutSe(0))
      <3>1. t = Join(t7, Join(d, zz)) BY <1>10
      <3>2. t1 \in Bits BY <1>7
      <3> HIDE DEF t1, t2, t3, t4, t5, t6, t7
      <3>3. t2 \in Bits /\ t3 \in Bits /\ t4 \in Bits
        BY <1>6, <1>7, <1>11, <3>2 DEF t2, t3, t4
      <3>4. t5 \in Bits /\ t6 \in Bits /\ t7 \in Bits /\ Join(d, zz) \in Bits
        BY <1>6, <1>7, <1>11, <3>3 DEF t5, t6, t7
      <3>5. Join(w5, t1) = w6 BY DEF t1, w6
      <3>6. Join(w5, t2) = w7 BY <1>7, <1>12, <1>13, <3>2, <3>5 DEF t2, w7
      <3>7. Join(w5, t3) = w8 BY <1>6, <1>12, <1>13, <3>3, <3>6 DEF t3, w8
      <3>8. Join(w5, t4) = w9 BY <1>6, <1>12, <1>13, <3>3, <3>7 DEF t4, w9
      <3>9. Join(w5, t5) = wA BY <1>7, <1>12, <1>13, <3>3, <3>8 DEF t5, wA
      <3>10. Join(w5, t6) = wB BY <1>7, <1>12, <1>13, <3>4, <3>9 DEF t6, wB
      <3>11. Join(w5, t7) = wC BY <1>7, <1>12, <1>13, <3>4, <3>10 DEF t7, wC
      <3>12. Join(w5, t) = Join(wC, Join(d, zz)) BY <1>12, <1>13, <3>1, <3>4, <3>11
      <3>13. Join(wC, Join(d, zz)) = Join(wD, zz) BY <1>6, <1>12, <1>13 DEF wD
      <3> QED BY <1>16, <1>23, <3>12, <3>13
    <2>2. /\ Shows(br, q, wD) /\ Shows(br, q, wC) /\ Shows(br, q, wB) /\ Shows(br, q, wA)
          /\ Shows(br, q, w9) /\ Shows(br, q, w8) /\ Shows(br, q, w7) /\ Shows(br, q, w6)
      <3>1. Shows(br, q, Join(wD, zz)) BY <2>1 DEF q
      <3>2. Shows(br, q, wD) BY <1>5, <1>6, <1>13, <3>1, ShowsFirst
      <3>3. Shows(br, q, wC) BY <1>5, <1>6, <1>13, <3>2, ShowsFirst DEF wD
      <3>4. Shows(br, q, wB) BY <1>5, <1>7, <1>13, <3>3, ShowsFirst DEF wC
      <3>5. Shows(br, q, wA) BY <1>5, <1>7, <1>13, <3>4, ShowsFirst DEF wB
      <3>6. Shows(br, q, w9) BY <1>5, <1>7, <1>13, <3>5, ShowsFirst DEF wA
      <3>7. Shows(br, q, w8) BY <1>5, <1>6, <1>13, <3>6, ShowsFirst DEF w9
      <3>8. Shows(br, q, w7) BY <1>5, <1>6, <1>13, <3>7, ShowsFirst DEF w8
      <3>9. Shows(br, q, w6) BY <1>5, <1>7, <1>13, <3>8, ShowsFirst DEF w7
      <3> QED BY <3>2, <3>3, <3>4, <3>5, <3>6, <3>7, <3>8, <3>9
    <2>3. Reads(br, q, a.pos, G, 0, w5) BY <1>3, <1>5, <1>13, <1>19, ReadsNothing
    <2>4. Reads(br, q, a.pos, G, 1, w6) /\ b.val[1] = p.l0
      BY <1>1, <1>4, <2>2, <2>3, ReadsUe DEF w6
    <2>5. Reads(br, q, a.pos, G, 2, w7) BY <1>2, <1>4, <2>2, <2>4, ReadsUe DEF w7
    <2>6. Reads(br, q, a.pos, G, 3, w8)
      <3>1. 0 \in {0, 1} OBVIOUS
      <3> QED BY <1>4, <2>2, <2>5, <3>1, ReadsFlag DEF w8, z
    <2>7. Reads(br, q, a.pos, G, 4, w9) BY <1>4, <1>5, <1>6, <2>2, <2>6, ReadsBits DEF w9
    <2>8. Reads(br, q, a.pos, G, 5, wA) /\ b.val[5] = p.qp - 26
      BY <1>1, <1>4, <2>2, <2>7, ReadsSe DEF wA
    <2>9. Reads(br, q, a.pos, G, 6, wB) BY <1>2, <1>4, <2>2, <2>8, ReadsSe DEF wB
    <2>10. Reads(br, q, a.pos, G, 7, wC) BY <1>2, <1>4, <2>2, <2>9, ReadsSe DEF wC
    <2>11. b.val[8] = p.deblocking BY <1>1, <1>4, <2>2, <2>10, ReadsFlag DEF wD, d
    <2> HIDE DEF b
    <2>12. b.val[5] + 26 = p.qp BY <1>1, <2>8
    <2> QED BY <1>19, <1>20, <1>21, <1>23, <2>4, <2>11, <2>12
  <1> QED BY <1>22, <1>23

\* What parse_slice_header is to make of the header of a slice.
SliceRead ==
    LET h == pic.slice
    IN  IF h.type % 5 \notin {2, 4} \/ pic.pps.cabac = 1 THEN No
        ELSE [ok |-> TRUE, firstMb |-> h.firstMb, type |-> h.type % 5, frameNum |-> h.frameNum,
              pocLsb |-> IF pic.sps.poc = 0 THEN pic.pocLsb ELSE 0,
              qpDelta |-> h.qpDelta, bits |-> Len(SliceBits) - 32]

\* The header of a slice: all up to the picture order, the flags for references, the
\* quantiser, and what there is of the deblocking filter.
LEMMA SliceText ==
  ASSUME PictureFields(pic)
  PROVE  LET h == pic.slice
             on == pic.pps.deblocking = 1
             head == Join(Join(Join(Join(Join(StartCodeAndNalHeader(3, 5), PutUe(h.firstMb)),
                                              PutUe(h.type)), PutUe(h.ppsId)),
                                    PutBits(h.frameNum, pic.sps.log2 + 4)), PutUe(h.idrId))
             filter == IF on THEN PutUe(h.disable) ELSE <<>>
             offsets == IF on /\ h.disable # 1 THEN Join(PutSe(0), PutSe(0)) ELSE <<>>
         IN  /\ SliceBits = Join(Join(Join(Join(Join(Join(head, PocLsb), <<0>>), <<0>>),
                                           PutSe(h.qpDelta)), filter), offsets)
             /\ head \in Bits /\ PocLsb \in Bits /\ filter \in Bits /\ offsets \in Bits
  <1> DEFINE s == pic.sps
             p == pic.pps
             h == pic.slice
             on == p.deblocking = 1
             w0 == StartCodeAndNalHeader(3, 5)
             f == PutBits(h.frameNum, s.log2 + 4)
             head == Join(Join(Join(Join(Join(w0, PutUe(h.firstMb)), PutUe(h.type)),
                                    PutUe(h.ppsId)), f), PutUe(h.idrId))
             filter == IF on THEN PutUe(h.disable) ELSE <<>>
             offsets == IF on /\ h.disable # 1 THEN Join(PutSe(0), PutSe(0)) ELSE <<>>
             more == IF p.deblocking = 0 THEN <<>>
                     ELSE Join(PutUe(h.disable),
                               IF h.disable = 1 THEN <<>> ELSE Join(PutSe(0), PutSe(0)))
             t == Join(Join(Zeros(2), PutSe(h.qpDelta)), more)
             z == <<0>>
  <1>1. /\ p.deblocking \in {0, 1}
        /\ h.firstMb \in Codes /\ h.type \in Codes /\ h.ppsId \in Codes
        /\ h.idrId \in Codes /\ h.disable \in Codes /\ h.qpDelta \in SignedCodes
        /\ h.frameNum \in Nat /\ s.log2 + 4 \in Nat
        /\ pic.pocLsb \in Nat /\ pic.pocLog2 + 4 \in Nat
    BY FieldTypes
  <1>2. 0 \in SignedCodes BY SMT DEF SignedCodes
  <1>3. /\ PutUe(h.firstMb) \in Bits /\ PutUe(h.type) \in Bits /\ PutUe(h.ppsId) \in Bits
        /\ PutUe(h.idrId) \in Bits /\ PutUe(h.disable) \in Bits /\ PutSe(h.qpDelta) \in Bits
        /\ PutSe(0) \in Bits /\ f \in Bits /\ PutBits(pic.pocLsb, pic.pocLog2 + 4) \in Bits
    BY <1>1, <1>2, CodesAreBits
  <1>4. <<>> \in Bits /\ z \in Bits /\ w0 \in Bits
    BY StartFacts DEF Bits
  <1>5. \A u, v \in Bits : Join(u, v) \in Bits BY JoinThree
  <1>6. \A u, v, x \in Bits : Join(u, Join(v, x)) = Join(Join(u, v), x) BY JoinThree
  <1>7. PocLsb = IF s.poc = 0 THEN PutBits(pic.pocLsb, pic.pocLog2 + 4) ELSE <<>>
    BY DEF PocLsb, s
  <1>8. PocLsb \in Bits BY <1>3, <1>4, <1>7
  <1>9. SliceHead(s, h) = head BY Zenon DEF SliceHead, Join
  <1>10. SliceTail(p, h) = t BY Zenon DEF SliceTail, Join
  <1>11. Zeros(2) = Join(z, z)
    <2>1. 2 \in Nat /\ 0 \in Nat OBVIOUS
    <2>2. Zeros(2) \in Seq({0, 1}) /\ Len(Zeros(2)) = 2 /\ \A ix \in 1 .. 2 : Zeros(2)[ix] = 0
      BY <2>1, PutBitsType
    <2>3. Zeros(2) = <<0, 0>> BY <2>2
    <2> QED BY <2>3 DEF Join
  <1> HIDE DEF w0, f
  <1>12. head \in Bits
    <2>1. Join(Join(w0, PutUe(h.firstMb)), PutUe(h.type)) \in Bits BY <1>3, <1>4, <1>5
    <2> QED BY <1>3, <1>5, <2>1
  <1>13. \A u \in Bits : Join(u, <<>>) = u BY ConcatEmptySeq DEF Bits, Join
  <1>14. SliceBits = Join(Join(head, PocLsb), t)
    <2>1. CASE s.poc = 2
      <3>1. SliceBits = SliceHead(s, h) \o SliceTail(p, h) BY <2>1 DEF SliceBits, BuildSliceHeader
      <3>2. PocLsb = <<>> BY <1>7, <2>1
      <3> HIDE DEF s, p, h, head, t
      <3>3. SliceBits = Join(head, t) BY <1>9, <1>10, <3>1, Zenon DEF Join
      <3>4. Join(head, PocLsb) = head BY <1>12, <1>13, <3>2
      <3> QED BY <3>3, <3>4
    <2>2. CASE s.poc # 2
      <3>1. SliceBits = SliceHead(s, h) \o PocLsb \o SliceTail(p, h) BY <2>2 DEF SliceBits
      <3> HIDE DEF s, p, h, head, t
      <3> QED BY <1>9, <1>10, <3>1, Zenon DEF Join
    <2> QED BY <2>1, <2>2
  <1>15. filter \in Bits /\ offsets \in Bits /\ more = Join(filter, offsets)
    <2>1. Join(PutSe(0), PutSe(0)) \in Bits BY <1>3, <1>5
    <2>2. filter \in Bits /\ offsets \in Bits BY <1>3, <1>4, <2>1
    <2>3. more = Join(filter, offsets)
      <3>1. CASE on
        <4>1. p.deblocking # 0 BY <3>1
        <4> QED BY <3>1, <4>1
      <3>2. CASE ~on
        <4>1. p.deblocking = 0 BY <1>1, <3>2
        <4>2. Join(<<>>, <<>>) = <<>> BY <1>4, <1>13
        <4>3. filter = <<>> /\ offsets = <<>> /\ more = <<>> BY <3>2, <4>1
        <4> HIDE DEF filter, offsets, more
        <4> QED BY <4>2, <4>3
      <3> QED BY <3>1, <3>2
    <2> QED BY <2>2, <2>3
  <1> DEFINE x == PutSe(h.qpDelta)
             w6 == Join(head, PocLsb)
  <1>16. x \in Bits BY <1>3
  <1>17. t = Join(Join(Join(z, z), x), more) BY <1>11
  <1> HIDE DEF head, filter, offsets, more, x, z, t
  <1>18. w6 \in Bits BY <1>5, <1>8, <1>12
  <1>19. SliceBits = Join(w6, t) BY <1>14
  <1> HIDE DEF w6
  <1>20. Join(w6, Join(z, z)) = Join(Join(w6, z), z) /\ Join(z, z) \in Bits
    BY <1>4, <1>5, <1>6, <1>18
  <1> DEFINE zz == Join(z, z)
             y == Join(zz, x)
             w8 == Join(Join(Join(w6, z), z), x)
  <1>21. y \in Bits /\ Join(w6, y) = w8
    <2>1. zz \in Bits /\ Join(w6, zz) = Join(Join(w6, z), z) BY <1>20
    <2> HIDE DEF zz
    <2>2. Join(w6, Join(zz, x)) = Join(Join(w6, zz), x) BY <1>6, <1>16, <1>18, <2>1
    <2> QED BY <1>5, <1>16, <2>1, <2>2
  <1>22. w8 \in Bits
    <2>1. Join(Join(w6, z), z) \in Bits BY <1>4, <1>5, <1>18
    <2> QED BY <1>5, <1>16, <2>1
  <1>23. t = Join(y, more) BY <1>17
  <1> HIDE DEF y, w8
  <1>24. SliceBits = Join(w8, more)
    <2>1. more \in Bits BY <1>5, <1>15
    <2>2. Join(w6, Join(y, more)) = Join(Join(w6, y), more) BY <1>6, <1>18, <1>21, <2>1
    <2> QED BY <1>19, <1>21, <1>23, <2>2
  <1>25. Join(w8, Join(filter, offsets)) = Join(Join(w8, filter), offsets)
    BY <1>6, <1>15, <1>22
  <1>26. SliceBits = Join(Join(w8, filter), offsets) BY <1>15, <1>24, <1>25
  <1> QED BY <1>8, <1>12, <1>15, <1>26, Zenon
          DEF w8, x, w6, z, head, filter, offsets, on, f, w0, s, p, h

\* parse_slice_header of what was written as the header of a slice, with the SPS and the
\* PPS that go with it.
LEMMA SliceReadBack ==
  ASSUME PictureFields(pic), NEW br \in Reader, Shows(br, 0 - 32, SliceBits),
         NEW s, NEW p, s.log2 = pic.sps.log2, s.poc = pic.sps.poc,
         s.poc = 0 => s.pocLog2 = pic.pocLog2,
         p.cabac = pic.pps.cabac, p.deblocking = pic.pps.deblocking
  PROVE  ParseSliceHeader(br, 3, s, p) = SliceRead
  <1> DEFINE h == pic.slice
             q == 0 - 32
             n == s.log2 + 4
             k == pic.pocLog2 + 4
             on == p.deblocking = 1
             A == <<Ue, Ue, Ue, U(s.log2 + 4), Ue>>
                  \o (IF s.poc = 0 THEN <<U(s.pocLog2 + 4)>> ELSE <<>>)
             B == (IF 3 # 0 THEN <<U(1), U(1)>> ELSE <<>>) \o <<Se>>
             C == IF p.deblocking = 1 THEN <<Ue>> ELSE <<>>
             a == Read(br, 0, A)
             b == Read(br, a.pos, B)
             c == Read(br, b.pos, C)
             D == IF c.val \in {<<>>, <<1>>} THEN <<>> ELSE <<Se, Se>>
             d == Read(br, c.pos, D)
             z == <<0>>
             filter == IF on THEN PutUe(h.disable) ELSE <<>>
             offsets == IF on /\ h.disable # 1 THEN Join(PutSe(0), PutSe(0)) ELSE <<>>
             w0 == StartCodeAndNalHeader(3, 5)
             w1 == Join(w0, PutUe(h.firstMb))
             w2 == Join(w1, PutUe(h.type))
             w3 == Join(w2, PutUe(h.ppsId))
             w4 == Join(w3, PutBits(h.frameNum, n))
             w5 == Join(w4, PutUe(h.idrId))
             w6 == Join(w5, PocLsb)
             w7 == Join(w6, z)
             w8 == Join(w7, z)
             w9 == Join(w8, PutSe(h.qpDelta))
             wA == Join(w9, filter)
             wB == Join(wA, offsets)
  <1>1. /\ p.deblocking \in {0, 1}
        /\ h.firstMb \in Codes /\ h.type \in Codes /\ h.ppsId \in Codes
        /\ h.idrId \in Codes /\ h.disable \in Codes /\ h.qpDelta \in SignedCodes
        /\ h.frameNum \in Nat /\ n \in Nat /\ h.frameNum < Pow2[n]
        /\ pic.pocLsb \in Nat /\ k \in Nat /\ pic.pocLsb < Pow2[k]
    BY FieldTypes
  <1>2. 0 \in SignedCodes /\ 0 \in {0, 1} BY SMT DEF SignedCodes
  <1>3. /\ SliceBits = wB
        /\ w5 \in Bits /\ PocLsb \in Bits /\ filter \in Bits /\ offsets \in Bits
    BY SliceText, Zenon
  <1>4. /\ PutUe(h.firstMb) \in Bits /\ PutUe(h.type) \in Bits /\ PutUe(h.ppsId) \in Bits
        /\ PutUe(h.idrId) \in Bits /\ PutBits(h.frameNum, n) \in Bits
        /\ PutUe(h.disable) \in Bits /\ PutSe(h.qpDelta) \in Bits /\ PutSe(0) \in Bits
    BY <1>1, <1>2, CodesAreBits
  <1>5. z \in Bits /\ w0 \in Bits /\ Len(w0) = 32
    BY StartFacts DEF Bits
  <1>6. PocLsb = IF s.poc = 0 THEN PutBits(pic.pocLsb, k) ELSE <<>>
    BY DEF PocLsb
  <1>7. /\ s.poc = 0 => FieldIs(A, 5, 6, U(k)) /\ Len(A) = 6
        /\ s.poc # 0 => Len(A) = 5
        /\ A \in Seq(Fields)
        /\ FieldIs(A, 0, 1, Ue) /\ FieldIs(A, 1, 2, Ue) /\ FieldIs(A, 2, 3, Ue)
        /\ FieldIs(A, 3, 4, U(n)) /\ FieldIs(A, 4, 5, Ue)
    <2> DEFINE f == <<Ue, Ue, Ue, U(n), Ue>>
               g == IF s.poc = 0 THEN <<U(s.pocLog2 + 4)>> ELSE <<>>
    <2>1. /\ f \in Seq(Fields) /\ Len(f) = 5
          /\ f[1] = Ue /\ f[2] = Ue /\ f[3] = Ue /\ f[4] = U(n) /\ f[5] = Ue
      BY <1>1, FieldLists
    <2>2. g \in Seq(Fields) /\ (s.poc = 0 => Len(g) = 1 /\ g[1] = U(k)) /\ (s.poc # 0 => Len(g) = 0)
      BY <1>1, FieldLists
    <2>3. A = f \o g OBVIOUS
    <2> HIDE DEF f, g, A, n, k
    <2>4. /\ A \in Seq(Fields) /\ Len(A) = Len(f) + Len(g)
          /\ \A l \in 1 .. Len(f) : A[l] = f[l]
          /\ \A l \in 1 .. Len(g) : A[Len(f) + l] = g[l]
      <3>1. f \in Seq(Fields) /\ g \in Seq(Fields) BY <2>1, <2>2
      <3>2. /\ f \o g \in Seq(Fields) /\ Len(f \o g) = Len(f) + Len(g)
            /\ \A l \in 1 .. Len(f) : (f \o g)[l] = f[l]
            /\ \A l \in 1 .. Len(g) : (f \o g)[Len(f) + l] = g[l]
        BY <3>1, CatAt
      <3> QED BY <2>3, <3>2
    <2>5. /\ A[1] = f[1] /\ A[2] = f[2] /\ A[3] = f[3] /\ A[4] = f[4] /\ A[5] = f[5]
      BY <2>1, <2>4
    <2>6. s.poc = 0 => A[6] = U(k) /\ Len(A) = 6
      <3> SUFFICES ASSUME s.poc = 0 PROVE A[6] = U(k) /\ Len(A) = 6 OBVIOUS
      <3>1. Len(f) = 5 /\ Len(g) = 1 /\ g[1] = U(k) BY <2>1, <2>2
      <3>2. 1 \in 1 .. Len(g) /\ Len(f) + 1 = 6 BY <3>1
      <3> QED BY <2>4, <3>1, <3>2
    <2>7. s.poc # 0 => Len(A) = 5 BY <2>1, <2>2, <2>4
    <2>8. Len(A) = 5 \/ Len(A) = 6 BY <2>6, <2>7
    <2>9. 5 <= Len(A)
      <3> DEFINE l == Len(A)
      <3>1. l = 5 \/ l = 6 BY <2>8
      <3> HIDE DEF l
      <3>2. 5 <= l BY <3>1
      <3> QED BY <3>2 DEF l
    <2> QED BY <2>1, <2>4, <2>5, <2>6, <2>7, <2>9 DEF FieldIs
  <1>8. /\ B \in Seq(Fields) /\ Len(B) = 3
        /\ FieldIs(B, 0, 1, U(1)) /\ FieldIs(B, 1, 2, U(1)) /\ FieldIs(B, 2, 3, Se)
    <2> DEFINE f == <<U(1), U(1)>>
               g == <<Se>>
    <2>1. f \in Seq(Fields) /\ g \in Seq(Fields) /\ Len(f) = 2 /\ Len(g) = 1
          /\ f[1] = U(1) /\ f[2] = U(1) /\ g[1] = Se
      <3>1. 1 \in Nat OBVIOUS
      <3> QED BY <3>1, FieldLists
    <2>2. B = f \o g
      <3>1. 3 # 0 OBVIOUS
      <3> HIDE DEF f, g
      <3>2. (IF 3 # 0 THEN f ELSE <<>>) \o g = f \o g BY <3>1
      <3> QED BY <3>2 DEF f, g
    <2> HIDE DEF f, g, B
    <2>3. /\ f \o g \in Seq(Fields) /\ Len(f \o g) = Len(f) + Len(g)
          /\ \A l \in 1 .. Len(f) : (f \o g)[l] = f[l]
          /\ \A l \in 1 .. Len(g) : (f \o g)[Len(f) + l] = g[l]
      <3>1. f \in Seq(Fields) /\ g \in Seq(Fields) BY <2>1
      <3> QED BY <3>1, CatAt
    <2>4. Len(B) = 3 /\ B[1] = U(1) /\ B[2] = U(1) BY <2>1, <2>2, <2>3
    <2>5. B[3] = Se
      <3>1. 1 \in 1 .. Len(g) /\ Len(f) + 1 = 3 BY <2>1
      <3> QED BY <2>1, <2>2, <2>3, <3>1
    <2> QED BY <2>2, <2>3, <2>4, <2>5 DEF FieldIs
  <1>9. /\ <<Ue>> \in Seq(Fields) /\ FieldIs(<<Ue>>, 0, 1, Ue) /\ Len(<<Ue>>) = 1
        /\ <<Se, Se>> \in Seq(Fields) /\ FieldIs(<<Se, Se>>, 0, 1, Se)
        /\ FieldIs(<<Se, Se>>, 1, 2, Se) /\ Len(<<Se, Se>>) = 2
        /\ <<>> \in Seq(Fields)
    BY FieldLists DEF FieldIs
  <1>10. ParseSliceHeader(br, 3, s, p)
           = IF a.val[2] % 5 \notin {2, 4} \/ p.cabac = 1 THEN No
             ELSE [ok |-> TRUE, firstMb |-> a.val[1], type |-> a.val[2] % 5,
                   frameNum |-> a.val[4], pocLsb |-> IF s.poc = 0 THEN a.val[6] ELSE 0,
                   qpDelta |-> Last(b.val), bits |-> d.pos]
    BY DEF ParseSliceHeader
  <1>11. SliceRead
           = IF h.type % 5 \notin {2, 4} \/ p.cabac = 1 THEN No
             ELSE [ok |-> TRUE, firstMb |-> h.firstMb, type |-> h.type % 5,
                   frameNum |-> h.frameNum, pocLsb |-> IF s.poc = 0 THEN pic.pocLsb ELSE 0,
                   qpDelta |-> h.qpDelta, bits |-> Len(SliceBits) - 32]
    BY DEF SliceRead
  <1>12. \A u, v \in Bits : Join(u, v) \in Bits BY JoinThree
  <1>13. q \in Int /\ q + 32 = 0 /\ 0 \in Nat /\ 1 \in Nat OBVIOUS
  <1>14. Shows(br, q, wB) BY <1>3
  <1> HIDE DEF h, q, n, k, on, A, B, C, D, z, filter, offsets
  <1> HIDE DEF w0, w1, w2, w3, w4, w5, w6, w7, w8, w9, wA, wB, a, b, c, d
  <1>15. /\ w1 \in Bits /\ w2 \in Bits /\ w3 \in Bits /\ w4 \in Bits /\ w6 \in Bits
         /\ w7 \in Bits /\ w8 \in Bits /\ w9 \in Bits /\ wA \in Bits
    <2>1. w1 \in Bits /\ w2 \in Bits BY <1>4, <1>5, <1>12 DEF w1, w2
    <2>2. w3 \in Bits /\ w4 \in Bits BY <1>4, <1>12, <2>1 DEF w3, w4
    <2>3. w6 \in Bits /\ w7 \in Bits BY <1>3, <1>5, <1>12 DEF w6, w7
    <2>4. w8 \in Bits /\ w9 \in Bits BY <1>4, <1>5, <1>12, <2>3 DEF w8, w9
    <2>5. wA \in Bits BY <1>3, <1>12, <2>4 DEF wA
    <2> QED BY <2>1, <2>2, <2>3, <2>4, <2>5
  <1>16. /\ Shows(br, q, w1) /\ Shows(br, q, w2) /\ Shows(br, q, w3) /\ Shows(br, q, w4)
         /\ Shows(br, q, w5) /\ Shows(br, q, w6) /\ Shows(br, q, w7) /\ Shows(br, q, w8)
         /\ Shows(br, q, w9) /\ Shows(br, q, wA)
    <2>1. Shows(br, q, wA) BY <1>3, <1>13, <1>14, <1>15, ShowsFirst DEF wB
    <2>2. Shows(br, q, w9) BY <1>3, <1>13, <1>15, <2>1, ShowsFirst DEF wA
    <2>3. Shows(br, q, w8) BY <1>4, <1>13, <1>15, <2>2, ShowsFirst DEF w9
    <2>4. Shows(br, q, w7) BY <1>5, <1>13, <1>15, <2>3, ShowsFirst DEF w8
    <2>5. Shows(br, q, w6) BY <1>5, <1>13, <1>15, <2>4, ShowsFirst DEF w7
    <2>6. Shows(br, q, w5) BY <1>3, <1>13, <1>15, <2>5, ShowsFirst DEF w6
    <2>7. Shows(br, q, w4) BY <1>4, <1>13, <1>15, <2>6, ShowsFirst DEF w5
    <2>8. Shows(br, q, w3) BY <1>4, <1>13, <1>15, <2>7, ShowsFirst DEF w4
    <2>9. Shows(br, q, w2) BY <1>4, <1>13, <1>15, <2>8, ShowsFirst DEF w3
    <2>10. Shows(br, q, w1) BY <1>4, <1>13, <1>15, <2>9, ShowsFirst DEF w2
    <2> QED BY <2>1, <2>2, <2>3, <2>4, <2>5, <2>6, <2>7, <2>8, <2>9, <2>10
  <1>17. \A l \in Nat, g \in Seq(Fields) : Read(br, l, g).pos \in Nat
    BY FieldLists, ReadAppend DEF Results
  <1>18. /\ a.val[1] = h.firstMb /\ a.val[2] = h.type /\ a.val[4] = h.frameNum
         /\ s.poc = 0 => a.val[6] = pic.pocLsb
         /\ a.pos = q + Len(w6) /\ a.pos \in Nat
    <2>1. Reads(br, q, 0, A, 0, w0)
      <3>1. q + Len(w0) = 0 BY <1>5, <1>13
      <3>2. Reads(br, q, q + Len(w0), A, 0, w0) BY <1>5, <1>7, <1>13, <3>1, ReadsNothing
      <3> QED BY <3>1, <3>2
    <2>2. Reads(br, q, 0, A, 1, w1) /\ a.val[1] = h.firstMb
      BY <1>1, <1>7, <1>16, <2>1, ReadsUe DEF w1, a
    <2>3. Reads(br, q, 0, A, 2, w2) /\ a.val[2] = h.type
      BY <1>1, <1>7, <1>16, <2>2, ReadsUe DEF w2, a
    <2>4. Reads(br, q, 0, A, 3, w3) BY <1>1, <1>7, <1>16, <2>3, ReadsUe DEF w3
    <2>5. Reads(br, q, 0, A, 4, w4) /\ a.val[4] = h.frameNum
      BY <1>1, <1>7, <1>16, <2>4, ReadsU DEF w4, a
    <2>6. Reads(br, q, 0, A, 5, w5) BY <1>1, <1>7, <1>16, <2>5, ReadsUe DEF w5
    <2>7. CASE s.poc = 0
      <3>1. PocLsb = PutBits(pic.pocLsb, k) BY <1>6, <2>7
      <3>2. Reads(br, q, 0, A, 6, w6) /\ a.val[6] = pic.pocLsb
        BY <1>1, <1>7, <1>16, <2>6, <2>7, <3>1, ReadsU DEF w6, a
      <3>3. Reads(br, q, 0, A, Len(A), w6) BY <1>7, <2>7, <3>2
      <3>4. a.pos = q + Len(w6) BY <1>16, <3>3, ReadsAll DEF a
      <3> QED BY <2>2, <2>3, <2>5, <3>2, <3>4, <1>7, <1>13, <1>17 DEF a
    <2>8. CASE s.poc # 0
      <3>1. w6 = w5
        <4>1. w5 \o <<>> = w5 BY <1>3, ConcatEmptySeq DEF Bits
        <4>2. PocLsb = <<>> BY <1>6, <2>8
        <4> QED BY <4>1, <4>2, Zenon DEF w6, Join
      <3>2. Reads(br, q, 0, A, Len(A), w5) BY <1>7, <2>6, <2>8
      <3>3. a.pos = q + Len(w5) BY <1>16, <3>2, ReadsAll DEF a
      <3> QED BY <2>2, <2>3, <2>5, <2>8, <3>1, <3>3, <1>7, <1>13, <1>17 DEF a
    <2> QED BY <2>7, <2>8
  <1>19. Last(b.val) = h.qpDelta /\ b.pos = q + Len(w9) /\ b.pos \in Nat
    <2>1. Reads(br, q, a.pos, B, 0, w6) BY <1>8, <1>13, <1>15, <1>18, ReadsNothing
    <2>2. Reads(br, q, a.pos, B, 1, w7) BY <1>2, <1>8, <1>16, <2>1, ReadsFlag DEF w7, z
    <2>3. Reads(br, q, a.pos, B, 2, w8) BY <1>2, <1>8, <1>16, <2>2, ReadsFlag DEF w8, z
    <2>4. Reads(br, q, a.pos, B, 3, w9) /\ b.val[3] = h.qpDelta
      BY <1>1, <1>8, <1>16, <2>3, ReadsSe DEF w9, b
    <2>5. b.pos = q + Len(w9)
      <3>1. Reads(br, q, a.pos, B, Len(B), w9) BY <1>8, <2>4
      <3> QED BY <1>16, <3>1, ReadsAll DEF b
    <2>6. Len(b.val) = 3 BY <1>8, <1>18, FieldLists, ReadAppend DEF b
    <2>7. b.pos \in Nat BY <1>8, <1>17, <1>18 DEF b
    <2> QED BY <2>4, <2>5, <2>6, <2>7 DEF Last
  <1>20. d.pos = q + Len(wB)
    <2>1. Reads(br, q, b.pos, C, 0, w9)
      <3>1. C \in Seq(Fields) BY <1>9 DEF C
      <3> QED BY <1>13, <1>15, <1>19, <3>1, ReadsNothing
    <2>2. CASE p.deblocking = 0
      <3>1. C = <<>> /\ filter = <<>> /\ offsets = <<>> BY <2>2 DEF C, filter, offsets, on
      <3>2. wA = w9 /\ wB = wA
        <4>1. w9 \o <<>> = w9 BY <1>15, ConcatEmptySeq DEF Bits
        <4>2. wA \o <<>> = wA BY <1>15, ConcatEmptySeq DEF Bits
        <4> QED BY <3>1, <4>1, <4>2, Zenon DEF wA, wB, Join
      <3>3. c.pos = q + Len(w9) /\ c.pos \in Nat
        <4>1. Reads(br, q, b.pos, C, Len(C), w9) BY <2>1, <3>1
        <4>2. c.pos = q + Len(w9) BY <1>16, <4>1, ReadsAll DEF c
        <4> QED BY <1>19, <4>2
      <3>4. c.val = <<>>
        <4>1. c = [pos |-> b.pos, val |-> <<>>] BY <1>9, <1>19, <3>1, FieldLists, ReadAppend DEF c
        <4> QED BY <4>1
      <3>5. D = <<>> BY <3>4 DEF D
      <3>6. Reads(br, q, c.pos, D, 0, w9) BY <1>9, <1>13, <1>15, <3>3, <3>5, ReadsNothing
      <3>7. Reads(br, q, c.pos, D, Len(D), w9) BY <3>5, <3>6
      <3> QED BY <1>16, <3>2, <3>7, ReadsAll DEF d
    <2>3. CASE p.deblocking = 1
      <3>1. C = <<Ue>> /\ filter = PutUe(h.disable) BY <2>3 DEF C, filter, on
      <3>2. Reads(br, q, b.pos, C, 1, wA) /\ c.val[1] = h.disable
        BY <1>1, <1>9, <1>16, <2>1, <3>1, ReadsUe DEF wA, c
      <3>3. c.pos = q + Len(wA) /\ c.pos \in Nat
        <4>1. Reads(br, q, b.pos, C, Len(C), wA) BY <1>9, <3>1, <3>2
        <4>2. c.pos = q + Len(wA) BY <1>16, <4>1, ReadsAll DEF c
        <4>3. c.pos \in Nat BY <1>9, <1>17, <1>19, <3>1 DEF c
        <4> QED BY <4>2, <4>3
      <3>4. Len(c.val) = 1 /\ c.val \in Seq(Int)
        BY <1>9, <1>19, <3>1, FieldLists, ReadAppend DEF c, Results
      <3>5. CASE h.disable = 1
        <4>1. c.val = <<1>> BY <3>2, <3>4, <3>5
        <4>2. D = <<>> BY <4>1 DEF D
        <4>3. offsets = <<>> BY <3>5 DEF offsets
        <4>4. wB = wA
          <5>1. wA \o <<>> = wA BY <1>15, ConcatEmptySeq DEF Bits
          <5> QED BY <4>3, <5>1, Zenon DEF wB, Join
        <4>5. Reads(br, q, c.pos, D, 0, wA) BY <1>9, <1>13, <1>15, <3>3, <4>2, ReadsNothing
        <4>6. Reads(br, q, c.pos, D, Len(D), wA) BY <4>2, <4>5
        <4> QED BY <1>16, <4>4, <4>6, ReadsAll DEF d
      <3>6. CASE h.disable # 1
        <4> DEFINE wE == Join(wA, PutSe(0))
        <4>1. D = <<Se, Se>>
          <5>1. c.val # <<>>
            <6>1. Len(c.val) # 0 BY <3>4
            <6> QED BY <3>4, <6>1, EmptySeq
          <5>2. c.val # <<1>> BY <3>2, <3>6
          <5> QED BY <5>1, <5>2 DEF D
        <4>2. offsets = Join(PutSe(0), PutSe(0)) BY <2>3, <3>6 DEF offsets, on
        <4>3. wE \in Bits /\ wB = Join(wE, PutSe(0))
          BY <1>4, <1>15, <4>2, JoinThree DEF wB
        <4>4. Shows(br, q, wB) BY <1>14
        <4> HIDE DEF wE
        <4>5. Shows(br, q, wE) BY <1>4, <1>13, <4>3, <4>4, ShowsFirst
        <4>6. Reads(br, q, c.pos, D, 0, wA) BY <1>9, <1>13, <1>15, <3>3, <4>1, ReadsNothing
        <4>7. Reads(br, q, c.pos, D, 1, wE) BY <1>2, <1>9, <4>1, <4>5, <4>6, ReadsSe DEF wE
        <4>8. Reads(br, q, c.pos, D, 2, wB) BY <1>2, <1>9, <4>1, <4>3, <4>4, <4>7, ReadsSe
        <4>9. Reads(br, q, c.pos, D, Len(D), wB) BY <1>9, <4>1, <4>8
        <4> QED BY <4>4, <4>9, ReadsAll DEF d
      <3> QED BY <3>5, <3>6
    <2> QED BY <1>1, <2>2, <2>3
  <1>21. d.pos = Len(SliceBits) - 32
    <2>1. Len(wB) \in Nat BY <1>3, <1>12, <1>15, MoreBits DEF wB
    <2>2. SliceBits = wB BY <1>3
    <2> QED BY <1>13, <1>20, <2>1, <2>2
  <1> QED BY <1>10, <1>11, <1>18, <1>19, <1>21

\* What parse_slice_header and its like are given of a NAL unit.
ReaderOf(nal, p) == [buf |-> Deescape(Tail(nal)), past |-> p]

\* The bits of a header are in its NAL unit.
LEMMA NalUnitsShow ==
  ASSUME PictureFields(pic), NEW p \in Nat
  PROVE  /\ ReaderOf(NalUnit("sps"), p) \in Reader
         /\ Shows(ReaderOf(NalUnit("sps"), p), 0 - 32, SpsText)
         /\ ReaderOf(NalUnit("pps"), p) \in Reader
         /\ Shows(ReaderOf(NalUnit("pps"), p), 0 - 32, PpsText)
         /\ ReaderOf(NalUnit("idr"), p) \in Reader
         /\ Shows(ReaderOf(NalUnit("idr"), p), 0 - 32, SliceBits)
         /\ Len(Deescape(Tail(NalUnit("idr")))) = Len(SliceBits \o pic.data) \div 8 - 3
  <1>1. ASSUME NEW type \in {5, 7, 8}, NEW b, Begins(b, StartCodeAndNalHeader(3, type))
        PROVE  LET n == Escape(Bytes(TrailingBits(b)))
               IN  /\ ReaderOf(n, p) \in Reader /\ Shows(ReaderOf(n, p), 0 - 32, b)
                   /\ Len(Deescape(Tail(n))) = Len(b) \div 8 - 3
    <2> DEFINE h == StartCodeAndNalHeader(3, type)
               w == TrailingBits(b)
    <2>1. 3 \in 0 .. 3 /\ type \in 0 .. 31 /\ type \in Nat OBVIOUS
    <2>2. h \in Bits /\ Len(h) = 32 BY <2>1, StartFacts
    <2>3. b \in Bits /\ Len(b) >= 32 BY <1>1, <2>2 DEF Begins
    <2>4. Begins(w, h) BY <1>1, <2>2, <2>3, TrailingFacts
    <2>5. Bytes(w)[1] = 32 * 3 + type BY <2>1, <2>4, HeaderByte
    <2>6. Bytes(w)[1] # 0 BY <2>1, <2>5
    <2> QED BY <2>3, <2>6, RbspShows DEF ReaderOf
  <1>2. SpsBits = TrailingBits(SpsText) /\ Begins(SpsText, StartCodeAndNalHeader(3, 7))
    BY HeadersBegin
  <1>3. PpsBits = TrailingBits(PpsText) /\ Begins(PpsText, StartCodeAndNalHeader(3, 8))
    BY HeadersBegin
  <1>4. SliceBits \in Bits /\ pic.data \in Bits
        /\ Begins(SliceBits \o pic.data, StartCodeAndNalHeader(3, 5))
    <2> DEFINE h == StartCodeAndNalHeader(3, 5)
    <2>1. Begins(SliceBits, h) /\ pic.data \in Bits BY HeadersBegin
    <2>2. 3 \in 0 .. 3 /\ 5 \in 0 .. 31 OBVIOUS
    <2>3. Len(h) = 32 BY <2>2, StartFacts
    <2>4. SliceBits \in Bits BY <2>1 DEF Begins
    <2> HIDE DEF h
    <2>5. Len(h) \in Nat BY <2>3
    <2>6. Begins(SliceBits \o pic.data, h) BY <2>1, <2>4, <2>5, StillBegins
    <2> QED BY <2>1, <2>4, <2>6 DEF h
  <1>5. 5 \in {5, 7, 8} /\ 7 \in {5, 7, 8} /\ 8 \in {5, 7, 8} OBVIOUS
  <1>6. ReaderOf(NalUnit("sps"), p) \in Reader
        /\ Shows(ReaderOf(NalUnit("sps"), p), 0 - 32, SpsText)
    <2>1. NalUnit("sps") = Escape(Bytes(TrailingBits(SpsText))) BY <1>2 DEF NalUnit
    <2> QED BY <1>1, <1>2, <1>5, <2>1
  <1>7. ReaderOf(NalUnit("pps"), p) \in Reader
        /\ Shows(ReaderOf(NalUnit("pps"), p), 0 - 32, PpsText)
    <2>1. NalUnit("pps") = Escape(Bytes(TrailingBits(PpsText))) BY <1>3 DEF NalUnit
    <2> QED BY <1>1, <1>3, <1>5, <2>1
  <1>8. /\ ReaderOf(NalUnit("idr"), p) \in Reader
        /\ Shows(ReaderOf(NalUnit("idr"), p), 0 - 32, SliceBits \o pic.data)
        /\ Len(Deescape(Tail(NalUnit("idr")))) = Len(SliceBits \o pic.data) \div 8 - 3
    <2>1. NalUnit("idr") = Escape(Bytes(TrailingBits(SliceBits \o pic.data))) BY DEF NalUnit
    <2> QED BY <1>1, <1>4, <1>5, <2>1
  <1>9. Shows(ReaderOf(NalUnit("idr"), p), 0 - 32, SliceBits)
    <2>1. 0 - 32 \in Int OBVIOUS
    <2> QED BY <1>4, <1>8, <2>1, ShowsParts
  <1> QED BY <1>6, <1>7, <1>8, <1>9

\* "The mirror image of the bit writer": whatever the fields of the three headers are, the
\* parser reads them out of the NAL units they were written into, or does not take them.
THEOREM MirrorImage ==
  ASSUME PictureFields(pic), NEW p \in Nat
  PROVE  /\ ParseSps(ReaderOf(NalUnit("sps"), p)) = SpsRead
         /\ ParsePps(ReaderOf(NalUnit("pps"), p)) = PpsRead
         /\ SpsRead.ok /\ PpsRead.ok =>
              ParseSliceHeader(ReaderOf(NalUnit("idr"), p), 3, SpsRead, PpsRead) = SliceRead
  <1>1. ParseSps(ReaderOf(NalUnit("sps"), p)) = SpsRead BY NalUnitsShow, SpsReadBack
  <1>2. ParsePps(ReaderOf(NalUnit("pps"), p)) = PpsRead BY NalUnitsShow, PpsReadBack
  <1>3. ASSUME SpsRead.ok, PpsRead.ok
        PROVE  ParseSliceHeader(ReaderOf(NalUnit("idr"), p), 3, SpsRead, PpsRead) = SliceRead
    <2> DEFINE s == SpsRead
               q == PpsRead
    <2>1. /\ s.log2 = pic.sps.log2 /\ s.poc = pic.sps.poc
          /\ s.poc = 0 => s.pocLog2 = pic.pocLog2
      BY <1>3 DEF SpsRead, No
    <2>2. q.cabac = pic.pps.cabac /\ q.deblocking = pic.pps.deblocking
      BY <1>3 DEF PpsRead, No
    <2> HIDE DEF s, q
    <2>3. /\ ReaderOf(NalUnit("idr"), p) \in Reader
          /\ Shows(ReaderOf(NalUnit("idr"), p), 0 - 32, SliceBits)
      BY NalUnitsShow
    <2>4. ParseSliceHeader(ReaderOf(NalUnit("idr"), p), 3, s, q) = SliceRead
      BY <2>1, <2>2, <2>3, SliceReadBack
    <2> QED BY <2>4 DEF s, q
  <1> QED BY <1>1, <1>2, <1>3

\* Two readers give the same bits, and the same behind the end, up to x.
SameUpTo(b1, b2, x) ==
    /\ b1 \in Reader /\ b2 \in Reader /\ x \in Nat /\ b1.past = b2.past
    /\ \A y \in 0 .. x - 1 : BitAt(b1, y) = BitAt(b2, y)

\* A field that ends before that is the same in both.
LEMMA OneSame ==
  ASSUME NEW b1, NEW b2, NEW x, SameUpTo(b1, b2, x), NEW old \in Results, NEW f \in Fields,
         ReadOne(b1, old, f).pos <= x
  PROVE  ReadOne(b2, old, f) = ReadOne(b1, old, f)
  <1> DEFINE p == old.pos
  <1>1. /\ b1 \in Reader /\ b2 \in Reader /\ x \in Nat /\ b1.past = b2.past
        /\ \A y \in 0 .. x - 1 : BitAt(b1, y) = BitAt(b2, y)
    BY DEF SameUpTo
  <1>2. p \in Nat BY DEF Results
  <1>3. ASSUME NEW q \in Nat, NEW n \in Nat, q + n <= x PROVE Value(b2, q, n) = Value(b1, q, n)
    <2>1. \A k \in 1 .. n : BitAt(b2, q + k - 1) = BitAt(b1, q + k - 1)
      <3> SUFFICES ASSUME NEW k \in 1 .. n PROVE BitAt(b2, q + k - 1) = BitAt(b1, q + k - 1)
        OBVIOUS
      <3>1. q + k - 1 \in 0 .. x - 1 BY <1>1, <1>3
      <3> QED BY <1>1, <3>1
    <2>2. [k \in 1 .. n |-> BitAt(b2, q + k - 1)] = [k \in 1 .. n |-> BitAt(b1, q + k - 1)]
      BY <2>1
    <2> QED BY <2>2 DEF Value
  <1> HIDE DEF p
  <1>4. CASE f.kind = "u"
    <2>1. f.n \in Nat BY <1>4 DEF Fields, U, Ue, Se
    <2>2. \A b : ReadOne(b, old, f) = [pos |-> p + f.n, val |-> Append(old.val, Value(b, p, f.n))]
      BY <1>4 DEF ReadOne, p
    <2>3. ReadOne(b1, old, f).pos = p + f.n BY <2>2
    <2>4. p + f.n <= x BY <2>3
    <2>5. Value(b2, p, f.n) = Value(b1, p, f.n) BY <1>2, <1>3, <2>1, <2>4
    <2> QED BY <2>2, <2>5
  <1>5. CASE f.kind # "u"
    <2> DEFINE z1 == LeadingZeros(b1, p)
               z2 == LeadingZeros(b2, p)
    <2>1. /\ z1 \in 0 .. 32 /\ (z1 = 32 \/ BitAt(b1, p + z1) = 1)
          /\ \A y \in 0 .. z1 - 1 : BitAt(b1, p + y) = 0
          /\ z2 \in 0 .. 32 /\ (z2 = 32 \/ BitAt(b2, p + z2) = 1)
          /\ \A y \in 0 .. z2 - 1 : BitAt(b2, p + y) = 0
      BY <1>1, <1>2, LeadingZerosFacts
    <2>2. \A b : ReadOne(b, old, f)
                   = [pos |-> p + 2 * LeadingZeros(b, p) + 1,
                      val |-> Append(old.val, IF f.kind = "ue" THEN UeAt(b, p)
                                              ELSE SignedOf(UeAt(b, p)))]
      BY <1>5 DEF ReadOne, p
    <2>3. ReadOne(b1, old, f).pos = p + 2 * z1 + 1 BY <2>2
    <2>4. \A b : UeAt(b, p) = IF LeadingZeros(b, p) = 32 THEN b.past
                              ELSE Pow2[LeadingZeros(b, p)] - 1
                                   + Value(b, p + LeadingZeros(b, p) + 1, LeadingZeros(b, p))
      BY DEF UeAt
    <2> DEFINE v1 == Value(b1, p + z1 + 1, z1)
               v2 == Value(b2, p + z1 + 1, z1)
    <2>5. UeAt(b1, p) = IF z1 = 32 THEN b1.past ELSE Pow2[z1] - 1 + v1 BY <2>4
    <2>6. z2 = z1 => UeAt(b2, p) = IF z1 = 32 THEN b2.past ELSE Pow2[z1] - 1 + v2 BY <2>4
    <2>7. ReadOne(b1, old, f).pos <= x OBVIOUS
    <2> HIDE DEF z1, z2
    <2>8. p + 2 * z1 + 1 <= x BY <2>3, <2>7
    <2>9. \A y \in 0 .. z1 : BitAt(b2, p + y) = BitAt(b1, p + y)
      <3> SUFFICES ASSUME NEW y \in 0 .. z1 PROVE BitAt(b2, p + y) = BitAt(b1, p + y) OBVIOUS
      <3>1. p + y \in 0 .. x - 1 BY <1>1, <1>2, <2>1, <2>8
      <3> QED BY <1>1, <3>1
    <2>10. z2 = z1
      <3>1. ~(z2 < z1)
        <4> SUFFICES ASSUME z2 < z1 PROVE FALSE OBVIOUS
        <4>1. z2 \in 0 .. z1 - 1 /\ z2 \in 0 .. z1 /\ z2 # 32 BY <2>1
        <4> QED BY <2>1, <2>9, <4>1
      <3>2. ~(z1 < z2)
        <4> SUFFICES ASSUME z1 < z2 PROVE FALSE OBVIOUS
        <4>1. z1 \in 0 .. z2 - 1 /\ z1 \in 0 .. z1 /\ z1 # 32 BY <2>1
        <4> QED BY <2>1, <2>9, <4>1
      <3> QED BY <2>1, <3>1, <3>2
    <2>11. v2 = v1
      <3>1. p + z1 + 1 \in Nat /\ z1 \in Nat /\ (p + z1 + 1) + z1 <= x BY <1>2, <2>1, <2>8
      <3> QED BY <1>3, <3>1
    <2>12. UeAt(b2, p) = UeAt(b1, p) BY <1>1, <2>5, <2>6, <2>10, <2>11
    <2>13. LeadingZeros(b2, p) = LeadingZeros(b1, p) BY <2>10 DEF z1, z2
    <2> QED BY <2>2, <2>12, <2>13
  <1> QED BY <1>4, <1>5

\* A field never ends before it begins.
LEMMA OneForward ==
  ASSUME NEW br \in Reader, NEW old \in Results, NEW f \in Fields
  PROVE  old.pos <= ReadOne(br, old, f).pos
  <1>1. old.pos \in Nat BY DEF Results
  <1>2. CASE f.kind = "u"
    <2>1. f.n \in Nat BY <1>2 DEF Fields, U, Ue, Se
    <2>2. ReadOne(br, old, f).pos = old.pos + f.n BY <1>2 DEF ReadOne
    <2> QED BY <1>1, <2>1, <2>2
  <1>3. CASE f.kind # "u"
    <2> DEFINE z == LeadingZeros(br, old.pos)
    <2>1. z \in 0 .. 32 BY <1>1, LeadingZerosFacts
    <2>2. ReadOne(br, old, f).pos = old.pos + 2 * z + 1 BY <1>3 DEF ReadOne
    <2> HIDE DEF z
    <2> QED BY <1>1, <2>1, <2>2
  <1> QED BY <1>2, <1>3

\* Fields that end before that are the same in both, and none ends before it begins.
LEMMA ReadSame ==
  ASSUME NEW b1, NEW b2, NEW x, SameUpTo(b1, b2, x), NEW pos \in Nat,
         NEW fields \in Seq(Fields)
  PROVE  /\ pos <= Read(b1, pos, fields).pos
         /\ Read(b1, pos, fields).pos <= x => Read(b2, pos, fields) = Read(b1, pos, fields)
  <1> DEFINE n == Len(fields)
  <1>1. b1 \in Reader /\ b2 \in Reader /\ x \in Nat BY DEF SameUpTo
  <1>2. PICK r : /\ r \in [Nat -> Results] /\ r[0] = [pos |-> pos, val |-> <<>>]
                 /\ \A ix \in 0 .. n - 1 : r[ix + 1] = ReadOne(b1, r[ix], fields[ix + 1])
                 /\ Read(b1, pos, fields) = r[n]
    BY <1>1, ReadSteps
  <1>3. PICK s : /\ s \in [Nat -> Results] /\ s[0] = [pos |-> pos, val |-> <<>>]
                 /\ \A ix \in 0 .. n - 1 : s[ix + 1] = ReadOne(b2, s[ix], fields[ix + 1])
                 /\ Read(b2, pos, fields) = s[n]
    BY <1>1, ReadSteps
  <1>4. n \in Nat /\ \A k \in 1 .. n : fields[k] \in Fields BY ElementOfSeq, LenProperties
  <1>5. \A k \in Nat : r[k].pos \in Nat BY <1>2 DEF Results
  <1> HIDE DEF n
  <1> DEFINE D == {k \in Nat : k <= n => pos <= r[k].pos}
             E == {k \in Nat : k <= n /\ r[k].pos <= x => s[k] = r[k]}
  <1>6. ASSUME NEW k \in Nat, k + 1 <= n PROVE r[k].pos <= r[k + 1].pos
    <2>1. k \in 0 .. n - 1 /\ k + 1 \in 1 .. n BY <1>4, <1>6
    <2>2. r[k] \in Results /\ fields[k + 1] \in Fields BY <1>2, <1>4, <2>1
    <2>3. r[k].pos <= ReadOne(b1, r[k], fields[k + 1]).pos BY <1>1, <2>2, OneForward
    <2> QED BY <1>2, <2>1, <2>3
  <1>7. Nat \subseteq D
    <2>1. 0 \in D BY <1>2
    <2>2. ASSUME NEW k \in Nat, k \in D PROVE k + 1 \in D
      <3> SUFFICES ASSUME k + 1 <= n PROVE pos <= r[k + 1].pos OBVIOUS
      <3>1. pos <= r[k].pos BY <1>4, <2>2
      <3>2. r[k].pos <= r[k + 1].pos BY <1>6
      <3> QED BY <1>5, <3>1, <3>2
    <2> HIDE DEF D
    <2> QED BY <2>1, <2>2, NatInd
  <1>8. Nat \subseteq E
    <2>1. 0 \in E BY <1>2, <1>3
    <2>2. ASSUME NEW k \in Nat, k \in E PROVE k + 1 \in E
      <3> SUFFICES ASSUME k + 1 <= n, r[k + 1].pos <= x PROVE s[k + 1] = r[k + 1] OBVIOUS
      <3>1. r[k].pos <= r[k + 1].pos BY <1>6
      <3>2. r[k].pos <= x BY <1>1, <1>5, <3>1
      <3>3. s[k] = r[k] BY <1>4, <2>2, <3>2
      <3>4. k \in 0 .. n - 1 /\ k + 1 \in 1 .. n BY <1>4
      <3>5. r[k] \in Results /\ fields[k + 1] \in Fields BY <1>2, <1>4, <3>4
      <3>6. r[k + 1] = ReadOne(b1, r[k], fields[k + 1]) BY <1>2, <3>4
      <3>7. s[k + 1] = ReadOne(b2, r[k], fields[k + 1]) BY <1>3, <3>3, <3>4
      <3> QED BY <3>5, <3>6, <3>7, OneSame
    <2> HIDE DEF E
    <2> QED BY <2>1, <2>2, NatInd
  <1> QED BY <1>2, <1>3, <1>4, <1>7, <1>8

\* A one-bit number is not 0 only where there is a bit.
LEMMA OneBit ==
  ASSUME NEW br \in Reader, NEW p \in Nat, Value(br, p, 1) # 0
  PROVE  p < 8 * Len(br.buf)
  <1>1. 0 \in Nat /\ 0 + 1 = 1 /\ p + 0 = p OBVIOUS
  <1>2. Value(br, p, 1) = 2 * Value(br, p, 0) + BitAt(br, p) /\ Value(br, p, 0) = 0
    BY <1>1, ValueRec
  <1>3. BitAt(br, p) # 0
    <2>1. BitAt(br, p) \in {0, 1} BY BitType
    <2> QED BY <1>2, <2>1
  <1> QED BY <1>3 DEF BitAt

\* An SPS that is taken is there up to its last bit: the same is read when more follows.
LEMMA SpsSame ==
  ASSUME NEW b1 \in Reader, NEW b2 \in Reader, b1.past = b2.past,
         \A y \in Nat : y < 8 * Len(b1.buf) => BitAt(b1, y) = BitAt(b2, y),
         ParseSps(b1).ok
  PROVE  ParseSps(b2) = ParseSps(b1)
  <1> DEFINE F == <<U(8), U(8), U(8), Ue, Ue, Ue>>
             G(v) == IF v = 0 THEN <<Ue>> ELSE <<>>
             H == <<Ue, U(1), Ue, Ue, U(1)>>
             a(br) == Read(br, 0, F)
             b(br) == Read(br, a(br).pos, G(a(br).val[6]))
             c(br) == Read(br, b(br).pos, H)
  <1>1. F \in Seq(Fields) /\ H \in Seq(Fields) /\ Len(H) = 5 /\ H[5] = U(1)
        /\ \A v : G(v) \in Seq(Fields)
    BY FieldLists
  <1>2. \A br : ParseSps(br)
          = IF a(br).val[6] = 1 \/ c(br).val[5] = 0 THEN No
            ELSE [ok |-> TRUE, id |-> a(br).val[4], log2 |-> a(br).val[5], poc |-> a(br).val[6],
                  pocLog2 |-> IF a(br).val[6] = 0 THEN b(br).val[1] ELSE 0,
                  refs |-> c(br).val[1], width |-> c(br).val[3] + 1,
                  height |-> c(br).val[4] + 1]
    BY DEF ParseSps
  <1>3. 0 \in Nat OBVIOUS
  <1> HIDE DEF F, G, H
  <1>4. \A pos \in Nat, f \in Seq(Fields) : Read(b1, pos, f).pos \in Nat
    BY FieldLists, ReadAppend DEF Results
  <1>5. a(b1).pos \in Nat BY <1>1, <1>3, <1>4
  <1> DEFINE A1 == a(b1)
             B1 == b(b1)
             C1 == c(b1)
  <1>6. B1 = Read(b1, A1.pos, G(A1.val[6])) /\ C1 = Read(b1, B1.pos, H) OBVIOUS
  <1>7. A1 = Read(b1, 0, F) /\ A1.pos \in Nat BY <1>5
  <1>8. C1.val[5] # 0
    <2>1. ParseSps(b1) # No
      <3>1. No.ok = FALSE BY DEF No
      <3> QED BY <3>1
    <2> QED BY <1>2, <2>1
  <1> HIDE DEF A1, B1, C1
  <1>9. B1.pos \in Nat /\ C1.pos \in Nat BY <1>1, <1>4, <1>6, <1>7
  <1>10. C1.pos - 1 \in Nat /\ C1.pos - 1 < 8 * Len(b1.buf)
    <2> DEFINE R(k) == Read(b1, B1.pos, SubSeq(H, 1, k))
               old == R(4)
    <2>1. 4 \in 0 .. Len(H) - 1 /\ 4 + 1 = 5 /\ Len(H) = 5 BY <1>1
    <2>2. /\ old \in Results /\ R(5) = ReadOne(b1, old, U(1)) /\ Len(old.val) = 4
          /\ R(5) = C1 /\ C1.val[5] = ReadOne(b1, old, U(1)).val[5]
      <3>0. /\ R(Len(H)) = Read(b1, B1.pos, H)
            /\ \A k \in 0 .. Len(H) - 1 :
                 LET one == ReadOne(b1, R(k), H[k + 1])
                 IN  /\ R(k) \in Results /\ R(k + 1) = one /\ Len(R(k).val) = k
                     /\ Read(b1, B1.pos, H).val[k + 1] = one.val[k + 1]
        <4>1. H \in Seq(Fields) /\ B1.pos \in Nat BY <1>1, <1>9
        <4> QED BY <4>1, ReadStep, Zenon
      <3>1. /\ R(Len(H)) = C1
            /\ \A k \in 0 .. Len(H) - 1 :
                 LET one == ReadOne(b1, R(k), H[k + 1])
                 IN  /\ R(k) \in Results /\ R(k + 1) = one /\ Len(R(k).val) = k
                     /\ C1.val[k + 1] = one.val[k + 1]
        BY <1>6, <3>0
      <3> HIDE DEF R
      <3>2. LET one == ReadOne(b1, R(4), H[4 + 1])
            IN  /\ R(4) \in Results /\ R(4 + 1) = one /\ Len(R(4).val) = 4
                /\ C1.val[4 + 1] = one.val[4 + 1]
        BY <2>1, <3>1
      <3> QED BY <1>1, <2>1, <3>1, <3>2
    <2> HIDE DEF R, old
    <2>3. ReadOne(b1, old, U(1))
            = [pos |-> old.pos + 1, val |-> Append(old.val, Value(b1, old.pos, 1))]
      <3>1. U(1).kind = "u" /\ U(1).n = 1 BY DEF U
      <3> QED BY <3>1 DEF ReadOne
    <2>4. old.pos \in Nat /\ old.val \in Seq(Int) BY <2>2 DEF Results
    <2>5. Value(b1, old.pos, 1) \in Int
      <3>1. 1 \in Nat OBVIOUS
      <3>2. Value(b1, old.pos, 1) \in Nat BY <2>4, <3>1, ValueRec
      <3> QED BY <3>2
    <2>6. C1.val[5] = Value(b1, old.pos, 1)
      <3> DEFINE v == Value(b1, old.pos, 1)
                 t == Append(old.val, v)
      <3>1. v \in Int BY <2>5
      <3>2. ReadOne(b1, old, U(1)).val = t BY <2>3
      <3> HIDE DEF v
      <3>3. t[Len(old.val) + 1] = v BY <2>4, <3>1, AppendProperties
      <3> HIDE DEF t
      <3>4. Len(old.val) + 1 = 5 BY <2>2
      <3>5. t[5] = v BY <3>3, <3>4
      <3>6. C1.val[5] = t[5] BY <2>2, <3>2
      <3> QED BY <3>5, <3>6 DEF v
    <2>7. C1.pos = old.pos + 1 BY <2>2, <2>3
    <2>8. old.pos < 8 * Len(b1.buf) BY <1>8, <2>4, <2>6, OneBit
    <2> QED BY <2>4, <2>7, <2>8
  <1>11. SameUpTo(b1, b2, C1.pos)
    <2>1. Len(b1.buf) \in Nat BY LenProperties DEF Reader
    <2>2. ASSUME NEW y \in 0 .. C1.pos - 1 PROVE BitAt(b1, y) = BitAt(b2, y)
      <3>1. y \in Nat /\ y < 8 * Len(b1.buf) BY <1>9, <1>10, <2>1
      <3> QED BY <3>1
    <2> QED BY <1>9, <2>2 DEF SameUpTo
  <1>12. /\ B1.pos <= C1.pos /\ Read(b2, B1.pos, H) = C1
    <2>1. C1.pos <= C1.pos BY <1>9
    <2> QED BY <1>1, <1>6, <1>9, <1>11, <2>1, ReadSame
  <1>13. /\ A1.pos <= B1.pos /\ Read(b2, A1.pos, G(A1.val[6])) = B1
    BY <1>1, <1>6, <1>7, <1>11, <1>12, ReadSame
  <1>14. Read(b2, 0, F) = A1
    <2>1. A1.pos <= C1.pos BY <1>7, <1>9, <1>12, <1>13
    <2> QED BY <1>1, <1>3, <1>7, <1>11, <2>1, ReadSame
  <1>15. a(b2) = a(b1) BY <1>14 DEF A1
  <1>16. b(b2) = b(b1) BY <1>13, <1>14, <1>15 DEF A1, B1
  <1>17. c(b2) = c(b1) BY <1>12, <1>16 DEF B1, C1
  <1> HIDE DEF a, b, c
  <1> QED BY <1>2, <1>15, <1>16, <1>17

\* u is how n begins.
Beginning(u, n) == /\ u \in Seq(Byte) /\ n \in Seq(Byte) /\ Len(u) <= Len(n)
                   /\ \A k \in 1 .. Len(u) : u[k] = n[k]

\* What SubSeq is.
LEMMA PartOf ==
  ASSUME NEW s \in Seq(Byte), NEW p \in Nat, p > 0, NEW e \in Int, e <= Len(s)
  PROVE  LET x == SubSeq(s, p, e)
         IN  /\ x \in Seq(Byte) /\ Len(x) \in Nat
             /\ Len(x) = IF p <= e THEN e - p + 1 ELSE 0
             /\ \A k \in 1 .. Len(x) : x[k] = s[p + k - 1]
  <1> DEFINE x == SubSeq(s, p, e)
  <1>1. Len(s) \in Nat /\ \A k \in 1 .. Len(s) : s[k] \in Byte BY ElementOfSeq, LenProperties
  <1>2. \A k \in p .. e : s[k] \in Byte
    <2> SUFFICES ASSUME NEW k \in p .. e PROVE s[k] \in Byte OBVIOUS
    <2>1. k \in 1 .. Len(s) BY <1>1
    <2> QED BY <1>1, <2>1
  <1>3. /\ x \in Seq(Byte) /\ Len(x) = IF p <= e THEN e - p + 1 ELSE 0
        /\ \A k \in 1 .. e - p + 1 : x[k] = s[p + k - 1]
    BY <1>2, SubSeqProperties
  <1> HIDE DEF x
  <1>4. Len(x) \in Nat BY <1>3
  <1>5. ASSUME NEW k \in 1 .. Len(x) PROVE x[k] = s[p + k - 1]
    <2>1. k \in 1 .. e - p + 1 BY <1>3
    <2> QED BY <1>3, <2>1
  <1> QED BY <1>3, <1>4, <1>5 DEF x

\* What Trim leaves and what it takes.
LEMMA TrimEnds ==
  ASSUME NEW b \in Seq(Byte)
  PROVE  LET t == Trim(b)
         IN  /\ Beginning(t, b) /\ (Len(t) = 0 \/ b[Len(t)] # 0) /\ Len(t) \in Nat
             /\ \A k \in Len(t) + 1 .. Len(b) : b[k] = 0
  <1> DEFINE F == {k \in 1 .. Len(b) : b[k] # 0}
             t == Trim(b)
             m == Max(F)
  <1>1. Len(b) \in Nat BY LenProperties
  <1>2. t = IF F = {} THEN <<>> ELSE SubSeq(b, 1, m) BY DEF Trim
  <1>3. CASE F = {}
    <2>1. t = <<>> /\ Len(t) = 0 /\ t \in Seq(Byte) BY <1>2, <1>3
    <2>2. \A k \in 1 .. Len(b) : b[k] = 0 BY <1>3
    <2> QED BY <1>1, <2>1, <2>2 DEF Beginning
  <1>4. CASE F # {}
    <2>1. F \subseteq 0 .. Len(b) BY <1>1
    <2> HIDE DEF F
    <2>2. m \in F /\ \A k \in F : k <= m BY <1>1, <1>4, <2>1, MaxIsGreatest
    <2> HIDE DEF m
    <2>3. m \in 1 .. Len(b) /\ b[m] # 0 BY <2>2 DEF F
    <2>4. m \in Int /\ 1 \in Nat /\ m <= Len(b) /\ 1 <= m BY <1>1, <2>3
    <2>5. t = SubSeq(b, 1, m) BY <1>2, <1>4
    <2>6. /\ SubSeq(b, 1, m) \in Seq(Byte) /\ Len(SubSeq(b, 1, m)) = m - 1 + 1
          /\ \A k \in 1 .. Len(SubSeq(b, 1, m)) : SubSeq(b, 1, m)[k] = b[1 + k - 1]
      BY <2>4, PartOf
    <2> HIDE DEF t
    <2>7. t \in Seq(Byte) /\ Len(t) = m BY <2>4, <2>5, <2>6
    <2>8. ASSUME NEW k \in 1 .. Len(t) PROVE t[k] = b[k]
      <3>1. 1 + k - 1 = k BY <2>4, <2>7
      <3> QED BY <2>5, <2>6, <3>1
    <2>9. \A k \in m + 1 .. Len(b) : b[k] = 0
      <3> SUFFICES ASSUME NEW k \in m + 1 .. Len(b), b[k] # 0 PROVE FALSE OBVIOUS
      <3>1. k \in F BY <1>1, <2>4 DEF F
      <3>2. k <= m BY <2>2, <3>1
      <3> QED BY <2>4, <3>2
    <2>10. Beginning(t, b) BY <2>4, <2>7, <2>8 DEF Beginning
    <2> QED BY <2>3, <2>4, <2>7, <2>9, <2>10 DEF t
  <1> QED BY <1>3, <1>4

\* Of the beginning of some bytes no more is left than of all of them.
LEMMA TrimBeginning ==
  ASSUME NEW y, NEW x, Beginning(y, x)
  PROVE  Beginning(Trim(y), Trim(x))
  <1> DEFINE a == Trim(y)
             b == Trim(x)
  <1>1. /\ y \in Seq(Byte) /\ x \in Seq(Byte) /\ Len(y) <= Len(x)
        /\ \A k \in 1 .. Len(y) : y[k] = x[k]
        /\ Len(y) \in Nat /\ Len(x) \in Nat
    BY LenProperties DEF Beginning
  <1>2. /\ Beginning(a, y) /\ (Len(a) = 0 \/ y[Len(a)] # 0) /\ Len(a) \in Nat
        /\ Beginning(b, x) /\ Len(b) \in Nat
        /\ \A k \in Len(b) + 1 .. Len(x) : x[k] = 0
    BY <1>1, TrimEnds
  <1> HIDE DEF a, b
  <1>3. /\ a \in Seq(Byte) /\ Len(a) <= Len(y) /\ \A k \in 1 .. Len(a) : a[k] = y[k]
        /\ b \in Seq(Byte) /\ Len(b) <= Len(x) /\ \A k \in 1 .. Len(b) : b[k] = x[k]
    BY <1>2 DEF Beginning
  <1>4. Len(a) <= Len(b)
    <2> SUFFICES ASSUME Len(b) < Len(a) PROVE FALSE BY <1>2
    <2>1. Len(a) \in 1 .. Len(y) /\ Len(a) \in Len(b) + 1 .. Len(x) BY <1>1, <1>2, <1>3
    <2> QED BY <1>1, <1>2, <2>1
  <1>5. ASSUME NEW k \in 1 .. Len(a) PROVE a[k] = b[k]
    <2>1. k \in 1 .. Len(y) /\ k \in 1 .. Len(b) BY <1>1, <1>2, <1>3, <1>4
    <2> QED BY <1>1, <1>3, <2>1
  <1> QED BY <1>3, <1>4, <1>5 DEF Beginning, a, b

\* Behind a start code in the beginning of a stream is the beginning of what is behind it
\* in the stream.
LEMMA NalOfBeginning ==
  ASSUME NEW w, NEW s, Beginning(w, s), NEW c \in StartCodes(w)
  PROVE  c \in StartCodes(s) /\ Beginning(NalAt(w, c), NalAt(s, c))
  <1> DEFINE m == Len(w)
             n == Len(s)
             S == StartCodes(s)
             T == StartCodes(w)
             later(R) == {k \in R : k > c}
             e1 == IF later(T) = {} THEN m ELSE Min(later(T)) - 1
             e2 == IF later(S) = {} THEN n ELSE Min(later(S)) - 1
             y == SubSeq(w, c + 3, e1)
             x == SubSeq(s, c + 3, e2)
  <1>1. /\ w \in Seq(Byte) /\ s \in Seq(Byte) /\ m <= n /\ m \in Nat /\ n \in Nat
        /\ \A k \in 1 .. m : w[k] = s[k]
    BY LenProperties DEF Beginning
  <1>2. NalAt(w, c) = Trim(y) /\ NalAt(s, c) = Trim(x) BY DEF NalAt
  <1>3. /\ \A k \in T : k \in 1 .. m - 2 /\ w[k] = 0 /\ w[k + 1] = 0 /\ w[k + 2] = 1
        /\ \A k \in S : k \in 1 .. n - 2 /\ s[k] = 0 /\ s[k + 1] = 0 /\ s[k + 2] = 1
        /\ \A k \in 1 .. m - 2 : w[k] = 0 /\ w[k + 1] = 0 /\ w[k + 2] = 1 => k \in T
        /\ \A k \in 1 .. n - 2 : s[k] = 0 /\ s[k + 1] = 0 /\ s[k + 2] = 1 => k \in S
    BY DEF StartCodes
  <1>4. c \in T OBVIOUS
  <1> HIDE DEF S, T, m, n
  <1>5. ASSUME NEW k \in T PROVE k \in S
    <2>1. k \in 1 .. m /\ k + 1 \in 1 .. m /\ k + 2 \in 1 .. m /\ k \in 1 .. n - 2 BY <1>1, <1>3
    <2> QED BY <1>1, <1>3, <2>1
  <1>6. ASSUME NEW k \in S, k <= m - 2 PROVE k \in T
    <2>1. k \in 1 .. m /\ k + 1 \in 1 .. m /\ k + 2 \in 1 .. m /\ k \in 1 .. m - 2
      BY <1>1, <1>3, <1>6
    <2> QED BY <1>1, <1>3, <2>1
  <1>7. c \in Nat /\ c + 3 \in Nat /\ c + 3 > 0 BY <1>1, <1>3, <1>4
  <1>8. later(S) # {} => /\ Min(later(S)) \in later(S)
                         /\ \A k \in later(S) : Min(later(S)) <= k
    <2>1. later(S) \subseteq Nat BY <1>1, <1>3
    <2> QED BY <2>1, MinIsLeast
  <1>9. later(T) # {} => /\ Min(later(T)) \in later(T)
                         /\ \A k \in later(T) : Min(later(T)) <= k
    <2>1. later(T) \subseteq Nat BY <1>1, <1>3
    <2> QED BY <2>1, MinIsLeast
  <1>10. /\ e1 \in Int /\ e1 <= m /\ e2 \in Int /\ e2 <= n
         /\ e1 <= e2 \/ \A k \in e2 + 1 .. e1 : w[k] = 0
    <2> DEFINE r == Min(later(S))
               q == Min(later(T))
    <2>1. later(S) # {} => r \in S /\ r > c /\ r \in Nat /\ r <= n - 2 /\ e2 = r - 1
      BY <1>1, <1>3, <1>8
    <2>2. later(T) # {} => q \in T /\ q > c /\ q \in Nat /\ q <= m - 2 /\ e1 = q - 1
      BY <1>1, <1>3, <1>9
    <2>3. later(S) = {} => e2 = n OBVIOUS
    <2>4. later(T) = {} => e1 = m OBVIOUS
    <2>5. later(T) # {} => later(S) # {} /\ r <= q
      <3> SUFFICES ASSUME later(T) # {} PROVE later(S) # {} /\ r <= q OBVIOUS
      <3>1. q \in later(S) BY <1>5, <2>2
      <3> QED BY <1>8, <3>1
    <2>6. later(S) # {} /\ r <= m - 2 => later(T) # {} /\ q <= r
      <3> SUFFICES ASSUME later(S) # {}, r <= m - 2 PROVE later(T) # {} /\ q <= r OBVIOUS
      <3>1. r \in later(T) BY <1>6, <2>1
      <3> QED BY <1>9, <3>1
    <2>7. later(S) # {} => s[r] = 0 /\ s[r + 1] = 0 BY <1>3, <2>1
    <2> HIDE DEF r, q, later, e1, e2
    <2>8. CASE later(T) # {}
      <3>1. later(S) # {} /\ r <= q /\ q <= m - 2 /\ q \in Nat /\ r \in Nat
        BY <2>1, <2>2, <2>5, <2>8
      <3>2. q <= r
        <4>1. r <= m - 2 BY <1>1, <3>1
        <4> QED BY <2>6, <3>1, <4>1
      <3> QED BY <1>1, <2>1, <2>2, <2>8, <3>1, <3>2
    <2>9. CASE later(T) = {} /\ later(S) = {} BY <1>1, <2>3, <2>4, <2>9
    <2>10. CASE later(T) = {} /\ later(S) # {}
      <3>1. r \in Nat /\ e2 = r - 1 /\ r <= n - 2 /\ r > m - 2 /\ e1 = m /\ r >= 1
        BY <1>1, <1>3, <2>1, <2>4, <2>6, <2>10
      <3>2. ASSUME NEW k \in e2 + 1 .. e1 PROVE w[k] = 0
        <4>1. k = r \/ k = r + 1 BY <1>1, <3>1
        <4>2. k \in 1 .. m BY <1>1, <3>1
        <4>3. s[k] = 0 BY <2>7, <2>10, <4>1
        <4> QED BY <1>1, <4>2, <4>3
      <3> QED BY <1>1, <3>1, <3>2
    <2> QED BY <2>8, <2>9, <2>10
  <1> HIDE DEF e1, e2, later
  <1>11. /\ y \in Seq(Byte) /\ Len(y) \in Nat
         /\ Len(y) = IF c + 3 <= e1 THEN e1 - (c + 3) + 1 ELSE 0
         /\ \A k \in 1 .. Len(y) : y[k] = w[c + 3 + k - 1]
    BY <1>1, <1>7, <1>10, PartOf DEF m
  <1>12. /\ x \in Seq(Byte) /\ Len(x) \in Nat
         /\ Len(x) = IF c + 3 <= e2 THEN e2 - (c + 3) + 1 ELSE 0
         /\ \A k \in 1 .. Len(x) : x[k] = s[c + 3 + k - 1]
    BY <1>1, <1>7, <1>10, PartOf DEF n
  <1> HIDE DEF x, y
  <1>13. CASE e1 <= e2
    <2>1. Len(y) <= Len(x) BY <1>7, <1>10, <1>11, <1>12, <1>13
    <2>2. ASSUME NEW k \in 1 .. Len(y) PROVE y[k] = x[k]
      <3>1. k \in 1 .. Len(x) BY <1>11, <1>12, <2>1
      <3>2. c + 3 + k - 1 \in 1 .. m BY <1>1, <1>7, <1>10, <1>11
      <3> QED BY <1>1, <1>11, <1>12, <3>1, <3>2
    <2>3. Beginning(y, x) BY <1>11, <1>12, <2>1, <2>2 DEF Beginning
    <2> QED BY <1>2, <1>4, <1>5, <2>3, TrimBeginning DEF S
  <1>14. CASE ~(e1 <= e2)
    <2>1. Len(x) <= Len(y) BY <1>7, <1>10, <1>11, <1>12, <1>14
    <2>2. ASSUME NEW k \in 1 .. Len(x) PROVE y[k] = x[k]
      <3>1. k \in 1 .. Len(y) BY <1>11, <1>12, <2>1
      <3>2. c + 3 + k - 1 \in 1 .. m BY <1>1, <1>7, <1>10, <1>11, <3>1
      <3> QED BY <1>1, <1>11, <1>12, <3>1, <3>2
    <2>3. ASSUME NEW k \in Len(x) + 1 .. Len(y) PROVE y[k] = 0
      <3>1. k \in 1 .. Len(y) BY <1>11, <1>12
      <3>2. c + 3 + k - 1 \in e2 + 1 .. e1 BY <1>7, <1>10, <1>11, <1>12
      <3> QED BY <1>10, <1>11, <1>14, <3>1, <3>2
    <2>4. Trim(y) = Trim(x) BY <1>11, <1>12, <2>1, <2>2, <2>3, TrimFacts
    <2>5. Trim(x) \in Seq(Byte) /\ Len(Trim(x)) \in Nat BY <1>12, TrimFacts, LenProperties
    <2>6. Beginning(Trim(x), Trim(x)) BY <2>5 DEF Beginning
    <2> QED BY <1>2, <1>4, <1>5, <2>4, <2>6 DEF S
  <1> QED BY <1>13, <1>14

\* Every NAL unit in the beginning of a stream is the beginning of one in the stream.
LEMMA NalsOfBeginning ==
  ASSUME NEW w, NEW s, Beginning(w, s), NEW k \in 1 .. Len(AllNals(w))
  PROVE  \E j \in 1 .. Len(AllNals(s)) : Beginning(AllNals(w)[k], AllNals(s)[j])
  <1> DEFINE a == Ascending(StartCodes(w), Len(w))
             b == Ascending(StartCodes(s), Len(s))
  <1>1. w \in Seq(Byte) /\ s \in Seq(Byte) /\ Len(s) \in Nat BY LenProperties DEF Beginning
  <1>2. /\ \A ix \in 1 .. Len(a) : a[ix] \in StartCodes(w) /\ AllNals(w)[ix] = NalAt(w, a[ix])
        /\ Len(AllNals(w)) = Len(a)
    BY <1>1, AllNalsFacts
  <1>3. /\ \A ix \in 1 .. Len(b) : AllNals(s)[ix] = NalAt(s, b[ix])
        /\ Len(AllNals(s)) = Len(b) /\ Lists(b, StartCodes(s), Len(s))
    BY <1>1, AllNalsFacts
  <1> HIDE DEF a, b
  <1>4. a[k] \in StartCodes(w) /\ AllNals(w)[k] = NalAt(w, a[k]) BY <1>2
  <1>5. a[k] \in StartCodes(s) /\ Beginning(NalAt(w, a[k]), NalAt(s, a[k]))
    BY <1>4, NalOfBeginning
  <1>6. a[k] \in 1 .. Len(s)
    <2>1. a[k] \in 1 .. Len(s) - 2 BY <1>5 DEF StartCodes
    <2> QED BY <1>1, <2>1
  <1>7. PICK j \in 1 .. Len(b) : b[j] = a[k] BY <1>3, <1>5, <1>6 DEF Lists
  <1>8. j \in 1 .. Len(AllNals(s)) /\ AllNals(s)[j] = NalAt(s, a[k]) BY <1>3, <1>7
  <1> QED BY <1>4, <1>5, <1>8

\* Without the header byte it is the beginning still.
LEMMA TailOfBeginning ==
  ASSUME NEW u, NEW n, Beginning(u, n), u # <<>>
  PROVE  Beginning(Tail(u), Tail(n)) /\ n # <<>> /\ u[1] = n[1]
  <1>1. /\ u \in Seq(Byte) /\ n \in Seq(Byte) /\ Len(u) <= Len(n)
        /\ \A k \in 1 .. Len(u) : u[k] = n[k]
        /\ Len(u) \in Nat /\ Len(n) \in Nat
    BY LenProperties DEF Beginning
  <1>2. Len(u) > 0 BY <1>1, EmptySeq
  <1>3. n # <<>>
    <2>1. Len(n) # 0 BY <1>1, <1>2
    <2> QED BY <1>1, <2>1, EmptySeq
  <1>4. /\ Tail(u) \in Seq(Byte) /\ Len(Tail(u)) = Len(u) - 1
        /\ \A k \in 1 .. Len(Tail(u)) : Tail(u)[k] = u[k + 1]
    BY <1>1, HeadTailProperties
  <1>5. /\ Tail(n) \in Seq(Byte) /\ Len(Tail(n)) = Len(n) - 1
        /\ \A k \in 1 .. Len(Tail(n)) : Tail(n)[k] = n[k + 1]
    BY <1>1, <1>3, HeadTailProperties
  <1>6. ASSUME NEW k \in 1 .. Len(Tail(u)) PROVE Tail(u)[k] = Tail(n)[k]
    <2>1. k \in 1 .. Len(Tail(n)) /\ k + 1 \in 1 .. Len(u) BY <1>1, <1>4, <1>5
    <2> QED BY <1>1, <1>4, <1>5, <2>1
  <1>7. Len(Tail(u)) <= Len(Tail(n)) BY <1>1, <1>4, <1>5
  <1>8. u[1] = n[1]
    <2>1. 1 \in 1 .. Len(u) BY <1>1, <1>2
    <2> QED BY <1>1, <2>1
  <1> QED BY <1>3, <1>4, <1>5, <1>6, <1>7, <1>8 DEF Beginning

\* Nor does it matter for the beginning which emulation prevention bytes follow.
LEMMA DeescapeBeginning ==
  ASSUME NEW u, NEW n, Beginning(u, n)
  PROVE  Beginning(Deescape(u), Deescape(n))
  <1> DEFINE m == Len(u)
             l == Len(n)
             F == [k \in Nat |-> SubSeq(n, 1, k)]
             D == {k \in Nat : m + k <= l => Beginning(Deescape(u), Deescape(F[m + k]))}
  <1>1. /\ u \in Seq(Byte) /\ n \in Seq(Byte) /\ m <= l /\ m \in Nat /\ l \in Nat
        /\ \A k \in 1 .. m : u[k] = n[k]
        /\ \A k \in 1 .. l : n[k] \in Byte
    BY LenProperties, ElementOfSeq DEF Beginning
  <1> HIDE DEF m, l
  <1>2. ASSUME NEW k \in 0 .. l
        PROVE  F[k] \in Seq(Byte) /\ Len(F[k]) = k /\ \A ix \in 1 .. k : F[k][ix] = n[ix]
    <2>1. k \in Int /\ k \in Nat /\ 1 \in Nat /\ 1 > 0 BY <1>1
    <2> DEFINE x == SubSeq(n, 1, k)
    <2>2. /\ x \in Seq(Byte) /\ Len(x) = IF 1 <= k THEN k - 1 + 1 ELSE 0
          /\ \A ix \in 1 .. Len(x) : x[ix] = n[1 + ix - 1]
      <3>1. k <= Len(n) BY <1>1 DEF l
      <3> QED BY <1>1, <2>1, <3>1, PartOf
    <2>3. F[k] = x BY <2>1
    <2> HIDE DEF x, F
    <2>4. Len(x) = k BY <2>1, <2>2
    <2>5. \A ix \in 1 .. k : 1 + ix - 1 = ix BY <2>1
    <2> QED BY <2>2, <2>3, <2>4, <2>5
  <1>3. F[m] = u
    <2>1. m \in 0 .. l BY <1>1
    <2>2. F[m] \in Seq(Byte) /\ Len(F[m]) = m /\ \A ix \in 1 .. m : F[m][ix] = n[ix] BY <1>2, <2>1
    <2> HIDE DEF F
    <2> QED BY <1>1, <2>2, SeqEqual DEF m
  <1>4. F[l] = n
    <2>1. l \in 0 .. l BY <1>1
    <2>2. F[l] \in Seq(Byte) /\ Len(F[l]) = l /\ \A ix \in 1 .. l : F[l][ix] = n[ix] BY <1>2, <2>1
    <2> HIDE DEF F
    <2> QED BY <1>1, <2>2, SeqEqual DEF l
  <1> HIDE DEF F
  <1>5. 0 \in Byte BY DEF Byte
  <1>6. \A d \in Seq(Byte) : Deescape(d) \in Seq(Byte) BY <1>5, DeescapeAppend
  <1>7. 0 \in D
    <2>1. Deescape(u) \in Seq(Byte) /\ Len(Deescape(u)) \in Nat BY <1>1, <1>6, LenProperties
    <2>2. Beginning(Deescape(u), Deescape(u)) BY <2>1 DEF Beginning
    <2>3. m + 0 = m BY <1>1
    <2> QED BY <1>3, <2>2, <2>3
  <1>8. ASSUME NEW k \in Nat, k \in D PROVE k + 1 \in D
    <2> SUFFICES ASSUME m + (k + 1) <= l PROVE Beginning(Deescape(u), Deescape(F[m + (k + 1)]))
      OBVIOUS
    <2> DEFINE p == m + k
    <2>1. /\ p \in Nat /\ p \in 0 .. l /\ p + 1 \in 1 .. l /\ p + 1 \in 0 .. l /\ p <= l
          /\ m + (k + 1) = p + 1
      BY <1>1
    <2>2. Beginning(Deescape(u), Deescape(F[p])) BY <1>8, <2>1
    <2> HIDE DEF p
    <2>3. /\ F[p] \in Seq(Byte) /\ Len(F[p]) = p /\ \A ix \in 1 .. p : F[p][ix] = n[ix]
          /\ F[p + 1] \in Seq(Byte) /\ Len(F[p + 1]) = p + 1
          /\ \A ix \in 1 .. p + 1 : F[p + 1][ix] = n[ix]
          /\ n[p + 1] \in Byte
      BY <1>1, <1>2, <2>1
    <2> DEFINE x == Append(F[p], n[p + 1])
    <2>4. /\ x \in Seq(Byte) /\ Len(x) = p + 1 /\ x[p + 1] = n[p + 1]
          /\ \A ix \in 1 .. p : x[ix] = F[p][ix]
      BY <2>3, AppendProperties
    <2> HIDE DEF x
    <2>5. \A ix \in 1 .. p + 1 : x[ix] = F[p + 1][ix]
      <3> SUFFICES ASSUME NEW ix \in 1 .. p + 1 PROVE x[ix] = F[p + 1][ix] OBVIOUS
      <3>1. ix = p + 1 \/ ix \in 1 .. p BY <2>1
      <3> QED BY <2>3, <2>4, <3>1
    <2>6. F[p + 1] = x BY <2>3, <2>4, <2>5, SeqEqual
    <2>7. Deescape(x) = Deescape(F[p]) \/ Deescape(x) = Append(Deescape(F[p]), n[p + 1])
      BY <2>3, DeescapeAppend DEF x
    <2>8. CASE Deescape(x) = Deescape(F[p]) BY <2>1, <2>2, <2>6, <2>8
    <2>9. CASE Deescape(x) = Append(Deescape(F[p]), n[p + 1])
      <3> DEFINE e == Deescape(F[p])
                 z == Append(e, n[p + 1])
                 v == Deescape(u)
      <3>1. e \in Seq(Byte) /\ v \in Seq(Byte) BY <1>1, <1>6, <2>3
      <3>2. Beginning(v, e) BY <2>2
      <3> HIDE DEF e, v
      <3>3. /\ z \in Seq(Byte) /\ Len(z) = Len(e) + 1 /\ Len(e) \in Nat /\ Len(v) \in Nat
            /\ \A ix \in 1 .. Len(e) : z[ix] = e[ix]
        BY <2>3, <3>1, AppendProperties, LenProperties
      <3> HIDE DEF z
      <3>4. Len(v) <= Len(e) /\ \A ix \in 1 .. Len(v) : v[ix] = e[ix] BY <3>2 DEF Beginning
      <3>5. Len(v) <= Len(z) BY <3>3, <3>4
      <3>6. ASSUME NEW ix \in 1 .. Len(v) PROVE v[ix] = z[ix]
        <4>1. ix \in 1 .. Len(e) BY <3>3, <3>4
        <4> QED BY <3>3, <3>4, <4>1
      <3>7. Beginning(v, z) BY <3>1, <3>3, <3>5, <3>6 DEF Beginning
      <3> QED BY <2>1, <2>6, <2>9, <3>7 DEF e, v, z
    <2> QED BY <2>7, <2>8, <2>9
  <1> HIDE DEF D
  <1>9. Nat \subseteq D BY <1>7, <1>8, NatInd
  <1>10. l - m \in Nat /\ m + (l - m) = l BY <1>1
  <1>11. \A k \in D : m + k <= l => Beginning(Deescape(u), Deescape(F[m + k])) BY DEF D
  <1>12. l - m \in D /\ m + (l - m) <= l BY <1>1, <1>9, <1>10
  <1>13. Beginning(Deescape(u), Deescape(F[m + (l - m)])) BY <1>11, <1>12
  <1> QED BY <1>4, <1>10, <1>13

\* What is left of a header when the stream is cut off reads like the whole of it, as far
\* as it is there.
LEMMA ReaderOfBeginning ==
  ASSUME NEW u, NEW n, Beginning(u, n), u # <<>>, NEW p \in Nat
  PROVE  /\ ReaderOf(u, p) \in Reader /\ ReaderOf(n, p) \in Reader
         /\ ReaderOf(u, p).past = ReaderOf(n, p).past
         /\ \A y \in Nat : y < 8 * Len(ReaderOf(u, p).buf) =>
              BitAt(ReaderOf(u, p), y) = BitAt(ReaderOf(n, p), y)
  <1> DEFINE c == Deescape(Tail(u))
             d == Deescape(Tail(n))
             b1 == ReaderOf(u, p)
             b2 == ReaderOf(n, p)
  <1>1. b1 = [buf |-> c, past |-> p] /\ b2 = [buf |-> d, past |-> p] BY DEF ReaderOf
  <1>2. Beginning(c, d) BY TailOfBeginning, DeescapeBeginning
  <1> HIDE DEF c, d, b1, b2
  <1>3. /\ c \in Seq(Byte) /\ d \in Seq(Byte) /\ Len(c) <= Len(d)
        /\ \A k \in 1 .. Len(c) : c[k] = d[k]
        /\ Len(c) \in Nat /\ Len(d) \in Nat
    BY <1>2, LenProperties DEF Beginning
  <1>4. /\ b1 \in Reader /\ b2 \in Reader /\ b1.past = b2.past /\ b1.buf = c /\ b2.buf = d
    BY <1>1, <1>3 DEF Reader
  <1>5. ASSUME NEW y \in Nat, y < 8 * Len(c) PROVE BitAt(b1, y) = BitAt(b2, y)
    <2> DEFINE k == y \div 8 + 1
               r == y % 8
    <2>1. k \in 1 .. Len(c) /\ y < 8 * Len(d)
      <3>1. y \div 8 \in Nat /\ 8 * (y \div 8) <= y OBVIOUS
      <3> HIDE DEF r
      <3> QED BY <1>3, <1>5, <3>1
    <2>2. BitAt(b1, y) = (c[k] \div Pow2[7 - r]) % 2 BY <1>4, <1>5 DEF BitAt
    <2>3. BitAt(b2, y) = (d[k] \div Pow2[7 - r]) % 2 BY <1>4, <2>1 DEF BitAt
    <2> HIDE DEF k, r
    <2> QED BY <1>3, <2>1, <2>2, <2>3
  <1> QED BY <1>4, <1>5 DEF b1, b2

\* What a NAL unit that was written can be.
Built == {NalUnit("sps"), NalUnit("pps"), NalUnit("idr"), NalUnit("sei"), <<>>}

\* NAL units are written from a picture; what is found of them in the stream is how they
\* begin; an SPS that is taken is the one that was written, also where its stream is cut off.
WrittenInv ==
    /\ \A k \in 1 .. Len(written) : written[k] \in Built
    /\ Given.framing = "annexb" =>
         \A k \in 1 .. Len(AllNals(stream)) : \E j \in 1 .. Len(written) :
             Beginning(AllNals(stream)[k], written[j])
    /\ pc \in {"write", "split"} => ~sps.ok /\ ~pps.ok
    /\ Given.framing = "annexb" /\ sps.ok => sps = SpsRead

\* What is found in a whole stream is what there is; nothing was rejected that is supported.
Passed ==
    /\ pps.ok => pps = PpsRead
    /\ sps.ok => \E k \in 1 .. Len(nals) : nals[k].type = 7
    /\ pps.ok => \E k \in 1 .. Len(nals) : nals[k].type = 8
    /\ idr # 0 => nals[idr].type = 5
    /\ pc = "scan" =>
         \A k \in 1 .. i - 1 : /\ nals[k].type = 7 => sps.ok
                               /\ nals[k].type = 8 => pps.ok
                               /\ nals[k].type = 5 => idr # 0
    /\ pc = "accepted" =>
         /\ slice.ok /\ slice = SliceRead
         /\ offset = (8 + EscapedBitOffset(nals[idr].data, slice.bits)) % Pow2[16]
    /\ pc = "rejected" => ~(Supported /\ Complete)

HeaderInv == WrittenInv /\ (cut = 0 /\ Given.framing = "annexb" => Passed)

\* The header byte says which it is.
LEMMA KindOf ==
  ASSUME PictureFields(pic), NEW n \in Built, n # <<>>
  PROVE  /\ n[1] % 32 = 7 => n = NalUnit("sps")
         /\ n[1] % 32 = 8 => n = NalUnit("pps")
         /\ n[1] % 32 = 5 => n = NalUnit("idr") /\ n[1] \div 32 = 3
  <1>1. NalUnit("sps")[1] = 103 /\ NalUnit("pps")[1] = 104 /\ NalUnit("idr")[1] = 101
    BY NalUnitsAreClean
  <1>2. NalUnit("sei")[1] = 6 BY DEF NalUnit
  <1>3. /\ 103 % 32 = 7 /\ 104 % 32 = 8 /\ 101 % 32 = 5 /\ 6 % 32 = 6 /\ 101 \div 32 = 3
    OBVIOUS
  <1>4. \/ n = NalUnit("sps") /\ n[1] % 32 = 7
        \/ n = NalUnit("pps") /\ n[1] % 32 = 8
        \/ n = NalUnit("idr") /\ n[1] % 32 = 5 /\ n[1] \div 32 = 3
        \/ n[1] % 32 = 6
    <2>1. CASE n = NalUnit("sps") BY <1>1, <1>3, <2>1
    <2>2. CASE n = NalUnit("pps") BY <1>1, <1>3, <2>2
    <2>3. CASE n = NalUnit("idr") BY <1>1, <1>3, <2>3
    <2>4. CASE n = NalUnit("sei") BY <1>2, <1>3, <2>4
    <2> QED BY <2>1, <2>2, <2>3, <2>4 DEF Built
  <1> QED BY <1>4

\* What is found begins as something that was written.
LEMMA FoundNals ==
  ASSUME Inv, WrittenInv, pc \notin {"write", "split"}, Given.framing = "annexb",
         NEW k \in 1 .. Len(nals)
  PROVE  \E u, n : /\ Beginning(u, n) /\ u # <<>> /\ n \in Built
                   /\ nals[k].data = Tail(u) /\ nals[k].type = u[1] % 32
  <1> DEFINE a == AllNals(stream)
             b == NonEmpty(a)
             f == FirstNals(b)
  <1>1. stream \in Seq(Byte) /\ nals = ExtractNals(stream) BY DEF Inv, TypeInv, StreamInv
  <1>2. a \in Seq(Seq(Byte)) BY <1>1, AllNalsFacts
  <1>3. nals = Nals(f) BY <1>1 DEF ExtractNals
  <1> HIDE DEF a
  <1>4. b \in Seq(Seq(Byte)) /\ Len(b) \in Nat
        /\ \A ix \in 1 .. Len(b) : b[ix] # <<>> /\ \E j \in 1 .. Len(a) : b[ix] = a[j]
    BY <1>2, NonEmptyFacts
  <1> HIDE DEF b
  <1>5. f \in Seq(Seq(Byte)) /\ Len(f) \in Nat /\ Len(f) <= Len(b)
        /\ \A ix \in 1 .. Len(f) : f[ix] = b[ix]
    BY <1>4, FirstNalsFacts
  <1> HIDE DEF f
  <1>6. \A ix \in 1 .. Len(f) : f[ix] # <<>> /\ \E j \in 1 .. Len(a) : f[ix] = a[j]
    <2> SUFFICES ASSUME NEW ix \in 1 .. Len(f)
                 PROVE  f[ix] # <<>> /\ \E j \in 1 .. Len(a) : f[ix] = a[j]
      OBVIOUS
    <2>1. ix \in 1 .. Len(b) /\ f[ix] = b[ix] BY <1>4, <1>5
    <2> QED BY <1>4, <2>1
  <1>7. Len(nals) = Len(f) /\ nals[k].type = f[k][1] % 32 /\ nals[k].data = Tail(f[k])
    <2>1. /\ Len(Nals(f)) = Len(f)
          /\ \A ix \in 1 .. Len(f) : Nals(f)[ix].type = f[ix][1] % 32
                                     /\ Nals(f)[ix].data = Tail(f[ix])
      BY <1>5, <1>6, NalsFacts
    <2> QED BY <1>3, <2>1
  <1>8. PICK j \in 1 .. Len(a) : f[k] = a[j] BY <1>6, <1>7
  <1>9. PICK l \in 1 .. Len(written) : Beginning(a[j], written[l]) BY <1>8 DEF WrittenInv, a
  <1>10. written[l] \in Built /\ f[k] # <<>> BY <1>6, <1>7 DEF WrittenInv
  <1> QED BY <1>7, <1>8, <1>9, <1>10

\* The parsers of a whole stream are given what was written.
LEMMA WholeNals ==
  ASSUME Inv, WrittenInv, pc \notin {"write", "split"}, cut = 0, Given.framing = "annexb",
         NEW k \in 1 .. Len(nals)
  PROVE  /\ nals[k].type = 7 => Rbsp(k) = ReaderOf(NalUnit("sps"), past)
         /\ nals[k].type = 8 => Rbsp(k) = ReaderOf(NalUnit("pps"), past)
         /\ nals[k].type = 5 => /\ Rbsp(k) = ReaderOf(NalUnit("idr"), past)
                                /\ nals[k].ref = 3 /\ nals[k].data = Tail(NalUnit("idr"))
  <1>1. /\ k \in 1 .. Len(Taken) /\ Taken[k] # <<>>
        /\ \E j \in 1 .. Len(written) : Taken[k] = written[j]
        /\ nals[k].data = Tail(Taken[k])
        /\ nals[k].type = Taken[k][1] % 32 /\ nals[k].ref = Taken[k][1] \div 32
    BY WholeStream
  <1>2. Taken[k] \in Built BY <1>1 DEF WrittenInv
  <1>3. PictureFields(pic) BY InputFacts DEF Inv, TypeInv
  <1>4. Rbsp(k) = ReaderOf(Taken[k], past) BY <1>1 DEF Rbsp, ReaderOf
  <1> QED BY <1>1, <1>2, <1>3, <1>4, KindOf

\* Whatever there is of the stream, an SPS that is taken is the one that was written.
LEMMA SpsTaken ==
  ASSUME Inv, WrittenInv, pc \notin {"write", "split"}, Given.framing = "annexb",
         NEW k \in 1 .. Len(nals), nals[k].type = 7, ParseSps(Rbsp(k)).ok
  PROVE  ParseSps(Rbsp(k)) = SpsRead
  <1>1. PICK u, n : /\ Beginning(u, n) /\ u # <<>> /\ n \in Built
                    /\ nals[k].data = Tail(u) /\ nals[k].type = u[1] % 32
    BY FoundNals
  <1>2. n # <<>> /\ u[1] = n[1] BY <1>1, TailOfBeginning
  <1>3. PictureFields(pic) /\ past \in Nat BY InputFacts DEF Inv, TypeInv
  <1>4. n = NalUnit("sps") BY <1>1, <1>2, <1>3, KindOf
  <1>5. Rbsp(k) = ReaderOf(u, past) BY <1>1 DEF Rbsp, ReaderOf
  <1>6. /\ ReaderOf(u, past) \in Reader /\ ReaderOf(n, past) \in Reader
        /\ ReaderOf(u, past).past = ReaderOf(n, past).past
        /\ \A y \in Nat : y < 8 * Len(ReaderOf(u, past).buf) =>
             BitAt(ReaderOf(u, past), y) = BitAt(ReaderOf(n, past), y)
    BY <1>1, <1>3, ReaderOfBeginning
  <1>7. ParseSps(ReaderOf(u, past)).ok BY <1>5
  <1>8. ParseSps(ReaderOf(n, past)) = ParseSps(ReaderOf(u, past)) BY <1>6, <1>7, SpsSame
  <1>9. ParseSps(ReaderOf(NalUnit("sps"), past)) = SpsRead BY <1>3, MirrorImage
  <1> QED BY <1>4, <1>5, <1>8, <1>9

\* What is written of a picture, and what is to be read, stays with the picture.
LEMMA PictureStays ==
  ASSUME pic' = pic
  PROVE  /\ \A kind : NalUnit(kind)' = NalUnit(kind)
         /\ Built' = Built /\ SpsRead' = SpsRead /\ PpsRead' = PpsRead /\ SliceRead' = SliceRead
  <1>1. PocFields' = PocFields /\ SliceGroups' = SliceGroups /\ PocLsb' = PocLsb
    BY DEF PocFields, SliceGroups, PocLsb
  <1>2. SpsBits' = SpsBits /\ PpsBits' = PpsBits /\ SliceBits' = SliceBits
    BY <1>1 DEF SpsBits, PpsBits, SliceBits
  <1>3. \A kind : NalUnit(kind)' = NalUnit(kind) BY <1>2 DEF NalUnit
  <1>4. Built' = Built BY <1>3 DEF Built
  <1>5. SpsRead' = SpsRead /\ PpsRead' = PpsRead BY DEF SpsRead, PpsRead
  <1>6. SliceRead' = SliceRead BY <1>2 DEF SliceRead
  <1> QED BY <1>3, <1>4, <1>5, <1>6

\* Before the loop over the NAL units nothing has passed it.
LEMMA EarlyPassed ==
  ASSUME Inv, WrittenInv, pc \in {"write", "split"}, pc' \in {"write", "split", "scan"},
         sps' = sps, pps' = pps, idr' = idr, i' = i
  PROVE  Passed' /\ ~sps'.ok /\ ~pps'.ok
  <1>1. ~sps.ok /\ ~pps.ok BY DEF WrittenInv
  <1>2. nals = <<>> /\ i = 1 /\ idr \in 0 .. Len(nals) BY DEF Inv, StreamInv, TypeInv
  <1>3. Len(nals) = 0 BY <1>2
  <1>4. idr' = 0 /\ i' - 1 = 0 /\ ~sps'.ok /\ ~pps'.ok BY <1>1, <1>2, <1>3
  <1>5. pc' # "accepted" /\ pc' # "rejected" OBVIOUS
  <1>6. \A k \in 1 .. i' - 1 : FALSE BY <1>4
  <1> QED BY <1>4, <1>5, <1>6 DEF Passed

\* At first nothing is written.
LEMMA InitHeaders == ASSUME Init PROVE HeaderInv
  <1>1. /\ written = <<>> /\ stream = <<>> /\ nals = <<>> /\ pc = "write" /\ i = 1 /\ idr = 0
        /\ sps = No /\ pps = No
    BY DEF Init
  <1>2. ~sps.ok /\ ~pps.ok BY <1>1 DEF No
  <1>3. AllNals(stream) = <<>>
    <2>1. <<>> \in Seq(Byte) /\ StartCodes(<<>>) = {} BY DEF StartCodes
    <2> QED BY <1>1, <2>1, NoStartCodeNoNal
  <1>4. \A k \in 1 .. 0 : FALSE OBVIOUS
  <1>5. Len(<<>>) = 0 /\ i - 1 = 0 BY <1>1
  <1>6. WrittenInv BY <1>1, <1>2, <1>3, <1>4, <1>5 DEF WrittenInv
  <1>7. Passed BY <1>1, <1>2, <1>4, <1>5 DEF Passed
  <1> QED BY <1>6, <1>7 DEF HeaderInv

\* What is written was built from the picture.
LEMMA EmitHeaders ==
  ASSUME Inv, Inv', HeaderInv, NEW kind, Emit(kind)
  PROVE  HeaderInv'
  <1> DEFINE n == NalUnit(kind)
  <1>1. /\ pc = "write" /\ pc' = pc /\ cut' = cut /\ i' = i /\ idr' = idr
        /\ sps' = sps /\ pps' = pps /\ scenario' = scenario /\ pic' = pic
        /\ written' = Append(written, n)
    BY DEF Emit, input
  <1>2. Given' = Given /\ Built' = Built BY <1>1, PictureStays DEF Given
  <1>3. WrittenInv BY DEF HeaderInv
  <1>4. written \in Seq(Seq(Byte)) /\ written' \in Seq(Seq(Byte)) BY DEF Inv, TypeInv
  <1>5. n \in Built /\ n \in Seq(Byte)
    <2>1. n \in Built BY DEF Built, NalUnit
    <2>2. PictureFields(pic) BY InputFacts DEF Inv, TypeInv
    <2>3. Clean(n) BY <2>2, NalUnitsAreClean
    <2> QED BY <2>1, <2>3 DEF Clean
  <1> HIDE DEF n
  <1>6. /\ Len(written') = Len(written) + 1 /\ Len(written) \in Nat
        /\ written'[Len(written) + 1] = n
        /\ \A k \in 1 .. Len(written) : written'[k] = written[k]
    BY <1>1, <1>4, <1>5, AppendProperties, LenProperties
  <1>7. \A k \in 1 .. Len(written') : written'[k] \in Built'
    <2> SUFFICES ASSUME NEW k \in 1 .. Len(written') PROVE written'[k] \in Built BY <1>2
    <2>1. k = Len(written) + 1 \/ k \in 1 .. Len(written) BY <1>6
    <2>2. CASE k = Len(written) + 1 BY <1>5, <1>6, <2>2
    <2>3. CASE k \in 1 .. Len(written) BY <1>3, <1>6, <2>3 DEF WrittenInv
    <2> QED BY <2>1, <2>2, <2>3
  <1>8. ASSUME Given'.framing = "annexb"
        PROVE  \A k \in 1 .. Len(AllNals(stream')) : \E j \in 1 .. Len(written') :
                   Beginning(AllNals(stream')[k], written'[j])
    <2>1. cut' = 0 BY <1>1 DEF Inv, StreamInv
    <2>2. AllNals(stream') = written' BY <1>8, <2>1 DEF Inv, StreamInv
    <2> SUFFICES ASSUME NEW k \in 1 .. Len(written') PROVE Beginning(written'[k], written'[k])
      BY <2>2
    <2>3. written'[k] \in Seq(Byte) BY <1>4, ElementOfSeq
    <2>4. Len(written'[k]) \in Nat BY <2>3, LenProperties
    <2> QED BY <2>3, <2>4 DEF Beginning
  <1>9. Passed' /\ ~sps'.ok /\ ~pps'.ok BY <1>1, <1>3, EarlyPassed
  <1>10. WrittenInv' BY <1>7, <1>8, <1>9 DEF WrittenInv
  <1> QED BY <1>9, <1>10 DEF HeaderInv

\* A stream that is cut off is the beginning of one.
LEMMA RequestHeaders ==
  ASSUME Inv, Inv', HeaderInv, NEW c \in Given.cuts, Request(c)
  PROVE  HeaderInv'
  <1>1. /\ pc = "write" /\ pc' = "split" /\ i' = i /\ idr' = idr
        /\ sps' = sps /\ pps' = pps /\ scenario' = scenario /\ pic' = pic
        /\ written' = written
        /\ c < Len(stream) /\ stream' = SubSeq(stream, 1, Len(stream) - c)
    BY DEF Request, input
  <1>2. Given' = Given /\ Built' = Built BY <1>1, PictureStays DEF Given
  <1>3. WrittenInv BY DEF HeaderInv
  <1>4. stream \in Seq(Byte) /\ InputInv BY DEF Inv, TypeInv
  <1>5. c \in Nat /\ Len(stream) \in Nat BY <1>4, InputFacts, LenProperties
  <1> DEFINE m == Len(stream) - c
             w == SubSeq(stream, 1, m)
  <1>6. m \in Int /\ m <= Len(stream) /\ 1 <= m /\ m - 1 + 1 = m BY <1>1, <1>5
  <1>7. Beginning(stream', stream)
    <2>1. stream' = w BY <1>1
    <2> HIDE DEF m
    <2>2. /\ w \in Seq(Byte) /\ Len(w) = m - 1 + 1
          /\ \A k \in 1 .. Len(w) : w[k] = stream[1 + k - 1]
      <3>1. 1 \in Nat /\ 1 > 0 OBVIOUS
      <3> QED BY <1>4, <1>6, <3>1, PartOf
    <2> HIDE DEF w
    <2>3. \A k \in 1 .. Len(w) : 1 + k - 1 = k BY <1>6, <2>2
    <2> QED BY <1>4, <1>6, <2>1, <2>2, <2>3 DEF Beginning
  <1>8. ASSUME Given'.framing = "annexb"
        PROVE  \A k \in 1 .. Len(AllNals(stream')) : \E j \in 1 .. Len(written') :
                   Beginning(AllNals(stream')[k], written'[j])
    <2>1. cut = 0 BY <1>1 DEF Inv, StreamInv
    <2>2. AllNals(stream) = written BY <1>2, <1>8, <2>1 DEF Inv, StreamInv
    <2> QED BY <1>1, <1>7, <2>2, NalsOfBeginning
  <1>9. Passed' /\ ~sps'.ok /\ ~pps'.ok BY <1>1, <1>3, EarlyPassed
  <1>10. WrittenInv' BY <1>1, <1>2, <1>3, <1>8, <1>9 DEF WrittenInv
  <1> QED BY <1>9, <1>10 DEF HeaderInv

\* Splitting parses nothing.
LEMMA SplitHeaders ==
  ASSUME Inv, HeaderInv, Split
  PROVE  HeaderInv'
  <1>1. /\ pc = "split" /\ pc' = "scan" /\ i' = i /\ idr' = idr
        /\ sps' = sps /\ pps' = pps /\ scenario' = scenario /\ pic' = pic
        /\ written' = written /\ stream' = stream
    BY DEF Split, input
  <1>2. Given' = Given /\ Built' = Built BY <1>1, PictureStays DEF Given
  <1>3. WrittenInv BY DEF HeaderInv
  <1>4. Passed' /\ ~sps'.ok /\ ~pps'.ok BY <1>1, <1>3, EarlyPassed
  <1>5. WrittenInv' BY <1>1, <1>2, <1>3, <1>4 DEF WrittenInv
  <1> QED BY <1>4, <1>5 DEF HeaderInv

\* What a step of the loop over the NAL units leaves as it is.
LEMMA ScanStays ==
  ASSUME Inv, NEW type, At(type)
  PROVE  /\ pc = "scan" /\ i \in 1 .. Len(nals) /\ nals[i].type = type /\ i' - 1 = i
         /\ \A k \in 1 .. i' - 1 : k = i \/ k \in 1 .. i - 1
         /\ cut' = cut /\ nals' = nals /\ written' = written /\ stream' = stream
         /\ slice' = slice /\ offset' = offset /\ Given' = Given /\ Built' = Built
         /\ SpsRead' = SpsRead /\ PpsRead' = PpsRead /\ SliceRead' = SliceRead
         /\ Supported' = Supported /\ Complete' = Complete
         /\ PictureFields(pic) /\ past \in Nat
  <1>1. /\ pc = "scan" /\ i <= Len(nals) /\ i' = i + 1 /\ cut' = cut /\ nals' = nals
        /\ slice' = slice /\ offset' = offset /\ written' = written /\ stream' = stream
        /\ scenario' = scenario /\ pic' = pic /\ nals[i].type = type
    BY DEF At, input
  <1>2. Given' = Given BY <1>1 DEF Given
  <1>3. /\ Built' = Built /\ SpsRead' = SpsRead /\ PpsRead' = PpsRead /\ SliceRead' = SliceRead
    BY <1>1, PictureStays
  <1>4. Supported' = Supported /\ Complete' = Complete
    <2>1. Taken' = Taken BY <1>1 DEF Taken
    <2> QED BY <1>1, <2>1 DEF Supported, Complete
  <1>5. nals \in Seq(NalRecord) /\ i \in 1 .. Len(nals) + 1 BY DEF Inv, TypeInv
  <1>6. i \in 1 .. Len(nals) /\ i' - 1 = i
        /\ \A k \in 1 .. i' - 1 : k = i \/ k \in 1 .. i - 1
    <2>1. Len(nals) \in Nat BY <1>5, LenProperties
    <2> QED BY <1>1, <1>5, <2>1
  <1>7. PictureFields(pic) /\ past \in Nat BY InputFacts DEF Inv, TypeInv
  <1> QED BY <1>1, <1>2, <1>3, <1>4, <1>6, <1>7

\* The SPS of a whole stream is taken, unless it is not supported.
LEMMA ScanSpsHeaders ==
  ASSUME Inv, HeaderInv, ScanSps
  PROVE  HeaderInv'
  <1> DEFINE s == ParseSps(Rbsp(i))
  <1>1. At(7) /\ sps' = (IF sps.ok THEN sps ELSE s) /\ pps' = pps /\ idr' = idr
        /\ pc' = (IF sps'.ok THEN "scan" ELSE "rejected")
    BY DEF ScanSps
  <1>2. /\ pc = "scan" /\ i \in 1 .. Len(nals) /\ nals[i].type = 7 /\ i' - 1 = i
        /\ \A k \in 1 .. i' - 1 : k = i \/ k \in 1 .. i - 1
        /\ cut' = cut /\ nals' = nals /\ written' = written /\ stream' = stream
        /\ Given' = Given /\ Built' = Built
        /\ SpsRead' = SpsRead /\ PpsRead' = PpsRead
        /\ Supported' = Supported /\ Complete' = Complete
        /\ PictureFields(pic) /\ past \in Nat
    BY <1>1, ScanStays
  <1>3. WrittenInv /\ (cut = 0 /\ Given.framing = "annexb" => Passed) BY DEF HeaderInv
  <1>4. pc' \in {"scan", "rejected"} BY <1>1
  <1>5. Given.framing = "annexb" /\ sps'.ok => sps' = SpsRead
    <2>1. CASE sps.ok BY <1>1, <1>3, <2>1 DEF WrittenInv
    <2>2. CASE ~sps.ok
      <3>1. sps' = s BY <1>1, <2>2
      <3>2. Given.framing = "annexb" /\ s.ok => s = SpsRead BY <1>2, <1>3, SpsTaken
      <3> QED BY <3>1, <3>2
    <2> QED BY <2>1, <2>2
  <1>6. WrittenInv' BY <1>2, <1>3, <1>4, <1>5 DEF WrittenInv
  <1>7. ASSUME cut = 0, Given.framing = "annexb" PROVE Passed'
    <2>1. Passed BY <1>3, <1>7
    <2>2. ~sps.ok => s = SpsRead
      <3>1. Rbsp(i) = ReaderOf(NalUnit("sps"), past) BY <1>2, <1>3, <1>7, WholeNals
      <3> QED BY <1>2, <3>1, MirrorImage
    <2>3. pc' = "rejected" => ~Supported
      <3> SUFFICES ASSUME pc' = "rejected" PROVE ~Supported OBVIOUS
      <3>1. ~sps'.ok BY <1>1
      <3>2. ~SpsRead.ok BY <1>1, <2>2, <3>1
      <3>3. pic.sps.poc = 1 \/ pic.sps.mbsOnly = 0 BY <3>2 DEF SpsRead
      <3> QED BY <3>3 DEF Supported
    <2>4. sps.ok => sps'.ok BY <1>1
    <2>5. \E k \in 1 .. Len(nals) : nals[k].type = 7 BY <1>2
    <2>6. pc' = "scan" =>
            \A k \in 1 .. i' - 1 : /\ nals[k].type = 7 => sps'.ok
                                   /\ nals[k].type = 8 => pps.ok
                                   /\ nals[k].type = 5 => idr # 0
      <3> SUFFICES ASSUME pc' = "scan", NEW k \in 1 .. i' - 1
                   PROVE  /\ nals[k].type = 7 => sps'.ok
                          /\ nals[k].type = 8 => pps.ok
                          /\ nals[k].type = 5 => idr # 0
        OBVIOUS
      <3>1. sps'.ok BY <1>1
      <3>2. CASE k = i BY <1>2, <3>1, <3>2
      <3>3. CASE k \in 1 .. i - 1 BY <1>2, <2>1, <3>1, <3>3 DEF Passed
      <3> QED BY <1>2, <3>2, <3>3
    <2> QED BY <1>1, <1>2, <1>4, <2>1, <2>3, <2>5, <2>6 DEF Passed
  <1> QED BY <1>2, <1>6, <1>7 DEF HeaderInv

\* So is its PPS.
LEMMA ScanPpsHeaders ==
  ASSUME Inv, HeaderInv, ScanPps
  PROVE  HeaderInv'
  <1> DEFINE s == ParsePps(Rbsp(i))
  <1>1. At(8) /\ pps' = (IF pps.ok THEN pps ELSE s) /\ sps' = sps /\ idr' = idr
        /\ pc' = (IF pps'.ok THEN "scan" ELSE "rejected")
    BY DEF ScanPps
  <1>2. /\ pc = "scan" /\ i \in 1 .. Len(nals) /\ nals[i].type = 8 /\ i' - 1 = i
        /\ \A k \in 1 .. i' - 1 : k = i \/ k \in 1 .. i - 1
        /\ cut' = cut /\ nals' = nals /\ written' = written /\ stream' = stream
        /\ Given' = Given /\ Built' = Built
        /\ SpsRead' = SpsRead /\ PpsRead' = PpsRead
        /\ Supported' = Supported /\ Complete' = Complete
        /\ PictureFields(pic) /\ past \in Nat
    BY <1>1, ScanStays
  <1>3. WrittenInv /\ (cut = 0 /\ Given.framing = "annexb" => Passed) BY DEF HeaderInv
  <1>4. pc' \in {"scan", "rejected"} BY <1>1
  <1>5. WrittenInv' BY <1>1, <1>2, <1>3, <1>4 DEF WrittenInv
  <1>6. ASSUME cut = 0, Given.framing = "annexb" PROVE Passed'
    <2>1. Passed BY <1>3, <1>6
    <2>2. ~pps.ok => s = PpsRead
      <3>1. Rbsp(i) = ReaderOf(NalUnit("pps"), past) BY <1>2, <1>3, <1>6, WholeNals
      <3> QED BY <1>2, <3>1, MirrorImage
    <2>3. pc' = "rejected" => ~Supported
      <3> SUFFICES ASSUME pc' = "rejected" PROVE ~Supported OBVIOUS
      <3>1. ~pps'.ok BY <1>1
      <3>2. ~PpsRead.ok BY <1>1, <2>2, <3>1
      <3>3. pic.groups # 0 BY <3>2 DEF PpsRead
      <3> QED BY <3>3 DEF Supported
    <2>4. pps'.ok => pps' = PpsRead BY <1>1, <2>1, <2>2 DEF Passed
    <2>5. \E k \in 1 .. Len(nals) : nals[k].type = 8 BY <1>2
    <2>6. pc' = "scan" =>
            \A k \in 1 .. i' - 1 : /\ nals[k].type = 7 => sps.ok
                                   /\ nals[k].type = 8 => pps'.ok
                                   /\ nals[k].type = 5 => idr # 0
      <3> SUFFICES ASSUME pc' = "scan", NEW k \in 1 .. i' - 1
                   PROVE  /\ nals[k].type = 7 => sps.ok
                          /\ nals[k].type = 8 => pps'.ok
                          /\ nals[k].type = 5 => idr # 0
        OBVIOUS
      <3>1. pps'.ok BY <1>1
      <3>2. CASE k = i BY <1>2, <3>1, <3>2
      <3>3. CASE k \in 1 .. i - 1 BY <1>2, <2>1, <3>1, <3>3 DEF Passed
      <3> QED BY <1>2, <3>2, <3>3
    <2> QED BY <1>1, <1>2, <1>4, <2>1, <2>3, <2>4, <2>5, <2>6 DEF Passed
  <1> QED BY <1>2, <1>5, <1>6 DEF HeaderInv

\* So is its IDR slice; other NAL units are passed over.
LEMMA ScanOtherHeaders ==
  ASSUME Inv, HeaderInv, ScanIdr \/ ScanOther
  PROVE  HeaderInv'
  <1>1. PICK type \in 0 .. 31 :
          /\ At(type) /\ type \notin {7, 8}
          /\ type = 5 => idr' = (IF idr # 0 THEN idr ELSE i)
          /\ type # 5 => idr' = idr
    <2>1. CASE ScanIdr BY <2>1 DEF ScanIdr
    <2>2. CASE ScanOther
      <3>1. PICK t \in (0 .. 31) \ {5, 7, 8} : At(t) BY <2>2 DEF ScanOther
      <3>2. idr' = idr BY <2>2 DEF ScanOther
      <3> QED BY <3>1, <3>2
    <2> QED BY <2>1, <2>2
  <1>2. sps' = sps /\ pps' = pps /\ pc' = pc BY DEF ScanIdr, ScanOther
  <1>3. /\ pc = "scan" /\ i \in 1 .. Len(nals) /\ nals[i].type = type /\ i' - 1 = i
        /\ \A k \in 1 .. i' - 1 : k = i \/ k \in 1 .. i - 1
        /\ cut' = cut /\ nals' = nals /\ written' = written /\ stream' = stream
        /\ Given' = Given /\ Built' = Built
        /\ SpsRead' = SpsRead /\ PpsRead' = PpsRead
    BY <1>1, ScanStays
  <1>4. WrittenInv /\ (cut = 0 /\ Given.framing = "annexb" => Passed) BY DEF HeaderInv
  <1>5. WrittenInv' BY <1>2, <1>3, <1>4 DEF WrittenInv
  <1>6. ASSUME cut = 0, Given.framing = "annexb" PROVE Passed'
    <2>1. Passed BY <1>4, <1>6
    <2>2. (type = 5 => idr' # 0) /\ (idr # 0 => idr' # 0) BY <1>1, <1>3
    <2>3. idr' # 0 => nals[idr'].type = 5
      <3>1. idr' = idr \/ (idr' = i /\ type = 5) BY <1>1
      <3> QED BY <1>3, <2>1, <3>1 DEF Passed
    <2>4. \A k \in 1 .. i' - 1 : /\ nals[k].type = 7 => sps.ok
                                 /\ nals[k].type = 8 => pps.ok
                                 /\ nals[k].type = 5 => idr' # 0
      <3> SUFFICES ASSUME NEW k \in 1 .. i' - 1
                   PROVE  /\ nals[k].type = 7 => sps.ok
                          /\ nals[k].type = 8 => pps.ok
                          /\ nals[k].type = 5 => idr' # 0
        OBVIOUS
      <3>1. CASE k = i BY <1>1, <1>3, <2>2, <3>1
      <3>2. CASE k \in 1 .. i - 1 BY <1>3, <2>1, <2>2, <3>2 DEF Passed
      <3> QED BY <1>3, <3>1, <3>2
    <2> QED BY <1>2, <1>3, <2>1, <2>3, <2>4 DEF Passed
  <1> QED BY <1>3, <1>5, <1>6 DEF HeaderInv

\* The loop ends in rejection only when one of the three is not there.
LEMMA EndScanHeaders ==
  ASSUME Inv, HeaderInv, EndScan
  PROVE  HeaderInv'
  <1>1. /\ pc = "scan" /\ (i > Len(nals) \/ Found)
        /\ pc' = (IF Found THEN "slice" ELSE "rejected")
        /\ cut' = cut /\ nals' = nals /\ written' = written /\ stream' = stream
        /\ i' = i /\ sps' = sps /\ pps' = pps /\ idr' = idr
        /\ scenario' = scenario /\ pic' = pic
    BY DEF EndScan, input
  <1>2. Given' = Given /\ Taken' = Taken BY <1>1 DEF Given, Taken
  <1>3. /\ Built' = Built /\ SpsRead' = SpsRead /\ PpsRead' = PpsRead /\ SliceRead' = SliceRead
    BY <1>1, PictureStays
  <1>4. Supported' = Supported /\ Complete' = Complete
    BY <1>1, <1>2 DEF Supported, Complete
  <1>5. WrittenInv /\ (cut = 0 /\ Given.framing = "annexb" => Passed) BY DEF HeaderInv
  <1>6. pc = "scan" /\ pc' \in {"slice", "rejected"} BY <1>1 DEF EndScan
  <1>7. WrittenInv' BY <1>1, <1>2, <1>3, <1>5, <1>6 DEF WrittenInv
  <1>8. ASSUME cut = 0, Given.framing = "annexb" PROVE Passed'
    <2>1. Passed BY <1>5, <1>8
    <2>2. pc' = "rejected" => ~Complete
      <3> SUFFICES ASSUME pc' = "rejected", Complete PROVE FALSE OBVIOUS
      <3>1. ~Found /\ i > Len(nals) BY <1>1 DEF EndScan
      <3>2. /\ Len(nals) = Len(Taken) /\ Taken \in Seq(Seq(Byte)) /\ Len(nals) \in Nat
            /\ \A k \in 1 .. Len(Taken) : nals[k].type = Taken[k][1] % 32
        BY <1>6, <1>8, WholeStream
      <3>3. i - 1 = Len(nals)
        <4>1. i \in 1 .. Len(nals) + 1 BY DEF Inv, TypeInv
        <4> QED BY <3>1, <3>2, <4>1
      <3>4. DOMAIN Taken = 1 .. Len(nals) BY <3>2, LenProperties
      <3>5. ASSUME NEW t \in {5, 7, 8} PROVE \E k \in 1 .. i - 1 : nals[k].type = t
        <4>1. t \in {Taken[k][1] % 32 : k \in DOMAIN Taken} BY DEF Complete
        <4> QED BY <3>2, <3>3, <3>4, <4>1
      <3>6. \A k \in 1 .. i - 1 : /\ nals[k].type = 7 => sps.ok
                                  /\ nals[k].type = 8 => pps.ok
                                  /\ nals[k].type = 5 => idr # 0
        BY <1>6, <2>1 DEF Passed
      <3>7. sps.ok /\ pps.ok /\ idr # 0 BY <3>5, <3>6
      <3> QED BY <3>1, <3>7 DEF Found
    <2> QED BY <1>1, <1>3, <1>4, <1>6, <2>1, <2>2 DEF Passed
  <1> QED BY <1>1, <1>2, <1>7, <1>8 DEF HeaderInv

\* The slice header of a whole stream is taken, unless it is not supported.
LEMMA SliceHeaders ==
  ASSUME Inv, HeaderInv, Slice
  PROVE  HeaderInv'
  <1> DEFINE s == ParseSliceHeader(Rbsp(idr), nals[idr].ref, sps, pps)
  <1>1. /\ pc = "slice" /\ slice' = s
        /\ cut' = cut /\ nals' = nals /\ written' = written /\ stream' = stream
        /\ i' = i /\ sps' = sps /\ pps' = pps /\ idr' = idr
        /\ scenario' = scenario /\ pic' = pic
        /\ IF s.ok THEN /\ offset' = (8 + EscapedBitOffset(nals[idr].data, s.bits)) % Pow2[16]
                        /\ pc' = "accepted"
                   ELSE pc' = "rejected"
    BY DEF Slice, input
  <1>2. Given' = Given /\ Taken' = Taken BY <1>1 DEF Given, Taken
  <1>3. /\ Built' = Built /\ SpsRead' = SpsRead /\ PpsRead' = PpsRead /\ SliceRead' = SliceRead
    BY <1>1, PictureStays
  <1>4. Supported' = Supported /\ Complete' = Complete
    BY <1>1, <1>2 DEF Supported, Complete
  <1>5. WrittenInv /\ (cut = 0 /\ Given.framing = "annexb" => Passed) BY DEF HeaderInv
  <1>6. pc' \in {"accepted", "rejected"} BY <1>1
  <1>7. WrittenInv' BY <1>1, <1>2, <1>3, <1>5, <1>6 DEF WrittenInv
  <1>8. ASSUME cut = 0, Given.framing = "annexb" PROVE Passed'
    <2>1. Passed BY <1>5, <1>8
    <2>2. PictureFields(pic) /\ past \in Nat BY InputFacts DEF Inv, TypeInv
    <2>3. sps.ok /\ pps.ok /\ idr # 0 /\ idr \in 1 .. Len(nals)
      <3>1. Found BY <1>1 DEF Inv, StreamInv
      <3>2. nals \in Seq(NalRecord) /\ idr \in 0 .. Len(nals) BY DEF Inv, TypeInv
      <3>3. Len(nals) \in Nat BY <3>2, LenProperties
      <3> QED BY <3>1, <3>2, <3>3 DEF Found
    <2>4. sps = SpsRead /\ pps = PpsRead /\ nals[idr].type = 5
      BY <1>5, <1>8, <2>1, <2>3 DEF WrittenInv, Passed
    <2>5. Rbsp(idr) = ReaderOf(NalUnit("idr"), past) /\ nals[idr].ref = 3
      BY <1>1, <1>5, <1>8, <2>3, <2>4, WholeNals
    <2>6. s = SliceRead BY <2>2, <2>3, <2>4, <2>5, MirrorImage
    <2>7. pc' = "rejected" => ~Supported
      <3> SUFFICES ASSUME pc' = "rejected" PROVE ~Supported OBVIOUS
      <3>1. ~SliceRead.ok BY <1>1, <2>6
      <3>2. pic.slice.type % 5 \notin {2, 4} \/ pic.pps.cabac = 1 BY <3>1 DEF SliceRead
      <3> QED BY <3>2 DEF Supported
    <2>8. pc' = "accepted" =>
            /\ slice'.ok /\ slice' = SliceRead
            /\ offset' = (8 + EscapedBitOffset(nals[idr].data, slice'.bits)) % Pow2[16]
      <3> HIDE DEF s
      <3> QED BY <1>1, <2>6
    <2> HIDE DEF s
    <2> QED BY <1>1, <1>3, <1>4, <1>6, <2>1, <2>7, <2>8 DEF Passed
  <1> HIDE DEF s
  <1> QED BY <1>1, <1>2, <1>7, <1>8 DEF HeaderInv

\* The invariant of the headers, for every scenario: what is taken of a request is what was
\* written of its picture, and what is not taken was not supported.
THEOREM HeadersInvariance == Spec => []HeaderInv
  <1>1. Init => HeaderInv BY InitHeaders
  <1>2. Inv /\ Inv' /\ HeaderInv /\ [Next]_vars => HeaderInv'
    <2> SUFFICES ASSUME Inv, Inv', HeaderInv, [Next]_vars PROVE HeaderInv' OBVIOUS
    <2>1. CASE \E kind \in Given.kinds : Emit(kind) BY <2>1, EmitHeaders
    <2>2. CASE \E c \in Given.cuts : Request(c) BY <2>2, RequestHeaders
    <2>3. CASE Split BY <2>3, SplitHeaders
    <2>4. CASE ScanSps BY <2>4, ScanSpsHeaders
    <2>5. CASE ScanPps BY <2>5, ScanPpsHeaders
    <2>6. CASE ScanIdr \/ ScanOther BY <2>6, ScanOtherHeaders
    <2>7. CASE EndScan BY <2>7, EndScanHeaders
    <2>8. CASE Slice BY <2>8, SliceHeaders
    <2>9. CASE UNCHANGED vars
      <3>1. /\ pc' = pc /\ cut' = cut /\ nals' = nals /\ written' = written /\ stream' = stream
            /\ i' = i /\ sps' = sps /\ pps' = pps /\ idr' = idr /\ slice' = slice
            /\ offset' = offset /\ scenario' = scenario /\ pic' = pic
        BY <2>9 DEF vars, input
      <3>2. Given' = Given /\ Taken' = Taken BY <3>1 DEF Given, Taken
      <3>3. /\ Built' = Built /\ SpsRead' = SpsRead /\ PpsRead' = PpsRead
            /\ SliceRead' = SliceRead
        BY <3>1, PictureStays
      <3>4. Supported' = Supported /\ Complete' = Complete
        BY <3>1, <3>2 DEF Supported, Complete
      <3>5. WrittenInv' = WrittenInv BY <3>1, <3>2, <3>3 DEF WrittenInv
      <3>6. Passed' = Passed BY <3>1, <3>3, <3>4 DEF Passed
      <3> QED BY <3>1, <3>2, <3>5, <3>6 DEF HeaderInv
    <2> QED BY <2>1, <2>2, <2>3, <2>4, <2>5, <2>6, <2>7, <2>8, <2>9 DEF Next
  <1> QED BY <1>1, <1>2, StreamInvariance, PTL DEF Spec

\* TakenIfSupported holds whatever the scenarios are: "in any order" an SPS, a PPS and an
\* IDR slice are taken, and only what the decoder supports of them.
THEOREM TakenExactlyIfSupported == Spec => []TakenIfSupported
  <1>1. Inv /\ HeaderInv => TakenIfSupported
    <2> SUFFICES ASSUME Inv, HeaderInv, cut = 0, Given.framing = "annexb"
                 PROVE  /\ pc = "accepted" => Supported /\ Complete
                        /\ pc = "rejected" => ~(Supported /\ Complete)
      BY DEF TakenIfSupported
    <2>1. WrittenInv /\ Passed BY DEF HeaderInv
    <2>2. ASSUME pc = "accepted" PROVE Supported /\ Complete
      <3>1. sps.ok /\ pps.ok /\ idr # 0 BY <2>2 DEF Inv, StreamInv, Found
      <3>2. sps = SpsRead /\ pps = PpsRead /\ slice.ok /\ slice = SliceRead
        BY <2>1, <2>2, <3>1 DEF WrittenInv, Passed
      <3>3. PictureFields(pic) BY InputFacts DEF Inv, TypeInv
      <3>4. pic.sps.poc # 1 /\ pic.sps.mbsOnly = 1
        <4>1. pic.sps.mbsOnly \in {0, 1} BY <3>3 DEF PictureFields, SpsFields
        <4>2. SpsRead.ok BY <3>1, <3>2
        <4> QED BY <4>1, <4>2 DEF SpsRead, No
      <3>5. pic.groups = 0
        <4>1. PpsRead.ok BY <3>1, <3>2
        <4> QED BY <4>1 DEF PpsRead, No
      <3>6. pic.slice.type % 5 \in {2, 4} /\ pic.pps.cabac = 0
        <4>1. pic.pps.cabac \in {0, 1} BY <3>3 DEF PictureFields, PpsFields
        <4>2. SliceRead.ok BY <3>2
        <4> QED BY <4>1, <4>2 DEF SliceRead, No
      <3>7. Supported BY <3>4, <3>5, <3>6 DEF Supported
      <3>8. /\ Len(nals) = Len(Taken) /\ Taken \in Seq(Seq(Byte)) /\ Len(nals) \in Nat
            /\ \A k \in 1 .. Len(Taken) : nals[k].type = Taken[k][1] % 32
        BY <2>2, WholeStream
      <3>9. DOMAIN Taken = 1 .. Len(nals) BY <3>8, LenProperties
      <3>10. ASSUME NEW t \in {5, 7, 8} PROVE \E k \in 1 .. Len(nals) : nals[k].type = t
        <4>1. idr \in 1 .. Len(nals)
          <5>1. idr \in 0 .. Len(nals) BY DEF Inv, TypeInv
          <5> QED BY <3>1, <3>8, <5>1
        <4> QED BY <2>1, <3>1, <4>1 DEF Passed
      <3>11. ASSUME NEW t \in {5, 7, 8} PROVE t \in {Taken[k][1] % 32 : k \in DOMAIN Taken}
        <4>1. PICK k \in 1 .. Len(nals) : nals[k].type = t BY <3>10
        <4>2. k \in DOMAIN Taken /\ Taken[k][1] % 32 = t BY <3>8, <3>9, <4>1
        <4> QED BY <4>2
      <3>12. Complete BY <3>11 DEF Complete
      <3> QED BY <3>7, <3>12
    <2>3. pc = "rejected" => ~(Supported /\ Complete) BY <2>1 DEF Passed
    <2> QED BY <2>2, <2>3
  <1> QED BY <1>1, StreamInvariance, HeadersInvariance, PTL

\* HeadersReadBack holds whatever the scenarios are: VA-API is given what was written into
\* the headers; of a stream that is cut off, at least what was written into the SPS.
THEOREM HeadersComeBack == Spec => []HeadersReadBack
  <1>1. Inv /\ HeaderInv /\ SplitsAsWritten => HeadersReadBack
    <2> SUFFICES ASSUME Inv, HeaderInv, SplitsAsWritten, pc = "accepted"
                 PROVE  HeadersReadBack
      BY DEF HeadersReadBack
    <2>1. Given.framing = "annexb"
      <3>1. Given.framing \in {"annexb", "bare"} BY InputFacts DEF Inv, TypeInv
      <3> QED BY <3>1 DEF SplitsAsWritten
    <2>2. sps.ok /\ pps.ok BY DEF Inv, StreamInv, Found
    <2>3. SpsRead.ok /\ sps = SpsRead BY <2>1, <2>2 DEF HeaderInv, WrittenInv
    <2>4. /\ sps.id = pic.sps.id /\ sps.log2 = pic.sps.log2 /\ sps.poc = pic.sps.poc
          /\ sps.refs = pic.sps.refs /\ sps.width = pic.sps.width
          /\ sps.height = pic.sps.height
          /\ sps.poc = 0 => sps.pocLog2 = pic.pocLog2
      BY <2>3 DEF SpsRead, No
    <2>5. \A f \in {"id", "log2", "poc", "refs", "width", "height"} : sps[f] = pic.sps[f]
      BY <2>4
    <2>6. ASSUME cut = 0
          PROVE  /\ \A f \in {"id", "spsId", "cabac", "l0", "qp", "deblocking"} :
                      pps[f] = pic.pps[f]
                 /\ \A f \in {"firstMb", "frameNum", "qpDelta"} : slice[f] = pic.slice[f]
                 /\ slice.type = pic.slice.type % 5
                 /\ sps.poc = 0 => sps.pocLog2 = pic.pocLog2 /\ slice.pocLsb = pic.pocLsb
      <3>1. Passed BY <2>1, <2>6 DEF HeaderInv
      <3>2. PpsRead.ok /\ pps = PpsRead /\ SliceRead.ok /\ slice = SliceRead
        BY <2>2, <3>1 DEF Passed
      <3>3. /\ pps.id = pic.pps.id /\ pps.spsId = pic.pps.spsId /\ pps.cabac = pic.pps.cabac
            /\ pps.l0 = pic.pps.l0 /\ pps.qp = pic.pps.qp
            /\ pps.deblocking = pic.pps.deblocking
        BY <3>2 DEF PpsRead, No
      <3>4. /\ slice.firstMb = pic.slice.firstMb /\ slice.frameNum = pic.slice.frameNum
            /\ slice.qpDelta = pic.slice.qpDelta /\ slice.type = pic.slice.type % 5
            /\ pic.sps.poc = 0 => slice.pocLsb = pic.pocLsb
        BY <3>2 DEF SliceRead, No
      <3>5. \A f \in {"id", "spsId", "cabac", "l0", "qp", "deblocking"} : pps[f] = pic.pps[f]
        BY <3>3
      <3>6. \A f \in {"firstMb", "frameNum", "qpDelta"} : slice[f] = pic.slice[f] BY <3>4
      <3> QED BY <2>4, <3>4, <3>5, <3>6
    <2> QED BY <2>5, <2>6 DEF HeadersReadBack
  <1> QED BY <1>1, StreamInvariance, HeadersInvariance, SplitsBack, PTL

\* At most every other byte is taken out: behind an emulation prevention byte the zeros
\* have to come anew.
LEMMA KeepsHalf ==
  ASSUME NEW e \in Seq(Byte)
  PROVE  Len(Deescape(e)) \in Nat /\ Len(e) <= 2 * Len(Deescape(e))
  <1> DEFINE P(d) == /\ Deescape(d) \in Seq(Byte) /\ Len(Deescape(d)) \in Nat
                     /\ Len(d) <= 2 * Len(Deescape(d))
                     /\ Len(d) > 0 /\ d[Len(d)] # 3 => Len(d) + 1 <= 2 * Len(Deescape(d))
             D == {n \in Nat : \A d \in Seq(Byte) : Len(d) = n => P(d)}
  <1>1. 0 \in D
    <2> SUFFICES ASSUME NEW d \in Seq(Byte), Len(d) = 0 PROVE P(d) OBVIOUS
    <2>1. d = <<>> BY EmptySeq
    <2>2. Deescape(d) = <<>> /\ <<>> \in Seq(Byte) /\ Len(<<>>) = 0 BY <2>1, DeescapeNothing
    <2> QED BY <2>2
  <1>2. ASSUME NEW n \in Nat, n \in D PROVE n + 1 \in D
    <2> SUFFICES ASSUME NEW d \in Seq(Byte), Len(d) = n + 1 PROVE P(d) OBVIOUS
    <2> DEFINE c == SubSeq(d, 1, n)
               x == d[n + 1]
    <2>1. c \in Seq(Byte) /\ Len(c) = n /\ x \in Byte /\ d = Append(c, x)
          /\ \A k \in 1 .. n : c[k] = d[k]
      <3>1. n + 1 \in 1 .. Len(d) /\ n \in 0 .. Len(d) OBVIOUS
      <3>2. \A k \in 1 .. Len(d) : d[k] \in Byte BY ElementOfSeq
      <3>3. \A k \in 1 .. n : d[k] \in Byte BY <3>2
      <3>4. c \in Seq(Byte) /\ Len(c) = n /\ \A k \in 1 .. n : c[k] = d[k]
        BY <3>3, SubSeqProperties
      <3>5. x \in Byte BY <3>1, <3>2
      <3> HIDE DEF c, x
      <3>6. /\ Append(c, x) \in Seq(Byte) /\ Len(Append(c, x)) = n + 1
            /\ Append(c, x)[n + 1] = x /\ \A k \in 1 .. n : Append(c, x)[k] = c[k]
        BY <3>4, <3>5, AppendProperties
      <3>7. \A k \in 1 .. n + 1 : d[k] = Append(c, x)[k]
        <4> SUFFICES ASSUME NEW k \in 1 .. n + 1 PROVE d[k] = Append(c, x)[k] OBVIOUS
        <4>1. k = n + 1 \/ k \in 1 .. n OBVIOUS
        <4> QED BY <3>4, <3>6, <4>1 DEF x
      <3>8. d = Append(c, x) BY <3>6, <3>7, SeqEqual
      <3> QED BY <3>4, <3>5, <3>8
    <2> HIDE DEF c, x
    <2>2. P(c) BY <1>2, <2>1
    <2>3. Deescape(d) = IF x = 3 /\ EndsInZeros(c) THEN Deescape(c) ELSE Append(Deescape(c), x)
      BY <2>1, DeescapeAppend
    <2>4. d[Len(d)] = x BY DEF x
    <2>5. CASE x = 3 /\ EndsInZeros(c)
      <3>1. Len(c) > 0 /\ c[Len(c)] # 3 BY <2>1, <2>5 DEF EndsInZeros
      <3> QED BY <2>1, <2>2, <2>3, <2>4, <2>5, <3>1
    <2>6. CASE ~(x = 3 /\ EndsInZeros(c))
      <3>1. Deescape(d) \in Seq(Byte) /\ Len(Deescape(d)) = Len(Deescape(c)) + 1
        BY <2>1, <2>2, <2>3, <2>6, AppendProperties
      <3> QED BY <2>1, <2>2, <3>1
    <2> QED BY <2>5, <2>6
  <1> HIDE DEF D
  <1>3. Nat \subseteq D BY <1>1, <1>2, NatInd
  <1>4. Len(e) \in Nat BY LenProperties
  <1>5. P(e) BY <1>3, <1>4 DEF D
  <1> QED BY <1>5

\* How long codes are.
LEMMA CodeLengths ==
  /\ \A v \in Codes : Len(PutUe(v)) \in 1 .. 61
  /\ \A v \in SignedCodes : Len(PutSe(v)) \in 1 .. 61
  <1>1. ASSUME NEW v \in Codes PROVE Len(PutUe(v)) \in 1 .. 61
    <2> DEFINE w == Width(v + 1)
               l == Len(PutUe(v))
    <2>1. w \in 1 .. 31 /\ l = 2 * w - 1 BY PutUeType
    <2> HIDE DEF w, l
    <2>2. l \in 1 .. 61 BY <2>1
    <2> QED BY <2>2 DEF l
  <1>2. ASSUME NEW v \in SignedCodes PROVE Len(PutSe(v)) \in 1 .. 61
    <2> DEFINE c == IF v <= 0 THEN 2 * (0 - v) ELSE 2 * v - 1
    <2>1. v \in Int /\ c \in Codes BY SMT DEF Codes, SignedCodes
    <2>2. PutSe(v) = PutUe(c)
      <3>1. v \in Int => -2 * v = 2 * (0 - v) BY SMT
      <3> QED BY <2>1, <3>1, SMT DEF PutSe
    <2> HIDE DEF c
    <2> QED BY <1>1, <2>1, <2>2
  <1> QED BY <1>1, <1>2

\* Bits, at least so many and at most so many.
Long(u, a, b) == u \in Bits /\ a <= Len(u) /\ Len(u) <= b

\* Lengths add up.
LEMMA JoinLong ==
  ASSUME NEW u, NEW v, NEW a \in Nat, NEW b \in Nat, NEW c \in Nat, NEW d \in Nat,
         Long(u, a, b), Long(v, c, d)
  PROVE  \A e, g \in Nat : e <= a + c /\ b + d <= g => Long(Join(u, v), e, g)
  <1> DEFINE m == Len(u)
             n == Len(v)
             l == Len(u \o v)
  <1>1. u \in Bits /\ v \in Bits /\ a <= m /\ m <= b /\ c <= n /\ n <= d BY DEF Long
  <1>2. u \o v \in Bits /\ l = m + n /\ m \in Nat /\ n \in Nat BY <1>1, MoreBits
  <1> HIDE DEF m, n, l
  <1>3. \A e, g \in Nat : e <= a + c /\ b + d <= g => e <= l /\ l <= g BY <1>1, <1>2
  <1> QED BY <1>2, <1>3 DEF Long, Join, l

\* The header of a slice is longer than the start code and the header byte, and short
\* enough for its end to be given in 16 bits.
LEMMA SliceLength ==
  ASSUME PictureFields(pic)
  PROVE  33 <= Len(SliceBits) /\ Len(SliceBits) <= 1000 /\ Len(SliceBits) \in Nat
  <1> DEFINE h == pic.slice
             on == pic.pps.deblocking = 1
             w0 == StartCodeAndNalHeader(3, 5)
             f == PutBits(h.frameNum, pic.sps.log2 + 4)
             filter == IF on THEN PutUe(h.disable) ELSE <<>>
             offsets == IF on /\ h.disable # 1 THEN Join(PutSe(0), PutSe(0)) ELSE <<>>
             z == <<0>>
             h1 == Join(w0, PutUe(h.firstMb))
             h2 == Join(h1, PutUe(h.type))
             h3 == Join(h2, PutUe(h.ppsId))
             h4 == Join(h3, f)
             h5 == Join(h4, PutUe(h.idrId))
             h6 == Join(h5, PocLsb)
             h7 == Join(h6, z)
             h8 == Join(h7, z)
             h9 == Join(h8, PutSe(h.qpDelta))
             h10 == Join(h9, filter)
  <1>1. SliceBits = Join(h10, offsets) /\ PocLsb \in Bits BY SliceText
  <1>2. /\ h.firstMb \in Codes /\ h.type \in Codes /\ h.ppsId \in Codes
        /\ h.idrId \in Codes /\ h.disable \in Codes /\ h.qpDelta \in SignedCodes
        /\ h.frameNum \in Nat /\ pic.pocLsb \in Nat
    BY FieldTypes
  <1>3. pic.sps.log2 + 4 \in 0 .. 16 /\ pic.pocLog2 + 4 \in 0 .. 16
    <2>1. pic.sps.log2 \in 0 .. 12 /\ pic.pocLog2 \in 0 .. 12 BY DEF PictureFields, SpsFields
    <2> QED BY <2>1
  <1>4. /\ \A v \in Codes : Long(PutUe(v), 1, 61)
        /\ \A v \in SignedCodes : Long(PutSe(v), 1, 61)
    <2>1. \A x \in 1 .. 61 : 1 <= x /\ x <= 61 OBVIOUS
    <2>2. ASSUME NEW v \in Codes PROVE Long(PutUe(v), 1, 61)
      <3>1. PutUe(v) \in Bits /\ Len(PutUe(v)) \in 1 .. 61 BY CodesAreBits, CodeLengths
      <3> QED BY <2>1, <3>1 DEF Long
    <2>3. ASSUME NEW v \in SignedCodes PROVE Long(PutSe(v), 1, 61)
      <3>1. PutSe(v) \in Bits /\ Len(PutSe(v)) \in 1 .. 61 BY CodesAreBits, CodeLengths
      <3> QED BY <2>1, <3>1 DEF Long
    <2> QED BY <2>2, <2>3
  <1>5. 0 \in SignedCodes BY SMT DEF SignedCodes
  <1>6. /\ Long(PutUe(h.firstMb), 1, 61) /\ Long(PutUe(h.type), 1, 61)
        /\ Long(PutUe(h.ppsId), 1, 61) /\ Long(PutUe(h.idrId), 1, 61)
        /\ Long(PutUe(h.disable), 1, 61) /\ Long(PutSe(h.qpDelta), 1, 61)
        /\ Long(PutSe(0), 1, 61)
    BY <1>2, <1>4, <1>5
  <1>7. Long(<<>>, 0, 61) /\ Long(<<>>, 0, 122) /\ Long(z, 1, 1) /\ Long(<<>>, 0, 16)
    BY DEF Long, Bits
  <1>8. \A v \in Nat, n \in 0 .. 16 : Long(PutBits(v, n), 0, 16)
    <2> SUFFICES ASSUME NEW v \in Nat, NEW n \in 0 .. 16 PROVE Long(PutBits(v, n), 0, 16)
      OBVIOUS
    <2>1. n \in Nat /\ 0 <= n /\ n <= 16 OBVIOUS
    <2>2. PutBits(v, n) \in Seq({0, 1}) /\ Len(PutBits(v, n)) = n BY <2>1, PutBitsType
    <2> QED BY <2>1, <2>2 DEF Long, Bits
  <1>9. Long(f, 0, 16) BY <1>2, <1>3, <1>8
  <1>10. Long(PocLsb, 0, 16) BY <1>2, <1>3, <1>7, <1>8 DEF PocLsb
  <1>11. Long(w0, 32, 32)
    <2>1. 3 \in 0 .. 3 /\ 5 \in 0 .. 31 OBVIOUS
    <2>2. w0 \in Bits /\ Len(w0) = 32 BY <2>1, StartFacts
    <2> HIDE DEF w0
    <2> QED BY <2>2 DEF Long
  <1>12. Long(filter, 0, 61)
    <2>1. Long(PutUe(h.disable), 0, 61)
      <3>1. \A x \in Nat : 1 <= x => 0 <= x OBVIOUS
      <3>2. PutUe(h.disable) \in Bits /\ Len(PutUe(h.disable)) \in Nat
        BY <1>6, LenProperties DEF Long, Bits
      <3> QED BY <1>6, <3>1, <3>2 DEF Long
    <2> QED BY <1>7, <2>1
  <1>13. Long(offsets, 0, 122)
    <2>1. 1 \in Nat /\ 61 \in Nat /\ 0 \in Nat /\ 122 \in Nat /\ 0 <= 1 + 1 /\ 61 + 61 <= 122
      OBVIOUS
    <2>2. Long(Join(PutSe(0), PutSe(0)), 0, 122) BY <1>6, <2>1, JoinLong
    <2> QED BY <1>7, <2>2
  <1> HIDE DEF w0, f, filter, offsets, z, h
  <1>14. Long(h1, 33, 93) BY <1>6, <1>11, JoinLong
  <1> HIDE DEF h1
  <1>15. Long(h2, 33, 154) BY <1>6, <1>14, JoinLong
  <1> HIDE DEF h2
  <1>16. Long(h3, 33, 215) BY <1>6, <1>15, JoinLong
  <1> HIDE DEF h3
  <1>17. Long(h4, 33, 231) BY <1>9, <1>16, JoinLong
  <1> HIDE DEF h4
  <1>18. Long(h5, 33, 292) BY <1>6, <1>17, JoinLong
  <1> HIDE DEF h5
  <1>19. Long(h6, 33, 308) BY <1>10, <1>18, JoinLong
  <1> HIDE DEF h6
  <1>20. Long(h7, 33, 309) BY <1>7, <1>19, JoinLong
  <1> HIDE DEF h7
  <1>21. Long(h8, 33, 310) BY <1>7, <1>20, JoinLong
  <1> HIDE DEF h8
  <1>22. Long(h9, 33, 371) BY <1>6, <1>21, JoinLong
  <1> HIDE DEF h9
  <1>23. Long(h10, 33, 432) BY <1>12, <1>22, JoinLong
  <1> HIDE DEF h10
  <1>24. Long(SliceBits, 33, 1000)
    <2>1. Long(Join(h10, offsets), 33, 1000) BY <1>13, <1>23, JoinLong
    <2> QED BY <1>1, <2>1
  <1>25. SliceBits \in Seq({0, 1}) BY <1>24 DEF Long, Bits
  <1> QED BY <1>24, <1>25, LenProperties DEF Long

\* VA-API's 16 bits.
LEMMA Pow2Sixteen == Pow2[16] = 65536
  <1>1. \A k \in Nat : Pow2[k + 1] = 2 * Pow2[k] BY Pow2Rec
  <1>2. /\ Pow2[7 + 1] = 2 * Pow2[7] /\ Pow2[8 + 1] = 2 * Pow2[8] /\ Pow2[9 + 1] = 2 * Pow2[9]
        /\ Pow2[10 + 1] = 2 * Pow2[10] /\ Pow2[11 + 1] = 2 * Pow2[11]
        /\ Pow2[12 + 1] = 2 * Pow2[12] /\ Pow2[13 + 1] = 2 * Pow2[13]
        /\ Pow2[14 + 1] = 2 * Pow2[14] /\ Pow2[15 + 1] = 2 * Pow2[15]
    BY <1>1
  <1> QED BY <1>2, Pow2Values

\* What escaped_bit_offset gives of a NAL unit without its header byte is, with that byte
\* in front, where it is in the whole of it.
LEMMA OffsetInNal ==
  ASSUME NEW e \in Seq(Byte), e # <<>>, e[1] # 0,
         NEW b \in Nat, b > 0, b <= 1000, b <= 8 * Len(Deescape(Tail(e)))
  PROVE  LET p == (8 + EscapedBitOffset(Tail(e), b)) % Pow2[16]
         IN  /\ 8 * Len(Deescape(SubSeq(e, 1, p \div 8))) + (p % 8) = b + 8
             /\ p % 8 # 0 => (p \div 8) + 1 \notin Emulation(e)
  <1> DEFINE t == Tail(e)
             o == EscapedBitOffset(t, b)
             q == o \div 8
             r == o % 8
             p == (8 + o) % Pow2[16]
             y == SubSeq(t, 1, q)
             x == SubSeq(e, 1, q + 1)
             n == Len(e)
  <1>1. /\ t \in Seq(Byte) /\ Len(t) = n - 1 /\ n \in Nat /\ n >= 1
        /\ \A k \in 1 .. n - 1 : t[k] = e[k + 1]
    <2>1. /\ t \in Seq(Byte) /\ Len(t) = n - 1
          /\ \A k \in 1 .. Len(t) : t[k] = e[k + 1] /\ n \in Nat
      BY HeadTailProperties, LenProperties
    <2>2. n \in Nat /\ n # 0 BY EmptySeq, LenProperties
    <2> QED BY <2>1, <2>2
  <1> HIDE DEF t, n
  <1>2. /\ o \in 0 .. 8 * Len(t)
        /\ 8 * Len(Deescape(SubSeq(t, 1, o \div 8))) + (o % 8) = b
        /\ o % 8 # 0 => (o \div 8) + 1 \notin Emulation(t)
    <2>1. b <= 8 * Len(Deescape(t)) BY DEF t
    <2> HIDE DEF o
    <2> QED BY <1>1, <2>1, OffsetIsExact DEF o
  <1> HIDE DEF o
  <1>3. q \in Nat /\ r \in 0 .. 7 /\ o = 8 * q + r /\ q <= n - 1
    <2>1. o \in Nat /\ o <= 8 * (n - 1) BY <1>1, <1>2
    <2> QED BY <1>1, <2>1
  <1>4. 8 * Len(Deescape(y)) + r = b /\ (r # 0 => q + 1 \notin Emulation(t)) BY <1>2
  <1> HIDE DEF q, r
  <1>5. /\ y \in Seq(Byte) /\ Len(y) = q /\ \A k \in 1 .. q : y[k] = t[k]
    <2>1. \A k \in 1 .. Len(t) : t[k] \in Byte BY <1>1, ElementOfSeq
    <2>2. \A k \in 1 .. q : t[k] \in Byte BY <1>1, <1>3, <2>1
    <2> QED BY <1>3, <2>2, SubSeqProperties
  <1>6. /\ x \in Seq(Byte) /\ Len(x) = q + 1 /\ \A k \in 1 .. q + 1 : x[k] = e[k]
    <2>1. \A k \in 1 .. n : e[k] \in Byte BY ElementOfSeq DEF n
    <2>2. \A k \in 1 .. q + 1 : e[k] \in Byte BY <1>1, <1>3, <2>1
    <2> QED BY <1>1, <1>3, <2>2, SubSeqProperties
  <1> HIDE DEF x
  <1>7. x # <<>> /\ x[1] # 0
    <2>1. Len(x) # 0 /\ 1 \in 1 .. q + 1 BY <1>3, <1>6
    <2> QED BY <1>6, <2>1, EmptySeq
  <1>8. Tail(x) = y
    <2>1. /\ Tail(x) \in Seq(Byte) /\ Len(Tail(x)) = q
          /\ \A k \in 1 .. Len(Tail(x)) : Tail(x)[k] = x[k + 1]
      <3>1. /\ Tail(x) \in Seq(Byte) /\ Len(Tail(x)) = Len(x) - 1
            /\ \A k \in 1 .. Len(Tail(x)) : Tail(x)[k] = x[k + 1]
        BY <1>6, <1>7, HeadTailProperties
      <3> QED BY <1>3, <1>6, <3>1
    <2> HIDE DEF y
    <2>2. \A k \in 1 .. q : Tail(x)[k] = y[k]
      <3> SUFFICES ASSUME NEW k \in 1 .. q PROVE Tail(x)[k] = y[k] OBVIOUS
      <3>1. k \in 1 .. n - 1 /\ k + 1 \in 1 .. q + 1 BY <1>1, <1>3
      <3> QED BY <1>1, <1>5, <1>6, <2>1, <3>1
    <2> QED BY <1>5, <2>1, <2>2, SeqEqual
  <1>9. Len(Deescape(x)) = Len(Deescape(y)) + 1 /\ Len(Deescape(y)) \in Nat
        /\ q <= 2 * Len(Deescape(y))
    <2>1. Len(Deescape(x)) = Len(Deescape(y)) + 1 BY <1>6, <1>7, <1>8, HeaderStaysOut
    <2> HIDE DEF y
    <2> QED BY <1>5, <2>1, KeepsHalf
  <1> HIDE DEF y
  <1>10. p = 8 + o /\ p \div 8 = q + 1 /\ p % 8 = r
    <2> DEFINE l == Len(Deescape(y))
               v == 8 + o
    <2>1. l \in Nat /\ 8 * l + r = b /\ q <= 2 * l BY <1>4, <1>9
    <2> HIDE DEF l
    <2>2. v = 8 * (q + 1) + r /\ v \in Nat /\ v < 65536 BY <1>3, <2>1
    <2> HIDE DEF v
    <2>3. Pow2[16] = 65536
      <3>1. \A k \in Nat : Pow2[k + 1] = 2 * Pow2[k] BY Pow2Rec
      <3> QED BY Pow2Sixteen
    <2>4. p = v % 65536 BY <2>3 DEF v
    <2> HIDE DEF p
    <2>5. v % 65536 = v BY <2>2
    <2>6. v \div 8 = q + 1 /\ v % 8 = r BY <1>3, <2>2
    <2> QED BY <2>4, <2>5, <2>6 DEF v
  <1> HIDE DEF p
  <1>11. ASSUME r # 0 PROVE q + 2 \notin Emulation(e)
    <2> SUFFICES ASSUME q + 2 \in Emulation(e) PROVE FALSE OBVIOUS
    <2>1. q + 2 \in 3 .. n /\ e[q + 2] = 3 /\ e[q + 1] = 0 /\ e[q] = 0
      <3> DEFINE k == q + 2
      <3>1. k \in Emulation(e) OBVIOUS
      <3>2. k = q + 2 /\ k - 1 = q + 1 /\ k - 2 = q BY <1>3
      <3> HIDE DEF k
      <3>3. k \in 3 .. Len(e) /\ e[k] = 3 /\ e[k - 1] = 0 /\ e[k - 2] = 0
        BY <3>1 DEF Emulation
      <3> QED BY <3>2, <3>3 DEF n
    <2>2. q # 1 BY <2>1
    <2>3. /\ q - 1 \in 1 .. n - 1 /\ q \in 1 .. n - 1 /\ q + 1 \in 1 .. n - 1
          /\ q - 1 + 1 = q /\ q + 1 + 1 = q + 2 /\ q + 1 - 1 = q /\ q + 1 - 2 = q - 1
          /\ q + 1 \in 3 .. n - 1
      BY <1>1, <1>3, <2>1, <2>2
    <2>4. t[q - 1] = 0 /\ t[q] = 0 /\ t[q + 1] = 3 BY <1>1, <2>1, <2>3
    <2>5. q + 1 \in Emulation(t) BY <1>1, <2>3, <2>4 DEF Emulation
    <2> QED BY <1>4, <1>11, <2>5
  <1>12. 8 * Len(Deescape(SubSeq(e, 1, p \div 8))) + (p % 8) = b + 8
    <2> DEFINE l == Len(Deescape(y))
               m == Len(Deescape(x))
    <2>1. m = l + 1 /\ l \in Nat /\ 8 * l + r = b BY <1>4, <1>9
    <2>2. SubSeq(e, 1, p \div 8) = x BY <1>10 DEF x
    <2>3. Len(Deescape(SubSeq(e, 1, p \div 8))) = m BY <2>2
    <2> HIDE DEF l, m
    <2> QED BY <1>3, <1>10, <2>1, <2>3
  <1>13. p % 8 # 0 => (p \div 8) + 1 \notin Emulation(e)
    <2>1. (p \div 8) + 1 = q + 2 BY <1>3, <1>10
    <2> QED BY <1>10, <1>11, <2>1
  <1> QED BY <1>12, <1>13 DEF p, o, t

\* SliceDataFound holds whatever the scenarios are: the driver is given the bit behind the
\* slice header in the bytes as they are in the stream, and never one behind its slice.
THEOREM SliceDataIsFound == Spec => []SliceDataFound
  <1>1. Inv /\ HeaderInv /\ SplitsAsWritten => SliceDataFound
    <2> SUFFICES ASSUME Inv, HeaderInv, SplitsAsWritten, pc = "accepted"
                 PROVE  SliceDataFound
      BY DEF SliceDataFound
    <2> DEFINE e == NalUnit("idr")
               l == Len(SliceBits)
    <2>1. Given.framing = "annexb" /\ PictureFields(pic)
      <3>1. Given.framing \in {"annexb", "bare"} BY InputFacts DEF Inv, TypeInv
      <3> QED BY <3>1, InputFacts DEF SplitsAsWritten, Inv, TypeInv
    <2>2. offset <= 8 * (Len(nals[idr].data) + 1) BY DEF Inv, StreamInv
    <2>3. ASSUME cut = 0
          PROVE  /\ 8 * Len(Deescape(SubSeq(e, 1, offset \div 8))) + (offset % 8) = l - 24
                 /\ offset % 8 # 0 => (offset \div 8) + 1 \notin Emulation(e)
      <3>1. WrittenInv /\ Passed BY <2>1, <2>3 DEF HeaderInv
      <3>2. idr # 0 /\ idr \in 1 .. Len(nals)
        <4>1. Found BY DEF Inv, StreamInv
        <4>2. nals \in Seq(NalRecord) /\ idr \in 0 .. Len(nals) BY DEF Inv, TypeInv
        <4>3. Len(nals) \in Nat BY <4>2, LenProperties
        <4> QED BY <4>1, <4>2, <4>3 DEF Found
      <3>3. nals[idr].data = Tail(e)
        <4>1. nals[idr].type = 5 BY <3>1, <3>2 DEF Passed
        <4> QED BY <2>1, <2>3, <3>1, <3>2, <4>1, WholeNals
      <3>4. slice.bits = l - 32
        <4>1. slice.ok /\ slice = SliceRead BY <3>1 DEF Passed
        <4> QED BY <4>1 DEF SliceRead, No
      <3>5. offset = (8 + EscapedBitOffset(Tail(e), l - 32)) % Pow2[16]
        BY <3>1, <3>3, <3>4 DEF Passed
      <3>6. l \in Nat /\ 33 <= l /\ l <= 1000 BY <2>1, SliceLength
      <3>7. e \in Seq(Byte) /\ e # <<>> /\ e[1] # 0
        <4>1. Clean(e) /\ e[1] = 101 BY <2>1, NalUnitsAreClean
        <4> QED BY <2>1, <4>1, NalUnitsAreClean DEF Clean
      <3>8. l - 32 <= 8 * Len(Deescape(Tail(e)))
        <4> DEFINE m == Len(SliceBits \o pic.data)
                   k == Len(Deescape(Tail(e)))
        <4>1. k = m \div 8 - 3
          <5>1. 0 \in Nat OBVIOUS
          <5> QED BY <2>1, <5>1, NalUnitsShow
        <4>2. m \in Nat /\ l <= m
          <5>1. SliceBits \in Bits /\ pic.data \in Bits 
            BY <2>1, HeadersBegin, FieldTypes DEF Begins
          <5>2. Len(SliceBits \o pic.data) = Len(SliceBits) + Len(pic.data) /\ Len(pic.data) \in Nat
            BY <5>1, MoreBits
          <5> QED BY <3>6, <5>2
        <4> HIDE DEF m, k, l
        <4> QED BY <3>6, <4>1, <4>2 DEF k
      <3> HIDE DEF e, l
      <3> DEFINE b == l - 32
      <3>9. b \in Nat /\ b > 0 /\ b <= 1000 /\ b + 8 = l - 24 BY <3>6
      <3>10. b <= 8 * Len(Deescape(Tail(e))) BY <3>8
      <3>11. offset = (8 + EscapedBitOffset(Tail(e), b)) % Pow2[16] BY <3>5
      <3> HIDE DEF b
      <3>12. /\ 8 * Len(Deescape(SubSeq(e, 1, offset \div 8))) + (offset % 8) = b + 8
             /\ offset % 8 # 0 => (offset \div 8) + 1 \notin Emulation(e)
        BY <3>7, <3>9, <3>10, <3>11, OffsetInNal
      <3> QED BY <3>9, <3>12
    <2> QED BY <2>2, <2>3 DEF SliceDataFound
  <1> QED BY <1>1, StreamInvariance, HeadersInvariance, SplitsBack, PTL

\* The crop, if there is one: four codes, one behind the other.
LEMMA CropLaidOut ==
  ASSUME NEW u \in Bits, NEW x \in Seq(Codes), Len(x) = 4
  PROVE  /\ \A k \in 1 .. 4 : x[k] \in Codes /\ PutUe(x[k]) \in Bits
         /\ Join(u, PutUe(x[1]) \o PutUe(x[2]) \o PutUe(x[3]) \o PutUe(x[4]))
              = Join(Join(Join(Join(u, PutUe(x[1])), PutUe(x[2])), PutUe(x[3])), PutUe(x[4]))
  <1> DEFINE a == PutUe(x[1])
             b == PutUe(x[2])
             c == PutUe(x[3])
             d == PutUe(x[4])
  <1>1. \A k \in 1 .. 4 : x[k] \in Codes BY ElementOfSeq
  <1>2. \A k \in 1 .. 4 : PutUe(x[k]) \in Bits BY <1>1, CodesAreBits
  <1>3. a \in Bits /\ b \in Bits /\ c \in Bits /\ d \in Bits BY <1>2
  <1> HIDE DEF a, b, c, d
  <1>4. a \o b \o c \o d = Join(Join(Join(a, b), c), d) BY Zenon DEF Join
  <1> DEFINE ab == Join(a, b)
             abc == Join(ab, c)
             ua == Join(u, a)
             uab == Join(ua, b)
             uabc == Join(uab, c)
  <1>5. \A p, v \in Bits : Join(p, v) \in Bits BY JoinThree
  <1>6. \A p, v, t \in Bits : Join(p, Join(v, t)) = Join(Join(p, v), t) BY JoinThree
  <1>7. ab \in Bits /\ abc \in Bits /\ ua \in Bits /\ uab \in Bits /\ uabc \in Bits
    BY <1>3, <1>5
  <1>8. Join(u, ab) = uab BY <1>3, <1>6
  <1> HIDE DEF ab
  <1>9. Join(u, abc) = uabc BY <1>3, <1>6, <1>7, <1>8
  <1> HIDE DEF abc
  <1>10. Join(u, Join(abc, d)) = Join(uabc, d) BY <1>3, <1>6, <1>7, <1>9
  <1>11. Join(u, a \o b \o c \o d) = Join(uabc, d) BY <1>4, <1>10 DEF abc, ab
  <1> QED BY <1>1, <1>2, <1>11, Zenon DEF a, b, c, d, uabc, uab, ua

\* What H.264 says of a picture's size is read from an SPS as it was written into it, where
\* its picture order type is that of our encoder: in macroblocks, and what of them is cropped.
LEMMA SizeReadBack ==
  ASSUME PictureFields(pic), pic.sps.poc = 2, NEW br \in Reader, Shows(br, 0 - 32, SpsText)
  PROVE  LET s == pic.sps
             a == Read(br, 0, <<U(8), U(8), U(8), Ue, Ue, Ue, Ue, U(1), Ue, Ue, U(1), U(1), U(1)>>)
             c == Read(br, a.pos, IF a.val[13] = 1 THEN <<Ue, Ue, Ue, Ue>> ELSE <<>>)
         IN  /\ a.val[9] = s.width - 1 /\ a.val[10] = s.height - 1
             /\ s.crop = <<>> => c.val = <<>>
             /\ s.crop # <<>> => /\ Len(c.val) = 4 /\ s.crop \in Seq(Codes) /\ Len(s.crop) = 4
                                 /\ \A k \in 1 .. 4 : c.val[k] = s.crop[k]
  <1> DEFINE s == pic.sps
             q == 0 - 32
             F == <<U(8), U(8), U(8), Ue, Ue, Ue, Ue, U(1), Ue, Ue, U(1), U(1), U(1)>>
             G == <<Ue, Ue, Ue, Ue>>
             f == IF s.crop = <<>> THEN 0 ELSE 1
             crop == IF s.crop = <<>> THEN <<>>
                     ELSE PutUe(s.crop[1]) \o PutUe(s.crop[2]) \o PutUe(s.crop[3])
                          \o PutUe(s.crop[4])
             z == <<0>>
             m == <<s.mbsOnly>>
             o == <<1>>
             y == <<f>>
             x1 == PutBits(66, 8)
             x2 == <<1, 1, 0, 0>> \o Zeros(4)
             x3 == PutBits(s.level, 8)
             w0 == StartCodeAndNalHeader(3, 7)
             w1 == Join(w0, x1)
             w2 == Join(w1, x2)
             w3 == Join(w2, x3)
             w4 == Join(w3, PutUe(s.id))
             w5 == Join(w4, PutUe(s.log2))
             w6 == Join(w5, PutUe(s.poc))
             w7 == Join(w6, PutUe(s.refs))
             w8 == Join(w7, z)
             w9 == Join(w8, PutUe(s.width - 1))
             wA == Join(w9, PutUe(s.height - 1))
             wB == Join(wA, m)
             wC == Join(wB, o)
             wD == Join(wC, y)
             wE == Join(wD, crop)
             a == Read(br, 0, F)
             c == Read(br, a.pos, IF a.val[13] = 1 THEN G ELSE <<>>)
  <1>1. /\ s.mbsOnly \in {0, 1} /\ s.level \in Nat /\ s.id \in Codes /\ s.log2 \in Codes
        /\ s.poc \in Codes /\ s.refs \in Codes /\ s.width - 1 \in Codes /\ s.height - 1 \in Codes
        /\ s.crop \in Seq(Codes) /\ Len(s.crop) \in {0, 4} /\ s.poc = 2
    BY FieldTypes
  <1>2. crop \in Bits /\ PocFields = <<>>
    <2>1. 2 # 0 /\ 2 # 1 OBVIOUS
    <2> QED BY <1>1, <2>1, PieceTypes
  <1>3. F \in Seq(Fields) /\ G \in Seq(Fields) /\ Len(F) = 13 /\ Len(G) = 4
    <2>1. U(8) \in Fields /\ U(1) \in Fields /\ Ue \in Fields BY FieldLists
    <2> QED BY <2>1
  <1>4. /\ FieldIs(F, 0, 1, U(8)) /\ FieldIs(F, 1, 2, U(8)) /\ FieldIs(F, 2, 3, U(8))
        /\ FieldIs(F, 3, 4, Ue) /\ FieldIs(F, 4, 5, Ue) /\ FieldIs(F, 5, 6, Ue)
        /\ FieldIs(F, 6, 7, Ue) /\ FieldIs(F, 7, 8, U(1)) /\ FieldIs(F, 8, 9, Ue)
        /\ FieldIs(F, 9, 10, Ue) /\ FieldIs(F, 10, 11, U(1)) /\ FieldIs(F, 11, 12, U(1))
        /\ FieldIs(F, 12, 13, U(1))
        /\ FieldIs(G, 0, 1, Ue) /\ FieldIs(G, 1, 2, Ue) /\ FieldIs(G, 2, 3, Ue)
        /\ FieldIs(G, 3, 4, Ue)
    BY DEF FieldIs
  <1>5. q \in Int /\ q + 32 = 0 /\ 0 \in Nat /\ 1 \in Nat /\ 8 \in Nat /\ 66 \in Nat OBVIOUS
  <1>6. /\ w0 \in Bits /\ Len(w0) = 32
        /\ x1 \in Bits /\ Len(x1) = 8 /\ x2 \in Bits /\ Len(x2) = 8
        /\ x3 \in Bits /\ Len(x3) = 8
        /\ z \in Bits /\ m \in Bits /\ o \in Bits /\ y \in Bits
    <2>1. x1 \in Bits /\ Len(x1) = 8 /\ x3 \in Bits /\ Len(x3) = 8
      BY <1>1, <1>5, PutBitsType DEF Bits
    <2>2. z \in Bits /\ m \in Bits /\ o \in Bits /\ y \in Bits BY <1>1 DEF Bits
    <2>3. w0 \in Bits /\ Len(w0) = 32 BY StartFacts
    <2>4. x2 \in Bits /\ Len(x2) = 8 BY Constraints
    <2> QED BY <2>1, <2>2, <2>3, <2>4
  <1>7. /\ SpsText = Join(Join(Join(Join(Join(Join(Join(w6, PocFields), PutUe(s.refs)), z),
                                         PutUe(s.width - 1)), PutUe(s.height - 1)), m),
                          Join(Join(<<1, f>>, crop), z))
        /\ <<1, f>> = Join(o, y)
    <2>1. <<1, f>> = Join(o, y) BY DEF Join
    <2> QED BY <2>1, SpsLaidOut
  <1> HIDE DEF s, F, G, crop, z, m, o, y, x1, x2, x3
  <1> HIDE DEF q, w0, w1, w2, w3, w4, w5, w6, w7, w8, w9, wA, wB, wC, wD, wE
  <1>8. \A u, v \in Bits : Join(u, v) \in Bits BY JoinThree
  <1>9. /\ PutUe(s.id) \in Bits /\ PutUe(s.log2) \in Bits /\ PutUe(s.poc) \in Bits
        /\ PutUe(s.refs) \in Bits /\ PutUe(s.width - 1) \in Bits /\ PutUe(s.height - 1) \in Bits
    BY <1>1, CodesAreBits
  <1>10. /\ w1 \in Bits /\ w2 \in Bits /\ w3 \in Bits /\ w4 \in Bits /\ w5 \in Bits /\ w6 \in Bits
         /\ w7 \in Bits /\ w8 \in Bits /\ w9 \in Bits /\ wA \in Bits /\ wB \in Bits /\ wC \in Bits
         /\ wD \in Bits /\ wE \in Bits
    <2>1. w1 \in Bits /\ w2 \in Bits /\ w3 \in Bits BY <1>6, <1>8 DEF w1, w2, w3
    <2>2. w4 \in Bits /\ w5 \in Bits /\ w6 \in Bits BY <1>8, <1>9, <2>1 DEF w4, w5, w6
    <2>3. w7 \in Bits /\ w8 \in Bits /\ w9 \in Bits BY <1>6, <1>8, <1>9, <2>2 DEF w7, w8, w9
    <2>4. wA \in Bits /\ wB \in Bits /\ wC \in Bits BY <1>6, <1>8, <1>9, <2>3 DEF wA, wB, wC
    <2>5. wD \in Bits /\ wE \in Bits BY <1>2, <1>6, <1>8, <2>4 DEF wD, wE
    <2> QED BY <2>1, <2>2, <2>3, <2>4, <2>5
  <1>11. SpsText = Join(wE, z)
    <2>1. \A u, v, t \in Bits : Join(u, Join(v, t)) = Join(Join(u, v), t) BY JoinThree
    <2>2. Join(w6, PocFields) = w6
      <3>1. w6 \o <<>> = w6 BY <1>10, ConcatEmptySeq DEF Bits
      <3> QED BY <1>2, <3>1, Zenon DEF Join
    <2>3. SpsText = Join(wB, Join(Join(Join(o, y), crop), z))
      BY <1>7, <2>2, Zenon DEF wB, wA, w9, w8, w7
    <2> DEFINE oy == Join(o, y)
               oc == Join(oy, crop)
    <2>4. oy \in Bits /\ oc \in Bits BY <1>2, <1>6, <1>8
    <2>5. Join(wB, oy) = wD BY <1>6, <1>10, <2>1 DEF wC, wD
    <2> HIDE DEF oy
    <2>6. Join(wB, oc) = wE BY <1>2, <1>10, <2>1, <2>4, <2>5 DEF wE
    <2> HIDE DEF oc
    <2>7. Join(wB, Join(oc, z)) = Join(wE, z) BY <1>6, <1>10, <2>1, <2>4, <2>6
    <2> QED BY <2>3, <2>7 DEF oc, oy
  <1>12. /\ Shows(br, q, w9) /\ Shows(br, q, wA) /\ Shows(br, q, wB) /\ Shows(br, q, wC)
         /\ Shows(br, q, wD) /\ Shows(br, q, wE)
    <2>1. Shows(br, q, Join(wE, z)) BY <1>11 DEF q
    <2>2. Shows(br, q, wE) BY <1>5, <1>6, <1>10, <2>1, ShowsFirst
    <2>3. Shows(br, q, wD) BY <1>2, <1>5, <1>10, <2>2, ShowsFirst DEF wE
    <2>4. Shows(br, q, wC) BY <1>5, <1>6, <1>10, <2>3, ShowsFirst DEF wD
    <2>5. Shows(br, q, wB) BY <1>5, <1>6, <1>10, <2>4, ShowsFirst DEF wC
    <2>6. Shows(br, q, wA) BY <1>5, <1>6, <1>10, <2>5, ShowsFirst DEF wB
    <2>7. Shows(br, q, w9) BY <1>5, <1>9, <1>10, <2>6, ShowsFirst DEF wA
    <2> QED BY <2>2, <2>3, <2>4, <2>5, <2>6, <2>7
  <1>13. /\ a.val[9] = s.width - 1 /\ a.val[10] = s.height - 1 /\ a.val[13] = f
         /\ a.pos = q + Len(wD)
    <2>1. Reads(br, q, 0, F, 0, w0)
      <3>1. q + Len(w0) = 0 BY <1>5, <1>6
      <3>2. Reads(br, q, q + Len(w0), F, 0, w0) BY <1>3, <1>5, <1>6, <3>1, ReadsNothing
      <3> QED BY <3>1, <3>2
    <2>2. Reads(br, q, 0, F, 1, w1) BY <1>4, <1>5, <1>6, <2>1, ReadsBits DEF w1
    <2>3. Reads(br, q, 0, F, 2, w2) BY <1>4, <1>5, <1>6, <2>2, ReadsBits DEF w2
    <2>4. Reads(br, q, 0, F, 3, w3) BY <1>4, <1>5, <1>6, <2>3, ReadsBits DEF w3
    <2>5. Reads(br, q, 0, F, 4, w4) BY <1>1, <1>4, <2>4, ReadsUe DEF w4
    <2>6. Reads(br, q, 0, F, 5, w5) BY <1>1, <1>4, <2>5, ReadsUe DEF w5
    <2>7. Reads(br, q, 0, F, 6, w6) BY <1>1, <1>4, <2>6, ReadsUe DEF w6
    <2>8. Reads(br, q, 0, F, 7, w7) BY <1>1, <1>4, <2>7, ReadsUe DEF w7
    <2>9. 0 \in {0, 1} /\ 1 \in {0, 1} /\ f \in {0, 1} OBVIOUS
    <2>10. Reads(br, q, 0, F, 8, w8) BY <1>4, <2>8, <2>9, ReadsFlag DEF w8, z
    <2>11. Reads(br, q, 0, F, 9, w9) /\ a.val[9] = s.width - 1
      BY <1>1, <1>4, <1>12, <2>10, ReadsUe DEF w9
    <2>12. Reads(br, q, 0, F, 10, wA) /\ a.val[10] = s.height - 1
      BY <1>1, <1>4, <1>12, <2>11, ReadsUe DEF wA
    <2>13. Reads(br, q, 0, F, 11, wB) BY <1>1, <1>4, <2>12, ReadsFlag DEF wB, m
    <2>14. Reads(br, q, 0, F, 12, wC) BY <1>4, <2>9, <2>13, ReadsFlag DEF wC, o
    <2> HIDE DEF f
    <2>15. Reads(br, q, 0, F, 13, wD) /\ a.val[13] = f
      BY <1>4, <1>12, <2>9, <2>14, ReadsFlag DEF wD, y
    <2>16. a.pos = q + Len(wD)
      <3>1. Reads(br, q, 0, F, Len(F), wD) BY <1>3, <2>15
      <3> QED BY <1>12, <3>1, ReadsAll
    <2> QED BY <2>11, <2>12, <2>15, <2>16
  <1>14. a.pos \in Nat
    <2>1. \A p \in Nat, l \in Seq(Fields) : Read(br, p, l).pos \in Nat
      BY FieldLists, ReadAppend DEF Results
    <2> QED BY <1>3, <1>5, <2>1
  <1> HIDE DEF a
  <1>15. CASE s.crop = <<>>
    <2>1. a.val[13] # 1 BY <1>13, <1>15
    <2>2. c = Read(br, a.pos, <<>>) BY <2>1
    <2>3. c.val = <<>> BY <1>3, <1>14, <2>2, FieldLists, ReadAppend
    <2> HIDE DEF c
    <2> QED BY <1>13, <1>15, <2>3 DEF a, c, s, F, G
  <1>16. CASE s.crop # <<>>
    <2> DEFINE x == s.crop
               v1 == Join(wD, PutUe(x[1]))
               v2 == Join(v1, PutUe(x[2]))
               v3 == Join(v2, PutUe(x[3]))
               v4 == Join(v3, PutUe(x[4]))
    <2>1. a.val[13] = 1 BY <1>13, <1>16
    <2>2. c = Read(br, a.pos, G) BY <2>1
    <2>3. x \in Seq(Codes) /\ Len(x) = 4 BY <1>1, <1>16, EmptySeq
    <2>4. crop = PutUe(x[1]) \o PutUe(x[2]) \o PutUe(x[3]) \o PutUe(x[4]) BY <1>16 DEF crop
    <2> HIDE DEF x
    <2>5. /\ \A k \in 1 .. 4 : x[k] \in Codes /\ PutUe(x[k]) \in Bits
          /\ wE = v4
      BY <1>10, <2>3, <2>4, CropLaidOut DEF wE
    <2>6. /\ x[1] \in Codes /\ x[2] \in Codes /\ x[3] \in Codes /\ x[4] \in Codes
          /\ PutUe(x[1]) \in Bits /\ PutUe(x[2]) \in Bits
          /\ PutUe(x[3]) \in Bits /\ PutUe(x[4]) \in Bits
      BY <2>5
    <2> HIDE DEF v1, v2, v3, v4
    <2>7. v1 \in Bits /\ v2 \in Bits /\ v3 \in Bits BY <1>8, <1>10, <2>6 DEF v1, v2, v3
    <2>8. Shows(br, q, v4) BY <1>12, <2>5
    <2>9. Shows(br, q, v3) BY <1>5, <2>6, <2>7, <2>8, ShowsFirst DEF v4
    <2>10. Shows(br, q, v2) BY <1>5, <2>6, <2>7, <2>9, ShowsFirst DEF v3
    <2>11. Shows(br, q, v1) BY <1>5, <2>6, <2>7, <2>10, ShowsFirst DEF v2
    <2> HIDE DEF c
    <2> DEFINE g == Read(br, a.pos, G)
    <2>12. Reads(br, q, a.pos, G, 0, wD) BY <1>3, <1>5, <1>10, <1>13, <1>14, ReadsNothing
    <2>13. Reads(br, q, a.pos, G, 1, v1) /\ g.val[1] = x[1]
      BY <1>4, <2>6, <2>11, <2>12, ReadsUe DEF v1
    <2>14. Reads(br, q, a.pos, G, 2, v2) /\ g.val[2] = x[2]
      BY <1>4, <2>6, <2>10, <2>13, ReadsUe DEF v2
    <2>15. Reads(br, q, a.pos, G, 3, v3) /\ g.val[3] = x[3]
      BY <1>4, <2>6, <2>9, <2>14, ReadsUe DEF v3
    <2>16. g.val[4] = x[4] BY <1>4, <2>6, <2>8, <2>15, ReadsUe DEF v4
    <2>17. Len(g.val) = 4 BY <1>3, <1>14, FieldLists, ReadAppend
    <2> HIDE DEF g
    <2>18. Len(c.val) = 4 /\ \A k \in 1 .. 4 : c.val[k] = x[k]
      BY <2>2, <2>13, <2>14, <2>15, <2>16, <2>17 DEF g
    <2> QED BY <1>13, <1>16, <2>3, <2>18 DEF a, c, s, F, G, x
  <1> QED BY <1>15, <1>16

\* The crop of encode_one_frame is the rest of the last macroblock, in steps of two.
LEMMA CropFits ==
  ASSUME NEW w \in Sizes, NEW h \in Sizes
  PROVE  LET s == EncodeSps(w, h)
         IN  /\ s.poc = 2
             /\ 16 * (s.width - 1 + 1) - (IF s.crop = <<>> THEN 0
                                          ELSE 2 * (s.crop[1] + s.crop[2])) = w
             /\ 16 * (s.height - 1 + 1) - (IF s.crop = <<>> THEN 0
                                           ELSE 2 * (s.crop[3] + s.crop[4])) = h
  <1> DEFINE s == EncodeSps(w, h)
             a == Mbs(w)
             b == Mbs(h)
             x == (16 * a - w) \div 2
             y == (16 * b - h) \div 2
             full == w = 16 * a /\ h = 16 * b
  <1>1. w \in Nat /\ w % 2 = 0 /\ h \in Nat /\ h % 2 = 0 BY DEF Sizes
  <1>2. a \in Nat /\ b \in Nat BY <1>1 DEF Mbs
  <1>3. s.poc = 2 /\ s.width = a /\ s.height = b
        /\ s.crop = IF full THEN <<>> ELSE <<0, x, 0, y>>
    BY DEF EncodeSps
  <1> HIDE DEF s, a, b
  <1>4. 2 * x = 16 * a - w /\ 2 * y = 16 * b - h /\ x \in Int /\ y \in Int
    BY <1>1, <1>2
  <1> HIDE DEF x, y
  <1>5. CASE full BY <1>1, <1>2, <1>3, <1>5 DEF s
  <1>6. CASE ~full
    <2> DEFINE t == <<0, x, 0, y>>
    <2>1. s.crop = t /\ t # <<>> BY <1>3, <1>6
    <2>2. t[1] = 0 /\ t[2] = x /\ t[3] = 0 /\ t[4] = y OBVIOUS
    <2> HIDE DEF t
    <2>3. /\ 16 * (s.width - 1 + 1) - 2 * (s.crop[1] + s.crop[2]) = w
          /\ 16 * (s.height - 1 + 1) - 2 * (s.crop[3] + s.crop[4]) = h
      BY <1>1, <1>2, <1>3, <1>4, <2>1, <2>2
    <2> QED BY <1>3, <2>1, <2>3 DEF s
  <1> QED BY <1>5, <1>6

\* CropsToRequest holds for all sizes the encoder can be asked for: read as H.264 says, its
\* SPS crops the macroblocks to the size of the request.
THEOREM CropsAsRequested == Spec => []CropsToRequest
  <1>1. Inv /\ HeaderInv => CropsToRequest
    <2> SUFFICES ASSUME Inv, HeaderInv, pc = "scan", i = 1, cut = 0, "request" \in DOMAIN pic,
                        NEW k \in DOMAIN nals, nals[k].type = 7
                 PROVE  LET br == Rbsp(k)
                            a == Read(br, 0, <<U(8), U(8), U(8), Ue, Ue, Ue, Ue, U(1), Ue, Ue,
                                               U(1), U(1), U(1)>>)
                            c == Read(br, a.pos, IF a.val[13] = 1 THEN <<Ue, Ue, Ue, Ue>> ELSE <<>>)
                            Cropped(mbs, first) ==
                                16 * (mbs + 1) - IF c.val = <<>> THEN 0
                                                 ELSE 2 * (c.val[first] + c.val[first + 1])
                        IN  /\ Cropped(a.val[9], 1) = pic.request[1]
                            /\ Cropped(a.val[10], 3) = pic.request[2]
      BY DEF CropsToRequest
    <2> DEFINE s == pic.sps
               w == pic.request[1]
               h == pic.request[2]
               br == Rbsp(k)
               a == Read(br, 0, <<U(8), U(8), U(8), Ue, Ue, Ue, Ue, U(1), Ue, Ue,
                                  U(1), U(1), U(1)>>)
               c == Read(br, a.pos, IF a.val[13] = 1 THEN <<Ue, Ue, Ue, Ue>> ELSE <<>>)
               t == Rbsp(k)
    <2>1. nals \in Seq(NalRecord) /\ stream \in Seq(Byte) /\ InputInv BY DEF Inv, TypeInv
    <2>2. k \in 1 .. Len(nals) BY <2>1, LenProperties
    <2>3. PictureFields(pic) /\ past \in Nat BY <2>1, InputFacts
    <2>4. Given.framing = "annexb"
      <3>1. Given.framing \in {"annexb", "bare"} BY <2>1, InputFacts
      <3>2. ASSUME Given.framing = "bare" PROVE FALSE
        <4>1. StartCodes(stream) = {} /\ nals = ExtractNals(stream) BY <3>2 DEF Inv, StreamInv
        <4>2. nals = <<>> BY <2>1, <4>1, NoStartCodeNoNal
        <4> QED BY <2>2, <4>2
      <3> QED BY <3>1, <3>2
    <2>5. WrittenInv BY DEF HeaderInv
    <2>6. br = ReaderOf(NalUnit("sps"), past) BY <2>2, <2>4, <2>5, WholeNals
    <2>7. br \in Reader /\ Shows(br, 0 - 32, SpsText) BY <2>3, <2>6, NalUnitsShow
    <2>8. w \in Sizes /\ h \in Sizes /\ s = EncodeSps(w, h)
      <3>1. scenario \in DOMAIN Scenarios /\ pic \in Scenarios[scenario].pictures
        BY <2>1 DEF InputInv, Given
      <3> QED BY <3>1, RequestsAssumption
    <2> HIDE DEF w, h, br
    <2>9. /\ s.poc = 2
          /\ 16 * (s.width - 1 + 1) - (IF s.crop = <<>> THEN 0
                                       ELSE 2 * (s.crop[1] + s.crop[2])) = w
          /\ 16 * (s.height - 1 + 1) - (IF s.crop = <<>> THEN 0
                                        ELSE 2 * (s.crop[3] + s.crop[4])) = h
      BY <2>8, CropFits
    <2>10. /\ a.val[9] = s.width - 1 /\ a.val[10] = s.height - 1
           /\ s.crop = <<>> => c.val = <<>>
           /\ s.crop # <<>> => /\ Len(c.val) = 4
                               /\ \A j \in 1 .. 4 : c.val[j] = s.crop[j]
      BY <2>3, <2>7, <2>9, SizeReadBack
    <2> HIDE DEF a, c, s
    <2>11. c.val = <<>> <=> s.crop = <<>>
      <3>1. Len(<<>>) = 0 OBVIOUS
      <3> QED BY <2>10, <3>1
    <2>12. s.crop # <<>> => /\ c.val[1] = s.crop[1] /\ c.val[1 + 1] = s.crop[2]
                            /\ c.val[3] = s.crop[3] /\ c.val[3 + 1] = s.crop[4]
      BY <2>10
    <2>13. /\ 16 * (a.val[9] + 1) - (IF c.val = <<>> THEN 0
                                     ELSE 2 * (c.val[1] + c.val[1 + 1])) = w
           /\ 16 * (a.val[10] + 1) - (IF c.val = <<>> THEN 0
                                      ELSE 2 * (c.val[3] + c.val[3 + 1])) = h
      BY <2>9, <2>10, <2>11, <2>12
    <2> QED BY <2>13 DEF w, h, a, c, br
  <1> QED BY <1>1, StreamInvariance, HeadersInvariance, PTL
==============================================================================
