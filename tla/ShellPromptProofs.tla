------------------------- MODULE ShellPromptProofs -------------------------
(***************************************************************************)
(* Proofs about the shell's prompt over any number of sessions, for any    *)
(* directories, typed texts and length of the history: what the history    *)
(* keeps of a session, and that history and files list lines that were     *)
(* entered, each once, in order.                                           *)
(***************************************************************************)
EXTENDS ShellPrompt, SequenceTheorems, WellFoundedInduction, TLAPS

-----------------------------------------------------------------------------
(* Least and greatest numbers.                                             *)

LEMMA LeastNumber ==
    ASSUME NEW S, S \subseteq Nat, S # {}
    PROVE  \E m \in S : \A k \in S : m <= k
<1>1. PICK m \in S : \A j \in S : ~ (<<j, m>> \in OpToRel(<, Nat))
  BY NatLessThanWellFounded, WFMin
<1>2. m \in S /\ \A j \in S : ~ (j < m)
  BY <1>1 DEF OpToRel
<1>3. \A j \in S : m <= j
  BY <1>2
<1> QED
  BY <1>2, <1>3

LEMMA MinInSet ==
    ASSUME NEW S, S \subseteq Nat, S # {}
    PROVE  Min(S) \in S /\ \A k \in S : Min(S) <= k
BY LeastNumber DEF Min

LEMMA MaxInSet ==
    ASSUME NEW n \in Nat, NEW S, S \subseteq 0 .. n, S # {}
    PROVE  Max(S) \in S /\ \A k \in S : Max(S) >= k
<1> DEFINE T == {n - k : k \in S}
<1>1. PICK m \in T : \A k \in T : m <= k
  <2>1. T \subseteq Nat
    OBVIOUS
  <2>2. T # {}
    OBVIOUS
  <2> QED
    BY <2>1, <2>2, LeastNumber
<1>2. PICK x \in S : m = n - x
  BY <1>1
<1>3. \A k \in S : x >= k
  <2> SUFFICES ASSUME NEW k \in S PROVE x >= k
    OBVIOUS
  <2>1. m <= n - k
    BY <1>1
  <2>2. x \in 0 .. n /\ k \in 0 .. n
    OBVIOUS
  <2> QED
    BY <2>1, <2>2, <1>2
<1> QED
  BY <1>3 DEF Max

-----------------------------------------------------------------------------
(* trim.                                                                   *)

\* What trim cuts out of s, when there is something.
LEMMA TrimParts ==
    ASSUME NEW s \in Seq(Lexeme), ~ IsBlank(s)
    PROVE  \E a, b \in 1 .. Len(s) :
               /\ a <= b /\ s[a] # Blank /\ s[b] # Blank
               /\ \A i \in 1 .. Len(s) : s[i] # Blank => a <= i /\ i <= b
               /\ trim(s) = SubSeq(s, a, b)
<1> DEFINE I == {i \in 1 .. Len(s) : s[i] # Blank}
<1>1. I # {}
  BY DEF IsBlank
<1>2. Min(I) \in I /\ \A k \in I : Min(I) <= k
  <2>1. I \subseteq Nat
    OBVIOUS
  <2> QED
    BY <1>1, <2>1, MinInSet
<1>3. Max(I) \in I /\ \A k \in I : Max(I) >= k
  <2>1. I \subseteq 0 .. Len(s) /\ Len(s) \in Nat
    OBVIOUS
  <2> QED
    BY <1>1, <2>1, MaxInSet
<1>4. trim(s) = SubSeq(s, Min(I), Max(I))
  BY <1>1 DEF trim, SelectInSeq, SelectLastInSeq
<1> HIDE DEF I
<1>5. Min(I) \in 1 .. Len(s) /\ Max(I) \in 1 .. Len(s) /\ s[Min(I)] # Blank /\ s[Max(I)] # Blank
  BY <1>2, <1>3 DEF I
<1>6. Min(I) <= Max(I)
  BY <1>2, <1>3
<1>7. \A i \in 1 .. Len(s) : s[i] # Blank => Min(I) <= i /\ i <= Max(I)
  <2> SUFFICES ASSUME NEW i \in 1 .. Len(s), s[i] # Blank PROVE Min(I) <= i /\ i <= Max(I)
    OBVIOUS
  <2>1. i \in I
    BY DEF I
  <2> QED
    BY <2>1, <1>2, <1>3, <1>5
<1> QED
  BY <1>4, <1>5, <1>6, <1>7

LEMMA BlankTrim ==
    ASSUME NEW s \in Seq(Lexeme), IsBlank(s)
    PROVE  trim(s) = <<>>
BY DEF trim

LEMMA TrimType ==
    ASSUME NEW s \in Seq(Lexeme)
    PROVE  trim(s) \in Seq(Lexeme)
<1>1. CASE IsBlank(s)
  <2>1. <<>> \in Seq(Lexeme)
    OBVIOUS
  <2> QED
    BY <1>1, <2>1, BlankTrim
<1>2. CASE ~ IsBlank(s)
  <2>1. PICK a, b \in 1 .. Len(s) : a <= b /\ trim(s) = SubSeq(s, a, b)
    BY <1>2, TrimParts
  <2>2. SubSeq(s, a, b) \in Seq(Lexeme)
    BY <2>1, SubSeqProperties
  <2> QED
    BY <2>1, <2>2
<1> QED
  BY <1>1, <1>2

\* Trimming twice is trimming once.
LEMMA TrimTwice ==
    ASSUME NEW s \in Seq(Lexeme)
    PROVE  trim(trim(s)) = trim(s)
<1>1. CASE IsBlank(s)
  <2>1. IsBlank(<<>>) /\ <<>> \in Seq(Lexeme)
    BY DEF IsBlank
  <2> QED
    BY <1>1, <2>1, BlankTrim
<1>2. CASE ~ IsBlank(s)
  <2>1. PICK a, b \in 1 .. Len(s) :
            a <= b /\ s[a] # Blank /\ s[b] # Blank /\ trim(s) = SubSeq(s, a, b)
    BY <1>2, TrimParts
  <2> DEFINE t == SubSeq(s, a, b)
  <2>2. /\ t \in Seq(Lexeme) /\ Len(t) = b - a + 1
        /\ \A i \in 1 .. Len(t) : t[i] = s[a + i - 1]
    BY <2>1, SubSeqProperties
  <2>3. Len(t) \in Nat /\ Len(t) >= 1
    BY <2>1, <2>2
  <2>4. t[1] # Blank /\ t[Len(t)] # Blank
    <3>1. t[1] = s[a + 1 - 1] /\ t[Len(t)] = s[a + Len(t) - 1]
      BY <2>2, <2>3
    <3>2. a + 1 - 1 = a /\ a + Len(t) - 1 = b
      BY <2>2
    <3> QED
      BY <3>1, <3>2, <2>1
  <2> HIDE DEF t
  <2>5. ~ IsBlank(t)
    BY <2>2, <2>3, <2>4 DEF IsBlank
  <2>6. PICK c, d \in 1 .. Len(t) :
            /\ \A i \in 1 .. Len(t) : t[i] # Blank => c <= i /\ i <= d
            /\ trim(t) = SubSeq(t, c, d)
    BY <2>2, <2>5, TrimParts
  <2>7. c = 1 /\ d = Len(t)
    BY <2>3, <2>4, <2>6
  <2>8. SubSeq(t, 1, Len(t)) = t
    BY <2>2
  <2> QED
    BY <2>1, <2>6, <2>7, <2>8 DEF t
<1> QED
  BY <1>1, <1>2

-----------------------------------------------------------------------------
(* Picked.                                                                 *)

\* A recursive definition over the numbers up to Len(s) has the function it
\* describes: each step follows from the one before.
LEMMA PickedUpToDef ==
    ASSUME NEW S, NEW s \in Seq(S), NEW P
    PROVE  PickedUpTo(s, P) =
               [i \in 0 .. Len(s) |->
                    IF i = 0 THEN <<>>
                    ELSE IF i \in P THEN Append(PickedUpTo(s, P)[i - 1], s[i])
                                    ELSE PickedUpTo(s, P)[i - 1]]
<1> DEFINE Is(f, m) == f = [i \in 0 .. m |-> IF i = 0 THEN <<>>
                                             ELSE IF i \in P THEN Append(f[i - 1], s[i]) ELSE f[i - 1]]
           Gaps == {m \in Nat : ~ \E f : Is(f, m)}
<1>1. \E f : Is(f, Len(s))
  <2> SUFFICES ASSUME Gaps # {} PROVE FALSE
    OBVIOUS
  <2>1. PICK m \in Gaps : \A j \in Gaps : m <= j
    BY LeastNumber
  <2>2. m # 0
    <3>1. Is([i \in 0 .. 0 |-> <<>>], 0)
      OBVIOUS
    <3> QED
      BY <3>1
  <2>3. PICK f : Is(f, m - 1)
    <3>1. m - 1 \in Nat /\ ~ (m <= m - 1)
      BY <2>1, <2>2
    <3>2. m - 1 \notin Gaps
      <4> HIDE DEF Gaps
      <4> QED
        BY <2>1, <3>1
    <3> HIDE DEF Is
    <3> QED
      BY <3>1, <3>2
  <2> DEFINE Next1(i, before) == IF i \in P THEN Append(before, s[i]) ELSE before
             g == [i \in 0 .. m |-> IF i = m THEN Next1(m, f[m - 1]) ELSE f[i]]
  <2>4. \A i \in 0 .. m : g[i] = IF i = 0 THEN <<>> ELSE Next1(i, g[i - 1])
    <3>1. m \in Nat /\ m - 1 \in Nat
      BY <2>1, <2>2
    <3>2. \A i \in 0 .. m - 1 : f[i] = IF i = 0 THEN <<>> ELSE Next1(i, f[i - 1])
      BY <2>3
    <3> HIDE DEF Next1
    <3>3. \A i \in 0 .. m - 1 : g[i] = f[i] /\ (i # 0 => g[i - 1] = f[i - 1])
      BY <3>1
    <3>4. g[m] = Next1(m, f[m - 1]) /\ g[m - 1] = f[m - 1]
      BY <3>1
    <3> HIDE DEF g
    <3> QED
      BY <2>2, <3>1, <3>2, <3>3, <3>4
  <2>5. Is(g, m)
    BY <2>4
  <2> QED
    BY <2>1, <2>5
<1>2. Is(PickedUpTo(s, P), Len(s))
  BY <1>1 DEF PickedUpTo
<1> QED
  BY <1>2

\* The elements of p are those of s at some places of P up to n, in their order.
PickedFrom(p, s, P, n) ==
    \E at \in [1 .. Len(p) -> 1 .. n] :
        /\ \A i, j \in 1 .. Len(p) : i < j => at[i] < at[j]
        /\ \A i \in 1 .. Len(p) : at[i] \in P /\ p[i] = s[at[i]]

\* And that is what PickedUpTo gives.
LEMMA PickedUpToParts ==
    ASSUME NEW S, NEW s \in Seq(S), NEW P, NEW n \in 0 .. Len(s)
    PROVE  /\ PickedUpTo(s, P)[n] \in Seq(S) /\ Len(PickedUpTo(s, P)[n]) <= n
           /\ PickedFrom(PickedUpTo(s, P)[n], s, P, n)
<1> DEFINE Q(k) == PickedUpTo(s, P)[k]
           Fine(k) == Q(k) \in Seq(S) /\ Len(Q(k)) <= k /\ PickedFrom(Q(k), s, P, k)
           Bad == {k \in 0 .. Len(s) : ~ Fine(k)}
<1>1. \A k \in 0 .. Len(s) :
          Q(k) = IF k = 0 THEN <<>> ELSE IF k \in P THEN Append(Q(k - 1), s[k]) ELSE Q(k - 1)
  <2> DEFINE F == PickedUpTo(s, P)
  <2>1. F = [i \in 0 .. Len(s) |-> IF i = 0 THEN <<>>
                                   ELSE IF i \in P THEN Append(F[i - 1], s[i]) ELSE F[i - 1]]
    BY PickedUpToDef
  <2> HIDE DEF F
  <2>2. \A k \in 0 .. Len(s) :
            F[k] = IF k = 0 THEN <<>> ELSE IF k \in P THEN Append(F[k - 1], s[k]) ELSE F[k - 1]
    BY <2>1
  <2> QED
    BY <2>2 DEF F
<1> HIDE DEF Q
<1> SUFFICES ASSUME Bad # {} PROVE FALSE
  BY DEF Q
<1>2. PICK m \in Bad : \A j \in Bad : m <= j
  <2>1. Bad \subseteq Nat
    OBVIOUS
  <2> HIDE DEF Bad
  <2> QED
    BY <2>1, LeastNumber
<1>3. m # 0
  <2>1. Q(0) = <<>>
    BY <1>1
  <2>2. <<>> \in Seq(S) /\ Len(<<>>) = 0
    OBVIOUS
  <2>3. [i \in {} |-> 0] \in [1 .. 0 -> 1 .. 0]
    OBVIOUS
  <2>4. Q(0) \in Seq(S) /\ Len(Q(0)) = 0 /\ 1 .. Len(Q(0)) = {}
    <3>1. Q(0) \in Seq(S) /\ Len(Q(0)) = 0
      BY <2>1, <2>2
    <3>2. 1 .. 0 = {}
      OBVIOUS
    <3> QED
      BY <3>1, <3>2
  <2>5. Fine(0)
    BY <2>3, <2>4 DEF PickedFrom
  <2> QED
    BY <1>2, <2>5
<1>4. m - 1 \in 0 .. Len(s) /\ Fine(m - 1)
  <2>1. m \in 1 .. Len(s) /\ Len(s) \in Nat
    BY <1>2, <1>3
  <2>2. m - 1 \in 0 .. Len(s)
    BY <2>1
  <2>3. m - 1 \notin Bad
    <3>1. ~ (m <= m - 1)
      BY <2>1
    <3> HIDE DEF Bad
    <3> QED
      BY <1>2, <3>1
  <2> HIDE DEF Fine
  <2> QED
    BY <2>2, <2>3
<1>5. CASE m \notin P
  <2>1. Q(m) = Q(m - 1)
    BY <1>1, <1>2, <1>3, <1>5
  <2>2. m \in Nat
    BY <1>2
  <2>3. PICK at \in [1 .. Len(Q(m)) -> 1 .. m - 1] :
            /\ \A i, j \in 1 .. Len(Q(m)) : i < j => at[i] < at[j]
            /\ \A i \in 1 .. Len(Q(m)) : at[i] \in P /\ Q(m)[i] = s[at[i]]
    BY <1>4, <2>1 DEF PickedFrom
  <2>4. at \in [1 .. Len(Q(m)) -> 1 .. m]
    BY <2>2, <2>3
  <2>5. Q(m) \in Seq(S) /\ Len(Q(m)) <= m - 1
    BY <1>4, <2>1
  <2>6. Len(Q(m)) <= m
    BY <2>2, <2>5
  <2>7. Fine(m)
    BY <2>3, <2>4, <2>5, <2>6 DEF PickedFrom
  <2> QED
    BY <1>2, <2>7
<1>6. CASE m \in P
  <2> DEFINE q == Q(m - 1)
  <2>1. Q(m) = Append(q, s[m])
    BY <1>1, <1>2, <1>3, <1>6
  <2>2. m \in Nat /\ m >= 1 /\ s[m] \in S
    BY <1>2, <1>3
  <2>3. q \in Seq(S) /\ Len(q) \in Nat /\ Len(q) <= m - 1
    BY <1>4
  <2>4. PICK at \in [1 .. Len(q) -> 1 .. m - 1] :
            /\ \A i, j \in 1 .. Len(q) : i < j => at[i] < at[j]
            /\ \A i \in 1 .. Len(q) : at[i] \in P /\ q[i] = s[at[i]]
    BY <1>4 DEF PickedFrom
  <2> HIDE DEF q
  <2>5. /\ Append(q, s[m]) \in Seq(S) /\ Len(Append(q, s[m])) = Len(q) + 1
        /\ \A i \in 1 .. Len(q) : Append(q, s[m])[i] = q[i]
        /\ Append(q, s[m])[Len(q) + 1] = s[m]
    BY <2>2, <2>3, AppendProperties
  <2> DEFINE n1 == Len(q) + 1
             at1 == [i \in 1 .. n1 |-> IF i = n1 THEN m ELSE at[i]]
  <2>6. at1 \in [1 .. n1 -> 1 .. m]
    BY <2>2, <2>3, <2>4
  <2>11. n1 \in 1 .. n1 /\ \A i \in 1 .. n1 : i # n1 => i \in 1 .. Len(q) /\ i < n1
    BY <2>3
  <2>12. \A i \in 1 .. Len(q) : at[i] \in 1 .. m - 1 /\ at[i] < m
    BY <2>2, <2>4
  <2>13. at1[n1] = m /\ \A i \in 1 .. n1 : i # n1 => at1[i] = at[i]
    BY <2>11
  <2>7. \A i, j \in 1 .. n1 : i < j => at1[i] < at1[j]
    <3> SUFFICES ASSUME NEW i \in 1 .. n1, NEW j \in 1 .. n1, i < j PROVE at1[i] < at1[j]
      OBVIOUS
    <3>1. i # n1
      BY <2>3
    <3> HIDE DEF n1, at1
    <3>2. i \in 1 .. Len(q) /\ at1[i] = at[i]
      BY <2>11, <2>13, <3>1
    <3>3. CASE j = n1
      BY <2>12, <2>13, <3>2, <3>3
    <3>4. CASE j # n1
      <4>1. j \in 1 .. Len(q) /\ at1[j] = at[j]
        BY <2>11, <2>13, <3>4
      <4> QED
        BY <2>4, <3>2, <4>1
    <3> QED
      BY <3>3, <3>4
  <2>8. \A i \in 1 .. n1 : at1[i] \in P /\ Append(q, s[m])[i] = s[at1[i]]
    <3> SUFFICES ASSUME NEW i \in 1 .. n1 PROVE at1[i] \in P /\ Append(q, s[m])[i] = s[at1[i]]
      OBVIOUS
    <3>1. CASE i = n1
      BY <1>6, <2>5, <3>1
    <3>2. CASE i # n1
      <4>1. i \in 1 .. Len(q) /\ at1[i] = at[i]
        BY <2>3, <3>2
      <4> QED
        BY <2>4, <2>5, <4>1
    <3> QED
      BY <3>1, <3>2
  <2> HIDE DEF at1
  <2>9. n1 <= m
    BY <2>2, <2>3
  <2>10. Fine(m)
    <3> DEFINE q1 == Append(q, s[m])
    <3>1. q1 \in Seq(S) /\ Len(q1) = n1
      BY <2>5
    <3>2. \A i \in 1 .. n1 : at1[i] \in P /\ q1[i] = s[at1[i]]
      BY <2>8
    <3>3. Q(m) = q1
      BY <2>1
    <3> HIDE DEF n1, q1
    <3> QED
      BY <2>6, <2>7, <2>9, <3>1, <3>2, <3>3 DEF PickedFrom
  <2> QED
    BY <1>2, <2>10
<1> QED
  BY <1>5, <1>6

\* Picking from a sequence that has got one element more.
LEMMA PickedAppend ==
    ASSUME NEW S, NEW s \in Seq(S), NEW x \in S, NEW P, NEW Q,
           \A i \in 1 .. Len(s) : i \in P <=> i \in Q
    PROVE  Picked(Append(s, x), Q) =
               IF Len(s) + 1 \in Q THEN Append(Picked(s, P), x) ELSE Picked(s, P)
<1> DEFINE t == Append(s, x)
           f == PickedUpTo(s, P)
           g == PickedUpTo(t, Q)
           Bad == {k \in 0 .. Len(s) : g[k] # f[k]}
<1>1. /\ t \in Seq(S) /\ Len(t) = Len(s) + 1 /\ Len(s) \in Nat
      /\ \A i \in 1 .. Len(s) : t[i] = s[i]
      /\ t[Len(s) + 1] = x
  BY AppendProperties
<1>2. \A k \in 0 .. Len(s) :
          f[k] = IF k = 0 THEN <<>> ELSE IF k \in P THEN Append(f[k - 1], s[k]) ELSE f[k - 1]
  <2>1. f = [i \in 0 .. Len(s) |-> IF i = 0 THEN <<>>
                                   ELSE IF i \in P THEN Append(f[i - 1], s[i]) ELSE f[i - 1]]
    BY PickedUpToDef
  <2> HIDE DEF f
  <2> QED
    BY <2>1
<1>3. \A k \in 0 .. Len(s) + 1 :
          g[k] = IF k = 0 THEN <<>> ELSE IF k \in Q THEN Append(g[k - 1], t[k]) ELSE g[k - 1]
  <2> HIDE DEF t
  <2>1. g = [i \in 0 .. Len(t) |-> IF i = 0 THEN <<>>
                                   ELSE IF i \in Q THEN Append(g[i - 1], t[i]) ELSE g[i - 1]]
    BY <1>1, PickedUpToDef
  <2> HIDE DEF g
  <2> QED
    BY <1>1, <2>1
<1> HIDE DEF f, g, t
<1>4. \A k \in 0 .. Len(s) : g[k] = f[k]
  <2> SUFFICES ASSUME Bad # {} PROVE FALSE
    OBVIOUS
  <2>1. PICK m \in Bad : \A j \in Bad : m <= j
    <3>1. Bad \subseteq Nat
      OBVIOUS
    <3> HIDE DEF Bad
    <3> QED
      BY <3>1, LeastNumber
  <2>2. m # 0
    BY <1>1, <1>2, <1>3, <2>1
  <2>3. m \in 1 .. Len(s) /\ m - 1 \in 0 .. Len(s) /\ ~ (m <= m - 1)
    BY <1>1, <2>1, <2>2
  <2>4. g[m - 1] = f[m - 1]
    <3>1. m - 1 \notin Bad
      <4> HIDE DEF Bad
      <4> QED
        BY <2>1, <2>3
    <3> QED
      BY <2>3, <3>1
  <2>5. g[m] = IF m \in Q THEN Append(g[m - 1], t[m]) ELSE g[m - 1]
    BY <1>1, <1>3, <2>2, <2>3
  <2>6. f[m] = IF m \in P THEN Append(f[m - 1], s[m]) ELSE f[m - 1]
    BY <1>2, <2>2, <2>3
  <2>7. t[m] = s[m] /\ (m \in P <=> m \in Q)
    BY <1>1, <2>3
  <2> QED
    BY <2>1, <2>4, <2>5, <2>6, <2>7
<1>5. g[Len(s) + 1] = IF Len(s) + 1 \in Q THEN Append(f[Len(s)], x) ELSE f[Len(s)]
  <2>1. Len(s) + 1 \in 0 .. Len(s) + 1 /\ Len(s) + 1 # 0 /\ Len(s) + 1 - 1 = Len(s)
    BY <1>1
  <2>2. g[Len(s)] = f[Len(s)]
    BY <1>1, <1>4
  <2>3. g[Len(s) + 1] = IF Len(s) + 1 \in Q THEN Append(g[Len(s)], t[Len(s) + 1]) ELSE g[Len(s)]
    BY <1>3, <2>1
  <2> QED
    BY <1>1, <2>2, <2>3
<1> QED
  BY <1>1, <1>5 DEF Picked, f, g, t

-----------------------------------------------------------------------------
(* What loadHistory and Squeezed make of a sequence.                       *)

\* loadHistory returns lines of the file, trimmed, in their order.
LEMMA LoadParts ==
    ASSUME NEW f \in Seq(Line)
    PROVE  LET h == loadHistory(f)
           IN  /\ h \in Seq(Line) /\ Len(h) <= Len(f)
               /\ \E at \in [1 .. Len(h) -> 1 .. Len(f)] :
                      /\ \A i, j \in 1 .. Len(h) : i < j => at[i] < at[j]
                      /\ \A i \in 1 .. Len(h) : h[i] = trim(f[at[i]])
<1> DEFINE t == [i \in DOMAIN f |-> trim(f[i])]
           P == {i \in DOMAIN f : t[i] # <<>>}
           h == loadHistory(f)
<1>1. t \in Seq(Seq(Lexeme)) /\ Len(t) = Len(f) /\ Len(f) \in Nat
      /\ \A i \in 1 .. Len(f) : t[i] = trim(f[i])
  <2>1. \A i \in 1 .. Len(f) : trim(f[i]) \in Seq(Lexeme)
    BY TrimType DEF Line
  <2>2. DOMAIN f = 1 .. Len(f) /\ Len(f) \in Nat
    OBVIOUS
  <2> QED
    BY <2>1, <2>2
<1>2. h = PickedUpTo(t, P)[Len(f)]
  <2>1. h = Picked(t, P)
    BY DEF loadHistory
  <2> HIDE DEF h, P, t
  <2> QED
    BY <1>1, <2>1 DEF Picked
<1>3. \A i \in P : t[i] # <<>>
  OBVIOUS
<1> HIDE DEF h, t, P
<1>4. h \in Seq(Seq(Lexeme)) /\ Len(h) <= Len(f) /\ PickedFrom(h, t, P, Len(f))
  <2> DEFINE Text == Seq(Lexeme)
  <2>1. Len(f) \in 0 .. Len(t) /\ t \in Seq(Text)
    BY <1>1
  <2> HIDE DEF Text
  <2> QED
    BY <1>2, <2>1, PickedUpToParts DEF Text
<1>5. PICK at \in [1 .. Len(h) -> 1 .. Len(f)] :
          /\ \A i, j \in 1 .. Len(h) : i < j => at[i] < at[j]
          /\ \A i \in 1 .. Len(h) : at[i] \in P /\ h[i] = t[at[i]]
  BY <1>4 DEF PickedFrom
<1>6. \A i \in 1 .. Len(h) : h[i] = trim(f[at[i]])
  BY <1>1, <1>5
<1>7. h \in Seq(Line)
  <2>1. \A i \in 1 .. Len(h) : h[i] \in Line
    <3> SUFFICES ASSUME NEW i \in 1 .. Len(h) PROVE h[i] \in Line
      OBVIOUS
    <3>1. h[i] \in Seq(Lexeme)
      <4> DEFINE Text == Seq(Lexeme)
      <4>1. h \in Seq(Text)
        BY <1>4
      <4> HIDE DEF Text
      <4>2. h[i] \in Text
        BY <4>1
      <4> QED
        BY <4>2 DEF Text
    <3>2. h[i] # <<>>
      BY <1>3, <1>5
    <3> QED
      BY <3>1, <3>2 DEF Line
  <2> HIDE DEF Line
  <2>2. h = [i \in 1 .. Len(h) |-> h[i]] /\ Len(h) \in Nat
    BY <1>4
  <2> QED
    BY <2>1, <2>2, IsASeq
<1>8. /\ h \in Seq(Line) /\ Len(h) <= Len(f)
      /\ \E e \in [1 .. Len(h) -> 1 .. Len(f)] :
             /\ \A i, j \in 1 .. Len(h) : i < j => e[i] < e[j]
             /\ \A i \in 1 .. Len(h) : h[i] = trim(f[e[i]])
  BY <1>4, <1>5, <1>6, <1>7
<1> QED
  BY <1>8 DEF h

LEMMA SqueezedEmpty == Squeezed(<<>>) = <<>>
<1> DEFINE P == {i \in DOMAIN <<>> : i = 1 \/ <<>>[i] # <<>>[i - 1]}
           f == PickedUpTo(<<>>, P)
<1>1. f = [i \in 0 .. Len(<<>>) |-> IF i = 0 THEN <<>>
                                    ELSE IF i \in P THEN Append(f[i - 1], <<>>[i]) ELSE f[i - 1]]
  <2> DEFINE s == <<>>
  <2>1. s \in Seq({})
    OBVIOUS
  <2> HIDE DEF P, s
  <2>2. PickedUpTo(s, P) = [i \in 0 .. Len(s) |->
            IF i = 0 THEN <<>>
            ELSE IF i \in P THEN Append(PickedUpTo(s, P)[i - 1], s[i]) ELSE PickedUpTo(s, P)[i - 1]]
    BY <2>1, PickedUpToDef
  <2> QED
    BY <2>2 DEF s
<1>2. Squeezed(<<>>) = f[Len(<<>>)]
  BY DEF Squeezed, Picked
<1> HIDE DEF f
<1>3. Len(<<>>) = 0
  OBVIOUS
<1> QED
  BY <1>1, <1>2, <1>3

\* Squeezing keeps the last element.
LEMMA SqueezedLast ==
    ASSUME NEW S, NEW s \in Seq(S), s # <<>>
    PROVE  Squeezed(s) \in Seq(S) /\ Squeezed(s) # <<>> /\ Last(Squeezed(s)) = Last(s)
<1> DEFINE P == {i \in DOMAIN s : i = 1 \/ s[i] # s[i - 1]}
           f == PickedUpTo(s, P)
           Bad == {k \in 1 .. Len(s) : ~ (f[k] # <<>> /\ Last(f[k]) = s[k])}
<1>1. Len(s) \in Nat /\ Len(s) >= 1 /\ DOMAIN s = 1 .. Len(s)
  BY EmptySeq
<1>2. \A k \in 0 .. Len(s) :
          f[k] = IF k = 0 THEN <<>> ELSE IF k \in P THEN Append(f[k - 1], s[k]) ELSE f[k - 1]
  <2> HIDE DEF P
  <2>1. f = [i \in 0 .. Len(s) |-> IF i = 0 THEN <<>>
                                   ELSE IF i \in P THEN Append(f[i - 1], s[i]) ELSE f[i - 1]]
    BY PickedUpToDef
  <2> HIDE DEF f
  <2> QED
    BY <2>1
<1>3. \A k \in 0 .. Len(s) : f[k] \in Seq(S)
  <2> HIDE DEF P
  <2> QED
    BY PickedUpToParts
<1>4. Squeezed(s) = f[Len(s)]
  BY DEF Squeezed, Picked
<1>5. \A k \in 1 .. Len(s) : k \notin P => k # 1 /\ s[k] = s[k - 1]
  BY <1>1
<1> HIDE DEF f, P
<1>6. \A k \in 1 .. Len(s) : f[k] # <<>> /\ Last(f[k]) = s[k]
  <2> SUFFICES ASSUME Bad # {} PROVE FALSE
    OBVIOUS
  <2>1. PICK m \in Bad : \A j \in Bad : m <= j
    <3>1. Bad \subseteq Nat
      OBVIOUS
    <3> HIDE DEF Bad
    <3> QED
      BY <3>1, LeastNumber
  <2>2. m \in 1 .. Len(s)
    BY <2>1
  <2>3. m \notin P
    <3> SUFFICES ASSUME m \in P PROVE FALSE
      OBVIOUS
    <3>1. f[m] = Append(f[m - 1], s[m]) /\ f[m - 1] \in Seq(S) /\ s[m] \in S
      <4>1. m \in 0 .. Len(s) /\ m # 0 /\ m - 1 \in 0 .. Len(s)
        BY <1>1, <2>2
      <4>2. f[m] = Append(f[m - 1], s[m])
        BY <1>2, <4>1
      <4>3. f[m - 1] \in Seq(S)
        BY <1>3, <4>1
      <4>4. s[m] \in S
        BY <2>2
      <4> QED
        BY <4>2, <4>3, <4>4
    <3>2. f[m] # <<>> /\ Last(f[m]) = s[m]
      <4>1. /\ Append(f[m - 1], s[m]) # <<>>
            /\ Len(Append(f[m - 1], s[m])) = Len(f[m - 1]) + 1
            /\ Append(f[m - 1], s[m])[Len(f[m - 1]) + 1] = s[m]
        BY <3>1, AppendProperties
      <4> QED
        BY <3>1, <4>1 DEF Last
    <3> QED
      BY <2>1, <3>2
  <2>4. m # 1 /\ s[m] = s[m - 1] /\ f[m] = f[m - 1]
    BY <1>1, <1>2, <1>5, <2>2, <2>3
  <2>5. m - 1 \in 1 .. Len(s) /\ ~ (m <= m - 1)
    BY <1>1, <2>2, <2>4
  <2>6. m - 1 \notin Bad
    <3> HIDE DEF Bad
    <3> QED
      BY <2>1, <2>5
  <2> QED
    BY <2>1, <2>4, <2>5, <2>6
<1> QED
  BY <1>1, <1>3, <1>4, <1>6 DEF Last

\* A line that repeats the last one adds nothing.
LEMMA SqueezedAppend ==
    ASSUME NEW S, NEW s \in Seq(S), NEW x \in S
    PROVE  Squeezed(Append(s, x)) =
               IF s # <<>> /\ Last(s) = x THEN Squeezed(s) ELSE Append(Squeezed(s), x)
<1> DEFINE t == Append(s, x)
           P == {i \in DOMAIN s : i = 1 \/ s[i] # s[i - 1]}
           Q == {i \in DOMAIN t : i = 1 \/ t[i] # t[i - 1]}
<1>1. /\ t \in Seq(S) /\ Len(t) = Len(s) + 1 /\ Len(s) \in Nat
      /\ \A i \in 1 .. Len(s) : t[i] = s[i]
      /\ t[Len(s) + 1] = x
      /\ DOMAIN s = 1 .. Len(s) /\ DOMAIN t = 1 .. Len(s) + 1
  BY AppendProperties
<1> HIDE DEF t
<1>2. \A i \in 1 .. Len(s) : i \in P <=> i \in Q
  <2> SUFFICES ASSUME NEW i \in 1 .. Len(s) PROVE i \in P <=> i \in Q
    OBVIOUS
  <2>1. i \in 1 .. Len(s) + 1 /\ (i # 1 => i - 1 \in 1 .. Len(s))
    BY <1>1
  <2>2. t[i] = s[i] /\ (i # 1 => t[i - 1] = s[i - 1])
    BY <1>1, <2>1
  <2> QED
    BY <1>1, <2>1, <2>2
<1>3. Len(s) + 1 \in Q <=> ~ (s # <<>> /\ Last(s) = x)
  <2>1. CASE s = <<>>
    BY <1>1, <2>1
  <2>2. CASE s # <<>>
    <3>1. Len(s) # 0
      BY <2>2, EmptySeq
    <3>2. Len(s) + 1 # 1 /\ Len(s) + 1 - 1 = Len(s) /\ t[Len(s)] = s[Len(s)]
      BY <1>1, <3>1
    <3> QED
      BY <1>1, <2>2, <3>2 DEF Last
  <2> QED
    BY <2>1, <2>2
<1>4. Squeezed(s) = Picked(s, P) /\ Squeezed(t) = Picked(t, Q)
  BY DEF Squeezed
<1> HIDE DEF P, Q
<1> QED
  BY <1>2, <1>3, <1>4, PickedAppend DEF t

-----------------------------------------------------------------------------
(* What the history keeps of the session.                                  *)

LEMMA SuffixIs ==
    ASSUME NEW S, NEW s \in Seq(S), NEW t \in Seq(S)
    PROVE  IsSuffix(s, t) <=> /\ Len(s) <= Len(t)
                              /\ \A i \in 1 .. Len(s) : s[i] = t[Len(t) - Len(s) + i]
<1> DEFINE m == Len(s)
           n == Len(t)
           rs == Reverse(s)
           rt == Reverse(t)
<1>1. m \in Nat /\ n \in Nat
  OBVIOUS
<1>2. /\ rs \in Seq(S) /\ Len(rs) = m /\ \A i \in 1 .. m : rs[i] = s[m - i + 1]
      /\ rt \in Seq(S) /\ Len(rt) = n /\ \A i \in 1 .. n : rt[i] = t[n - i + 1]
  BY DEF Reverse
<1>3. IsSuffix(s, t) <=> m <= n /\ SubSeq(rs, 1, m) = SubSeq(rt, 1, m)
  BY <1>2 DEF IsSuffix, IsPrefix
<1> HIDE DEF m, n, rs, rt
<1>4. ASSUME m <= n
      PROVE  (SubSeq(rs, 1, m) = SubSeq(rt, 1, m)) <=> \A i \in 1 .. m : s[i] = t[n - m + i]
  <2>1. SubSeq(rs, 1, m) = [i \in 1 .. m |-> rs[i]]
    BY <1>1, <1>2
  <2>2. SubSeq(rt, 1, m) = [i \in 1 .. m |-> rt[i]]
    BY <1>1, <1>2, <1>4
  <2>3. (SubSeq(rs, 1, m) = SubSeq(rt, 1, m)) <=> \A i \in 1 .. m : rs[i] = rt[i]
    BY <2>1, <2>2
  <2>4. \A i \in 1 .. m : /\ m - i + 1 \in 1 .. m
                          /\ rs[i] = s[m - i + 1] /\ rt[i] = t[n - m + (m - i + 1)]
    <3> SUFFICES ASSUME NEW i \in 1 .. m
                 PROVE  /\ m - i + 1 \in 1 .. m
                        /\ rs[i] = s[m - i + 1] /\ rt[i] = t[n - m + (m - i + 1)]
      OBVIOUS
    <3>1. n - m + (m - i + 1) = n - i + 1 /\ i \in 1 .. n
      BY <1>1, <1>4
    <3> QED
      BY <1>1, <1>2, <3>1
  <2>5. ASSUME \A i \in 1 .. m : rs[i] = rt[i], NEW i \in 1 .. m
        PROVE  s[i] = t[n - m + i]
    <3>1. m - i + 1 \in 1 .. m /\ m - (m - i + 1) + 1 = i
      BY <1>1
    <3> QED
      BY <2>4, <2>5, <3>1
  <2>6. ASSUME \A i \in 1 .. m : s[i] = t[n - m + i], NEW i \in 1 .. m
        PROVE  rs[i] = rt[i]
    BY <2>4, <2>6
  <2> QED
    BY <2>3, <2>5, <2>6
<1> QED
  BY <1>3, <1>4 DEF m, n

LEMMA SuffixFrom ==
    ASSUME NEW S, NEW s \in Seq(S), NEW t \in Seq(S), NEW m, NEW n, Len(s) = m, Len(t) = n,
           m <= n, \A i \in 1 .. m : s[i] = t[n - m + i]
    PROVE  IsSuffix(s, t)
BY SuffixIs

\* A history that ends with the session, or has lost its start.
Keeps(h, q) == IsSuffix(q, h) \/ (Len(h) = MAXHISTSIZE /\ IsSuffix(h, q))

\* Remember keeps the session in the history, also when it is full.
LEMMA RememberKeeps ==
    ASSUME NEW h \in Histories, NEW q \in Seq(Line), NEW l \in Line, Keeps(h, q)
    PROVE  /\ Remember(h, l) \in Histories
           /\ Keeps(Remember(h, l), IF q # <<>> /\ Last(q) = l THEN q ELSE Append(q, l))
<1> DEFINE n == Len(h)
           k == Len(q)
<1>1. /\ h \in Seq(Line) /\ n \in Nat /\ n <= MAXHISTSIZE
      /\ MAXHISTSIZE \in Nat /\ MAXHISTSIZE >= 1 /\ k \in Nat
  BY PromptAssumption DEF Histories
<1>2. (IsSuffix(q, h) <=> k <= n /\ \A i \in 1 .. k : q[i] = h[n - k + i])
  BY <1>1, SuffixIs
<1>3. (IsSuffix(h, q) <=> n <= k /\ \A i \in 1 .. n : h[i] = q[k - n + i])
  BY <1>1, SuffixIs
<1>4. (h = <<>> <=> n = 0) /\ (q = <<>> <=> k = 0)
  BY <1>1, EmptySeq
<1>5. Last(h) = h[n] /\ Last(q) = q[k]
  BY DEF Last
<1>6. /\ Append(q, l) \in Seq(Line) /\ Len(Append(q, l)) = k + 1
      /\ \A i \in 1 .. k : Append(q, l)[i] = q[i]
      /\ Append(q, l)[k + 1] = l
  BY <1>1, AppendProperties
\* The last elements of h and q are the same, if both have one.
<1>7. n # 0 /\ k # 0 => h[n] = q[k]
  <2>1. CASE IsSuffix(q, h) /\ k # 0
    <3>1. k \in 1 .. k /\ n - k + k = n
      BY <1>1, <2>1
    <3> QED
      BY <1>2, <2>1, <3>1
  <2>2. CASE IsSuffix(h, q) /\ n # 0
    <3>1. n \in 1 .. n /\ k - n + n = k
      BY <1>1, <2>2
    <3> QED
      BY <1>3, <2>2, <3>1
  <2> QED
    BY <2>1, <2>2 DEF Keeps
<1>8. CASE h # <<>> /\ Last(h) = l
  <2>1. Remember(h, l) = h
    BY <1>8 DEF Remember
  <2>2. CASE q # <<>>
    BY <1>4, <1>5, <1>7, <1>8, <2>1, <2>2
  <2>3. CASE q = <<>>
    <3>1. k = 0 /\ n # 0 /\ h[n] = l
      BY <1>4, <1>5, <1>8, <2>3
    <3>2. \A i \in 1 .. 1 : Append(q, l)[i] = h[n - 1 + i]
      BY <1>1, <1>6, <3>1
    <3>3. IsSuffix(Append(q, l), h)
      <4>1. Len(Append(q, l)) = 1 /\ 1 <= n
        BY <1>1, <1>6, <3>1
      <4> HIDE DEF n
      <4> QED
        BY <1>1, <1>6, <3>2, <4>1, SuffixFrom DEF n
    <3> QED
      BY <2>1, <2>3, <3>3 DEF Keeps
  <2> QED
    BY <2>2, <2>3
<1>9. CASE ~ (h # <<>> /\ Last(h) = l)
  <2> DEFINE g == IF n >= MAXHISTSIZE THEN Tail(h) ELSE h
             q1 == Append(q, l)
             h1 == Append(g, l)
  <2>1. Remember(h, l) = h1
    BY <1>9 DEF Remember
  <2>2. ~ (q # <<>> /\ Last(q) = l)
    <3> SUFFICES ASSUME q # <<>>, Last(q) = l PROVE FALSE
      OBVIOUS
    <3>1. k # 0 /\ n = 0
      BY <1>4, <1>5, <1>7, <1>9
    <3>2. ~ IsSuffix(q, h)
      BY <1>1, <1>2, <3>1
    <3> QED
      BY <1>1, <3>1, <3>2 DEF Keeps
  <2>3. CASE n < MAXHISTSIZE
    <3>1. g = h /\ IsSuffix(q, h)
      BY <1>1, <2>3 DEF Keeps
    <3>2. /\ h1 \in Seq(Line) /\ Len(h1) = n + 1
          /\ \A i \in 1 .. n : h1[i] = h[i]
          /\ h1[n + 1] = l
      BY <1>1, <3>1, AppendProperties
    <3>3. k <= n /\ \A i \in 1 .. k : q[i] = h[n - k + i]
      BY <1>2, <3>1
    <3> HIDE DEF n, k, g, h1
    <3> DEFINE k1 == k + 1
               n1 == n + 1
    <3>4. \A i \in 1 .. k1 : q1[i] = h1[n1 - k1 + i]
      <4> SUFFICES ASSUME NEW i \in 1 .. k1 PROVE q1[i] = h1[n1 - k1 + i]
        OBVIOUS
      <4>1. CASE i = k + 1
        <5>1. n + 1 - (k + 1) + i = n + 1
          BY <1>1, <4>1
        <5> QED
          BY <1>6, <3>2, <4>1, <5>1
      <4>2. CASE i # k + 1
        <5>1. /\ i \in 1 .. k /\ n + 1 - (k + 1) + i = n - k + i
              /\ n - k + i \in 1 .. n
          BY <1>1, <3>3, <4>2
        <5> DEFINE at == n - k + i
        <5>2. n1 - k1 + i = at /\ at \in 1 .. n
          BY <1>1, <5>1
        <5>3. q[i] = h[at]
          BY <3>3, <5>1
        <5> HIDE DEF at, n1, k1
        <5>4. q1[i] = q[i] /\ h1[at] = h[at]
          BY <1>6, <3>2, <5>1, <5>2
        <5> QED
          BY <5>2, <5>3, <5>4
      <4> QED
        BY <4>1, <4>2
    <3> HIDE DEF q1
    <3>5. IsSuffix(q1, h1)
      <4>1. q1 \in Seq(Line) /\ Len(q1) = k + 1 /\ k + 1 <= n + 1
        BY <1>1, <1>6, <3>3 DEF q1
      <4>2. Len(q1) = k1 /\ Len(h1) = n1 /\ k1 <= n1
        BY <3>2, <4>1
      <4> HIDE DEF k1, n1
      <4> QED
        BY <3>2, <3>4, <4>1, <4>2, SuffixFrom
    <3>6. h1 \in Histories
      BY <1>1, <2>3, <3>2 DEF Histories
    <3> QED
      BY <2>1, <2>2, <3>5, <3>6 DEF Keeps, q1
  <2>4. CASE ~ (n < MAXHISTSIZE)
    <3>1. n = MAXHISTSIZE /\ n # 0 /\ h # <<>>
      BY <1>1, <1>4, <2>4
    <3>2. /\ g \in Seq(Line) /\ Len(g) = n - 1
          /\ \A i \in 1 .. n - 1 : g[i] = h[i + 1]
      BY <1>1, <3>1, HeadTailProperties
    <3>3. /\ h1 \in Seq(Line) /\ Len(h1) = n
          /\ \A i \in 1 .. n - 1 : h1[i] = h[i + 1]
          /\ h1[n] = l
      <4>1. /\ h1 \in Seq(Line) /\ Len(h1) = Len(g) + 1
            /\ \A i \in 1 .. Len(g) : h1[i] = g[i]
            /\ h1[Len(g) + 1] = l
        <5>1. g \in Seq(Line) /\ l \in Line
          BY <3>2
        <5> HIDE DEF g
        <5> QED
          BY <5>1, AppendProperties
      <4>2. Len(g) = n - 1 /\ (n - 1) + 1 = n /\ n \in Nat
        BY <1>1, <3>2
      <4>3. \A i \in 1 .. n - 1 : h1[i] = g[i] /\ g[i] = h[i + 1]
        BY <3>2, <4>1, <4>2
      <4>4. Len(h1) = n
        BY <4>1, <4>2
      <4>5. Len(g) + 1 = n
        BY <4>2
      <4>6. \A i \in 1 .. n - 1 : h1[i] = h[i + 1]
        BY <4>3
      <4> HIDE DEF h1, g, n
      <4>7. h1[n] = l
        BY <4>1, <4>5
      <4> QED
        BY <4>1, <4>4, <4>6, <4>7
    <3>4. q1 \in Seq(Line) /\ Len(q1) = k + 1
      BY <1>6
    <3>5. h1 \in Histories
      BY <1>1, <3>3 DEF Histories
    <3> HIDE DEF n, k, g, h1
    <3>6. CASE IsSuffix(q, h) /\ k < n
      <4>1. \A i \in 1 .. k + 1 : q1[i] = h1[n - (k + 1) + i]
        <5> SUFFICES ASSUME NEW i \in 1 .. k + 1 PROVE q1[i] = h1[n - (k + 1) + i]
          OBVIOUS
        <5>1. CASE i = k + 1
          <6>1. n - (k + 1) + i = n
            BY <1>1, <5>1
          <6> QED
            BY <1>6, <3>3, <5>1, <6>1
        <5>2. CASE i # k + 1
          <6>1. /\ i \in 1 .. k /\ n - (k + 1) + i \in 1 .. n - 1
                /\ n - (k + 1) + i + 1 = n - k + i
            BY <1>1, <3>6, <5>2
          <6>2. q[i] = h[n - k + i]
            BY <1>2, <3>6, <6>1
          <6> QED
            BY <1>6, <3>3, <6>1, <6>2
        <5> QED
          BY <5>1, <5>2
      <4>2. IsSuffix(q1, h1)
        <5>1. k + 1 <= n
          BY <1>1, <3>6
        <5> HIDE DEF q1
        <5> QED
          BY <3>3, <3>4, <4>1, <5>1, SuffixFrom
      <4> QED
        BY <2>1, <2>2, <3>5, <4>2 DEF Keeps
    <3>7. CASE ~ (IsSuffix(q, h) /\ k < n)
      <4>1. n <= k /\ \A i \in 1 .. n : h[i] = q[k - n + i]
        <5>1. CASE IsSuffix(h, q)
          BY <1>3, <5>1
        <5>2. CASE IsSuffix(q, h)
          <6>1. k = n
            BY <1>1, <1>2, <3>7, <5>2
          <6>2. \A i \in 1 .. n : n - k + i = i /\ k - n + i = i
            BY <1>1, <6>1
          <6> QED
            BY <1>1, <1>2, <5>2, <6>1, <6>2
        <5> QED
          BY <5>1, <5>2 DEF Keeps
      <4> DEFINE k1 == k + 1
      <4>2. \A i \in 1 .. n : h1[i] = q1[k1 - n + i]
        <5> SUFFICES ASSUME NEW i \in 1 .. n PROVE h1[i] = q1[k1 - n + i]
          OBVIOUS
        <5>1. CASE i = n
          <6>1. k + 1 - n + i = k + 1
            BY <1>1, <5>1
          <6> QED
            BY <1>6, <3>3, <5>1, <6>1
        <5>2. CASE i # n
          <6>1. /\ i \in 1 .. n - 1 /\ i + 1 \in 1 .. n
                /\ k + 1 - n + i = k - n + (i + 1) /\ k + 1 - n + i \in 1 .. k
            BY <1>1, <4>1, <5>2
          <6> DEFINE at == k - n + (i + 1)
          <6>2. h1[i] = h[i + 1] /\ h[i + 1] = q[at]
            BY <3>3, <4>1, <6>1
          <6>3. k1 - n + i = at /\ at \in 1 .. k
            BY <1>1, <6>1
          <6> HIDE DEF at, k1
          <6>4. q1[at] = q[at]
            BY <1>6, <6>3
          <6> QED
            BY <6>2, <6>3, <6>4
        <5> QED
          BY <5>1, <5>2
      <4>3. IsSuffix(h1, q1)
        <5>1. n <= k + 1
          BY <1>1, <4>1
        <5> HIDE DEF q1
        <5>2. Len(q1) = k1 /\ n <= k1
          BY <3>4, <5>1
        <5> HIDE DEF k1
        <5> QED
          BY <3>3, <3>4, <4>2, <5>2, SuffixFrom
      <4> QED
        BY <2>1, <2>2, <3>1, <3>3, <3>5, <4>3 DEF Keeps
    <3> QED
      BY <3>6, <3>7
  <2> QED
    BY <2>3, <2>4
<1> QED
  BY <1>8, <1>9

-----------------------------------------------------------------------------
(* Lines in the order they were entered.                                   *)

LEMMA InOrderEmpty ==
    ASSUME NEW lines \in Seq(Line)
    PROVE  InOrder(<<>>, lines)
<1>1. [i \in {} |-> 0] \in [DOMAIN <<>> -> DOMAIN lines] /\ DOMAIN <<>> = {}
  OBVIOUS
<1> QED
  BY <1>1 DEF InOrder

\* More lines are entered.
LEMMA InOrderGrows ==
    ASSUME NEW h \in Seq(Line), NEW lines \in Seq(Line), NEW l \in Line, InOrder(h, lines)
    PROVE  InOrder(h, Append(lines, l)) /\ InOrder(Append(h, l), Append(lines, l))
<1> DEFINE n == Len(h)
           m == Len(lines)
           e == Append(lines, l)
           h1 == Append(h, l)
<1>1. /\ n \in Nat /\ m \in Nat /\ DOMAIN h = 1 .. n /\ DOMAIN lines = 1 .. m
      /\ DOMAIN e = 1 .. m + 1 /\ DOMAIN h1 = 1 .. n + 1
      /\ \A i \in 1 .. m : e[i] = lines[i]
      /\ \A i \in 1 .. n : h1[i] = h[i]
      /\ e[m + 1] = l /\ h1[n + 1] = l
  <2>1. n \in Nat /\ m \in Nat /\ DOMAIN h = 1 .. n /\ DOMAIN lines = 1 .. m
    OBVIOUS
  <2>2. e \in Seq(Line) /\ Len(e) = m + 1 /\ (\A i \in 1 .. m : e[i] = lines[i]) /\ e[m + 1] = l
    BY AppendProperties
  <2>3. h1 \in Seq(Line) /\ Len(h1) = n + 1 /\ (\A i \in 1 .. n : h1[i] = h[i]) /\ h1[n + 1] = l
    BY AppendProperties
  <2> HIDE DEF n, m, e, h1
  <2>4. DOMAIN e = 1 .. m + 1
    BY <2>2
  <2>5. DOMAIN h1 = 1 .. n + 1
    BY <2>3
  <2> QED
    BY <2>1, <2>2, <2>3, <2>4, <2>5
<1> HIDE DEF n, m, e, h1
<1>2. PICK at \in [1 .. n -> 1 .. m] :
          /\ \A i, j \in 1 .. n : i < j => at[i] < at[j]
          /\ \A i \in 1 .. n : trim(h[i]) = trim(lines[at[i]])
  BY <1>1 DEF InOrder
<1>3. InOrder(h, e)
  <2>1. at \in [1 .. n -> 1 .. m + 1]
    BY <1>1, <1>2
  <2>2. \A i \in 1 .. n : trim(h[i]) = trim(e[at[i]])
    BY <1>1, <1>2
  <2> QED
    BY <1>1, <1>2, <2>1, <2>2 DEF InOrder
<1>4. InOrder(h1, e)
  <2> DEFINE n1 == n + 1
             m1 == m + 1
             at1 == [i \in 1 .. n1 |-> IF i = n1 THEN m1 ELSE at[i]]
  <2>1. at1 \in [1 .. n1 -> 1 .. m1]
    BY <1>1, <1>2
  <2>2. ASSUME NEW i \in 1 .. n1, NEW j \in 1 .. n1, i < j
        PROVE  at1[i] < at1[j]
    <3>1. i \in 1 .. n /\ at1[i] = at[i] /\ at[i] \in 1 .. m
      BY <1>1, <1>2, <2>2
    <3>2. CASE j = n1
      BY <1>1, <3>1, <3>2
    <3>3. CASE j # n1
      <4>1. j \in 1 .. n /\ at1[j] = at[j]
        BY <1>1, <3>3
      <4> QED
        BY <1>2, <2>2, <3>1, <4>1
    <3> QED
      BY <3>2, <3>3
  <2>3. ASSUME NEW i \in 1 .. n1
        PROVE  trim(h1[i]) = trim(e[at1[i]])
    <3>1. CASE i = n1
      BY <1>1, <3>1
    <3>2. CASE i # n1
      <4>1. i \in 1 .. n /\ at1[i] = at[i]
        BY <1>1, <3>2
      <4> QED
        BY <1>1, <1>2, <4>1
    <3> QED
      BY <3>1, <3>2
  <2>4. DOMAIN h1 = 1 .. n1 /\ DOMAIN e = 1 .. m1
    BY <1>1
  <2> HIDE DEF n1, m1, at1
  <2> QED
    BY <2>1, <2>2, <2>3, <2>4 DEF InOrder
<1> QED
  BY <1>3, <1>4 DEF e, h1

\* Leaving lines out, or trimming them, keeps the order.
LEMMA InOrderPart ==
    ASSUME NEW h \in Seq(Line), NEW lines \in Seq(Line), NEW g \in Seq(Line), InOrder(h, lines),
           NEW part \in [1 .. Len(g) -> 1 .. Len(h)],
           \A i, j \in 1 .. Len(g) : i < j => part[i] < part[j],
           \A i \in 1 .. Len(g) : trim(g[i]) = trim(h[part[i]])
    PROVE  InOrder(g, lines)
<1> DEFINE n == Len(h)
           m == Len(lines)
           k == Len(g)
<1>1. DOMAIN h = 1 .. n /\ DOMAIN lines = 1 .. m /\ DOMAIN g = 1 .. k
  OBVIOUS
<1>2. PICK at \in [1 .. n -> 1 .. m] :
          /\ \A i, j \in 1 .. n : i < j => at[i] < at[j]
          /\ \A i \in 1 .. n : trim(h[i]) = trim(lines[at[i]])
  BY <1>1 DEF InOrder
<1> DEFINE at1 == [i \in 1 .. k |-> at[part[i]]]
<1>3. at1 \in [1 .. k -> 1 .. m]
  BY <1>2
<1>4. ASSUME NEW i \in 1 .. k, NEW j \in 1 .. k, i < j
      PROVE  at1[i] < at1[j]
  <2>1. part[i] \in 1 .. n /\ part[j] \in 1 .. n /\ part[i] < part[j]
    BY <1>4
  <2>2. at[part[i]] < at[part[j]]
    BY <1>2, <2>1
  <2> QED
    BY <2>2
<1>5. ASSUME NEW i \in 1 .. k
      PROVE  trim(g[i]) = trim(lines[at1[i]])
  <2>1. part[i] \in 1 .. n
    OBVIOUS
  <2> QED
    BY <1>2, <2>1
<1> HIDE DEF n, m, k, at1
<1> QED
  BY <1>1, <1>3, <1>4, <1>5 DEF InOrder

LEMMA InOrderSubSeq ==
    ASSUME NEW h \in Seq(Line), NEW lines \in Seq(Line), InOrder(h, lines),
           NEW a \in 1 .. Len(h) + 1, NEW b \in a - 1 .. Len(h)
    PROVE  SubSeq(h, a, b) \in Seq(Line) /\ InOrder(SubSeq(h, a, b), lines)
<1> DEFINE g == SubSeq(h, a, b)
           k == b - a + 1
           part == [i \in 1 .. k |-> a + i - 1]
<1>1. /\ g \in Seq(Line) /\ Len(g) = k /\ k \in Nat
      /\ \A i \in 1 .. k : g[i] = h[a + i - 1]
  <2>1. a \in Nat /\ b \in Nat /\ a >= 1 /\ Len(h) \in Nat
    OBVIOUS
  <2> QED
    BY <2>1, SubSeqProperties
<1>2. part \in [1 .. k -> 1 .. Len(h)]
  BY <1>1
<1>3. \A i, j \in 1 .. k : i < j => part[i] < part[j]
  BY <1>1
<1>4. \A i \in 1 .. k : trim(g[i]) = trim(h[part[i]])
  BY <1>1
<1> HIDE DEF g, part, k
<1>5. InOrder(g, lines)
  BY <1>1, <1>2, <1>3, <1>4, InOrderPart
<1> QED
  BY <1>1, <1>5 DEF g

\* So does what loadHistory makes of a file.
LEMMA InOrderLoad ==
    ASSUME NEW f \in Histories, NEW lines \in Seq(Line), InOrder(f, lines)
    PROVE  loadHistory(f) \in Histories /\ InOrder(loadHistory(f), lines)
<1> DEFINE h == loadHistory(f)
<1>1. f \in Seq(Line) /\ Len(f) <= MAXHISTSIZE /\ Len(f) \in Nat
  BY DEF Histories
<1>2. h \in Seq(Line) /\ Len(h) <= Len(f)
  BY <1>1, LoadParts
<1>3. PICK at \in [1 .. Len(h) -> 1 .. Len(f)] :
          /\ \A i, j \in 1 .. Len(h) : i < j => at[i] < at[j]
          /\ \A i \in 1 .. Len(h) : h[i] = trim(f[at[i]])
  BY <1>1, LoadParts
<1> HIDE DEF h
<1>4. \A i \in 1 .. Len(h) : trim(h[i]) = trim(f[at[i]])
  <2> SUFFICES ASSUME NEW i \in 1 .. Len(h) PROVE trim(h[i]) = trim(f[at[i]])
    OBVIOUS
  <2>1. f[at[i]] \in Seq(Lexeme)
    <3>1. f[at[i]] \in Line
      BY <1>1, <1>3
    <3> QED
      BY <3>1 DEF Line
  <2> QED
    BY <1>3, <2>1, TrimTwice
<1>5. InOrder(h, lines)
  BY <1>1, <1>2, <1>3, <1>4, InOrderPart
<1>6. h \in Histories
  <2>1. Len(h) <= MAXHISTSIZE
    BY <1>1, <1>2, PromptAssumption
  <2> QED
    BY <1>2, <2>1 DEF Histories
<1> QED
  BY <1>5, <1>6 DEF h

\* And Remember.
LEMMA InOrderRemember ==
    ASSUME NEW h \in Histories, NEW lines \in Seq(Line), NEW l \in Line, InOrder(h, lines)
    PROVE  InOrder(Remember(h, l), Append(lines, l))
<1>1. h \in Seq(Line)
  BY DEF Histories
<1>2. CASE h # <<>> /\ Last(h) = l
  <2>1. Remember(h, l) = h
    BY <1>2 DEF Remember
  <2> QED
    BY <1>1, <2>1, InOrderGrows
<1>3. CASE ~ (h # <<>> /\ Last(h) = l) /\ ~ (Len(h) >= MAXHISTSIZE)
  <2>1. Remember(h, l) = Append(h, l)
    BY <1>3 DEF Remember
  <2> QED
    BY <1>1, <2>1, InOrderGrows
<1>4. CASE ~ (h # <<>> /\ Last(h) = l) /\ Len(h) >= MAXHISTSIZE
  <2>1. Remember(h, l) = Append(Tail(h), l)
    BY <1>4 DEF Remember
  <2>2. Len(h) \in Nat /\ Len(h) >= 1
    BY <1>1, <1>4, PromptAssumption
  <2>3. Tail(h) = SubSeq(h, 2, Len(h))
    BY <1>1, <2>2
  <2>4. Tail(h) \in Seq(Line) /\ InOrder(Tail(h), lines)
    <3> DEFINE a == 2
    <3>1. a \in 1 .. Len(h) + 1 /\ Len(h) \in a - 1 .. Len(h) /\ Tail(h) = SubSeq(h, a, Len(h))
      BY <2>2, <2>3
    <3> HIDE DEF a
    <3> QED
      BY <1>1, <3>1, InOrderSubSeq
  <2> QED
    BY <2>1, <2>4, InOrderGrows
<1> QED
  BY <1>2, <1>3, <1>4

-----------------------------------------------------------------------------
(* The inductive invariant.                                                *)

\* While the history is saved, the file has what saveHistory has written.
SaveInv == mode = "save" => files[cwd] = SubSeq(history, 1, saved)

IInv == TypeOK /\ SessionKept /\ HistoryInOrder /\ SaveInv

\* The lines of this session.
Session == SubSeq(entered, since + 1, Len(entered))

LEMMA SessionIs == SessionKept <=> (Running => Keeps(history, Squeezed(Session)))
BY DEF SessionKept, Session, Keeps

LEMMA HistoriesAre ==
    /\ <<>> \in Histories
    /\ \A h \in Histories : h \in Seq(Line) /\ Len(h) \in Nat /\ Len(h) <= MAXHISTSIZE
<1>1. <<>> \in Seq(Line) /\ Len(<<>>) = 0
  OBVIOUS
<1> QED
  BY <1>1, PromptAssumption DEF Histories

LEMMA InitInv == Init => IInv
<1> SUFFICES ASSUME Init PROVE IInv
  OBVIOUS
<1>1. <<>> \in Seq(Line) /\ <<>> \in Seq(Lexeme) /\ Len(<<>>) = 0
  OBVIOUS
<1>2. TypeOK
  BY <1>1, HistoriesAre, PromptAssumption DEF Init, TypeOK
<1>3. HistoryInOrder
  BY <1>1, InOrderEmpty DEF Init, HistoryInOrder, Running
<1> QED
  BY <1>2, <1>3 DEF Init, IInv, SessionKept, SaveInv, Running

\* The line editor changes the line and the place in the history only.
LEMMA EditKeeps ==
    ASSUME IInv, line' \in Seq(Lexeme), asked' \in 0 .. Len(history),
           UNCHANGED <<mode, cwd, file, history, ghosts>>
    PROVE  IInv'
<1>1. TypeOK'
  BY DEF IInv, TypeOK, file, ghosts
<1>2. SessionKept' /\ HistoryInOrder' /\ SaveInv'
  BY DEF IInv, SessionKept, HistoryInOrder, SaveInv, Running, file, ghosts
<1> QED
  BY <1>1, <1>2 DEF IInv

\* What Tab may make of a line.
LEMMA AutocompleteType ==
    ASSUME NEW l \in Seq(Lexeme)
    PROVE  autocomplete(l) \subseteq Seq(Lexeme)
<1> DEFINE I == {i \in 1 .. Len(l) : l[i] = Blank}
           before == SelectLastInSeq(l, LAMBDA c : c = Blank)
           word == SubSeq(l, before + 1, Len(l))
           best == Max({Shared(d, word) : d \in Dirs})
           matches == {d \in Dirs : Shared(d, word) = best}
<1>1. before \in 0 .. Len(l)
  <2>1. before = IF I # {} THEN Max(I) ELSE 0
    BY DEF SelectLastInSeq
  <2>2. I # {} => Max(I) \in I
    <3>1. I \subseteq 0 .. Len(l) /\ Len(l) \in Nat
      OBVIOUS
    <3> HIDE DEF I
    <3> QED
      BY <3>1, MaxInSet
  <2> QED
    BY <2>1, <2>2
<1> HIDE DEF before
<1>2. SubSeq(l, 1, before) \in Seq(Lexeme)
  BY <1>1, SubSeqProperties
<1>3. \A d \in matches : SubSeq(l, 1, before) \o d \in Seq(Lexeme)
  <2> SUFFICES ASSUME NEW d \in matches PROVE SubSeq(l, 1, before) \o d \in Seq(Lexeme)
    OBVIOUS
  <2>1. d \in Seq(Lexeme)
    BY PromptAssumption
  <2> QED
    BY <1>2, <2>1, ConcatProperties
<1>4. <<>> \in Seq(Lexeme)
  OBVIOUS
<1>5. autocomplete(l) =
          IF best = 0 THEN {l}
          ELSE {SubSeq(l, 1, before) \o d : d \in matches}
                   \cup (IF Cardinality(matches) > 1 THEN {<<>>} ELSE {})
  BY DEF autocomplete, before
<1> HIDE DEF matches, best
<1> QED
  BY <1>3, <1>4, <1>5

LEMMA EditorKeeps ==
    ASSUME IInv, \/ \E s \in Typed : Type(s)
                 \/ Backspace \/ Tab \/ UpArrow \/ DownArrow \/ ControlR
    PROVE  IInv'
<1>1. /\ line \in Seq(Lexeme) /\ history \in Seq(Line) /\ Len(history) \in Nat
      /\ asked \in 0 .. Len(history)
  BY HistoriesAre DEF IInv, TypeOK
<1>2. \A i \in 1 .. Len(history) : history[i] \in Seq(Lexeme)
  <2>1. \A i \in 1 .. Len(history) : history[i] \in Line
    BY <1>1
  <2> QED
    BY <2>1 DEF Line
<1>3. ASSUME NEW s \in Typed, Type(s) PROVE IInv'
  <2>1. s \in Seq(Lexeme)
    BY PromptAssumption
  <2>2. line' \in Seq(Lexeme) /\ asked' \in 0 .. Len(history)
    BY <1>1, <1>3, <2>1, ConcatProperties DEF Type
  <2> QED
    BY <1>3, <2>2, EditKeeps DEF Type
<1>4. CASE Backspace
  <2>1. Front(line) \in Seq(Lexeme)
    <3>1. line # <<>>
      BY <1>4 DEF Backspace
    <3>2. Len(line) \in Nat /\ Len(line) >= 1
      BY <1>1, <3>1, EmptySeq
    <3>3. SubSeq(line, 1, Len(line) - 1) \in Seq(Lexeme)
      BY <1>1, <3>2, SubSeqProperties
    <3> QED
      BY <3>3 DEF Front
  <2> QED
    BY <1>1, <1>4, <2>1, EditKeeps DEF Backspace
<1>5. CASE Tab
  BY <1>1, <1>5, AutocompleteType, EditKeeps DEF Tab
<1>6. CASE UpArrow
  <2>1. asked' \in 0 .. Len(history) /\ asked' + 1 \in 1 .. Len(history)
    BY <1>1, <1>6 DEF UpArrow
  <2>2. line' \in Seq(Lexeme)
    BY <1>2, <1>6, <2>1 DEF UpArrow
  <2> QED
    BY <1>6, <2>1, <2>2, EditKeeps DEF UpArrow
<1>7. CASE DownArrow
  <2>1. asked' \in 0 .. Len(history) /\ asked' + 1 \in 1 .. Len(history)
    BY <1>1, <1>7 DEF DownArrow
  <2>2. line' \in Seq(Lexeme)
    BY <1>2, <1>7, <2>1 DEF DownArrow
  <2> QED
    BY <1>7, <2>1, <2>2, EditKeeps DEF DownArrow
<1>8. CASE ControlR
  <2>1. line' \in Seq(Lexeme) /\ asked' \in 0 .. Len(history)
    BY <1>1, <1>8 DEF ControlR
  <2> QED
    BY <1>8, <2>1, EditKeeps DEF ControlR
<1> QED
  BY <1>3, <1>4, <1>5, <1>6, <1>7, <1>8

LEMMA StartKeeps == IInv /\ Start => IInv'
<1> SUFFICES ASSUME IInv, Start PROVE IInv'
  OBVIOUS
<1> DEFINE f == files[cwd']
<1>1. /\ cwd' \in Dirs /\ f \in Histories /\ entered \in Seq(Line) /\ Len(entered) \in Nat
      /\ InOrder(f, entered)
  BY DEF Start, IInv, TypeOK, HistoryInOrder
<1>2. loadHistory(f) \in Histories /\ InOrder(loadHistory(f), entered)
  BY <1>1, InOrderLoad
<1>3. history' = loadHistory(f) /\ files' = files /\ entered' = entered
  BY DEF Start
<1> HIDE DEF f
<1>4. TypeOK'
  <2>1. history' \in Histories /\ Len(history') \in Nat
    BY <1>2, <1>3, HistoriesAre
  <2>2. <<>> \in Seq(Lexeme)
    OBVIOUS
  <2> QED
    BY <1>1, <1>3, <2>1, <2>2 DEF Start, IInv, TypeOK
<1>5. SessionKept'
  <2>1. Session' = <<>>
    <3>1. Session' = SubSeq(entered, Len(entered) + 1, Len(entered))
      BY <1>3 DEF Session, Start
    <3> QED
      BY <1>1, <3>1
  <2>2. Squeezed(Session)' = <<>>
    BY <2>1, SqueezedEmpty
  <2>3. IsSuffix(<<>>, history')
    <3> DEFINE m == 0
               n == Len(history')
    <3>1. history' \in Seq(Line) /\ n \in Nat
      BY <1>2, <1>3, HistoriesAre
    <3>2. <<>> \in Seq(Line) /\ Len(<<>>) = m /\ 1 .. m = {} /\ m <= n
      BY <3>1
    <3> HIDE DEF m, n
    <3> QED
      BY <3>1, <3>2, SuffixFrom DEF n
  <2>4. (Running => Keeps(history, Squeezed(Session)))'
    BY <2>2, <2>3 DEF Keeps
  <2> QED
    BY <2>4, SessionIs, PTL
<1>6. HistoryInOrder'
  BY <1>2, <1>3 DEF IInv, HistoryInOrder
<1>7. SaveInv'
  BY DEF Start, SaveInv
<1> QED
  BY <1>4, <1>5, <1>6, <1>7 DEF IInv

LEMMA HangUpKeeps == IInv /\ HangUp => IInv'
<1> SUFFICES ASSUME IInv, HangUp PROVE IInv'
  OBVIOUS
<1> USE DEF HangUp, file, ghosts
<1>1. TypeOK'
  BY DEF IInv, TypeOK
<1>2. SessionKept' /\ HistoryInOrder' /\ SaveInv'
  BY DEF IInv, SessionKept, HistoryInOrder, SaveInv, Running
<1> QED
  BY <1>1, <1>2 DEF IInv

LEMMA saveHistoryKeeps == IInv /\ saveHistory => IInv'
<1> SUFFICES ASSUME IInv, saveHistory PROVE IInv'
  OBVIOUS
<1>1. /\ mode = "save" /\ history \in Seq(Line) /\ Len(history) \in Nat /\ Len(history) <= MAXHISTSIZE
      /\ saved \in 0 .. Len(history) /\ cwd \in Dirs /\ entered \in Seq(Line)
      /\ files \in [Dirs -> Histories]
      /\ files[cwd] = SubSeq(history, 1, saved) /\ InOrder(history, entered)
  BY HistoriesAre DEF saveHistory, IInv, TypeOK, SaveInv, HistoryInOrder, Running
<1>2. UNCHANGED <<cwd, history, line, asked, entered, since>>
  BY DEF saveHistory, ghosts
<1>3. CASE saved < Len(history)
  <2> DEFINE f == Append(files[cwd], history[saved + 1])
             n == saved + 1
  <2>1. /\ files' = [files EXCEPT ![cwd] = f] /\ saved' = n /\ mode' = mode
    BY <1>3 DEF saveHistory
  <2>2. f = SubSeq(history, 1, n)
    <3>1. saved \in Nat /\ saved + 1 \in 1 .. Len(history)
      BY <1>1, <1>3
    <3> DEFINE p == SubSeq(history, 1, saved)
               q == SubSeq(history, 1, n)
    <3>2. p \in Seq(Line) /\ Len(p) = saved /\ \A i \in 1 .. saved : p[i] = history[i]
      BY <1>1, <3>1
    <3>3. q \in Seq(Line) /\ Len(q) = n /\ \A i \in 1 .. n : q[i] = history[i]
      BY <1>1, <3>1
    <3>4. f = Append(p, history[saved + 1])
      BY <1>1
    <3>5. history[saved + 1] \in Line
      BY <1>1, <3>1
    <3> HIDE DEF f, p, q
    <3>6. /\ f \in Seq(Line) /\ Len(f) = n
          /\ \A i \in 1 .. saved : f[i] = p[i]
          /\ f[n] = history[n]
      BY <3>2, <3>4, <3>5, AppendProperties
    <3>7. \A i \in 1 .. n : f[i] = q[i]
      <4> SUFFICES ASSUME NEW i \in 1 .. n PROVE f[i] = q[i]
        OBVIOUS
      <4>1. CASE i = n
        BY <3>3, <3>6, <4>1
      <4>2. CASE i # n
        <5>1. i \in 1 .. saved
          BY <3>1, <4>2
        <5> QED
          BY <3>2, <3>3, <3>6, <5>1
      <4> QED
        BY <4>1, <4>2
    <3> HIDE DEF n
    <3>8. f = q
      BY <3>3, <3>6, <3>7, SeqEqual
    <3> QED
      BY <3>8 DEF q
  <2> HIDE DEF f
  <2>3. f \in Histories /\ InOrder(f, entered)
    <3> DEFINE a == 1
    <3>1. a \in 1 .. Len(history) + 1 /\ n \in a - 1 .. Len(history) /\ f = SubSeq(history, a, n)
      BY <1>1, <1>3, <2>2
    <3>2. Len(f) = n /\ n <= MAXHISTSIZE
      <4>1. n \in Nat /\ n <= Len(history)
        BY <1>1, <1>3
      <4>2. Len(SubSeq(history, 1, n)) = n
        BY <1>1, <4>1
      <4>3. n <= MAXHISTSIZE
        BY <1>1, <4>1, PromptAssumption
      <4> QED
        BY <2>2, <4>2, <4>3
    <3> HIDE DEF a, n
    <3>3. f \in Seq(Line) /\ InOrder(f, entered)
      BY <1>1, <3>1, InOrderSubSeq
    <3> QED
      BY <3>2, <3>3 DEF Histories
  <2>4. TypeOK'
    <3>1. saved' \in 0 .. Len(history)
      BY <1>1, <1>3, <2>1
    <3>2. files' \in [Dirs -> Histories]
      BY <1>1, <2>1, <2>3
    <3> QED
      BY <1>2, <2>1, <3>1, <3>2 DEF IInv, TypeOK
  <2>5. HistoryInOrder'
    <3>1. \A d \in Dirs : InOrder(files'[d], entered)
      BY <1>1, <2>1, <2>3 DEF IInv, HistoryInOrder
    <3> QED
      BY <1>1, <1>2, <3>1 DEF HistoryInOrder
  <2>6. SessionKept'
    BY <1>2, <2>1 DEF IInv, SessionKept, Running
  <2>7. SaveInv'
    <3>1. files'[cwd] = SubSeq(history, 1, saved')
      BY <1>1, <2>1, <2>2
    <3> QED
      BY <1>2, <3>1 DEF SaveInv
  <2> QED
    BY <2>4, <2>5, <2>6, <2>7 DEF IInv
<1>4. CASE ~ (saved < Len(history))
  <2>1. mode' = "off" /\ UNCHANGED <<files, saved>>
    BY <1>4 DEF saveHistory, file
  <2>2. TypeOK'
    BY <1>2, <2>1 DEF IInv, TypeOK
  <2>3. SessionKept' /\ HistoryInOrder' /\ SaveInv'
    BY <1>2, <2>1 DEF IInv, SessionKept, HistoryInOrder, SaveInv, Running
  <2> QED
    BY <2>2, <2>3 DEF IInv
<1> QED
  BY <1>3, <1>4

\* Wherever the stages of a line lead, it is a directory.
LEMMA executeCommandDir ==
    ASSUME NEW jobs, NEW dir \in Dirs
    PROVE  executeCommand(jobs, dir).dir \in Dirs
<1> DEFINE stages  == FlattenSeq([i \in DOMAIN jobs |-> jobs[i].stages])
           reached == {i \in DOMAIN stages : \A k \in 1 .. i - 1 : ~ Crashes(stages[k])}
           In(d)   == \E i \in reached :
                          /\ EntersDir(stages[i], d)
                          /\ \A k \in reached, other \in Dirs : k > i => ~ EntersDir(stages[k], other)
<1>1. executeCommand(jobs, dir).dir = IF \E d \in Dirs : In(d) THEN CHOOSE d \in Dirs : In(d) ELSE dir
  BY DEF executeCommand
<1> HIDE DEF In
<1> QED
  BY <1>1

LEMMA EnterKeeps == IInv /\ Enter => IInv'
<1> SUFFICES ASSUME IInv, Enter PROVE IInv'
  OBVIOUS
<1>1. /\ mode = "prompt" /\ cwd \in Dirs /\ files \in [Dirs -> Histories]
      /\ history \in Histories /\ history \in Seq(Line) /\ Len(history) \in Nat
      /\ line \in Seq(Lexeme)
      /\ entered \in Seq(Line) /\ Len(entered) \in Nat /\ since \in 0 .. Len(entered)
      /\ InOrder(history, entered) /\ \A d \in Dirs : InOrder(files[d], entered)
  BY HistoriesAre DEF Enter, IInv, TypeOK, HistoryInOrder, Running
\* What Enter does, as far as it matters here.
<1>2. /\ history' = IF line = <<>> THEN history ELSE Remember(history, line)
      /\ entered' = IF line = <<>> THEN entered ELSE Append(entered, line)
      /\ files' = IF line = <<"exit">> THEN [files EXCEPT ![cwd] = <<>>] ELSE files
      /\ saved' = 0 /\ line' = <<>> /\ asked' = Len(history') /\ since' = since
      /\ line # <<>> => Len(entered) < MaxEntered
  BY DEF Enter
<1>3. /\ cwd' \in Dirs /\ mode' \in {"off", "prompt", "save"}
      /\ mode' = "save" => line = <<"exit">> /\ cwd' = cwd
  <2> DEFINE command == parseCommand(line)
             runs == line \notin {<<>>, <<"exit">>, <<"history">>} /\ command.ok
             ran == executeCommand(command.jobs, cwd)
             after == IF runs THEN ran ELSE [dir |-> cwd, up |-> TRUE]
  <2>1. /\ cwd' = after.dir
        /\ mode' = IF line = <<"exit">> THEN "save" ELSE IF after.up THEN "prompt" ELSE "off"
    BY DEF Enter
  <2>2. ran.dir \in Dirs
    BY <1>1, executeCommandDir
  <2>3. line = <<"exit">> => ~ runs
    OBVIOUS
  <2> HIDE DEF ran, runs
  <2>4. after.dir \in Dirs /\ (~ runs => after.dir = cwd)
    BY <1>1, <2>2
  <2> HIDE DEF after
  <2> QED
    BY <2>1, <2>3, <2>4
<1>4. line # <<>> => line \in Line
  BY <1>1 DEF Line
<1>5. Keeps(history, Squeezed(Session)) /\ Session \in Seq(Line)
  <2>1. Keeps(history, Squeezed(Session))
    BY <1>1, SessionIs DEF IInv, Running
  <2>2. since + 1 \in Nat /\ since + 1 >= 1
    BY <1>1
  <2> QED
    BY <1>1, <2>1, <2>2, SubSeqProperties DEF Session
\* The line is the next one of the session.
<1>6. Session' = IF line = <<>> THEN Session ELSE Append(Session, line)
  <2>1. CASE line = <<>>
    BY <1>2, <2>1 DEF Session
  <2>2. CASE line # <<>>
    <3> DEFINE n == Len(entered)
               e == Append(entered, line)
               t == SubSeq(e, since + 1, n + 1)
               u == Append(Session, line)
    <3>1. /\ e \in Seq(Line) /\ Len(e) = n + 1 /\ e[n + 1] = line
          /\ \A i \in 1 .. n : e[i] = entered[i]
      BY <1>1, <1>4, <2>2, AppendProperties
    <3>2. Session' = t
      <4>1. entered' = e /\ Len(entered') = n + 1
        BY <1>2, <2>2, <3>1
      <4> QED
        BY <1>2, <4>1 DEF Session
    <3>3. n \in Nat /\ since \in Nat /\ since <= n
      BY <1>1
    <3> HIDE DEF e
    <3>4. /\ t \in Seq(Line) /\ Len(t) = n - since + 1
          /\ \A i \in 1 .. n - since + 1 : t[i] = e[since + i]
      BY <3>1, <3>3
    <3>5. Len(Session) = n - since /\ \A i \in 1 .. n - since : Session[i] = entered[since + i]
      BY <1>1, <3>3 DEF Session
    <3>6. /\ u \in Seq(Line) /\ Len(u) = n - since + 1
          /\ \A i \in 1 .. n - since : u[i] = Session[i]
          /\ u[n - since + 1] = line
      BY <1>4, <1>5, <2>2, <3>5, AppendProperties
    <3> HIDE DEF n, t, u
    <3>7. \A i \in 1 .. n - since + 1 : t[i] = u[i]
      <4> SUFFICES ASSUME NEW i \in 1 .. n - since + 1 PROVE t[i] = u[i]
        OBVIOUS
      <4>1. CASE i = n - since + 1
        <5>1. since + i = n + 1
          BY <3>3, <4>1
        <5> QED
          BY <3>1, <3>4, <3>6, <4>1, <5>1
      <4>2. CASE i # n - since + 1
        <5>1. i \in 1 .. n - since /\ since + i \in 1 .. n
          BY <3>3, <4>2
        <5> QED
          BY <3>1, <3>4, <3>5, <3>6, <5>1
      <4> QED
        BY <4>1, <4>2
    <3>8. t = u
      BY <3>4, <3>6, <3>7, SeqEqual
    <3> QED
      BY <2>2, <3>2, <3>8 DEF u
  <2> QED
    BY <2>1, <2>2
<1>7. history' \in Histories /\ Keeps(history', Squeezed(Session'))
  <2>1. CASE line = <<>>
    BY <1>1, <1>2, <1>5, <1>6, <2>1
  <2>2. CASE line # <<>>
    <3> DEFINE q == Squeezed(Session)
    <3>1. q \in Seq(Line) /\ (Session # <<>> => q # <<>> /\ Last(q) = Last(Session)) /\ (Session = <<>> => q = <<>>)
      <4>1. CASE Session = <<>>
        <5>1. <<>> \in Seq(Line)
          OBVIOUS
        <5> QED
          BY <4>1, <5>1, SqueezedEmpty
      <4>2. CASE Session # <<>>
        BY <1>5, <4>2, SqueezedLast
      <4> QED
        BY <4>1, <4>2
    <3>2. Squeezed(Session') = IF Session # <<>> /\ Last(Session) = line THEN q ELSE Append(q, line)
      BY <1>4, <1>5, <1>6, <2>2, SqueezedAppend
    <3> HIDE DEF q
    <3>3. Squeezed(Session') = IF q # <<>> /\ Last(q) = line THEN q ELSE Append(q, line)
      BY <3>1, <3>2
    <3>4. /\ Remember(history, line) \in Histories
          /\ Keeps(Remember(history, line), IF q # <<>> /\ Last(q) = line THEN q ELSE Append(q, line))
      BY <1>1, <1>4, <1>5, <2>2, <3>1, RememberKeeps DEF q
    <3> QED
      BY <1>2, <2>2, <3>3, <3>4
  <2> QED
    BY <2>1, <2>2
<1>8. TypeOK'
  <2>1. /\ Len(history') \in Nat /\ <<>> \in Histories
        /\ <<>> \in Seq(Lexeme)
    BY <1>7, HistoriesAre
  <2>2. files' \in [Dirs -> Histories]
    BY <1>1, <1>2, <2>1
  <2>3. entered' \in Seq(Line) /\ Len(entered') <= MaxEntered /\ since' \in 0 .. Len(entered')
    <3>1. CASE line = <<>>
      BY <1>1, <1>2, <3>1 DEF IInv, TypeOK
    <3>2. CASE line # <<>>
      <4>1. entered' = Append(entered, line) /\ entered' \in Seq(Line) /\ Len(entered') = Len(entered) + 1
        BY <1>1, <1>2, <1>4, <3>2, AppendProperties
      <4>2. Len(entered) + 1 <= MaxEntered
        BY <1>1, <1>2, <3>2, PromptAssumption
      <4> QED
        BY <1>1, <1>2, <4>1, <4>2
    <3> QED
      BY <3>1, <3>2
  <2> QED
    BY <1>2, <1>3, <1>7, <2>1, <2>2, <2>3 DEF TypeOK
<1>9. SessionKept'
  <2>1. (Running => Keeps(history, Squeezed(Session)))'
    BY <1>7
  <2> QED
    BY <2>1, SessionIs, PTL
<1>10. HistoryInOrder'
  <2>1. InOrder(history', entered') /\ \A d \in Dirs : InOrder(files[d], entered')
    <3>1. CASE line = <<>>
      BY <1>1, <1>2, <3>1
    <3>2. CASE line # <<>>
      <4>1. InOrder(history', entered')
        BY <1>1, <1>2, <1>4, <3>2, InOrderRemember
      <4>2. ASSUME NEW d \in Dirs PROVE InOrder(files[d], entered')
        <5>1. files[d] \in Seq(Line)
          BY <1>1, HistoriesAre
        <5> QED
          BY <1>1, <1>2, <1>4, <3>2, <5>1, InOrderGrows
      <4> QED
        BY <4>1, <4>2
    <3> QED
      BY <3>1, <3>2
  <2>2. InOrder(<<>>, entered')
    <3>1. entered' \in Seq(Line)
      BY <1>8 DEF TypeOK
    <3> QED
      BY <3>1, InOrderEmpty
  <2>3. \A d \in Dirs : files'[d] = files[d] \/ files'[d] = <<>>
    BY <1>1, <1>2
  <2> QED
    BY <2>1, <2>2, <2>3 DEF HistoryInOrder
<1>11. SaveInv'
  <2> SUFFICES ASSUME mode' = "save" PROVE files'[cwd'] = SubSeq(history', 1, saved')
    BY DEF SaveInv
  <2>1. files'[cwd'] = <<>>
    BY <1>1, <1>2, <1>3
  <2>2. SubSeq(history', 1, 0) = <<>>
    <3>1. history' \in Seq(Line)
      BY <1>7, HistoriesAre
    <3> QED
      BY <3>1
  <2> QED
    BY <1>2, <2>1, <2>2
<1> QED
  BY <1>8, <1>9, <1>10, <1>11 DEF IInv

LEMMA StepInv == IInv /\ [Next]_vars => IInv'
<1> SUFFICES ASSUME IInv, [Next]_vars PROVE IInv'
  OBVIOUS
<1>1. CASE UNCHANGED vars
  <2>1. TypeOK'
    BY <1>1 DEF IInv, TypeOK, vars, file, ghosts
  <2>2. SessionKept' /\ HistoryInOrder' /\ SaveInv'
    BY <1>1 DEF IInv, SessionKept, HistoryInOrder, SaveInv, Running, vars, file, ghosts
  <2> QED
    BY <2>1, <2>2 DEF IInv
<1>2. CASE Next
  BY <1>2, StartKeeps, EditorKeeps, EnterKeeps, saveHistoryKeeps, HangUpKeeps DEF Next
<1> QED
  BY <1>1, <1>2

LEMMA Inductive == Spec => []IInv
<1> QED
  BY InitInv, StepInv, PTL DEF Spec

-----------------------------------------------------------------------------
(* The theorems.                                                           *)

\* The history ends with the lines of this session, each repetition once, and
\* loses none but the oldest of them, and only when it is full (main's loop,
\* loadHistory).
THEOREM SessionsRemembered == Spec => []PromptInv
<1>1. IInv => PromptInv
  BY DEF IInv, PromptInv
<1> QED
  BY <1>1, Inductive, PTL

\* Through any number of sessions in any directories, with hang-ups and crashes
\* between any two steps and in the middle of a save: the history and every
\* history file list lines that were entered, each once, in order.
THEOREM OrderKept == Spec => []HistoryInOrder
<1>1. IInv => HistoryInOrder
  BY DEF IInv
<1> QED
  BY <1>1, Inductive, PTL
=============================================================================
