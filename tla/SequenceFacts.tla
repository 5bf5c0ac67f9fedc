--------------------------- MODULE SequenceFacts ----------------------------
(***************************************************************************)
(* Induction over the naturals without an operator for a parameter: it is  *)
(* done with sets.  A set with 0 and all successors is everything; a       *)
(* function given by recursion exists and satisfies its equation; what     *)
(* holds at 0 and is kept by each turn of it holds at its end.  Then what  *)
(* the Max and FlattenSeq of the community modules compute, and beginnings *)
(* and ends of sequences.                                                  *)
(***************************************************************************)
EXTENDS Naturals, SequencesExt, SequenceTheorems, WellFoundedInduction, TLAPS

\* A set of naturals has a least element.
LEMMA Least ==
    ASSUME NEW T, T \subseteq Nat, T # {}
    PROVE  \E m \in T : \A k \in T : m <= k
<1>1. IsWellFoundedOn(OpToRel(<, Nat), Nat)
    BY NatLessThanWellFounded
<1>2. PICK m \in T : \A k \in T : ~(<<k, m>> \in OpToRel(<, Nat))
    BY <1>1, WFMin
<1>3. \A k \in T : ~(k < m)
    BY <1>2 DEF OpToRel
<1>4. \A k \in T : m <= k
    BY <1>3
<1>. QED
    BY <1>4

\* Induction over the naturals, for a set.
LEMMA SetInduction ==
    ASSUME NEW T, 0 \in T, \A n \in Nat : n \in T => n + 1 \in T
    PROVE  Nat \subseteq T
<1>. SUFFICES ASSUME Nat \ T # {} PROVE FALSE
    OBVIOUS
<1>1. PICK m \in Nat \ T : \A k \in Nat \ T : m <= k
    BY Least
<1>2. m # 0 /\ m - 1 \in Nat /\ ~(m <= m - 1)
    OBVIOUS
<1>3. m - 1 \in T
    BY <1>1, <1>2
<1>. QED
    BY <1>2, <1>3

\* f is the recursion along 0..N that starts with `base` and takes the steps g.
Follows(f, N, base, g) == f[0] = base /\ \A n \in 1..N : f[n] = g[n][f[n - 1]]

\* There is one, when each step is a function on the values passed through.
LEMMA Recursion ==
    ASSUME NEW A, NEW N \in Nat, NEW base \in A, NEW g \in [1..N -> [A -> A]]
    PROVE  \E f \in [0..N -> A] : Follows(f, N, base, g)
<1>. DEFINE Good(k, f) == f[0] = base /\ \A n \in 1..k : f[n] = g[n][f[n - 1]]
            Has(k) == \E f \in [0..k -> A] : Good(k, f)
            T == {k \in Nat : k <= N => Has(k)}
<1>1. Has(0)
    <2>1. [n \in 0..0 |-> base] \in [0..0 -> A] /\ Good(0, [n \in 0..0 |-> base])
        OBVIOUS
    <2>. QED
        BY <2>1
<1>2. ASSUME NEW k \in Nat, k + 1 <= N, Has(k)
      PROVE  Has(k + 1)
    <2>1. PICK f \in [0..k -> A] : Good(k, f)
        BY <1>2
    <2>. DEFINE h == [n \in 0..(k + 1) |-> IF n = k + 1 THEN g[k + 1][f[k]] ELSE f[n]]
    <2>2. k + 1 \in 1..N /\ k \in 0..k /\ 0 \in 0..k
        BY <1>2
    <2>3. g[k + 1][f[k]] \in A
        BY <2>2
    <2>4. h \in [0..(k + 1) -> A]
        BY <2>3
    <2>5. h[0] = f[0] /\ h[k + 1] = g[k + 1][f[k]] /\ h[k] = f[k] /\ (k + 1) - 1 = k
        BY <2>2
    <2>6. \A n \in 1..k : h[n] = f[n] /\ h[n - 1] = f[n - 1]
        OBVIOUS
    <2>. HIDE DEF h
    <2>7. Good(k + 1, h)
        <3>1. \A n \in 1..(k + 1) : n \in 1..k \/ n = k + 1
            OBVIOUS
        <3>2. \A n \in 1..k : h[n] = g[n][h[n - 1]]
            BY <2>1, <2>6
        <3>3. h[k + 1] = g[k + 1][h[(k + 1) - 1]]
            BY <2>5
        <3>4. h[0] = base
            BY <2>1, <2>5
        <3>. QED
            BY <3>1, <3>2, <3>3, <3>4
    <2>. HIDE DEF Good
    <2>. QED
        BY <2>4, <2>7
<1>3. Has(N)
    <2>. HIDE DEF Has
    <2>1. 0 \in T /\ \A k \in Nat : k \in T => k + 1 \in T
        BY <1>1, <1>2
    <2>2. N \in T
        <3>. HIDE DEF T
        <3>. QED
            BY <2>1, SetInduction
    <2>. QED
        BY <2>2
<1>. QED
    BY <1>3 DEF Follows

\* What holds at the start of a recursion and is kept by each step holds of
\* every value.
LEMMA AlongRecursion ==
    ASSUME NEW A, NEW N \in Nat, NEW h, h[0] \in A,
           \A n \in 1..N : h[n - 1] \in A => h[n] \in A
    PROVE  \A n \in 0..N : h[n] \in A
<1>. DEFINE T == {n \in Nat : n <= N => h[n] \in A}
<1>1. 0 \in T
    OBVIOUS
<1>2. ASSUME NEW n \in Nat, n \in T
      PROVE  n + 1 \in T
    <2>. SUFFICES ASSUME n + 1 <= N PROVE h[n + 1] \in A
        OBVIOUS
    <2>1. n + 1 \in 1..N /\ (n + 1) - 1 = n /\ h[n] \in A
        BY <1>2
    <2>. QED
        BY <2>1
<1>3. Nat \subseteq T
    <2>. HIDE DEF T
    <2>. QED
        BY <1>1, <1>2, SetInduction
<1>. QED
    BY <1>3

\* f and h start alike, and where they are alike they go on alike.
Alike(f, h, N) == f[0] = h[0] /\ \A n \in 1..N : f[n - 1] = h[n - 1] => f[n] = h[n]

\* Two recursions of which this holds are the same.
LEMMA SameRecursion ==
    ASSUME NEW N \in Nat, NEW f, NEW h, Alike(f, h, N)
    PROVE  \A n \in 0..N : f[n] = h[n]
<1>. DEFINE T == {n \in Nat : n <= N => f[n] = h[n]}
<1>1. 0 \in T
    BY DEF Alike
<1>2. ASSUME NEW n \in Nat, n \in T
      PROVE  n + 1 \in T
    <2>. SUFFICES ASSUME n + 1 <= N PROVE f[n + 1] = h[n + 1]
        OBVIOUS
    <2>1. n + 1 \in 1..N /\ (n + 1) - 1 = n /\ f[n] = h[n]
        BY <1>2
    <2>. QED
        BY <2>1 DEF Alike
<1>3. Nat \subseteq T
    <2>. HIDE DEF T
    <2>. QED
        BY <1>1, <1>2, SetInduction
<1>. QED
    BY <1>3

\* A set of naturals with a bound has a greatest element.
LEMMA Greatest ==
    ASSUME NEW N \in Nat, NEW T, T \subseteq 0..N, T # {}
    PROVE  Max(T) \in T /\ \A k \in T : k <= Max(T)
<1>. DEFINE gaps == {N - k : k \in T}
<1>1. \A k \in T : k \in Int /\ N - k \in Nat
    OBVIOUS
<1>2. gaps \subseteq Nat /\ gaps # {}
    BY <1>1
<1>3. PICK m \in gaps : \A d \in gaps : m <= d
    <2>. HIDE DEF gaps
    <2>. QED
        BY <1>2, Least
<1>4. PICK n \in T : m = N - n
    OBVIOUS
<1>5. ASSUME NEW k \in T PROVE n >= k
    <2>1. m <= N - k
        BY <1>3
    <2>. QED
        BY <1>1, <1>4, <2>1
<1>. DEFINE greatest == CHOOSE x \in T : \A k \in T : x >= k
<1>6. greatest \in T /\ \A k \in T : greatest >= k
    BY <1>5
<1>7. Max(T) = greatest
    BY DEF Max
<1>. HIDE DEF greatest
<1>. QED
    BY <1>1, <1>6, <1>7

\* The definition, with its local function made visible.
LEMMA FlatDef ==
    ASSUME NEW s, Len(s) # 0
    PROVE  FlattenSeq(s) = (CHOOSE f : f = [i \in 1..Len(s) |-> IF i = 1 THEN s[i] ELSE f[i - 1] \o s[i]])[Len(s)]
BY DEF FlattenSeq

\* The partial results of flattening are those the definition speaks of.
LEMMA FlatSteps ==
    ASSUME NEW S, NEW s \in Seq(Seq(S)), Len(s) # 0
    PROVE  \E f \in [1..Len(s) -> Seq(S)] :
               /\ FlattenSeq(s) = f[Len(s)]
               /\ \A i \in 1..Len(s) : f[i] = IF i = 1 THEN s[i] ELSE f[i - 1] \o s[i]
<1>. DEFINE Step(f, i) == IF i = 1 THEN s[i] ELSE f[i - 1] \o s[i]
            Good(n, f) == \A i \in 1..n : f[i] = Step(f, i)
            Has(n) == \E f \in [1..n -> Seq(S)] : Good(n, f)
            T == {n \in Nat : n <= Len(s) => Has(n)}
<1>0. Len(s) \in Nat /\ \A i \in 1..Len(s) : s[i] \in Seq(S)
    OBVIOUS
<1>10. ASSUME NEW f, NEW n \in Nat, n # 0
       PROVE  Step(f, n + 1) = f[n] \o s[n + 1]
    <2>1. \A k : k # 1 => Step(f, k) = f[k - 1] \o s[k]
        OBVIOUS
    <2>2. n + 1 # 1 /\ (n + 1) - 1 = n
        BY <1>10
    <2>. HIDE DEF Step
    <2>3. Step(f, n + 1) = f[(n + 1) - 1] \o s[n + 1]
        BY <2>1, <2>2
    <2>. QED
        BY <2>2, <2>3
<1>1. 0 \in T
    <2>1. [i \in 1..0 |-> <<>>] \in [1..0 -> Seq(S)]
        OBVIOUS
    <2>2. Good(0, [i \in 1..0 |-> <<>>])
        OBVIOUS
    <2>. HIDE DEF Good
    <2>3. Has(0)
        BY <2>1, <2>2
    <2>. QED
        BY <2>3
<1>2. ASSUME NEW n \in Nat, n \in T
      PROVE  n + 1 \in T
    <2>. SUFFICES ASSUME n + 1 <= Len(s)
                  PROVE  Has(n + 1)
        OBVIOUS
    <2>0. Has(n)
        <3>1. n <= Len(s) => Has(n)
            <4>. HIDE DEF Has
            <4>. QED
                BY <1>2
        <3>2. n <= Len(s)
            BY <1>0
        <3>. QED
            <4>. HIDE DEF Has
            <4>. QED
                BY <3>1, <3>2
    <2>1. PICK f \in [1..n -> Seq(S)] : Good(n, f)
        BY <2>0
    <2>2. n + 1 \in 1..Len(s) /\ n \in 0..Len(s)
        BY <1>0
    <2>. DEFINE last == Step(f, n + 1)
                g == [i \in 1..(n + 1) |-> IF i = n + 1 THEN last ELSE f[i]]
    <2>3. last \in Seq(S)
        <3>1. CASE n = 0
            <4>1. last = s[1] /\ 1 \in 1..Len(s)
                BY <2>2, <3>1
            <4>. QED
                BY <1>0, <4>1
        <3>2. CASE n # 0
            <4>1. f[n] \in Seq(S) /\ s[n + 1] \in Seq(S)
                BY <1>0, <2>2, <3>2
            <4>2. last = f[n] \o s[n + 1]
                BY <3>2, <1>10
            <4>. HIDE DEF last
            <4>. QED
                BY <4>1, <4>2, ConcatProperties
        <3>. QED
            BY <3>1, <3>2
    <2>. HIDE DEF last
    <2>4. g \in [1..(n + 1) -> Seq(S)]
        BY <2>3
    <2>5. \A i \in 1..n : g[i] = f[i] /\ (i # 1 => g[i - 1] = f[i - 1])
        OBVIOUS
    <2>6. \A i \in 1..n : g[i] = Step(g, i)
        <3>. HIDE DEF g
        <3>1. ASSUME NEW i \in 1..n PROVE g[i] = Step(g, i)
            <4>1. f[i] = Step(f, i)
                BY <2>1
            <4>. QED
                BY <2>5, <4>1
        <3>. QED
            BY <3>1
    <2>7. g[n + 1] = Step(g, n + 1)
        <3>1. n # 0 => g[n] = f[n]
            BY <2>5
        <3>2. g[n + 1] = last
            OBVIOUS
        <3>3. last = Step(g, n + 1)
            BY <3>1 DEF last
        <3>. QED
            BY <3>2, <3>3
    <2>. HIDE DEF g, Step
    <2>8. Good(n + 1, g)
        <3>1. \A i \in 1..(n + 1) : i \in 1..n \/ i = n + 1
            OBVIOUS
        <3>. QED
            BY <2>6, <2>7, <3>1
    <2>. QED
        BY <2>4, <2>8
<1>3. Len(s) \in T
    <2>. HIDE DEF T
    <2>. QED
        BY <1>0, <1>1, <1>2, SetInduction
<1>4. PICK f \in [1..Len(s) -> Seq(S)] : Good(Len(s), f)
    <2>1. Has(Len(s))
        BY <1>0, <1>3, SMTT(30)
    <2>. QED
        BY <2>1
<1>5. f = [i \in 1..Len(s) |-> IF i = 1 THEN s[i] ELSE f[i - 1] \o s[i]]
    BY <1>4
<1>. DEFINE h == CHOOSE g : g = [i \in 1..Len(s) |-> IF i = 1 THEN s[i] ELSE g[i - 1] \o s[i]]
<1>6. h = [i \in 1..Len(s) |-> IF i = 1 THEN s[i] ELSE h[i - 1] \o s[i]]
    BY <1>5
<1>7. FlattenSeq(s) = h[Len(s)]
    BY FlatDef
<1>. HIDE DEF h
<1>8. \A i \in 1..Len(s) : h[i] = Step(h, i)
    BY <1>6
<1>9. h \in [1..Len(s) -> Seq(S)]
    <2>. DEFINE U == {n \in Nat : n \in 1..Len(s) => h[n] \in Seq(S)}
    <2>1. 0 \in U
        OBVIOUS
    <2>2. ASSUME NEW n \in Nat, n \in U
          PROVE  n + 1 \in U
        <3>. SUFFICES ASSUME n + 1 \in 1..Len(s) PROVE h[n + 1] \in Seq(S)
            OBVIOUS
        <3>1. s[n + 1] \in Seq(S) /\ h[n + 1] = Step(h, n + 1)
            BY <1>0, <1>8
        <3>2. CASE n = 0
            BY <3>1, <3>2
        <3>3. CASE n # 0
            <4>1. h[n] \in Seq(S)
                BY <1>0, <2>2, <3>3
            <4>2. h[n + 1] = h[n] \o s[n + 1]
                BY <3>1, <3>3, <1>10
            <4>. QED
                BY <3>1, <4>1, <4>2, ConcatProperties
        <3>. QED
            BY <3>2, <3>3
    <2>3. Nat \subseteq U
        <3>. HIDE DEF U
        <3>. QED
            BY <2>1, <2>2, SetInduction
    <2>4. \A n \in 1..Len(s) : h[n] \in Seq(S)
        BY <1>0, <2>3
    <2>. QED
        BY <1>6, <2>4
<1>. QED
    BY <1>7, <1>8, <1>9

\* Flattening nothing.
LEMMA FlatEmpty == FlattenSeq(<<>>) = <<>>
<1>. QED
    BY DEF FlattenSeq

\* Flattening yields a sequence.
LEMMA FlatType ==
    ASSUME NEW S, NEW s \in Seq(Seq(S))
    PROVE  FlattenSeq(s) \in Seq(S)
<1>0. Len(s) \in Nat
    BY LenProperties
<1>1. CASE Len(s) = 0
    <2>1. s = <<>>
        BY <1>1, EmptySeq
    <2>2. FlattenSeq(s) = <<>>
        BY <2>1, FlatEmpty
    <2>. QED
        BY <2>2, EmptySeq
<1>2. CASE Len(s) # 0
    <2>1. PICK f \in [1..Len(s) -> Seq(S)] : FlattenSeq(s) = f[Len(s)]
        BY <1>2, FlatSteps
    <2>2. Len(s) \in 1..Len(s)
        BY <1>0, <1>2
    <2>. QED
        BY <2>1, <2>2
<1>. QED
    BY <1>1, <1>2

\* One more sequence comes last.
LEMMA FlatAppend ==
    ASSUME NEW S, NEW s \in Seq(Seq(S)), NEW x \in Seq(S)
    PROVE  FlattenSeq(Append(s, x)) = FlattenSeq(s) \o x
<1>. DEFINE t == Append(s, x)
<1>0. /\ Len(s) \in Nat /\ t \in Seq(Seq(S)) /\ Len(t) = Len(s) + 1
      /\ t[Len(s) + 1] = x /\ \A i \in 1..Len(s) : t[i] = s[i]
    BY LenProperties
<1>. HIDE DEF t
<1>1. PICK g \in [1..Len(t) -> Seq(S)] :
          /\ FlattenSeq(t) = g[Len(t)]
          /\ \A i \in 1..Len(t) : g[i] = IF i = 1 THEN t[i] ELSE g[i - 1] \o t[i]
    <2>1. t \in Seq(Seq(S)) /\ Len(t) # 0
        BY <1>0
    <2>. QED
        BY <2>1, FlatSteps
<1>2. g[Len(s) + 1] = IF Len(s) + 1 = 1 THEN x ELSE g[Len(s)] \o x
    <2>1. Len(s) + 1 \in 1..Len(t) /\ (Len(s) + 1) - 1 = Len(s)
        BY <1>0
    <2>. QED
        BY <1>0, <1>1, <2>1
<1>3. CASE Len(s) = 0
    <2>1. s = <<>>
        BY <1>3, EmptySeq
    <2>2. FlattenSeq(s) \o x = x
        BY <2>1, FlatEmpty, ConcatEmptySeq
    <2>3. FlattenSeq(t) = x
        BY <1>0, <1>1, <1>2, <1>3
    <2>. QED
        BY <2>2, <2>3 DEF t
<1>4. CASE Len(s) # 0
    <2>1. PICK f \in [1..Len(s) -> Seq(S)] :
              /\ FlattenSeq(s) = f[Len(s)]
              /\ \A i \in 1..Len(s) : f[i] = IF i = 1 THEN s[i] ELSE f[i - 1] \o s[i]
        BY <1>4, FlatSteps
    <2>. DEFINE T == {n \in Nat : n \in 1..Len(s) => f[n] = g[n]}
    <2>2. 0 \in T
        OBVIOUS
    <2>3. ASSUME NEW n \in Nat, n \in T
          PROVE  n + 1 \in T
        <3>. SUFFICES ASSUME n + 1 \in 1..Len(s) PROVE f[n + 1] = g[n + 1]
            OBVIOUS
        <3>1. n + 1 \in 1..Len(t) /\ t[n + 1] = s[n + 1] /\ (n + 1) - 1 = n
            BY <1>0
        <3>2. n + 1 # 1 => f[n] = g[n]
            BY <1>0, <2>3
        <3>3. f[n + 1] = IF n + 1 = 1 THEN s[n + 1] ELSE f[n] \o s[n + 1]
            BY <2>1, <3>1
        <3>4. g[n + 1] = IF n + 1 = 1 THEN t[n + 1] ELSE g[n] \o t[n + 1]
            BY <1>1, <3>1
        <3>. QED
            BY <3>1, <3>2, <3>3, <3>4
    <2>4. Len(s) \in T
        <3>. HIDE DEF T
        <3>. QED
            BY <1>0, <2>2, <2>3, SetInduction
    <2>5. f[Len(s)] = g[Len(s)]
        BY <1>0, <1>4, <2>4
    <2>6. Len(s) + 1 # 1
        BY <1>0, <1>4
    <2>7. FlattenSeq(t) = g[Len(s) + 1]
        BY <1>0, <1>1
    <2>. QED
        BY <1>2, <2>1, <2>5, <2>6, <2>7 DEF t
<1>. QED
    BY <1>3, <1>4

\* Flattening one sequence.
LEMMA FlatOne ==
    ASSUME NEW S, NEW x \in Seq(S)
    PROVE  FlattenSeq(<<x>>) = x
<1>1. <<>> \in Seq(Seq(S)) /\ Append(<<>>, x) = <<x>>
    OBVIOUS
<1>2. FlattenSeq(<<x>>) = FlattenSeq(<<>>) \o x
    BY <1>1, FlatAppend
<1>. QED
    BY <1>2, FlatEmpty, ConcatEmptySeq

\* What stands before a cut and what stands behind it.
LEMMA FlatSplit ==
    ASSUME NEW S, NEW s \in Seq(Seq(S)), NEW k \in 0..Len(s)
    PROVE  FlattenSeq(s) = FlattenSeq(SubSeq(s, 1, k)) \o FlattenSeq(SubSeq(s, k + 1, Len(s)))
<1>. DEFINE a == SubSeq(s, 1, k)
            b(n) == SubSeq(s, k + 1, n)
            Holds(n) == FlattenSeq(SubSeq(s, 1, n)) = FlattenSeq(a) \o FlattenSeq(b(n))
            T == {n \in Nat : k + n <= Len(s) => Holds(k + n)}
<1>0. k \in Nat /\ Len(s) \in Nat /\ k <= Len(s)
    BY LenProperties
<1>1. ASSUME NEW m \in Nat, NEW n \in Nat, n <= Len(s)
      PROVE  SubSeq(s, m + 1, n) \in Seq(Seq(S))
    BY <1>1, ElementOfSeq, SubSeqProperties
<1>2. SubSeq(s, 1, k) \in Seq(Seq(S))
    BY <1>0, ElementOfSeq, SubSeqProperties
<1>3. 0 \in T
    <2>1. k + 0 = k
        BY <1>0
    <2>2. b(k) = <<>>
        BY <1>0, SubSeqEmpty
    <2>3. FlattenSeq(a) \o FlattenSeq(b(k)) = FlattenSeq(a)
        <3>1. FlattenSeq(a) \in Seq(S) /\ FlattenSeq(b(k)) = <<>>
            BY <1>2, <2>2, FlatEmpty, FlatType
        <3>. HIDE DEF a, b
        <3>. QED
            BY <3>1, ConcatEmptySeq
    <2>. QED
        BY <2>1, <2>3
<1>4. ASSUME NEW n \in Nat, n \in T
      PROVE  n + 1 \in T
    <2>. DEFINE m == k + n
    <2>0. m \in Nat /\ k + (n + 1) = m + 1 /\ k <= m
        BY <1>0
    <2>. SUFFICES ASSUME m + 1 <= Len(s) PROVE Holds(m + 1)
        BY <2>0
    <2>1. Holds(m)
        BY <1>0, <1>4
    <2>. HIDE DEF m
    <2>2. m + 1 \in 1..Len(s) /\ (m + 1) - 1 = m /\ s[m + 1] \in Seq(S)
        BY <1>0, <2>0, ElementOfSeq
    <2>3. SubSeq(s, 1, m + 1) = Append(SubSeq(s, 1, m), s[m + 1])
        BY <1>0, <2>0, <2>2
    <2>4. b(m + 1) = Append(b(m), s[m + 1])
        <3>1. k + 1 \in 1..Len(s) /\ m + 1 \in (k + 1)..Len(s)
            BY <1>0, <2>0, <2>2
        <3>2. b(m + 1) = b(m) \o <<s[m + 1]>>
            BY <2>2, <3>1, SubSeqRecursiveSecond
        <3>3. b(m) \in Seq(Seq(S))
            BY <1>0, <1>1, <2>0, <2>2
        <3>. QED
            BY <2>2, <3>2, <3>3, AppendIsConcat
    <2>5. SubSeq(s, 1, m) \in Seq(Seq(S)) /\ b(m) \in Seq(Seq(S))
        BY <1>0, <1>1, <2>0, <2>2
    <2>6. FlattenSeq(SubSeq(s, 1, m + 1)) = FlattenSeq(SubSeq(s, 1, m)) \o s[m + 1]
        BY <2>2, <2>3, <2>5, FlatAppend
    <2>7. FlattenSeq(b(m + 1)) = FlattenSeq(b(m)) \o s[m + 1]
        BY <2>2, <2>4, <2>5, FlatAppend
    <2>8. FlattenSeq(a) \in Seq(S) /\ FlattenSeq(b(m)) \in Seq(S)
        BY <1>2, <2>5, FlatType
    <2>. DEFINE A == FlattenSeq(a)
                B == FlattenSeq(b(m))
                x == s[m + 1]
    <2>9. FlattenSeq(SubSeq(s, 1, m + 1)) = (A \o B) \o x
        BY <2>1, <2>6
    <2>10. A \in Seq(S) /\ B \in Seq(S) /\ x \in Seq(S)
        BY <2>2, <2>8
    <2>11. FlattenSeq(b(m + 1)) = B \o x
        BY <2>7
    <2>12. (A \o B) \o x = A \o (B \o x)
        <3>. HIDE DEF A, B, x
        <3>. QED
            BY <2>10, ConcatAssociative, SMTT(30)
    <2>. QED
        BY <2>9, <2>11, <2>12
<1>5. Nat \subseteq T
    <2>. HIDE DEF T
    <2>. QED
        BY <1>3, <1>4, SetInduction
<1>6. Len(s) - k \in Nat /\ k + (Len(s) - k) = Len(s)
    BY <1>0
<1>7. Holds(Len(s))
    <2>. HIDE DEF Holds
    <2>1. \A n \in Nat : k + n <= Len(s) => Holds(k + n)
        BY <1>5
    <2>2. k + (Len(s) - k) <= Len(s)
        BY <1>0
    <2>3. Holds(k + (Len(s) - k))
        BY <1>6, <2>1, <2>2
    <2>. QED
        BY <1>6, <2>3
<1>8. SubSeq(s, 1, Len(s)) = s
    BY SubSeqFull
<1>. QED
    BY <1>7, <1>8

\* Where the parts of a flattened sequence stand in it.
LEMMA FlatPlace ==
    ASSUME NEW S, NEW s \in Seq(Seq(S)), NEW k \in Nat, k + 1 <= Len(s)
    PROVE  LET n == Len(FlattenSeq(SubSeq(s, 1, k)))
           IN  /\ n \in Nat
               /\ Len(FlattenSeq(SubSeq(s, 1, k + 1))) = n + Len(s[k + 1])
               /\ n + Len(s[k + 1]) <= Len(FlattenSeq(s))
               /\ \A j \in 1..Len(s[k + 1]) : FlattenSeq(s)[n + j] = s[k + 1][j]
<1>. DEFINE g == s[k + 1]
            a == FlattenSeq(SubSeq(s, 1, k))
            ab == FlattenSeq(SubSeq(s, 1, k + 1))
            c == FlattenSeq(SubSeq(s, (k + 1) + 1, Len(s)))
            all == FlattenSeq(s)
<1>1. Len(s) \in Nat /\ k + 1 \in 0..Len(s) /\ k + 1 \in 1..Len(s) /\ (k + 1) + 1 \in Nat
    BY LenProperties
<1>2. g \in Seq(S)
    BY <1>1, ElementOfSeq
<1>3. /\ SubSeq(s, 1, k) \in Seq(Seq(S)) /\ SubSeq(s, 1, k + 1) \in Seq(Seq(S))
      /\ SubSeq(s, (k + 1) + 1, Len(s)) \in Seq(Seq(S))
    <2>1. \A i \in 1..k : s[i] \in Seq(S)
        BY <1>1, ElementOfSeq
    <2>2. \A i \in 1..(k + 1) : s[i] \in Seq(S)
        BY <1>1, ElementOfSeq
    <2>3. \A i \in ((k + 1) + 1)..Len(s) : s[i] \in Seq(S)
        BY <1>1, ElementOfSeq
    <2>. QED
        BY <1>1, <2>1, <2>2, <2>3, SubSeqProperties
<1>4. a \in Seq(S) /\ ab \in Seq(S) /\ c \in Seq(S)
    BY <1>3, FlatType
<1>5. ab = a \o g
    <2>1. SubSeq(s, 1, k + 1) = Append(SubSeq(s, 1, k), g)
        BY <1>1
    <2>. QED
        BY <1>2, <1>3, <2>1, FlatAppend
<1>6. all = ab \o c
    BY <1>1, FlatSplit
<1>. HIDE DEF g, a, ab, c, all
<1>7. Len(a) \in Nat /\ Len(g) \in Nat /\ Len(c) \in Nat
    BY <1>2, <1>4, LenProperties
<1>8. Len(ab) = Len(a) + Len(g) /\ \A j \in 1..Len(g) : ab[Len(a) + j] = g[j]
    <2>1. \A j \in 1..Len(g) : ~(Len(a) + j <= Len(a)) /\ (Len(a) + j) - Len(a) = j
                               /\ Len(a) + j \in 1..(Len(a) + Len(g))
        BY <1>7
    <2>. QED
        BY <1>2, <1>4, <1>5, <2>1, ConcatProperties
<1>9. /\ Len(all) = Len(ab) + Len(c)
      /\ \A i \in 1..(Len(ab) + Len(c)) : i <= Len(ab) => all[i] = ab[i]
    BY <1>4, <1>6, ConcatProperties
<1>10. \A j \in 1..Len(g) : Len(a) + j \in 1..(Len(ab) + Len(c)) /\ Len(a) + j <= Len(ab)
    BY <1>7, <1>8
<1>11. Len(a) + Len(g) <= Len(all)
    BY <1>7, <1>8, <1>9
<1>12. \A j \in 1..Len(g) : all[Len(a) + j] = g[j]
    BY <1>8, <1>9, <1>10
<1>. QED
    BY <1>7, <1>8, <1>11, <1>12 DEF g, a, ab, all

-----------------------------------------------------------------------------
(* Beginnings and ends of sequences.                                       *)

\* A sequence is a prefix of itself with something appended.
LEMMA PrefixOfConcat ==
    ASSUME NEW S, NEW s \in Seq(S), NEW t \in Seq(S)
    PROVE  IsPrefix(s, s \o t)
<1>1. Len(s) \in Nat /\ Len(t) \in Nat /\ Len(s \o t) = Len(s) + Len(t) /\ s \o t \in Seq(S)
    BY ConcatProperties, LenProperties
<1>2. SubSeq(s, 1, Len(s)) = s
    BY SubSeqFull
<1>3. SubSeq(s \o t, 1, Len(s)) = s
    <2>. DEFINE a == SubSeq(s \o t, 1, Len(s))
    <2>1. \A i \in 1..Len(s) : (s \o t)[i] = s[i] /\ (s \o t)[i] \in S
        BY <1>1, ConcatProperties, ElementOfSeq
    <2>2. a \in Seq(S) /\ Len(a) = Len(s) /\ \A i \in 1..Len(s) : a[i] = (s \o t)[i]
        BY <1>1, <2>1, SubSeqProperties
    <2>. HIDE DEF a
    <2>. QED
        BY <2>1, <2>2, SeqEqual
<1>. QED
    BY <1>1, <1>2, <1>3 DEF IsPrefix

\* What is left behind an index of a concatenation.
LEMMA TailOfConcat ==
    ASSUME NEW S, NEW s \in Seq(S), NEW t \in Seq(S), NEW d \in 0..Len(s)
    PROVE  SubSeq(s \o t, d + 1, Len(s \o t)) = SubSeq(s, d + 1, Len(s)) \o t
<1>. DEFINE c == s \o t
            a == SubSeq(c, d + 1, Len(c))
            b == SubSeq(s, d + 1, Len(s))
<1>1. /\ c \in Seq(S) /\ Len(c) = Len(s) + Len(t) /\ Len(s) \in Nat /\ Len(t) \in Nat
      /\ \A i \in 1..Len(c) : c[i] \in S /\ c[i] = IF i <= Len(s) THEN s[i] ELSE t[i - Len(s)]
    BY ConcatProperties, LenProperties, ElementOfSeq
<1>. HIDE DEF c
<1>2. /\ a \in Seq(S) /\ Len(a) = Len(c) - d
      /\ \A i \in 1..(Len(c) - d) : a[i] = c[d + i]
    <2>1. \A i \in (d + 1)..Len(c) : c[i] \in S
        BY <1>1
    <2>. QED
        BY <1>1, <2>1, SubSeqProperties
<1>3. /\ b \in Seq(S) /\ Len(b) = Len(s) - d
      /\ \A i \in 1..(Len(s) - d) : b[i] = s[d + i]
    <2>1. \A i \in (d + 1)..Len(s) : s[i] \in S
        BY <1>1, ElementOfSeq
    <2>. QED
        BY <1>1, <2>1, SubSeqProperties
<1>. HIDE DEF a, b
<1>4. /\ b \o t \in Seq(S) /\ Len(b \o t) = Len(s) - d + Len(t)
      /\ \A i \in 1..(Len(s) - d + Len(t)) :
             (b \o t)[i] = IF i <= Len(s) - d THEN b[i] ELSE t[i - (Len(s) - d)]
    BY <1>1, <1>3, ConcatProperties
<1>5. ASSUME NEW i \in 1..Len(a)
      PROVE  a[i] = (b \o t)[i]
    <2>1. d + i \in 1..Len(c) /\ i \in 1..(Len(c) - d) /\ i \in 1..(Len(s) - d + Len(t))
        BY <1>1, <1>2
    <2>2. CASE i <= Len(s) - d
        <3>1. i \in 1..(Len(s) - d) /\ d + i <= Len(s)
            BY <1>1, <2>1, <2>2
        <3>2. a[i] = s[d + i]
            BY <1>1, <1>2, <2>1, <3>1
        <3>3. (b \o t)[i] = b[i] /\ b[i] = s[d + i]
            BY <1>3, <1>4, <2>1, <2>2, <3>1
        <3>. QED
            BY <3>2, <3>3
    <2>3. CASE ~(i <= Len(s) - d)
        <3>1. ~(d + i <= Len(s)) /\ i - (Len(s) - d) = d + i - Len(s)
            BY <1>1, <2>1, <2>3
        <3>2. a[i] = t[d + i - Len(s)]
            BY <1>1, <1>2, <2>1, <3>1
        <3>3. (b \o t)[i] = t[i - (Len(s) - d)]
            BY <1>4, <2>1, <2>3
        <3>. QED
            BY <3>1, <3>2, <3>3
    <2>. QED
        BY <2>2, <2>3
<1>6. Len(a) = Len(b \o t)
    BY <1>1, <1>2, <1>4
<1>7. a = b \o t
    BY <1>2, <1>4, <1>5, <1>6, SeqEqual
<1>. QED
    BY <1>7 DEF a, b, c

\* What is left behind an index of a sequence is its end.
LEMMA TailIsSuffix ==
    ASSUME NEW S, NEW s \in Seq(S), NEW d \in 0..Len(s)
    PROVE  IsSuffix(SubSeq(s, d + 1, Len(s)), s)
<1>. DEFINE t == SubSeq(s, d + 1, Len(s))
            m == Len(s) - d
            a == Reverse(t)
            b == Reverse(s)
<1>1. Len(s) \in Nat /\ m \in Nat /\ \A i \in 1..Len(s) : s[i] \in S
    BY LenProperties, ElementOfSeq
<1>2. t \in Seq(S) /\ Len(t) = m /\ \A i \in 1..m : t[i] = s[d + i]
    <2>1. \A i \in (d + 1)..Len(s) : s[i] \in S
        BY <1>1
    <2>. QED
        BY <1>1, <2>1, SubSeqProperties
<1>. HIDE DEF t
<1>3. /\ b \in Seq(S) /\ Len(b) = Len(s)
      /\ \A i \in 1..Len(s) : b[i] = s[Len(s) - i + 1]
    <2>1. \A i \in 1..Len(s) : s[Len(s) - i + 1] \in S
        BY <1>1
    <2>. QED
        BY <1>1, <2>1 DEF Reverse
<1>4. /\ a \in Seq(S) /\ Len(a) = m
      /\ \A i \in 1..m : a[i] = t[m - i + 1]
    <2>1. \A i \in 1..m : t[m - i + 1] \in S
        BY <1>1, <1>2
    <2>. QED
        BY <1>1, <1>2, <2>1 DEF Reverse
<1>. HIDE DEF a, b
<1>5. \A i \in 1..m : a[i] = b[i]
    <2>. SUFFICES ASSUME NEW i \in 1..m PROVE a[i] = b[i]
        OBVIOUS
    <2>1. m - i + 1 \in 1..m /\ d + (m - i + 1) = Len(s) - i + 1 /\ i \in 1..Len(s)
        BY <1>1
    <2>. HIDE DEF m
    <2>. QED
        BY <1>2, <1>3, <1>4, <2>1
<1>6. SubSeq(a, 1, Len(a)) = a
    BY <1>4, SubSeqFull
<1>7. SubSeq(b, 1, m) = a
    <2>. DEFINE c == SubSeq(b, 1, m)
    <2>1. \A i \in 1..m : b[i] \in S
        BY <1>1, <1>3, ElementOfSeq
    <2>2. c \in Seq(S) /\ Len(c) = m /\ \A i \in 1..m : c[i] = b[i]
        BY <1>1, <2>1, SubSeqProperties
    <2>. HIDE DEF c
    <2>. QED
        BY <1>4, <1>5, <2>2, SeqEqual
<1>8. IsPrefix(a, b)
    BY <1>1, <1>3, <1>4, <1>6, <1>7 DEF IsPrefix
<1>. QED
    BY <1>8 DEF IsSuffix, a, b, t

\* A beginning of a sequence grows by its next element.
LEMMA PrefixGrows ==
    ASSUME NEW S, NEW s \in Seq(S), NEW n \in Nat, n + 1 <= Len(s)
    PROVE  /\ SubSeq(s, 1, n) \in Seq(S) /\ s[n + 1] \in S
           /\ SubSeq(s, 1, n + 1) = SubSeq(s, 1, n) \o <<s[n + 1]>>
<1>1. Len(s) \in Nat /\ \A i \in 1..Len(s) : s[i] \in S
    BY ElementOfSeq, LenProperties
<1>2. n + 1 \in 1..Len(s) /\ 1 \in 1..Len(s) /\ n + 1 \in 1..(n + 1) /\ (n + 1) - 1 = n
    BY <1>1
<1>3. 1 \in Int /\ n \in Int /\ \A i \in 1..n : s[i] \in S
    BY <1>1
<1>4. SubSeq(s, 1, n) \in Seq(S)
    BY <1>3, SubSeqProperties
<1>5. n + 1 \in 1..Len(s) => s[n + 1] \in S
    BY <1>1
<1>6. n + 1 \in 1..Len(s) /\ n + 1 \in 1..(n + 1) /\ 1 \in 1..Len(s)
    BY <1>2
<1>. DEFINE m == n + 1
<1>7. m \in 1..Len(s) /\ m - 1 = n
    BY <1>2
<1>. HIDE DEF m
<1>8. SubSeq(s, 1, m) = SubSeq(s, 1, m - 1) \o <<s[m]>>
    <2>1. m \in 1..m
        BY <1>1, <1>7
    <2>. QED
        BY <1>2, <1>7, <2>1, SubSeqRecursiveSecond
<1>9. SubSeq(s, 1, m) = SubSeq(s, 1, n) \o <<s[m]>>
    BY <1>7, <1>8
<1>. QED
    BY <1>4, <1>5, <1>2, <1>9 DEF m

\* A sequence is a prefix of itself.
LEMMA PrefixOfSelf ==
    ASSUME NEW S, NEW s \in Seq(S)
    PROVE  IsPrefix(s, s)
<1>1. s \o <<>> = s /\ <<>> \in Seq(S)
    BY ConcatEmptySeq, EmptySeq
<1>. QED
    BY <1>1, PrefixOfConcat
=============================================================================
