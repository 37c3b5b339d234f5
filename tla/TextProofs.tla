------------------------------ MODULE TextProofs -------------------------------
(***************************************************************************)
(* Proofs about the parts that read text, for every value of their         *)
(* constants: the command table with the tokenizer, and esp-ctl's          *)
(* discovery with the profiles it is for.                                  *)
(*                                                                         *)
(* What a recursive function computes is proved by induction over a set of *)
(* numbers, which needs no predicate as a parameter (SetInduction).        *)
(***************************************************************************)
EXTENDS Dispatch, Discovery, Integers, SequenceTheorems, FiniteSetTheorems,
        WellFoundedInduction, TLAPS
-----------------------------------------------------------------------------
(* Induction.                                                              *)

\* A set of numbers has a least one: intervals grow with it, and strict inclusion
\* is well founded on finite sets.
LEMMA LeastNumber ==
    ASSUME NEW T \in SUBSET Nat, T # {}
    PROVE  \E x \in T : \A y \in T : x <= y
<1> DEFINE F == {0..x : x \in T}
<1>1. F \subseteq FiniteSubsetsOf(Nat) /\ F # {}
    <2> SUFFICES ASSUME NEW x \in T PROVE 0..x \in FiniteSubsetsOf(Nat)
        OBVIOUS
    <2>1. x \in Int /\ 0 \in Int /\ 0..x \subseteq Nat
        OBVIOUS
    <2> QED BY <2>1, FS_Interval DEF FiniteSubsetsOf
<1>2. IsWellFoundedOn(StrictSubsetOrdering(Nat), FiniteSubsetsOf(Nat))
    BY FS_StrictSubsetOrderingWellFounded
<1>3. \E P \in F : \A Q \in F : ~ (<<Q, P>> \in StrictSubsetOrdering(Nat))
    <2> HIDE DEF F
    <2> QED BY <1>1, <1>2, WFMin
<1>4. PICK x \in T : \A y \in T : ~ (<<0..y, 0..x>> \in StrictSubsetOrdering(Nat))
    BY <1>3
<1>5. ASSUME NEW y \in T PROVE x <= y
    <2>1. SUFFICES ASSUME y < x PROVE FALSE
        OBVIOUS
    <2>2. 0..y \subseteq 0..x /\ x \in 0..x /\ x \notin 0..y
        BY <2>1
    <2>3. 0..y \in SUBSET Nat /\ 0..x \in SUBSET Nat
        OBVIOUS
    <2> QED BY <1>4, <2>2, <2>3 DEF StrictSubsetOrdering
<1> QED BY <1>5

\* Induction, for a set of numbers in the place of a predicate.
LEMMA SetInduction ==
    ASSUME NEW S, 0 \in S, \A n \in Nat : n \in S => n + 1 \in S
    PROVE  Nat \subseteq S
<1> SUFFICES ASSUME Nat \ S # {} PROVE FALSE
    OBVIOUS
<1>1. PICK x \in Nat \ S : \A y \in Nat \ S : x <= y
    BY LeastNumber
<1>2. x - 1 \in Nat
    BY <1>1
<1> QED BY <1>1, <1>2

-----------------------------------------------------------------------------
(* The tokenizer: least numbers, and what the reference reads.             *)

\* The least of a set of numbers.
LEMMA LeastIs ==
    ASSUME NEW T \in SUBSET Nat, T # {}
    PROVE  Least(T) \in T /\ \A y \in T : Least(T) <= y
BY LeastNumber DEF Least

LEMMA LeastUnique ==
    ASSUME NEW T \in SUBSET Nat, NEW x \in T, \A y \in T : x <= y
    PROVE  Least(T) = x
<1>1. Least(T) \in T /\ \A y \in T : Least(T) <= y
    BY LeastIs
<1>2. Least(T) \in Nat /\ x \in Nat /\ Least(T) <= x /\ x <= Least(T)
    BY <1>1
<1> QED BY <1>2

\* Each step follows the one before.
LEMMA Scanned ==
    ASSUME NEW l \in Seq(Chars)
    PROVE  /\ Scan(l)[0] = Begin(l)
           /\ \A n \in 0..Len(l) : Scan(l)[n + 1] = TokenStep(Scan(l)[n])
<1> DEFINE N == Len(l) + 1
           F(g, n) == g = [i \in 0..n |-> IF i = 0 THEN Begin(l) ELSE TokenStep(g[i - 1])]
           S == {n \in Nat : \E g : F(g, n)}
<1>0. N \in Nat
    BY LenProperties
<1>1. 0 \in S
    <2> DEFINE g == [i \in 0..0 |-> Begin(l)]
    <2>1. F(g, 0)
        OBVIOUS
    <2> QED BY <2>1
<1>2. ASSUME NEW n \in Nat, n \in S PROVE n + 1 \in S
    <2>1. PICK g : F(g, n)
        BY <1>2
    <2> DEFINE h == [i \in 0..(n + 1) |-> IF i = n + 1 THEN TokenStep(g[n]) ELSE g[i]]
    <2>2. \A i \in 0..(n + 1) : h[i] = IF i = 0 THEN Begin(l) ELSE TokenStep(h[i - 1])
        <3> SUFFICES ASSUME NEW i \in 0..(n + 1)
                     PROVE  h[i] = IF i = 0 THEN Begin(l) ELSE TokenStep(h[i - 1])
            OBVIOUS
        <3>1. CASE i = n + 1
            <4>1. h[i] = TokenStep(g[n]) /\ i # 0 /\ i - 1 = n /\ h[n] = g[n]
                BY <3>1
            <4> HIDE DEF h
            <4> QED BY <4>1
        <3>2. CASE i = 0
            <4>1. h[i] = g[0] /\ g[0] = Begin(l)
                BY <2>1, <3>2
            <4> QED BY <3>2, <4>1
        <3>3. CASE i # 0 /\ i # n + 1
            <4>1. i \in 0..n /\ i - 1 \in 0..n /\ i - 1 # n + 1
                BY <3>3
            <4>2. h[i] = g[i] /\ h[i - 1] = g[i - 1]
                BY <3>3, <4>1
            <4>3. g[i] = TokenStep(g[i - 1])
                BY <2>1, <3>3, <4>1
            <4> HIDE DEF h
            <4> QED BY <3>3, <4>2, <4>3
        <3> QED BY <3>1, <3>2, <3>3
    <2>3. h = [i \in 0..(n + 1) |-> h[i]]
        OBVIOUS
    <2>4. F(h, n + 1)
        <3> HIDE DEF h
        <3> QED BY <2>2, <2>3
    <2> HIDE DEF h
    <2> QED BY <2>4
<1>3. \E g : F(g, N)
    <2>1. Nat \subseteq S
        <3> HIDE DEF S
        <3> QED BY <1>1, <1>2, SetInduction
    <2> QED BY <1>0, <2>1
<1>4. PICK g : F(g, N)
    BY <1>3
<1>5. F(Scan(l), N)
    BY <1>4, Zenon DEF Scan
<1> HIDE DEF F
<1>6. Scan(l) = [i \in 0..N |-> IF i = 0 THEN Begin(l) ELSE TokenStep(Scan(l)[i - 1])]
    BY <1>5 DEF F
<1> HIDE DEF N
<1>7. \A i \in 0..N : Scan(l)[i] = IF i = 0 THEN Begin(l) ELSE TokenStep(Scan(l)[i - 1])
    BY <1>6
<1>8. Scan(l)[0] = Begin(l)
    BY <1>0, <1>7
<1>9. ASSUME NEW n \in 0..Len(l) PROVE Scan(l)[n + 1] = TokenStep(Scan(l)[n])
    <2>1. n + 1 \in 0..N /\ n + 1 # 0 /\ (n + 1) - 1 = n
        BY LenProperties DEF N
    <2> QED BY <1>7, <2>1
<1> QED BY <1>8, <1>9
\* A number above all of a set is the last of the set with it.
LEMMA NthGrows ==
    ASSUME NEW K \in SUBSET Nat, IsFiniteSet(K), NEW e \in Nat, \A i \in K : i < e
    PROVE  /\ Cardinality(K) \in Nat /\ Cardinality(K \cup {e}) = Cardinality(K) + 1
           /\ \A n \in 1..Cardinality(K) : Nth(K \cup {e}, n) = Nth(K, n)
           /\ Nth(K \cup {e}, Cardinality(K) + 1) = e
<1> DEFINE L == K \cup {e}
           c == Cardinality(K)
           R(S, i) == Cardinality({j \in S : j <= i})
<1>1. /\ c \in Nat /\ IsFiniteSet(L) /\ Cardinality(L) = c + 1
      /\ e \notin K
    BY FS_CardinalityType, FS_AddElement
<1>2. \A i \in K : R(L, i) = R(K, i) /\ R(K, i) <= c /\ R(K, i) \in Nat
    <2> SUFFICES ASSUME NEW i \in K PROVE R(L, i) = R(K, i) /\ R(K, i) <= c /\ R(K, i) \in Nat
        OBVIOUS
    <2>1. {j \in L : j <= i} = {j \in K : j <= i}
        OBVIOUS
    <2>2. {j \in K : j <= i} \in SUBSET K
        OBVIOUS
    <2>3. IsFiniteSet({j \in K : j <= i}) /\ Cardinality({j \in K : j <= i}) <= Cardinality(K)
        BY <2>2, FS_Subset
    <2>4. Cardinality({j \in K : j <= i}) \in Nat
        BY <2>3, FS_CardinalityType
    <2> QED BY <2>1, <2>3, <2>4
<1>3. R(L, e) = c + 1
    <2>1. {j \in L : j <= e} = L
        <3>1. \A j \in L : j <= e
            OBVIOUS
        <3> HIDE DEF L
        <3> QED BY <3>1
    <2> QED BY <1>1, <2>1
<1>4. ASSUME NEW n \in 1..c PROVE Nth(L, n) = Nth(K, n)
    <2>1. {i \in L : R(L, i) = n} = {i \in K : R(K, i) = n}
        <3>1. \A i \in K : R(L, i) = n <=> R(K, i) = n
            BY <1>2
        <3>2. R(L, e) # n
            BY <1>1, <1>3
        <3> HIDE DEF R
        <3> QED BY <3>1, <3>2
    <2> QED BY <2>1 DEF Nth
<1>5. Nth(L, c + 1) = e
    <2>1. {i \in L : R(L, i) = c + 1} = {e}
        <3>1. \A i \in K : R(L, i) # c + 1
            BY <1>1, <1>2
        <3> HIDE DEF R
        <3> QED BY <1>3, <3>1
    <2>2. Least({e}) = e
        BY LeastUnique
    <2> QED BY <2>1, <2>2 DEF Nth
<1> QED BY <1>1, <1>4, <1>5

\* One more character of a quoted word.
LEMMA BodyGrows ==
    ASSUME NEW l \in Seq(Chars), NEW s \in 1..(Len(l) + 1), NEW e \in s..Len(l),
           Body(l, s, e) \in Seq(Chars)
    PROVE  Body(l, s, e + 1) = IF Escaping(l, s, e) THEN Body(l, s, e) ELSE Append(Body(l, s, e), l[e])
<1> DEFINE K == Kept(l, s, e)
<1>0. Len(l) \in Nat /\ s \in Nat /\ e \in Nat
    BY LenProperties
<1>1. K \in SUBSET Nat /\ IsFiniteSet(K) /\ \A i \in K : i < e
    <2>1. K \in SUBSET (s..(e - 1)) /\ e - 1 \in Int /\ s \in Int
        BY <1>0 DEF Kept
    <2>2. IsFiniteSet(s..(e - 1))
        BY <2>1, FS_Interval
    <2>3. K \subseteq Nat /\ \A i \in K : i < e
        BY <1>0, <2>1
    <2>4. IsFiniteSet(K)
        BY <2>1, <2>2, FS_Subset
    <2> QED BY <2>3, <2>4
<1>2. Kept(l, s, e + 1) = IF Escaping(l, s, e) THEN K ELSE K \cup {e}
    <2>1. s..((e + 1) - 1) = (s..(e - 1)) \cup {e} /\ e \notin s..(e - 1)
        BY <1>0
    <2> QED BY <2>1 DEF Kept
<1>3. CASE Escaping(l, s, e)
    BY <1>2, <1>3 DEF Body
<1>4. CASE ~Escaping(l, s, e)
    <2> DEFINE c == Cardinality(K)
    <2>1. /\ c \in Nat /\ Cardinality(K \cup {e}) = c + 1
          /\ \A n \in 1..c : Nth(K \cup {e}, n) = Nth(K, n)
          /\ Nth(K \cup {e}, c + 1) = e
        BY <1>0, <1>1, NthGrows
    <2>2. Body(l, s, e) = [n \in 1..c |-> l[Nth(K, n)]]
        BY DEF Body
    <2>3. Body(l, s, e + 1) = [n \in 1..(c + 1) |-> l[Nth(K \cup {e}, n)]]
        BY <1>2, <1>4, <2>1 DEF Body
    <2> HIDE DEF c, K
    <2>4. Len(Body(l, s, e)) = c
        BY <2>1, <2>2
    <2> DEFINE A == Append(Body(l, s, e), l[e])
    <2>5. l[e] \in Chars
        BY <1>0, ElementOfSeq
    <2>6. A = [n \in 1..(c + 1) |-> IF n = c + 1 THEN l[e] ELSE Body(l, s, e)[n]]
        <3>1. /\ A \in Seq(Chars) /\ Len(A) = c + 1
              /\ \A n \in 1..c : A[n] = Body(l, s, e)[n]
              /\ A[c + 1] = l[e]
            BY <2>4, <2>5, AppendProperties
        <3>2. A = [n \in 1..(c + 1) |-> A[n]]
            BY <3>1, LenProperties
        <3>3. \A n \in 1..(c + 1) : A[n] = IF n = c + 1 THEN l[e] ELSE Body(l, s, e)[n]
            BY <2>1, <3>1
        <3> HIDE DEF A
        <3> QED BY <3>2, <3>3
    <2>7. \A n \in 1..(c + 1) : l[Nth(K \cup {e}, n)] = IF n = c + 1 THEN l[e] ELSE Body(l, s, e)[n]
        <3>1. \A n \in 1..(c + 1) : n # c + 1 => n \in 1..c
            BY <2>1
        <3> QED BY <2>1, <2>2, <3>1
    <2> HIDE DEF A
    <2> QED BY <1>4, <2>3, <2>6, <2>7 DEF A
<1> QED BY <1>3, <1>4

\* Nothing stands between s and s.
LEMMA BodyEmpty ==
    ASSUME NEW l, NEW s \in Nat
    PROVE  Body(l, s, s) = <<>>
<1>1. Kept(l, s, s) = {}
    BY DEF Kept
<1>2. Cardinality({}) = 0
    BY FS_EmptySet
<1>3. Body(l, s, s) = [n \in 1..0 |-> l[Nth({}, n)]]
    BY <1>1, <1>2 DEF Body
<1> QED BY <1>3

LEMMA BodyType ==
    ASSUME NEW l \in Seq(Chars), NEW s \in 1..(Len(l) + 1), NEW e \in s..(Len(l) + 1)
    PROVE  Body(l, s, e) \in Seq(Chars)
<1>0. Len(l) \in Nat
    BY LenProperties
<1> DEFINE S == {n \in Nat : s + n <= Len(l) + 1 => Body(l, s, s + n) \in Seq(Chars)}
<1>1. 0 \in S
    <2>1. s \in Nat /\ s + 0 = s /\ <<>> \in Seq(Chars)
        BY <1>0
    <2> QED BY <2>1, BodyEmpty
<1>2. ASSUME NEW n \in Nat, n \in S PROVE n + 1 \in S
    <2> SUFFICES ASSUME s + (n + 1) <= Len(l) + 1 PROVE Body(l, s, s + (n + 1)) \in Seq(Chars)
        OBVIOUS
    <2>1. s + n \in s..Len(l) /\ (s + n) + 1 = s + (n + 1)
        BY <1>0
    <2>2. Body(l, s, s + n) \in Seq(Chars)
        BY <1>0, <1>2, <2>1
    <2>3. Body(l, s, s + (n + 1)) = IF Escaping(l, s, s + n) THEN Body(l, s, s + n)
                                    ELSE Append(Body(l, s, s + n), l[s + n])
        BY <2>1, <2>2, BodyGrows
    <2>4. l[s + n] \in Chars
        BY <1>0, <2>1, ElementOfSeq
    <2>5. CASE Escaping(l, s, s + n)
        BY <2>2, <2>3, <2>5
    <2>6. CASE ~Escaping(l, s, s + n)
        <3>1. Append(Body(l, s, s + n), l[s + n]) \in Seq(Chars)
            BY <2>2, <2>4, AppendProperties
        <3> QED BY <2>3, <2>6, <3>1
    <2> QED BY <2>5, <2>6
<1>3. Nat \subseteq S
    <2> HIDE DEF S
    <2> QED BY <1>1, <1>2, SetInduction
<1>4. e - s \in Nat /\ s + (e - s) = e /\ e <= Len(l) + 1
    BY <1>0
<1>5. e - s \in S
    BY <1>3, <1>4
<1> QED BY <1>4, <1>5

\* The run of backslashes before the next character.
LEMMA BackslashesNext ==
    ASSUME NEW l, NEW s \in Nat, NEW i \in Nat, s <= i
    PROVE  /\ Backslashes(l, s, s) = 0 /\ Backslashes(l, s, i) \in Nat
           /\ Backslashes(l, s, i + 1) = IF l[i] = "backslash" THEN Backslashes(l, s, i) + 1 ELSE 0
<1> DEFINE B(m) == {j \in s..(m - 1) : \A k \in j..(m - 1) : l[k] = "backslash"}
<1>1. B(s) = {} /\ Backslashes(l, s, s) = 0
    <2>1. B(s) = {}
        OBVIOUS
    <2> QED BY <2>1, FS_EmptySet DEF Backslashes
<1>2. IsFiniteSet(B(i)) /\ Cardinality(B(i)) \in Nat
    <2>1. B(i) \in SUBSET (s..(i - 1)) /\ i - 1 \in Int /\ s \in Int
        OBVIOUS
    <2>2. IsFiniteSet(s..(i - 1))
        BY <2>1, FS_Interval
    <2> HIDE DEF B
    <2> QED BY <2>1, <2>2, FS_Subset, FS_CardinalityType
<1>3. CASE l[i] = "backslash"
    <2>1. B(i + 1) = B(i) \cup {i}
        <3>1. i \in B(i + 1)
            BY <1>3
        <3>2. \A j \in s..(i - 1) : j \in B(i + 1) <=> j \in B(i)
            <4> SUFFICES ASSUME NEW j \in s..(i - 1) PROVE j \in B(i + 1) <=> j \in B(i)
                OBVIOUS
            <4>1. j..((i + 1) - 1) = (j..(i - 1)) \cup {i}
                OBVIOUS
            <4>2. j \in s..((i + 1) - 1)
                OBVIOUS
            <4> QED BY <1>3, <4>1, <4>2
        <3>3. \A j \in B(i + 1) : j = i \/ j \in s..(i - 1)
            OBVIOUS
        <3>4. \A j \in B(i) : j \in s..(i - 1)
            OBVIOUS
        <3> HIDE DEF B
        <3> QED BY <3>1, <3>2, <3>3, <3>4
    <2>2. i \notin B(i)
        OBVIOUS
    <2> HIDE DEF B
    <2>3. Cardinality(B(i + 1)) = Cardinality(B(i)) + 1
        BY <1>2, <2>1, <2>2, FS_AddElement
    <2> QED BY <1>1, <1>2, <1>3, <2>3 DEF B, Backslashes
<1>4. CASE l[i] # "backslash"
    <2>1. B(i + 1) = {}
        <3>1. \A j \in s..((i + 1) - 1) : i \in j..((i + 1) - 1)
            OBVIOUS
        <3> QED BY <1>4, <3>1
    <2> QED BY <1>1, <1>2, <1>4, <2>1, FS_EmptySet DEF Backslashes
<1> QED BY <1>3, <1>4

\* A backslash escapes the next character unless it is escaped itself.
LEMMA EscapedNext ==
    ASSUME NEW l, NEW s \in Nat, NEW i \in Nat, s <= i
    PROVE  /\ ~Escaped(l, s, s)
           /\ l[i] # "backslash" => ~Escaped(l, s, i + 1)
           /\ l[i] = "backslash" /\ ~Escaped(l, s, i)
                 => (Escaped(l, s, i + 1) <=> l[i + 1] \in {"quote", "backslash"})
           /\ l[i] = "backslash" /\ Escaped(l, s, i) => ~Escaped(l, s, i + 1)
<1> DEFINE b == Backslashes(l, s, i)
           c == Backslashes(l, s, i + 1)
<1>1. /\ Backslashes(l, s, s) = 0 /\ b \in Nat
      /\ c = IF l[i] = "backslash" THEN b + 1 ELSE 0
    BY BackslashesNext
<1>2. /\ Escaped(l, s, i) <=> l[i] \in {"quote", "backslash"} /\ b % 2 = 1
      /\ Escaped(l, s, i + 1) <=> l[i + 1] \in {"quote", "backslash"} /\ c % 2 = 1
      /\ Escaped(l, s, s) <=> l[s] \in {"quote", "backslash"} /\ Backslashes(l, s, s) % 2 = 1
    BY DEF Escaped
<1> HIDE DEF b, c
<1>3. (b + 1) % 2 = 1 <=> b % 2 # 1
    BY <1>1
<1>4. 0 % 2 = 0
    OBVIOUS
<1> QED BY <1>1, <1>2, <1>3, <1>4

\* Where a word ends, and what it is.
LEMMA EndIs ==
    ASSUME NEW l \in Seq(Chars), NEW p \in 1..Len(l)
    PROVE  EndFrom(l, p) \in p..(Len(l) + 1) /\ WordFrom(l, p) \in Seq(Seq(Chars))
<1>0. Len(l) \in Nat /\ p \in Nat
    BY LenProperties
<1>1. CASE l[p] = "space"
    BY <1>0, <1>1 DEF EndFrom, WordFrom
<1>2. CASE l[p] = "quote"
    <2> DEFINE T == {i \in (p + 1)..Len(l) : l[i] = "quote" /\ ~Escaped(l, p + 1, i)} \cup {Len(l) + 1}
    <2>1. T \in SUBSET Nat /\ T # {} /\ T \subseteq (p + 1)..(Len(l) + 1)
        BY <1>0
    <2>2. EndFrom(l, p) = Least(T)
        BY <1>2 DEF EndFrom
    <2> HIDE DEF T
    <2>3. EndFrom(l, p) \in (p + 1)..(Len(l) + 1)
        BY <2>1, <2>2, LeastIs
    <2>4. p + 1 \in 1..(Len(l) + 1)
        BY <1>0
    <2>5. Body(l, p + 1, EndFrom(l, p)) \in Seq(Chars)
        BY <2>3, <2>4, BodyType
    <2>6. WordFrom(l, p) = <<Body(l, p + 1, EndFrom(l, p))>>
        BY <1>2 DEF WordFrom
    <2> QED BY <1>0, <2>3, <2>5, <2>6
<1>3. CASE l[p] \notin {"space", "quote"}
    <2> DEFINE T == {i \in p..Len(l) : l[i] = "space"} \cup {Len(l) + 1}
    <2>1. T \in SUBSET Nat /\ T # {} /\ T \subseteq p..(Len(l) + 1)
        BY <1>0
    <2>2. EndFrom(l, p) = Least(T)
        BY <1>3 DEF EndFrom
    <2> HIDE DEF T
    <2>3. EndFrom(l, p) \in p..(Len(l) + 1)
        BY <2>1, <2>2, LeastIs
    <2>4. SubSeq(l, p, EndFrom(l, p) - 1) \in Seq(Chars)
        <3>1. p \in 1..(Len(l) + 1) /\ EndFrom(l, p) - 1 \in (p - 1)..Len(l)
            BY <1>0, <2>3
        <3> QED BY <3>1, SubSeqProperties
    <2>5. WordFrom(l, p) = <<SubSeq(l, p, EndFrom(l, p) - 1)>>
        BY <1>3 DEF WordFrom
    <2> QED BY <2>3, <2>4, <2>5
<1> QED BY <1>1, <1>2, <1>3

\* The words from each place on, and their types.
LEMMA WordsFromIs ==
    ASSUME NEW l \in Seq(Chars)
    PROVE  \A p \in 1..(Len(l) + 2) :
               /\ WordsFrom(l)[p] = IF p > Len(l) THEN <<>>
                                    ELSE WordFrom(l, p) \o WordsFrom(l)[EndFrom(l, p) + 1]
               /\ WordsFrom(l)[p] \in Seq(Seq(Chars))
<1> DEFINE N == Len(l)
           R(g, p) == IF p > N THEN <<>> ELSE WordFrom(l, p) \o g[EndFrom(l, p) + 1]
           G(n) == \E g : \A p \in (N + 3 - n)..(N + 2) : g[p] = R(g, p)
           S == {n \in Nat : n <= N + 2 => G(n)}
<1>0. N \in Nat
    BY LenProperties
<1> HIDE DEF N
<1>e. \A p \in 1..N : EndFrom(l, p) \in p..(N + 1) /\ WordFrom(l, p) \in Seq(Seq(Chars))
    BY EndIs DEF N
<1>1. 0 \in S
    <2>1. (N + 3 - 0)..(N + 2) = {}
        BY <1>0
    <2>2. G(0)
        <3> HIDE DEF R
        <3> QED BY <2>1
    <2> QED BY <2>2
<1>2. ASSUME NEW n \in Nat, n \in S PROVE n + 1 \in S
    <2> SUFFICES ASSUME n + 1 <= N + 2 PROVE G(n + 1)
        OBVIOUS
    <2>1. PICK g : \A p \in (N + 3 - n)..(N + 2) : g[p] = R(g, p)
        BY <1>0, <1>2
    <2> DEFINE m == N + 2 - n
               h == [p \in 1..(N + 2) |-> IF p = m THEN R(g, m) ELSE g[p]]
    <2>2. m \in 1..(N + 2) /\ N + 3 - n = m + 1 /\ N + 3 - (n + 1) = m
        BY <1>0
    <2> HIDE DEF m
    <2>3. \A p \in m..(N + 2) : h[p] = R(g, p)
        <3> SUFFICES ASSUME NEW p \in m..(N + 2) PROVE h[p] = R(g, p)
            OBVIOUS
        <3>1. CASE p = m
            <4> HIDE DEF R
            <4> QED BY <2>2, <3>1
        <3>2. CASE p # m
            <4>1. p \in (N + 3 - n)..(N + 2) /\ p \in 1..(N + 2)
                BY <1>0, <2>2, <3>2
            <4> HIDE DEF R
            <4> QED BY <2>1, <3>2, <4>1
        <3> QED BY <3>1, <3>2
    <2>4. \A p \in m..(N + 2) : R(h, p) = R(g, p)
        <3> SUFFICES ASSUME NEW p \in m..(N + 2) PROVE R(h, p) = R(g, p)
            OBVIOUS
        <3>1. CASE p > N
            <4> HIDE DEF h
            <4> QED BY <3>1
        <3>2. CASE ~(p > N)
            <4>1. EndFrom(l, p) \in p..(N + 1)
                BY <1>0, <1>e, <2>2, <3>2
            <4>2. EndFrom(l, p) + 1 \in 1..(N + 2) /\ EndFrom(l, p) + 1 # m
                BY <1>0, <2>2, <4>1
            <4>3. h[EndFrom(l, p) + 1] = g[EndFrom(l, p) + 1]
                <5> HIDE DEF R
                <5> QED BY <4>2
            <4> HIDE DEF h
            <4> QED BY <3>2, <4>3
        <3> QED BY <3>1, <3>2
    <2> HIDE DEF h, R
    <2>5. \A p \in (N + 3 - (n + 1))..(N + 2) : h[p] = R(h, p)
        BY <2>2, <2>3, <2>4
    <2> QED BY <2>5
<1>3. \E g : \A p \in 1..(N + 2) : g[p] = R(g, p)
    <2>1. Nat \subseteq S
        <3> HIDE DEF S
        <3> QED BY <1>1, <1>2, SetInduction
    <2>2. G(N + 2)
        <3>1. N + 2 \in Nat /\ N + 2 <= N + 2
            BY <1>0
        <3>2. N + 2 \in S
            <4> HIDE DEF S
            <4> QED BY <2>1, <3>1
        <3> HIDE DEF G
        <3> QED BY <3>1, <3>2
    <2>3. N + 3 - (N + 2) = 1
        BY <1>0
    <2> HIDE DEF R
    <2> QED BY <2>2, <2>3
<1>4. \E h : h = [p \in 1..(N + 2) |-> R(h, p)]
    <2>1. PICK g : \A p \in 1..(N + 2) : g[p] = R(g, p)
        BY <1>3
    <2> DEFINE h == [p \in 1..(N + 2) |-> g[p]]
    <2>2. \A p \in 1..(N + 2) : R(h, p) = R(g, p)
        <3> SUFFICES ASSUME NEW p \in 1..(N + 2), ~(p > N) PROVE h[EndFrom(l, p) + 1] = g[EndFrom(l, p) + 1]
            OBVIOUS
        <3>1. EndFrom(l, p) + 1 \in 1..(N + 2)
            BY <1>0, <1>e
        <3> HIDE DEF R
        <3> QED BY <3>1
    <2>3. \A p \in 1..(N + 2) : h[p] = R(h, p)
        <3> HIDE DEF R
        <3> QED BY <2>1, <2>2
    <2>4. h = [p \in 1..(N + 2) |-> h[p]]
        OBVIOUS
    <2> HIDE DEF h, R
    <2>5. h = [p \in 1..(N + 2) |-> R(h, p)]
        BY <2>3, <2>4
    <2> QED BY <2>5
<1>5. WordsFrom(l) = [p \in 1..(N + 2) |-> R(WordsFrom(l), p)]
    BY <1>4, Zenon DEF WordsFrom, N
<1> DEFINE W == WordsFrom(l)
<1> HIDE DEF W
<1>6. \A p \in 1..(N + 2) : W[p] = R(W, p)
    <2> HIDE DEF R
    <2> QED BY <1>5 DEF W
<1> DEFINE Q == {n \in Nat : \A p \in 1..(N + 2) : p >= N + 3 - n => W[p] \in Seq(Seq(Chars))}
<1>7. 0 \in Q
    BY <1>0
<1>8. ASSUME NEW n \in Nat, n \in Q PROVE n + 1 \in Q
    <2> SUFFICES ASSUME NEW p \in 1..(N + 2), p >= N + 3 - (n + 1) PROVE W[p] \in Seq(Seq(Chars))
        OBVIOUS
    <2>1. CASE p > N
        <3>1. W[p] = <<>>
            BY <1>6, <2>1
        <3> QED BY <3>1
    <2>2. CASE ~(p > N)
        <3>1. EndFrom(l, p) \in p..(N + 1) /\ WordFrom(l, p) \in Seq(Seq(Chars))
            BY <1>0, <1>e, <2>2
        <3>2. EndFrom(l, p) + 1 \in 1..(N + 2) /\ EndFrom(l, p) + 1 >= N + 3 - n
            BY <1>0, <3>1
        <3>3. W[EndFrom(l, p) + 1] \in Seq(Seq(Chars))
            BY <1>8, <3>2
        <3>4. W[p] = WordFrom(l, p) \o W[EndFrom(l, p) + 1]
            BY <1>6, <2>2
        <3>5. \A a, b \in Seq(Seq(Chars)) : a \o b \in Seq(Seq(Chars))
            BY ConcatProperties
        <3> QED BY <3>1, <3>3, <3>4, <3>5
    <2> QED BY <2>1, <2>2
<1>9. \A p \in 1..(N + 2) : W[p] \in Seq(Seq(Chars))
    <2>1. Nat \subseteq Q
        <3> HIDE DEF Q
        <3> QED BY <1>7, <1>8, SetInduction
    <2>2. N + 2 \in Q
        <3>1. N + 2 \in Nat
            BY <1>0
        <3> HIDE DEF Q
        <3> QED BY <2>1, <3>1
    <2>3. \A p \in 1..(N + 2) : p >= N + 3 - (N + 2)
        BY <1>0
    <2> QED BY <2>2, <2>3
<1> QED BY <1>6, <1>9 DEF W, N

-----------------------------------------------------------------------------
(* The tokenizer: its memory against the words of the line.                *)

\* The words that ended are strings in memory, before f.
Stored(t, texts, f) ==
    \A k \in 1..Len(texts) :
        /\ t.starts[k] + Len(texts[k]) < f
        /\ t.mem[t.starts[k] + Len(texts[k])] = "NUL"
        /\ \A j \in 1..Len(texts[k]) : t.mem[t.starts[k] + j - 1] = texts[k][j]

BlanksInv(l, t, texts) ==
    /\ t.at = "blanks" /\ Len(t.starts) = Len(texts)
    /\ Words(l) = texts \o WordsFrom(l)[t.p]
    /\ Stored(t, texts, IF t.p = Len(l) + 1 THEN Len(l) + 2 ELSE t.p)

WordInv(l, t, texts, s) ==
    /\ t.at = "word" /\ s < t.p
    /\ Words(l) = texts \o WordsFrom(l)[s]
    /\ l[s] \notin {"space", "quote"}
    /\ \A i \in s..(t.p - 1) : l[i] # "space" /\ t.mem[i] = l[i]

QuotedInv(l, t, texts, s) ==
    /\ t.at = "quoted" /\ 2 <= s /\ s <= t.w /\ t.w <= t.p
    /\ Words(l) = texts \o WordsFrom(l)[s - 1]
    /\ l[s - 1] = "quote"
    /\ \A i \in s..(t.p - 1) : l[i] = "quote" => Escaped(l, s, i)
    /\ t.p <= Len(l) => ~Escaped(l, s, t.p)
    /\ t.w = s + Len(Body(l, s, t.p))
    /\ \A j \in 1..Len(Body(l, s, t.p)) : t.mem[s + j - 1] = Body(l, s, t.p)[j]

\* What the tokenizer has done of a line: the words that ended are the first of
\* the line's, and the rest of the memory is as it came.
ScanInv(l, t) ==
    /\ t \in [at : {"blanks", "word", "quoted"}, mem : [1..(Len(l) + 1) -> Chars \cup {"NUL"}],
              p : 1..(Len(l) + 1), w : 1..(Len(l) + 1), starts : Seq(1..(Len(l) + 1))]
    /\ Len(t.starts) <= MAX_ARGV
    /\ \A i \in t.p..(Len(l) + 1) : t.mem[i] = Memory(l)[i]
    /\ \E texts \in Seq(Seq(Chars)) :
          \/ BlanksInv(l, t, texts)
          \/ /\ Len(t.starts) = Len(texts) + 1
             /\ Stored(t, texts, t.starts[Len(t.starts)])
             /\ \/ WordInv(l, t, texts, t.starts[Len(t.starts)])
                \/ QuotedInv(l, t, texts, t.starts[Len(t.starts)])

\* Strings stay where they are when nothing before f changes.
LEMMA StaysStored ==
    ASSUME NEW t, NEW u, NEW texts \in Seq(Seq(Chars)), NEW f \in Nat, NEW g \in Nat,
           Stored(t, texts, f), f <= g,
           \A k \in 1..Len(texts) : u.starts[k] = t.starts[k] /\ t.starts[k] \in Nat,
           \A i \in Nat : i < f => u.mem[i] = t.mem[i]
    PROVE  Stored(u, texts, g)
<1> SUFFICES ASSUME NEW k \in 1..Len(texts)
             PROVE  /\ u.starts[k] + Len(texts[k]) < g
                    /\ u.mem[u.starts[k] + Len(texts[k])] = "NUL"
                    /\ \A j \in 1..Len(texts[k]) : u.mem[u.starts[k] + j - 1] = texts[k][j]
    BY DEF Stored
<1> DEFINE s == t.starts[k]
           n == Len(texts[k])
<1>1. u.starts[k] = s /\ s \in Nat
    OBVIOUS
<1>2. n \in Nat
    BY ElementOfSeq, LenProperties
<1>3. /\ s + n < f /\ t.mem[s + n] = "NUL"
      /\ \A j \in 1..n : t.mem[s + j - 1] = texts[k][j]
    BY DEF Stored
<1> HIDE DEF s, n
<1>4. u.mem[s + n] = "NUL"
    BY <1>1, <1>2, <1>3
<1>5. \A j \in 1..n : s + j - 1 \in Nat /\ s + j - 1 < f
    BY <1>1, <1>2, <1>3
<1>6. \A j \in 1..n : u.mem[s + j - 1] = texts[k][j]
    BY <1>3, <1>5
<1>7. s + n < g
    BY <1>1, <1>2, <1>3
<1> QED BY <1>1, <1>4, <1>6, <1>7 DEF s, n

\* One more string.
LEMMA OneMoreStored ==
    ASSUME NEW t, NEW texts \in Seq(Seq(Chars)), NEW f \in Nat, Stored(t, texts, f),
           NEW text \in Seq(Chars), NEW s, s = t.starts[Len(texts) + 1],
           s + Len(text) < f, t.mem[s + Len(text)] = "NUL",
           \A j \in 1..Len(text) : t.mem[s + j - 1] = text[j]
    PROVE  Stored(t, Append(texts, text), f)
<1>1. /\ Len(texts) \in Nat /\ Len(Append(texts, text)) = Len(texts) + 1
      /\ \A k \in 1..Len(texts) : Append(texts, text)[k] = texts[k]
      /\ Append(texts, text)[Len(texts) + 1] = text
    BY AppendProperties, LenProperties
<1> SUFFICES ASSUME NEW k \in 1..(Len(texts) + 1), NEW x, x = Append(texts, text)[k]
             PROVE  /\ t.starts[k] + Len(x) < f
                    /\ t.mem[t.starts[k] + Len(x)] = "NUL"
                    /\ \A j \in 1..Len(x) : t.mem[t.starts[k] + j - 1] = x[j]
    BY <1>1 DEF Stored
<1>2. CASE k = Len(texts) + 1
    BY <1>1, <1>2
<1>3. CASE k # Len(texts) + 1
    <2>1. k \in 1..Len(texts) /\ x = texts[k]
        BY <1>1, <1>3
    <2> QED BY <2>1 DEF Stored
<1> QED BY <1>2, <1>3

LEMMA ScanBegins ==
    ASSUME NEW l \in Seq(Chars)
    PROVE  ScanInv(l, Begin(l))
<1> DEFINE t == Begin(l)
           N == Len(l)
<1>0. N \in Nat /\ MAX_ARGV \in Nat
    BY LenProperties, DispatchAssumption
<1>1. t.at = "blanks" /\ t.mem = Memory(l) /\ t.p = 1 /\ t.w = 1 /\ t.starts = <<>>
    BY DEF Begin
<1>2. Memory(l) \in [1..(N + 1) -> Chars \cup {"NUL"}]
    <2>1. \A i \in 1..(N + 1) : i <= N => l[i] \in Chars
        BY <1>0, ElementOfSeq
    <2> QED BY <2>1 DEF Memory
<1>3. t \in [at : {"blanks", "word", "quoted"}, mem : [1..(N + 1) -> Chars \cup {"NUL"}],
             p : 1..(N + 1), w : 1..(N + 1), starts : Seq(1..(N + 1))]
    BY <1>0, <1>2 DEF Begin
<1>4. <<>> \in Seq(Seq(Chars)) /\ Len(<<>>) = 0
    OBVIOUS
<1>5. BlanksInv(l, t, <<>>)
    <2>1. 1 \in 1..(N + 2)
        BY <1>0
    <2>2. WordsFrom(l)[1] \in Seq(Seq(Chars))
        BY <2>1, WordsFromIs
    <2>3. Words(l) = <<>> \o WordsFrom(l)[1]
        BY <2>2, ConcatEmptySeq DEF Words
    <2> QED BY <1>1, <1>4, <2>3 DEF BlanksInv, Stored
<1> HIDE DEF t
<1>6. Len(t.starts) <= MAX_ARGV /\ \A i \in t.p..(N + 1) : t.mem[i] = Memory(l)[i]
    BY <1>0, <1>1
<1> QED BY <1>3, <1>4, <1>5, <1>6 DEF ScanInv, t

\* It has read what it will: the line, or as many words as there is room for.
Stopped(t) ==
    \/ t.at # "quoted" /\ t.mem[t.p] = "NUL"
    \/ t.at = "blanks" /\ Len(t.starts) = MAX_ARGV

\* A step gets further, or is the last.
Advances(t, u) == u.p > t.p \/ Stopped(u)

\* What the memory still holds of the line.
LEMMA Unread ==
    ASSUME NEW l \in Seq(Chars), NEW t, ScanInv(l, t)
    PROVE  /\ Len(l) \in Nat /\ t.p \in 1..(Len(l) + 1)
           /\ t.p <= Len(l) => t.mem[t.p] = l[t.p] /\ l[t.p] \in Chars
           /\ t.p = Len(l) + 1 => t.mem[t.p] = "NUL"
           /\ t.p < Len(l) => t.mem[t.p + 1] = l[t.p + 1]
           /\ t.p = Len(l) => t.mem[t.p + 1] = "NUL"
<1>1. Len(l) \in Nat
    BY LenProperties
<1>2. /\ t.p \in 1..(Len(l) + 1)
      /\ \A i \in t.p..(Len(l) + 1) : t.mem[i] = IF i <= Len(l) THEN l[i] ELSE "NUL"
    <2>1. /\ t.p \in 1..(Len(l) + 1)
          /\ \A i \in t.p..(Len(l) + 1) : t.mem[i] = Memory(l)[i]
        BY DEF ScanInv
    <2>2. \A i \in 1..(Len(l) + 1) : Memory(l)[i] = IF i <= Len(l) THEN l[i] ELSE "NUL"
        BY DEF Memory
    <2>3. \A i \in t.p..(Len(l) + 1) : i \in 1..(Len(l) + 1)
        BY <1>1, <2>1
    <2> QED BY <2>1, <2>2, <2>3
<1>3. t.p <= Len(l) => l[t.p] \in Chars
    BY <1>1, <1>2, ElementOfSeq
<1>4. t.p <= Len(l) => t.p + 1 \in t.p..(Len(l) + 1)
    BY <1>1, <1>2
<1> QED BY <1>1, <1>2, <1>3, <1>4

\* The words from a place on, at a blank.
LEMMA WordsAfterBlank ==
    ASSUME NEW l \in Seq(Chars), NEW p \in 1..Len(l), l[p] = "space"
    PROVE  WordsFrom(l)[p] = WordsFrom(l)[p + 1]
<1>1. Len(l) \in Nat /\ p \in 1..(Len(l) + 2) /\ p + 1 \in 1..(Len(l) + 2) /\ ~(p > Len(l))
    BY LenProperties
<1>2. EndFrom(l, p) = p /\ WordFrom(l, p) = <<>>
    BY DEF EndFrom, WordFrom
<1>3. WordsFrom(l)[p] = <<>> \o WordsFrom(l)[p + 1] /\ WordsFrom(l)[p + 1] \in Seq(Seq(Chars))
    BY <1>1, <1>2, WordsFromIs
<1> QED BY <1>3, ConcatEmptySeq

LEMMA BlanksStep ==
    ASSUME NEW l \in Seq(Chars), NEW t, ScanInv(l, t), t.at = "blanks"
    PROVE  ScanInv(l, Blanks(t)) /\ Advances(t, Blanks(t))
<1> DEFINE N == Len(l)
           c == t.mem[t.p]
<1>0. /\ N \in Nat /\ t.p \in 1..(N + 1) /\ MAX_ARGV \in Nat
      /\ t.p <= N => c = l[t.p] /\ l[t.p] \in Chars
      /\ t.p = N + 1 => c = "NUL"
    BY Unread, DispatchAssumption
<1>1. /\ t \in [at : {"blanks", "word", "quoted"}, mem : [1..(N + 1) -> Chars \cup {"NUL"}],
                p : 1..(N + 1), w : 1..(N + 1), starts : Seq(1..(N + 1))]
      /\ Len(t.starts) <= MAX_ARGV
      /\ \A i \in t.p..(N + 1) : t.mem[i] = Memory(l)[i]
    BY DEF ScanInv
<1>2. PICK texts \in Seq(Seq(Chars)) : BlanksInv(l, t, texts)
    BY DEF ScanInv, WordInv, QuotedInv
<1>3. /\ Len(t.starts) = Len(texts) /\ Words(l) = texts \o WordsFrom(l)[t.p]
      /\ Stored(t, texts, IF t.p = N + 1 THEN N + 2 ELSE t.p)
    BY <1>2 DEF BlanksInv
<1>4. Len(texts) \in Nat /\ \A k \in 1..Len(texts) : t.starts[k] \in Nat
    <2>1. Len(texts) \in Nat
        BY LenProperties
    <2>2. \A k \in 1..Len(texts) : t.starts[k] \in 1..(N + 1)
        BY <1>1, <1>3, ElementOfSeq
    <2> QED BY <2>1, <2>2
<1>5. CASE c = "NUL" \/ Len(t.starts) = MAX_ARGV
    BY <1>5 DEF Blanks, Advances, Stopped
<1>6. CASE c # "NUL" /\ Len(t.starts) # MAX_ARGV
    <2>1. t.p \in 1..N /\ c = l[t.p] /\ l[t.p] \in Chars
        BY <1>0, <1>6
    <2>2. Stored(t, texts, t.p)
        BY <1>0, <1>3, <2>1
    <2>3. Len(t.starts) < MAX_ARGV
        BY <1>0, <1>1, <1>3, <1>4, <1>6
    <2>4. t.p + 1 \in 1..(N + 1) /\ t.p + 1 > t.p
        BY <1>0, <2>1
    <2>5. CASE c = "space"
        <3> DEFINE u == [t EXCEPT !.p = t.p + 1]
        <3>1. Blanks(t) = u
            BY <1>6, <2>5 DEF Blanks
        <3>2. /\ u \in [at : {"blanks", "word", "quoted"}, mem : [1..(N + 1) -> Chars \cup {"NUL"}],
                        p : 1..(N + 1), w : 1..(N + 1), starts : Seq(1..(N + 1))]
              /\ u.at = "blanks" /\ u.mem = t.mem /\ u.p = t.p + 1 /\ u.starts = t.starts
            BY <1>1, <2>4
        <3> HIDE DEF u
        <3>3. Words(l) = texts \o WordsFrom(l)[u.p]
            BY <1>3, <2>1, <2>5, <3>2, WordsAfterBlank
        <3>4. Stored(u, texts, IF u.p = N + 1 THEN N + 2 ELSE u.p)
            <4> DEFINE g == IF u.p = N + 1 THEN N + 2 ELSE u.p
            <4>1. g \in Nat /\ t.p \in Nat /\ t.p <= g
                BY <1>0, <2>4, <3>2
            <4> HIDE DEF g
            <4>2. Stored(u, texts, g)
                BY <1>4, <2>2, <3>2, <4>1, StaysStored
            <4> QED BY <4>2 DEF g
        <3>5. BlanksInv(l, u, texts)
            BY <1>3, <3>2, <3>3, <3>4 DEF BlanksInv
        <3>6. \A i \in u.p..(N + 1) : u.mem[i] = Memory(l)[i]
            BY <1>0, <1>1, <3>2
        <3> QED BY <1>1, <2>4, <3>1, <3>2, <3>5, <3>6 DEF ScanInv, Advances
    <2>6. CASE c = "quote"
        <3> DEFINE s == t.p + 1
                   u == [t EXCEPT !.at = "quoted", !.p = s, !.w = s, !.starts = Append(t.starts, s)]
        <3>0. s \in 1..(N + 1) /\ s \in Nat /\ s - 1 = t.p
            BY <1>0, <2>4
        <3>1. Blanks(t) = u
            BY <1>6, <2>6 DEF Blanks
        <3>2. /\ Append(t.starts, s) \in Seq(1..(N + 1))
              /\ Len(Append(t.starts, s)) = Len(texts) + 1
              /\ Append(t.starts, s)[Len(texts) + 1] = s
              /\ \A k \in 1..Len(texts) : Append(t.starts, s)[k] = t.starts[k]
            BY <1>1, <1>3, <3>0, AppendProperties
        <3>3. /\ u \in [at : {"blanks", "word", "quoted"}, mem : [1..(N + 1) -> Chars \cup {"NUL"}],
                        p : 1..(N + 1), w : 1..(N + 1), starts : Seq(1..(N + 1))]
              /\ u.at = "quoted" /\ u.mem = t.mem /\ u.p = s /\ u.w = s
              /\ u.starts = Append(t.starts, s)
            BY <1>1, <3>0, <3>2
        <3> HIDE DEF s, u
        <3>4. Stored(u, texts, s)
            <4>1. t.p \in Nat /\ t.p <= s
                BY <1>0, <3>0
            <4>2. \A k \in 1..Len(texts) : u.starts[k] = t.starts[k] /\ t.starts[k] \in Nat
                BY <1>4, <3>2, <3>3
            <4> QED BY <2>2, <3>0, <3>3, <4>1, <4>2, StaysStored
        <3>5. QuotedInv(l, u, texts, s)
            <4>1. Body(l, s, s) = <<>> /\ Len(<<>>) = 0
                BY <3>0, BodyEmpty
            <4>2. ~Escaped(l, s, s)
                BY <3>0, EscapedNext
            <4>3. 2 <= s /\ s..(s - 1) = {} /\ s = s + 0
                BY <1>0, <3>0
            <4>4. Words(l) = texts \o WordsFrom(l)[s - 1] /\ l[s - 1] = "quote"
                BY <1>3, <2>1, <2>6, <3>0
            <4> QED BY <3>0, <3>3, <4>1, <4>2, <4>3, <4>4 DEF QuotedInv
        <3>6. \A i \in u.p..(N + 1) : u.mem[i] = Memory(l)[i]
            BY <1>0, <1>1, <3>0, <3>3
        <3>7. /\ Len(u.starts) = Len(texts) + 1 /\ u.starts[Len(u.starts)] = s
              /\ Len(u.starts) <= MAX_ARGV /\ u.p > t.p
            <4>1. Len(texts) \in Nat /\ Len(texts) < MAX_ARGV
                BY <1>3, <1>4, <2>3
            <4>2. Len(u.starts) = Len(texts) + 1 /\ u.starts[Len(texts) + 1] = s
                BY <3>2, <3>3
            <4>3. t.p \in Nat /\ u.p = t.p + 1
                BY <1>0, <3>0, <3>3
            <4> QED BY <1>0, <4>1, <4>2, <4>3
        <3> QED BY <3>1, <3>3, <3>4, <3>5, <3>6, <3>7 DEF ScanInv, Advances
    <2>7. CASE c \notin {"space", "quote"}
        <3> DEFINE s == t.p
                   u == [t EXCEPT !.at = "word", !.p = s + 1, !.starts = Append(t.starts, s)]
        <3>0. s \in 1..(N + 1) /\ s \in Nat
            BY <1>0
        <3>1. Blanks(t) = u
            BY <1>6, <2>7 DEF Blanks
        <3>2. /\ Append(t.starts, s) \in Seq(1..(N + 1))
              /\ Len(Append(t.starts, s)) = Len(texts) + 1
              /\ Append(t.starts, s)[Len(texts) + 1] = s
              /\ \A k \in 1..Len(texts) : Append(t.starts, s)[k] = t.starts[k]
            BY <1>1, <1>3, <3>0, AppendProperties
        <3>3. /\ u \in [at : {"blanks", "word", "quoted"}, mem : [1..(N + 1) -> Chars \cup {"NUL"}],
                        p : 1..(N + 1), w : 1..(N + 1), starts : Seq(1..(N + 1))]
              /\ u.at = "word" /\ u.mem = t.mem /\ u.p = s + 1
              /\ u.starts = Append(t.starts, s)
            BY <1>1, <2>4, <3>2
        <3>4. Words(l) = texts \o WordsFrom(l)[s] /\ l[s] \notin {"space", "quote"} /\ t.mem[s] = l[s]
              /\ Stored(t, texts, s)
            BY <1>3, <2>1, <2>2, <2>7
        <3> HIDE DEF u, s
        <3>5. Stored(u, texts, s)
            <4>1. \A k \in 1..Len(texts) : u.starts[k] = t.starts[k] /\ t.starts[k] \in Nat
                BY <1>4, <3>2, <3>3
            <4>2. s <= s
                BY <3>0
            <4> QED BY <3>0, <3>3, <3>4, <4>1, <4>2, StaysStored
        <3>6. WordInv(l, u, texts, s)
            <4>1. s..((s + 1) - 1) = {s} /\ s < s + 1
                BY <3>0
            <4> QED BY <3>3, <3>4, <4>1 DEF WordInv
        <3>7. \A i \in u.p..(N + 1) : u.mem[i] = Memory(l)[i]
            BY <1>0, <1>1, <3>0, <3>3 DEF s
        <3>8. /\ Len(u.starts) = Len(texts) + 1 /\ u.starts[Len(u.starts)] = s
              /\ Len(u.starts) <= MAX_ARGV /\ u.p > t.p
            <4>1. Len(texts) \in Nat /\ Len(texts) < MAX_ARGV
                BY <1>3, <1>4, <2>3
            <4>2. Len(u.starts) = Len(texts) + 1 /\ u.starts[Len(texts) + 1] = s
                BY <3>2, <3>3
            <4>3. t.p \in Nat /\ u.p = t.p + 1
                BY <3>0, <3>3 DEF s
            <4> QED BY <1>0, <4>1, <4>2, <4>3
        <3> QED BY <3>1, <3>3, <3>5, <3>6, <3>7, <3>8 DEF ScanInv, Advances
    <2> QED BY <2>5, <2>6, <2>7
<1> QED BY <1>5, <1>6

\* A word that ends moves from what is left to what was read.
LEMMA WordMoves ==
    ASSUME NEW texts \in Seq(Seq(Chars)), NEW word \in Seq(Chars), NEW rest \in Seq(Seq(Chars))
    PROVE  texts \o (<<word>> \o rest) = Append(texts, word) \o rest
<1>1. <<word>> \in Seq(Seq(Chars))
    OBVIOUS
<1>2. Append(texts, word) = texts \o <<word>>
    BY AppendIsConcat
<1> QED BY <1>1, <1>2, ConcatAssociative

LEMMA PlainWordEnds ==
    ASSUME NEW l \in Seq(Chars), NEW s \in 1..Len(l), l[s] \notin {"space", "quote"},
           NEW e \in (s + 1)..(Len(l) + 1), \A i \in s..(e - 1) : l[i] # "space",
           e <= Len(l) => l[e] = "space"
    PROVE  /\ WordsFrom(l)[s] = <<SubSeq(l, s, e - 1)>> \o WordsFrom(l)[e + 1]
           /\ SubSeq(l, s, e - 1) \in Seq(Chars)
           /\ Len(SubSeq(l, s, e - 1)) = e - s
           /\ \A j \in 1..(e - s) : SubSeq(l, s, e - 1)[j] = l[s + j - 1]
<1>0. Len(l) \in Nat /\ s \in Nat /\ e \in Nat
    BY LenProperties
<1> DEFINE T == {i \in s..Len(l) : l[i] = "space"} \cup {Len(l) + 1}
<1>1. T \in SUBSET Nat /\ e \in T /\ \A y \in T : e <= y
    <2>1. T \in SUBSET Nat
        BY <1>0
    <2>2. e \in T
        BY <1>0
    <2>3. \A y \in T : e <= y
        <3> SUFFICES ASSUME NEW y \in T, y < e PROVE FALSE
            BY <1>0
        <3>1. y # Len(l) + 1
            BY <1>0
        <3>2. y \in s..(e - 1) /\ l[y] = "space"
            BY <1>0, <3>1
        <3> QED BY <3>2
    <2> QED BY <2>1, <2>2, <2>3
<1>2. EndFrom(l, s) = e
    <2>1. EndFrom(l, s) = Least(T)
        BY DEF EndFrom
    <2> HIDE DEF T
    <2> QED BY <1>1, <2>1, LeastUnique
<1>3. WordFrom(l, s) = <<SubSeq(l, s, e - 1)>>
    BY <1>2 DEF WordFrom
<1>4. s \in 1..(Len(l) + 2) /\ ~(s > Len(l))
    BY <1>0
<1>5. \A i \in s..(e - 1) : l[i] \in Chars
    BY <1>0, ElementOfSeq
<1>6. e - 1 \in Int /\ s \in Int /\ s <= e - 1 /\ (e - 1) - s + 1 = e - s
    BY <1>0
<1>7. /\ SubSeq(l, s, e - 1) \in Seq(Chars)
      /\ Len(SubSeq(l, s, e - 1)) = IF s <= e - 1 THEN (e - 1) - s + 1 ELSE 0
      /\ \A j \in 1..((e - 1) - s + 1) : SubSeq(l, s, e - 1)[j] = l[s + j - 1]
    BY <1>5, <1>6, SubSeqProperties
<1> QED BY <1>2, <1>3, <1>4, <1>6, <1>7, WordsFromIs

LEMMA QuotedWordEnds ==
    ASSUME NEW l \in Seq(Chars), NEW s \in 2..(Len(l) + 1), l[s - 1] = "quote",
           NEW e \in s..(Len(l) + 1), \A i \in s..(e - 1) : l[i] = "quote" => Escaped(l, s, i),
           e <= Len(l) => l[e] = "quote" /\ ~Escaped(l, s, e)
    PROVE  /\ WordsFrom(l)[s - 1] = <<Body(l, s, e)>> \o WordsFrom(l)[e + 1]
           /\ Body(l, s, e) \in Seq(Chars)
<1>0. Len(l) \in Nat /\ s \in Nat /\ e \in Nat /\ (s - 1) + 1 = s
    BY LenProperties
<1> DEFINE T == {i \in s..Len(l) : l[i] = "quote" /\ ~Escaped(l, s, i)} \cup {Len(l) + 1}
<1>1. T \in SUBSET Nat /\ e \in T /\ \A y \in T : e <= y
    <2>1. T \in SUBSET Nat
        BY <1>0
    <2>2. e \in T
        BY <1>0
    <2>3. \A y \in T : e <= y
        <3> SUFFICES ASSUME NEW y \in T, y < e PROVE FALSE
            BY <1>0
        <3>1. y # Len(l) + 1
            BY <1>0
        <3>2. y \in s..(e - 1) /\ l[y] = "quote" /\ ~Escaped(l, s, y)
            BY <1>0, <3>1
        <3> QED BY <3>2
    <2> QED BY <2>1, <2>2, <2>3
<1>2. EndFrom(l, s - 1) = e
    <2>1. EndFrom(l, s - 1) = Least(T)
        BY <1>0 DEF EndFrom
    <2> HIDE DEF T
    <2> QED BY <1>1, <2>1, LeastUnique
<1>3. WordFrom(l, s - 1) = <<Body(l, s, e)>>
    BY <1>0, <1>2 DEF WordFrom
<1>4. s - 1 \in 1..(Len(l) + 2) /\ ~(s - 1 > Len(l)) /\ s \in 1..(Len(l) + 1)
    BY <1>0
<1>5. Body(l, s, e) \in Seq(Chars)
    BY <1>4, BodyType
<1> QED BY <1>2, <1>3, <1>4, <1>5, WordsFromIs

LEMMA InWordStep ==
    ASSUME NEW l \in Seq(Chars), NEW t, ScanInv(l, t), t.at = "word"
    PROVE  ScanInv(l, InWord(t)) /\ Advances(t, InWord(t))
<1> DEFINE N == Len(l)
           c == t.mem[t.p]
           s == t.starts[Len(t.starts)]
<1>0. /\ N \in Nat /\ t.p \in 1..(N + 1)
      /\ t.p <= N => c = l[t.p] /\ l[t.p] \in Chars
      /\ t.p = N + 1 => c = "NUL"
    BY Unread
<1>1. /\ t \in [at : {"blanks", "word", "quoted"}, mem : [1..(N + 1) -> Chars \cup {"NUL"}],
                p : 1..(N + 1), w : 1..(N + 1), starts : Seq(1..(N + 1))]
      /\ Len(t.starts) <= MAX_ARGV
      /\ \A i \in t.p..(N + 1) : t.mem[i] = Memory(l)[i]
    BY DEF ScanInv
<1>2. PICK texts \in Seq(Seq(Chars)) :
            Len(t.starts) = Len(texts) + 1 /\ Stored(t, texts, s) /\ WordInv(l, t, texts, s)
    BY DEF ScanInv, BlanksInv, QuotedInv
<1>3. /\ s < t.p /\ Words(l) = texts \o WordsFrom(l)[s] /\ l[s] \notin {"space", "quote"}
      /\ \A i \in s..(t.p - 1) : l[i] # "space" /\ t.mem[i] = l[i]
    BY <1>2 DEF WordInv
<1>4. Len(texts) \in Nat /\ s \in 1..(N + 1) /\ \A k \in 1..Len(texts) : t.starts[k] \in Nat
    <2>1. Len(texts) \in Nat
        BY LenProperties
    <2>2. \A k \in 1..(Len(texts) + 1) : t.starts[k] \in 1..(N + 1)
        BY <1>1, <1>2, ElementOfSeq
    <2> QED BY <1>2, <2>1, <2>2
<1> HIDE DEF s
<1>5. CASE c = "NUL"
    BY <1>1, <1>5 DEF InWord, Advances, Stopped
<1>6. CASE c = "space"
    <2> DEFINE u == [t EXCEPT !.at = "blanks", !.p = t.p + 1, !.mem = [t.mem EXCEPT ![t.p] = "NUL"]]
               x == SubSeq(l, s, t.p - 1)
    <2>1. InWord(t) = u
        BY <1>6 DEF InWord
    <2>2. t.p \in 1..N /\ l[t.p] = "space" /\ t.p + 1 \in 1..(N + 1)
        BY <1>0, <1>6
    <2>3. /\ u \in [at : {"blanks", "word", "quoted"}, mem : [1..(N + 1) -> Chars \cup {"NUL"}],
                    p : 1..(N + 1), w : 1..(N + 1), starts : Seq(1..(N + 1))]
          /\ u.at = "blanks" /\ u.p = t.p + 1 /\ u.starts = t.starts
          /\ u.mem = [t.mem EXCEPT ![t.p] = "NUL"]
        BY <1>1, <2>2
    <2>4. /\ WordsFrom(l)[s] = <<x>> \o WordsFrom(l)[t.p + 1]
          /\ x \in Seq(Chars) /\ Len(x) = t.p - s
          /\ \A j \in 1..(t.p - s) : x[j] = l[s + j - 1]
        <3>1. s \in 1..N /\ t.p \in (s + 1)..(N + 1)
            BY <1>0, <1>3, <1>4, <2>2
        <3>2. \A i \in s..(t.p - 1) : l[i] # "space"
            BY <1>3
        <3> QED BY <1>3, <2>2, <3>1, <3>2, PlainWordEnds
    <2> HIDE DEF u, x
    <2>5. WordsFrom(l)[u.p] \in Seq(Seq(Chars))
        <3>1. u.p \in 1..(N + 2)
            BY <1>0, <2>2, <2>3
        <3> QED BY <3>1, WordsFromIs
    <2>6. Words(l) = Append(texts, x) \o WordsFrom(l)[u.p]
        <3>1. Words(l) = texts \o (<<x>> \o WordsFrom(l)[u.p])
            BY <1>3, <2>3, <2>4
        <3> QED BY <2>4, <2>5, <3>1, WordMoves
    <2> DEFINE g == IF u.p = N + 1 THEN N + 2 ELSE u.p
    <2>7. g \in Nat /\ s \in Nat /\ t.p \in Nat /\ s <= g /\ t.p < g
        <3>1. s \in Nat /\ t.p \in Nat /\ s < t.p /\ t.p <= N /\ u.p = t.p + 1
            BY <1>0, <1>3, <1>4, <2>2, <2>3
        <3>2. g = t.p + 1 \/ g = N + 2
            BY <3>1
        <3> HIDE DEF g
        <3> QED BY <1>0, <3>1, <3>2
    <2> HIDE DEF g
    <2>8. \A i \in 1..(N + 1) : u.mem[i] = IF i = t.p THEN "NUL" ELSE t.mem[i]
        BY <1>0, <1>1, <2>3
    <2>9. Stored(u, texts, g)
        <3>1. \A k \in 1..Len(texts) : u.starts[k] = t.starts[k] /\ t.starts[k] \in Nat
            BY <1>4, <2>3
        <3>2. \A i \in Nat : i < s => u.mem[i] = t.mem[i]
            BY <1>0, <1>1, <1>3, <1>4, <2>3
        <3> QED BY <1>2, <2>7, <3>1, <3>2, StaysStored
    <2>10. Stored(u, Append(texts, x), g)
        <3>1. s = u.starts[Len(texts) + 1]
            BY <1>2, <2>3 DEF s
        <3>2. s + Len(x) = t.p /\ s + Len(x) < g
            <4>1. \A a, b \in Nat : a + (b - a) = b
                OBVIOUS
            <4> QED BY <2>4, <2>7, <4>1
        <3>3. u.mem[s + Len(x)] = "NUL"
            BY <1>0, <2>8, <3>2
        <3>4. \A j \in 1..Len(x) : u.mem[s + j - 1] = x[j]
            <4> SUFFICES ASSUME NEW j \in 1..(t.p - s) PROVE u.mem[s + j - 1] = x[j]
                BY <2>4
            <4>1. s + j - 1 \in s..(t.p - 1) /\ s + j - 1 \in 1..(N + 1) /\ s + j - 1 # t.p
                BY <1>0, <1>4
            <4> QED BY <1>3, <2>4, <2>8, <4>1
        <3> QED BY <2>4, <2>7, <2>9, <3>1, <3>2, <3>3, <3>4, OneMoreStored
    <2>11. Append(texts, x) \in Seq(Seq(Chars)) /\ Len(Append(texts, x)) = Len(texts) + 1
        BY <2>4, AppendProperties
    <2>12. BlanksInv(l, u, Append(texts, x))
        BY <1>2, <2>3, <2>6, <2>10, <2>11 DEF BlanksInv, g
    <2>13. \A i \in u.p..(N + 1) : u.mem[i] = Memory(l)[i]
        <3> SUFFICES ASSUME NEW i \in u.p..(N + 1) PROVE u.mem[i] = Memory(l)[i]
            OBVIOUS
        <3>1. i \in t.p..(N + 1) /\ i \in 1..(N + 1) /\ i # t.p
            BY <1>0, <2>3
        <3> QED BY <1>1, <2>8, <3>1
    <2>14. Advances(t, u)
        BY <1>0, <2>3 DEF Advances
    <2> QED BY <1>1, <2>1, <2>3, <2>11, <2>12, <2>13, <2>14 DEF ScanInv
<1>7. CASE c \notin {"NUL", "space"}
    <2> DEFINE u == [t EXCEPT !.p = t.p + 1]
    <2>1. InWord(t) = u
        BY <1>7 DEF InWord
    <2>2. t.p \in 1..N /\ c = l[t.p] /\ t.p + 1 \in 1..(N + 1)
        BY <1>0, <1>7
    <2>3. /\ u \in [at : {"blanks", "word", "quoted"}, mem : [1..(N + 1) -> Chars \cup {"NUL"}],
                    p : 1..(N + 1), w : 1..(N + 1), starts : Seq(1..(N + 1))]
          /\ u.at = t.at /\ u.p = t.p + 1 /\ u.starts = t.starts /\ u.mem = t.mem
        BY <1>1, <2>2
    <2>4. Stored(u, texts, s)
        BY <1>2, <2>3 DEF Stored
    <2>5. \A i \in s..(u.p - 1) : l[i] # "space" /\ u.mem[i] = l[i]
        <3> SUFFICES ASSUME NEW i \in s..(u.p - 1) PROVE l[i] # "space" /\ u.mem[i] = l[i]
            OBVIOUS
        <3>1. i = t.p \/ i \in s..(t.p - 1)
            BY <1>0, <1>4, <2>3
        <3> QED BY <1>3, <1>7, <2>2, <2>3, <3>1
    <2>6. WordInv(l, u, texts, s)
        <3>1. s < u.p
            BY <1>0, <1>3, <1>4, <2>3
        <3> QED BY <1>3, <2>3, <2>5, <3>1 DEF WordInv
    <2>7. \A i \in u.p..(N + 1) : u.mem[i] = Memory(l)[i]
        BY <1>0, <1>1, <2>3
    <2>8. Advances(t, u)
        BY <1>0, <2>3 DEF Advances
    <2>9. Len(u.starts) = Len(texts) + 1 /\ u.starts[Len(u.starts)] = s /\ Len(u.starts) <= MAX_ARGV
        BY <1>1, <1>2, <2>3 DEF s
    <2> HIDE DEF u
    <2> QED BY <2>1, <2>3, <2>4, <2>6, <2>7, <2>8, <2>9 DEF ScanInv
<1> QED BY <1>5, <1>6, <1>7

\* A quoted word ends, at its quote or at the end of the line.
LEMMA QuotedEnd ==
    ASSUME NEW l \in Seq(Chars), NEW t, ScanInv(l, t), t.at = "quoted",
           t.mem[t.p] \in {"NUL", "quote"}
    PROVE  ScanInv(l, Quoted(t)) /\ Advances(t, Quoted(t))
<1> DEFINE N == Len(l)
           c == t.mem[t.p]
           s == t.starts[Len(t.starts)]
           x == Body(l, s, t.p)
<1>0. /\ N \in Nat /\ t.p \in 1..(N + 1)
      /\ t.p <= N => c = l[t.p] /\ l[t.p] \in Chars
      /\ t.p = N + 1 => c = "NUL"
    BY Unread
<1>1. /\ t \in [at : {"blanks", "word", "quoted"}, mem : [1..(N + 1) -> Chars \cup {"NUL"}],
                p : 1..(N + 1), w : 1..(N + 1), starts : Seq(1..(N + 1))]
      /\ Len(t.starts) <= MAX_ARGV
      /\ \A i \in t.p..(N + 1) : t.mem[i] = Memory(l)[i]
    BY DEF ScanInv
<1>2. PICK texts \in Seq(Seq(Chars)) :
            Len(t.starts) = Len(texts) + 1 /\ Stored(t, texts, s) /\ QuotedInv(l, t, texts, s)
    BY DEF ScanInv, BlanksInv, WordInv
<1>3. /\ 2 <= s /\ s <= t.w /\ t.w <= t.p /\ Words(l) = texts \o WordsFrom(l)[s - 1] /\ l[s - 1] = "quote"
      /\ \A i \in s..(t.p - 1) : l[i] = "quote" => Escaped(l, s, i)
      /\ t.p <= N => ~Escaped(l, s, t.p)
      /\ t.w = s + Len(x)
      /\ \A j \in 1..Len(x) : t.mem[s + j - 1] = x[j]
    BY <1>2 DEF QuotedInv
<1>4. Len(texts) \in Nat /\ s \in 1..(N + 1) /\ \A k \in 1..Len(texts) : t.starts[k] \in Nat
    <2>1. Len(texts) \in Nat
        BY LenProperties
    <2>2. \A k \in 1..(Len(texts) + 1) : t.starts[k] \in 1..(N + 1)
        BY <1>1, <1>2, ElementOfSeq
    <2> QED BY <1>2, <2>1, <2>2
<1> HIDE DEF s
<1> DEFINE q == IF c = "quote" THEN t.p + 1 ELSE t.p
           u == [t EXCEPT !.at = "blanks", !.p = q, !.mem = [t.mem EXCEPT ![t.w] = "NUL"]]
<1>5. Quoted(t) = u
    BY DEF Quoted
<1>6. \/ c = "quote" /\ t.p \in 1..N /\ l[t.p] = "quote" /\ q = t.p + 1 /\ q \in 1..(N + 1)
      \/ c = "NUL" /\ t.p = N + 1 /\ q = N + 1
    <2>1. c = "NUL" => t.p = N + 1
        BY <1>0 DEF Chars
    <2>2. c = "quote" => t.p \in 1..N /\ l[t.p] = "quote"
        BY <1>0
    <2> QED BY <1>0, <2>1, <2>2
<1>7. q \in 1..(N + 1)
    BY <1>0, <1>6
<1> HIDE DEF q
<1>8. /\ u \in [at : {"blanks", "word", "quoted"}, mem : [1..(N + 1) -> Chars \cup {"NUL"}],
                p : 1..(N + 1), w : 1..(N + 1), starts : Seq(1..(N + 1))]
      /\ u.at = "blanks" /\ u.p = q /\ u.starts = t.starts
      /\ u.mem = [t.mem EXCEPT ![t.w] = "NUL"]
    BY <1>1, <1>7
<1> HIDE DEF u, x
<1>9. t.w \in 1..(N + 1) /\ \A i \in 1..(N + 1) : u.mem[i] = IF i = t.w THEN "NUL" ELSE t.mem[i]
    BY <1>1, <1>8
<1>10. WordsFrom(l)[s - 1] = <<x>> \o WordsFrom(l)[t.p + 1] /\ x \in Seq(Chars)
    <2>1. s \in 2..(N + 1) /\ t.p \in s..(N + 1)
        BY <1>0, <1>1, <1>3, <1>4
    <2>2. t.p <= N => l[t.p] = "quote" /\ ~Escaped(l, s, t.p)
        BY <1>0, <1>3, <1>6
    <2> QED BY <1>3, <2>1, <2>2, QuotedWordEnds DEF x
<1>11. WordsFrom(l)[t.p + 1] = WordsFrom(l)[q] /\ WordsFrom(l)[q] \in Seq(Seq(Chars))
    <2>1. WordsFrom(l)[q] \in Seq(Seq(Chars))
        BY <1>0, <1>7, WordsFromIs
    <2>2. WordsFrom(l)[N + 1] = <<>> /\ WordsFrom(l)[N + 2] = <<>>
        <3>1. N + 1 \in 1..(N + 2) /\ N + 2 \in 1..(N + 2) /\ N + 1 > N /\ N + 2 > N
            BY <1>0
        <3> QED BY <3>1, WordsFromIs
    <2>3. (N + 1) + 1 = N + 2
        BY <1>0
    <2> QED BY <1>6, <2>1, <2>2, <2>3
<1>12. Words(l) = Append(texts, x) \o WordsFrom(l)[u.p]
    <2>1. Words(l) = texts \o (<<x>> \o WordsFrom(l)[u.p])
        BY <1>3, <1>8, <1>10, <1>11
    <2>2. WordsFrom(l)[u.p] \in Seq(Seq(Chars))
        BY <1>8, <1>11
    <2> QED BY <1>10, <2>1, <2>2, WordMoves
<1> DEFINE g == IF u.p = N + 1 THEN N + 2 ELSE u.p
<1>13. g \in Nat /\ s \in Nat /\ t.w \in Nat /\ t.p \in Nat /\ s <= g /\ t.w < g
    <2>1. s \in Nat /\ t.w \in Nat /\ t.p \in Nat /\ s <= t.w /\ t.w <= t.p /\ t.w <= N + 1
        BY <1>0, <1>3, <1>4, <1>9
    <2>2. g = t.p + 1 \/ g = N + 2
        BY <1>0, <1>6, <1>8
    <2> HIDE DEF g
    <2> QED BY <1>0, <2>1, <2>2
<1> HIDE DEF g
<1>14. Stored(u, texts, g)
    <2>1. \A k \in 1..Len(texts) : u.starts[k] = t.starts[k] /\ t.starts[k] \in Nat
        BY <1>4, <1>8
    <2>2. \A i \in Nat : i < s => u.mem[i] = t.mem[i]
        BY <1>1, <1>3, <1>8, <1>13
    <2>3. s \in Nat /\ g \in Nat /\ s <= g /\ Stored(t, texts, s)
        BY <1>2, <1>13
    <2>4. \A f, h \in Nat : Stored(t, texts, f) /\ f <= h /\ (\A i \in Nat : i < f => u.mem[i] = t.mem[i])
                             => Stored(u, texts, h)
        BY <2>1, StaysStored
    <2> QED BY <2>2, <2>3, <2>4
<1>15. Stored(u, Append(texts, x), g)
    <2>1. s = u.starts[Len(texts) + 1]
        BY <1>2, <1>8 DEF s
    <2>2. Len(x) \in Nat /\ s + Len(x) = t.w /\ u.mem[s + Len(x)] = "NUL" /\ s + Len(x) < g
        BY <1>3, <1>9, <1>10, <1>13, LenProperties
    <2>3. \A j \in 1..Len(x) : u.mem[s + j - 1] = x[j]
        <3> SUFFICES ASSUME NEW j \in 1..Len(x) PROVE u.mem[s + j - 1] = x[j]
            OBVIOUS
        <3>1. s + j - 1 \in 1..(N + 1) /\ s + j - 1 # t.w
            BY <1>0, <1>4, <1>9, <1>13, <2>2
        <3> QED BY <1>3, <1>9, <3>1
    <2> QED BY <1>10, <1>13, <1>14, <2>1, <2>2, <2>3, OneMoreStored
<1>16. Append(texts, x) \in Seq(Seq(Chars)) /\ Len(Append(texts, x)) = Len(texts) + 1
    BY <1>10, AppendProperties
<1>17. BlanksInv(l, u, Append(texts, x))
    BY <1>2, <1>8, <1>12, <1>15, <1>16 DEF BlanksInv, g
<1>18. \A i \in u.p..(N + 1) : u.mem[i] = Memory(l)[i]
    <2> SUFFICES ASSUME NEW i \in u.p..(N + 1) PROVE u.mem[i] = Memory(l)[i]
        OBVIOUS
    <2>1. i \in t.p..(N + 1) /\ i \in 1..(N + 1)
        BY <1>0, <1>6, <1>8
    <2>2. CASE i = t.w
        <3>1. t.p = N + 1 /\ i = N + 1
            BY <1>3, <1>6, <1>8, <1>13, <2>1, <2>2
        <3>2. Memory(l)[N + 1] = "NUL"
            BY <1>0 DEF Memory
        <3> QED BY <1>9, <2>1, <2>2, <3>1, <3>2
    <2>3. CASE i # t.w
        BY <1>1, <1>9, <2>1, <2>3
    <2> QED BY <2>2, <2>3
<1>19. Advances(t, u)
    <2>1. CASE c = "quote"
        BY <1>0, <1>6, <1>8, <2>1 DEF Advances
    <2>2. CASE c # "quote"
        <3>1. u.p = N + 1 /\ N + 1 \in u.p..(N + 1) /\ N + 1 \in 1..(N + 1)
            BY <1>0, <1>6, <1>8, <2>2
        <3>2. u.mem[u.p] = "NUL"
            BY <1>0, <1>18, <3>1 DEF Memory
        <3> QED BY <1>8, <3>2 DEF Advances, Stopped
    <2> QED BY <2>1, <2>2
<1> QED BY <1>1, <1>5, <1>8, <1>16, <1>17, <1>18, <1>19 DEF ScanInv

\* Another character of it is copied, without the backslash before it.
LEMMA QuotedCopy ==
    ASSUME NEW l \in Seq(Chars), NEW t, ScanInv(l, t), t.at = "quoted",
           t.mem[t.p] \notin {"NUL", "quote"}
    PROVE  ScanInv(l, Quoted(t)) /\ Advances(t, Quoted(t))
<1> DEFINE N == Len(l)
           c == t.mem[t.p]
           s == t.starts[Len(t.starts)]
           x == Body(l, s, t.p)
           q == IF c = "backslash" /\ t.mem[t.p + 1] \in {"quote", "backslash"} THEN t.p + 1 ELSE t.p
<1>0. /\ N \in Nat /\ t.p \in 1..N /\ c = l[t.p] /\ l[t.p] \in Chars
      /\ t.p < N => t.mem[t.p + 1] = l[t.p + 1]
      /\ t.p = N => t.mem[t.p + 1] = "NUL"
    BY Unread
<1>1. /\ t \in [at : {"blanks", "word", "quoted"}, mem : [1..(N + 1) -> Chars \cup {"NUL"}],
                p : 1..(N + 1), w : 1..(N + 1), starts : Seq(1..(N + 1))]
      /\ Len(t.starts) <= MAX_ARGV
      /\ \A i \in t.p..(N + 1) : t.mem[i] = Memory(l)[i]
    BY DEF ScanInv
<1>2. PICK texts \in Seq(Seq(Chars)) :
            Len(t.starts) = Len(texts) + 1 /\ Stored(t, texts, s) /\ QuotedInv(l, t, texts, s)
    BY DEF ScanInv, BlanksInv, WordInv
<1>3. /\ 2 <= s /\ s <= t.w /\ t.w <= t.p /\ Words(l) = texts \o WordsFrom(l)[s - 1] /\ l[s - 1] = "quote"
      /\ \A i \in s..(t.p - 1) : l[i] = "quote" => Escaped(l, s, i)
      /\ ~Escaped(l, s, t.p)
      /\ t.w = s + Len(x)
      /\ \A j \in 1..Len(x) : t.mem[s + j - 1] = x[j]
    BY <1>0, <1>2 DEF QuotedInv
<1>4. Len(texts) \in Nat /\ s \in 1..(N + 1) /\ \A k \in 1..Len(texts) : t.starts[k] \in Nat
    <2>1. Len(texts) \in Nat
        BY LenProperties
    <2>2. \A k \in 1..(Len(texts) + 1) : t.starts[k] \in 1..(N + 1)
        BY <1>1, <1>2, ElementOfSeq
    <2> QED BY <1>2, <2>1, <2>2
<1> HIDE DEF s
<1>5. s \in Nat /\ t.p \in Nat /\ t.w \in Nat /\ t.w \in 1..N /\ s \in 1..(N + 1) /\ t.p \in s..N /\ s <= t.p
    BY <1>0, <1>1, <1>3, <1>4
<1>6. x \in Seq(Chars)
    BY <1>0, <1>5, BodyType
<1>7. /\ q \in t.p..N /\ q + 1 \in 1..(N + 1)
      /\ t.mem[q] = l[q] /\ l[q] \in Chars
      /\ Body(l, s, q + 1) = Append(x, l[q])
      /\ \A i \in t.p..q : l[i] = "quote" => Escaped(l, s, i)
      /\ q + 1 <= N => ~Escaped(l, s, q + 1)
    <2>1. CASE c = "backslash" /\ t.mem[t.p + 1] \in {"quote", "backslash"}
        <3>1. q = t.p + 1 /\ t.p < N /\ q \in t.p..N /\ q \in s..N /\ q + 1 \in 1..(N + 1)
            BY <1>0, <1>5, <2>1
        <3>2. l[t.p] = "backslash" /\ l[q] \in {"quote", "backslash"} /\ t.mem[q] = l[q]
            BY <1>0, <2>1, <3>1
        <3> HIDE DEF x, q
        <3>3. Escaped(l, s, t.p + 1)
            <4>1. l[t.p + 1] \in {"quote", "backslash"}
                BY <3>1, <3>2
            <4> QED BY <1>3, <1>5, <3>2, <4>1, EscapedNext
        <3>4. Escaping(l, s, t.p)
            BY <1>3, <3>1, <3>2, <3>3 DEF Escaping
        <3>5. ~Escaping(l, s, q)
            BY <3>1, <3>3 DEF Escaping
        <3>6. Body(l, s, q) = x
            BY <1>5, <1>6, <3>1, <3>4, BodyGrows DEF x
        <3>7. Body(l, s, q + 1) = Append(x, l[q])
            BY <1>5, <1>6, <3>1, <3>5, <3>6, BodyGrows
        <3>8. ~Escaped(l, s, q + 1)
            <4>1. q \in Nat /\ s <= q
                BY <1>5, <3>1
            <4> QED BY <1>5, <3>1, <3>2, <3>3, <4>1, EscapedNext
        <3>9. \A i \in t.p..q : l[i] = "quote" => Escaped(l, s, i)
            <4>0. t.p \in Nat /\ q = t.p + 1
                BY <1>5, <3>1
            <4>1. \A i \in t.p..q : i = t.p \/ i = t.p + 1
                BY <4>0
            <4> QED BY <3>2, <3>3, <4>1
        <3>10. l[q] \in Chars
            BY <3>2 DEF Chars
        <3> QED BY <3>1, <3>2, <3>7, <3>8, <3>9, <3>10
    <2>2. CASE ~(c = "backslash" /\ t.mem[t.p + 1] \in {"quote", "backslash"})
        <3>1. q = t.p /\ q \in t.p..N /\ q + 1 \in 1..(N + 1)
            BY <1>0, <1>5, <2>2
        <3>2. l[q] # "quote" /\ t.mem[q] = l[q] /\ l[q] \in Chars
            BY <1>0, <3>1
        <3> HIDE DEF x, q
        <3>3. q + 1 <= N => ~Escaped(l, s, q + 1)
            <4> SUFFICES ASSUME q + 1 <= N PROVE ~Escaped(l, s, q + 1)
                OBVIOUS
            <4>1. CASE c = "backslash"
                <5>1. l[t.p + 1] \notin {"quote", "backslash"}
                    BY <1>0, <1>5, <2>2, <3>1, <4>1
                <5> QED BY <3>1, <5>1 DEF Escaped
            <4>2. CASE c # "backslash"
                BY <1>0, <1>5, <3>1, <4>2, EscapedNext
            <4> QED BY <4>1, <4>2
        <3>4. ~Escaping(l, s, q)
            <4>1. q < N => q + 1 <= N
                BY <1>0, <3>1
            <4> QED BY <3>3, <4>1 DEF Escaping
        <3>5. Body(l, s, q + 1) = Append(x, l[q])
            BY <1>5, <1>6, <3>1, <3>4, BodyGrows DEF x
        <3>6. \A i \in t.p..q : l[i] = "quote" => Escaped(l, s, i)
            <4>1. \A i \in t.p..q : i = t.p
                BY <1>5, <3>1
            <4> QED BY <3>1, <3>2, <4>1
        <3> QED BY <3>1, <3>2, <3>3, <3>5, <3>6
    <2> QED BY <2>1, <2>2
<1> DEFINE u == [t EXCEPT !.p = q + 1, !.w = t.w + 1, !.mem = [t.mem EXCEPT ![t.w] = t.mem[q]]]
<1>8. Quoted(t) = u
    BY DEF Quoted
<1> HIDE DEF q
<1>9. /\ u \in [at : {"blanks", "word", "quoted"}, mem : [1..(N + 1) -> Chars \cup {"NUL"}],
                p : 1..(N + 1), w : 1..(N + 1), starts : Seq(1..(N + 1))]
      /\ u.at = "quoted" /\ u.p = q + 1 /\ u.w = t.w + 1 /\ u.starts = t.starts
      /\ u.mem = [t.mem EXCEPT ![t.w] = t.mem[q]]
    <2>1. t.w + 1 \in 1..(N + 1)
        BY <1>0, <1>5
    <2> QED BY <1>1, <1>7, <2>1
<1> HIDE DEF u, x
<1>10. \A i \in 1..(N + 1) : u.mem[i] = IF i = t.w THEN l[q] ELSE t.mem[i]
    BY <1>1, <1>7, <1>9
<1>11. Stored(u, texts, s)
    <2>1. \A k \in 1..Len(texts) : u.starts[k] = t.starts[k] /\ t.starts[k] \in Nat
        BY <1>4, <1>9
    <2>2. \A i \in Nat : i < s => u.mem[i] = t.mem[i]
        BY <1>1, <1>3, <1>5, <1>9
    <2>3. s <= s
        BY <1>5
    <2> QED BY <1>2, <1>5, <2>1, <2>2, <2>3, StaysStored
<1>12. QuotedInv(l, u, texts, s)
    <2> DEFINE y == Body(l, s, u.p)
    <2>0. y = Append(x, l[q])
        BY <1>7, <1>9
    <2> HIDE DEF y
    <2>1. /\ Len(x) \in Nat /\ Len(y) = Len(x) + 1
          /\ \A j \in 1..Len(x) : y[j] = x[j]
          /\ y[Len(x) + 1] = l[q]
        BY <1>6, <1>7, <2>0, AppendProperties, LenProperties
    <2>2. u.w = s + Len(y) /\ t.w = s + Len(x)
        BY <1>3, <1>5, <1>9, <2>1
    <2>3. \A j \in 1..Len(y) : u.mem[s + j - 1] = y[j]
        <3> SUFFICES ASSUME NEW j \in 1..(Len(x) + 1) PROVE u.mem[s + j - 1] = y[j]
            BY <2>1
        <3>1. s + j - 1 \in 1..(N + 1)
            BY <1>0, <1>5, <2>1, <2>2
        <3>2. CASE j = Len(x) + 1
            <4>1. s + j - 1 = t.w
                BY <1>5, <2>1, <2>2, <3>2
            <4> QED BY <1>10, <2>1, <3>1, <3>2, <4>1
        <3>3. CASE j # Len(x) + 1
            <4>1. j \in 1..Len(x)
                BY <2>1, <3>3
            <4>2. s + j - 1 # t.w
                <5>1. s \in Nat /\ Len(x) \in Nat /\ t.w = s + Len(x)
                    BY <1>5, <2>1, <2>2
                <5> QED BY <3>3, <5>1
            <4> QED BY <1>3, <1>10, <2>1, <3>1, <4>1, <4>2
        <3> QED BY <3>2, <3>3
    <2>4. \A i \in s..(u.p - 1) : l[i] = "quote" => Escaped(l, s, i)
        <3> SUFFICES ASSUME NEW i \in s..(u.p - 1) PROVE l[i] = "quote" => Escaped(l, s, i)
            OBVIOUS
        <3>1. i \in s..(t.p - 1) \/ i \in t.p..q
            BY <1>5, <1>7, <1>9
        <3> QED BY <1>3, <1>7, <3>1
    <2>5. s <= u.w /\ u.w <= u.p
        <3>1. s <= t.w /\ t.w <= t.p /\ q \in t.p..N /\ u.w = t.w + 1 /\ u.p = q + 1
            BY <1>3, <1>7, <1>9
        <3> QED BY <1>0, <1>5, <3>1
    <2> QED BY <1>3, <1>7, <1>9, <2>2, <2>3, <2>4, <2>5 DEF QuotedInv, y
<1>13. \A i \in u.p..(N + 1) : u.mem[i] = Memory(l)[i]
    <2> SUFFICES ASSUME NEW i \in u.p..(N + 1) PROVE u.mem[i] = Memory(l)[i]
        OBVIOUS
    <2>1. i \in t.p..(N + 1) /\ i \in 1..(N + 1) /\ i # t.w
        <3>1. t.w <= t.p /\ q \in t.p..N /\ u.p = q + 1 /\ t.p \in 1..(N + 1)
            BY <1>0, <1>3, <1>7, <1>9
        <3> QED BY <1>0, <1>5, <3>1
    <2> QED BY <1>1, <1>10, <2>1
<1>14. Advances(t, u)
    BY <1>5, <1>7, <1>9 DEF Advances
<1>15. Len(u.starts) = Len(texts) + 1 /\ u.starts[Len(u.starts)] = s /\ Len(u.starts) <= MAX_ARGV
    BY <1>1, <1>2, <1>9 DEF s
<1> QED BY <1>8, <1>9, <1>11, <1>12, <1>13, <1>14, <1>15 DEF ScanInv

\* The string at the start of a word that ended is that word.
LEMMA StringRead ==
    ASSUME NEW N \in Nat, NEW t, t.mem \in [1..(N + 1) -> Chars \cup {"NUL"}],
           NEW texts \in Seq(Seq(Chars)), Stored(t, texts, N + 2),
           NEW k \in 1..Len(texts), t.starts[k] \in 1..(N + 1)
    PROVE  CString(t.mem, t.starts[k]) = texts[k]
<1> DEFINE s == t.starts[k]
           x == texts[k]
           n == Len(x)
           T == {j \in s..Len(t.mem) : t.mem[j] = "NUL"}
<1>1. x \in Seq(Chars) /\ n \in Nat /\ \A j \in 1..n : x[j] \in Chars
    BY ElementOfSeq, LenProperties
<1>2. /\ s + n < N + 2 /\ t.mem[s + n] = "NUL"
      /\ \A j \in 1..n : t.mem[s + j - 1] = x[j]
    BY DEF Stored
<1>3. Len(t.mem) = N + 1 /\ s \in Nat /\ s >= 1
    OBVIOUS
<1> HIDE DEF s, x, n
<1>4. \A y \in s..(s + n - 1) : t.mem[y] \in Chars
    <2> SUFFICES ASSUME NEW y \in s..(s + n - 1) PROVE t.mem[y] \in Chars
        OBVIOUS
    <2>1. y - s + 1 \in 1..n /\ s + (y - s + 1) - 1 = y
        BY <1>1, <1>3
    <2> QED BY <1>1, <1>2, <2>1
<1>5. Least(T) = s + n
    <2>1. T \in SUBSET Nat /\ s + n \in T
        BY <1>1, <1>2, <1>3
    <2>2. \A y \in T : s + n <= y
        <3> SUFFICES ASSUME NEW y \in T, y < s + n PROVE FALSE
            BY <1>1, <1>3
        <3>1. y \in s..(s + n - 1) /\ t.mem[y] = "NUL"
            BY <1>1, <1>3
        <3> QED BY <1>4, <3>1 DEF Chars
    <2> HIDE DEF T
    <2> QED BY <2>1, <2>2, LeastUnique
<1>6. CString(t.mem, s) = SubSeq(t.mem, s, s + n - 1)
    <2>1. CString(t.mem, s) = SubSeq(t.mem, s, Least(T) - 1)
        BY DEF CString
    <2>2. Least(T) - 1 = s + n - 1
        BY <1>1, <1>3, <1>5
    <2> QED BY <2>1, <2>2
<1>7. /\ SubSeq(t.mem, s, s + n - 1) \in Seq(Chars)
      /\ Len(SubSeq(t.mem, s, s + n - 1)) = n
      /\ \A i \in 1..n : SubSeq(t.mem, s, s + n - 1)[i] = t.mem[s + i - 1]
    <2>1. s \in Int /\ s + n - 1 \in Int /\ (s + n - 1) - s + 1 = n
        BY <1>1, <1>3
    <2>2. s <= s + n - 1 \/ n = 0
        BY <1>1, <1>3
    <2> QED BY <1>4, <2>1, <2>2, SubSeqProperties
<1>8. SubSeq(t.mem, s, s + n - 1) = x
    BY <1>1, <1>2, <1>7, SeqEqual DEF n
<1> QED BY <1>6, <1>8 DEF s, x

\* The first of the words, when there are enough, or no more.
LEMMA FirstOfThem ==
    ASSUME NEW texts \in Seq(Seq(Chars)), NEW rest \in Seq(Seq(Chars)),
           Len(texts) <= MAX_ARGV, rest = <<>> \/ Len(texts) = MAX_ARGV
    PROVE  FirstOnes(texts \o rest) = texts
<1> DEFINE all == texts \o rest
           n == Len(texts)
<1>1. /\ all \in Seq(Seq(Chars)) /\ Len(all) = n + Len(rest)
      /\ n \in Nat /\ Len(rest) \in Nat /\ MAX_ARGV \in Nat
      /\ \A i \in 1..(n + Len(rest)) : all[i] = IF i <= n THEN texts[i] ELSE rest[i - n]
    BY ConcatProperties, LenProperties, DispatchAssumption
<1>2. rest = <<>> => Len(rest) = 0
    OBVIOUS
<1>3. (IF Len(all) < MAX_ARGV THEN Len(all) ELSE MAX_ARGV) = n
    BY <1>1, <1>2
<1> HIDE DEF all, n
<1>4. FirstOnes(all) = SubSeq(all, 1, n)
    BY <1>3 DEF FirstOnes
<1>5. \A i \in 1..n : all[i] = texts[i] /\ texts[i] \in Seq(Chars)
    <2>1. \A i \in 1..n : texts[i] \in Seq(Chars)
        BY ElementOfSeq DEF n
    <2> QED BY <1>1, <2>1
<1>6. /\ SubSeq(all, 1, n) \in Seq(Seq(Chars)) /\ Len(SubSeq(all, 1, n)) = n
      /\ \A i \in 1..n : SubSeq(all, 1, n)[i] = all[i]
    <2>1. 1 \in Int /\ n \in Int /\ n - 1 + 1 = n /\ \A i \in 1..n : 1 + i - 1 = i
        BY <1>1
    <2>2. 1 <= n \/ n = 0
        BY <1>1
    <2>0. \A i \in 1..n : all[i] \in Seq(Chars)
        BY <1>5
    <2>3. /\ SubSeq(all, 1, n) \in Seq(Seq(Chars))
          /\ Len(SubSeq(all, 1, n)) = IF 1 <= n THEN n - 1 + 1 ELSE 0
          /\ \A i \in 1..(n - 1 + 1) : SubSeq(all, 1, n)[i] = all[1 + i - 1]
        BY <2>0, <2>1, SubSeqProperties
    <2> QED BY <1>1, <2>1, <2>2, <2>3
<1>7. SubSeq(all, 1, n) = texts
    BY <1>5, <1>6, SeqEqual DEF n
<1> QED BY <1>4, <1>7 DEF all

LEMMA TokenStepInv ==
    ASSUME NEW l \in Seq(Chars), NEW t, ScanInv(l, t)
    PROVE  /\ ScanInv(l, TokenStep(t)) /\ Advances(t, TokenStep(t))
           /\ Stopped(t) => TokenStep(t) = t
<1>1. t.at \in {"blanks", "word", "quoted"}
    BY DEF ScanInv
<1>2. CASE t.at = "blanks"
    <2>1. TokenStep(t) = Blanks(t)
        BY <1>2 DEF TokenStep
    <2>2. ScanInv(l, TokenStep(t)) /\ Advances(t, TokenStep(t))
        BY <1>2, <2>1, BlanksStep
    <2>3. Stopped(t) => TokenStep(t) = t
        BY <1>2, <2>1 DEF Stopped, Blanks
    <2> QED BY <2>2, <2>3
<1>3. CASE t.at = "word"
    <2>1. TokenStep(t) = InWord(t)
        BY <1>3 DEF TokenStep
    <2> QED BY <1>3, <2>1, InWordStep DEF Stopped, InWord
<1>4. CASE t.at = "quoted"
    <2>1. TokenStep(t) = Quoted(t)
        BY <1>4 DEF TokenStep
    <2> QED BY <1>4, <2>1, QuotedEnd, QuotedCopy DEF Stopped
<1> QED BY <1>1, <1>2, <1>3, <1>4

LEMMA ScanEnds ==
    ASSUME NEW l \in Seq(Chars)
    PROVE  ScanInv(l, Scan(l)[Len(l) + 1]) /\ Stopped(Scan(l)[Len(l) + 1])
<1> DEFINE N == Len(l)
           S == {n \in Nat : n <= N + 1 => /\ ScanInv(l, Scan(l)[n])
                                           /\ Scan(l)[n].p > n \/ Stopped(Scan(l)[n])}
<1>0. N \in Nat
    BY LenProperties
<1>1. 0 \in S
    <2>1. Scan(l)[0] = Begin(l) /\ Begin(l).p = 1
        BY Scanned DEF Begin
    <2> QED BY <2>1, ScanBegins
<1>2. ASSUME NEW n \in Nat, n \in S PROVE n + 1 \in S
    <2> SUFFICES ASSUME n + 1 <= N + 1
                 PROVE  ScanInv(l, Scan(l)[n + 1]) /\ (Scan(l)[n + 1].p > n + 1 \/ Stopped(Scan(l)[n + 1]))
        OBVIOUS
    <2> DEFINE t == Scan(l)[n]
               u == Scan(l)[n + 1]
    <2>1. ScanInv(l, t) /\ (t.p > n \/ Stopped(t))
        BY <1>0, <1>2
    <2>2. u = TokenStep(t)
        <3>1. n \in 0..N
            BY <1>0
        <3> QED BY <3>1, Scanned
    <2> HIDE DEF t, u
    <2>3. ScanInv(l, u) /\ Advances(t, u) /\ (Stopped(t) => u = t)
        BY <2>1, <2>2, TokenStepInv
    <2>4. t.p \in Nat /\ u.p \in Nat
        <3>1. t.p \in 1..(N + 1) /\ u.p \in 1..(N + 1)
            BY <2>1, <2>3, Unread
        <3> QED BY <1>0, <3>1
    <2>5. u.p > n + 1 \/ Stopped(u)
        BY <2>1, <2>3, <2>4 DEF Advances
    <2> QED BY <2>3, <2>5 DEF u
<1>3. N + 1 \in S
    <2>1. Nat \subseteq S
        <3> HIDE DEF S
        <3> QED BY <1>1, <1>2, SetInduction
    <2>2. N + 1 \in Nat
        BY <1>0
    <2> HIDE DEF S
    <2> QED BY <2>1, <2>2
<1> DEFINE t == Scan(l)[N + 1]
<1>4. ScanInv(l, t) /\ (t.p > N + 1 \/ Stopped(t))
    BY <1>0, <1>3
<1> HIDE DEF t
<1>5. t.p \in 1..(N + 1)
    BY <1>4, Unread
<1>6. Stopped(t)
    BY <1>0, <1>4, <1>5
<1> QED BY <1>4, <1>6 DEF t

\* What it made of the line, once it stopped.
LEMMA StoppedWords ==
    ASSUME NEW l \in Seq(Chars), NEW t, ScanInv(l, t), Stopped(t)
    PROVE  \E texts \in Seq(Seq(Chars)) :
              /\ Len(texts) = Len(t.starts) /\ Stored(t, texts, Len(l) + 2)
              /\ FirstOnes(Words(l)) = texts
<1> DEFINE N == Len(l)
           s == t.starts[Len(t.starts)]
<1>0. /\ N \in Nat /\ t.p \in 1..(N + 1)
      /\ t.mem[t.p] = "NUL" => t.p = N + 1
    BY Unread DEF Chars
<1>1. /\ t \in [at : {"blanks", "word", "quoted"}, mem : [1..(N + 1) -> Chars \cup {"NUL"}],
                p : 1..(N + 1), w : 1..(N + 1), starts : Seq(1..(N + 1))]
      /\ Len(t.starts) <= MAX_ARGV
    BY DEF ScanInv
<1>2. /\ WordsFrom(l)[N + 1] = <<>> /\ WordsFrom(l)[N + 2] = <<>>
      /\ \A p \in 1..(N + 1) : WordsFrom(l)[p] \in Seq(Seq(Chars))
    <2>1. N + 1 \in 1..(N + 2) /\ N + 2 \in 1..(N + 2) /\ N + 1 > N /\ N + 2 > N
          /\ \A p \in 1..(N + 1) : p \in 1..(N + 2)
        BY <1>0
    <2> QED BY <2>1, WordsFromIs
<1>3. ASSUME NEW texts \in Seq(Seq(Chars)), BlanksInv(l, t, texts)
      PROVE  /\ Len(texts) = Len(t.starts) /\ Stored(t, texts, N + 2)
             /\ FirstOnes(Words(l)) = texts
    <2>1. /\ Len(t.starts) = Len(texts) /\ Words(l) = texts \o WordsFrom(l)[t.p]
          /\ Stored(t, texts, IF t.p = N + 1 THEN N + 2 ELSE t.p) /\ t.at = "blanks"
        BY <1>3 DEF BlanksInv
    <2>2. \A k \in 1..Len(texts) : t.starts[k] \in Nat
        <3>1. \A k \in 1..Len(texts) : t.starts[k] \in 1..(N + 1)
            BY <1>1, <2>1, ElementOfSeq
        <3> QED BY <3>1
    <2>3. Stored(t, texts, N + 2)
        <3> DEFINE f == IF t.p = N + 1 THEN N + 2 ELSE t.p
        <3>1. f \in Nat /\ N + 2 \in Nat /\ f <= N + 2
            <4>1. t.p \in Nat /\ t.p <= N + 2 /\ (f = t.p \/ f = N + 2)
                BY <1>0
            <4> HIDE DEF f
            <4> QED BY <1>0, <4>1
        <3> HIDE DEF f
        <3>2. Stored(t, texts, f)
            BY <2>1 DEF f
        <3> QED BY <2>2, <3>1, <3>2, StaysStored
    <2>4. WordsFrom(l)[t.p] = <<>> \/ Len(texts) = MAX_ARGV
        BY <1>0, <1>2, <2>1 DEF Stopped
    <2> QED BY <1>0, <1>1, <1>2, <2>1, <2>3, <2>4, FirstOfThem
<1>4. ASSUME NEW texts \in Seq(Seq(Chars)), Len(t.starts) = Len(texts) + 1,
             Stored(t, texts, s), WordInv(l, t, texts, s)
      PROVE  \E all \in Seq(Seq(Chars)) :
                /\ Len(all) = Len(t.starts) /\ Stored(t, all, N + 2)
                /\ FirstOnes(Words(l)) = all
    <2>1. /\ t.at = "word" /\ s < t.p /\ Words(l) = texts \o WordsFrom(l)[s] /\ l[s] \notin {"space", "quote"}
          /\ \A i \in s..(t.p - 1) : l[i] # "space" /\ t.mem[i] = l[i]
        BY <1>4 DEF WordInv
    <2>2. t.mem[t.p] = "NUL" /\ t.p = N + 1
        BY <1>0, <2>1 DEF Stopped
    <2>3. /\ Len(texts) \in Nat /\ s \in 1..(N + 1)
          /\ \A k \in 1..Len(texts) : t.starts[k] \in Nat
        <3>1. Len(texts) \in Nat
            BY LenProperties
        <3>2. \A k \in 1..(Len(texts) + 1) : t.starts[k] \in 1..(N + 1)
            BY <1>1, <1>4, ElementOfSeq
        <3> QED BY <1>4, <3>1, <3>2
    <2> HIDE DEF s
    <2> DEFINE x == SubSeq(l, s, N)
    <2>4. s \in 1..N /\ s \in Nat /\ N + 1 \in (s + 1)..(N + 1) /\ (N + 1) - 1 = N /\ (N + 1) + 1 = N + 2
        BY <1>0, <2>1, <2>2, <2>3
    <2>5. /\ WordsFrom(l)[s] = <<x>> \o WordsFrom(l)[N + 2] /\ x \in Seq(Chars)
          /\ Len(x) = (N + 1) - s /\ \A j \in 1..((N + 1) - s) : x[j] = l[s + j - 1]
        <3>1. \A i \in s..((N + 1) - 1) : l[i] # "space"
            BY <2>1, <2>2
        <3>2. ~(N + 1 <= N)
            BY <1>0
        <3>3. /\ WordsFrom(l)[s] = <<SubSeq(l, s, (N + 1) - 1)>> \o WordsFrom(l)[(N + 1) + 1]
              /\ SubSeq(l, s, (N + 1) - 1) \in Seq(Chars)
              /\ Len(SubSeq(l, s, (N + 1) - 1)) = (N + 1) - s
              /\ \A j \in 1..((N + 1) - s) : SubSeq(l, s, (N + 1) - 1)[j] = l[s + j - 1]
            BY <2>1, <2>4, <3>1, <3>2, PlainWordEnds
        <3> QED BY <2>4, <3>3
    <2> HIDE DEF x
    <2>6. Words(l) = Append(texts, x) \o <<>>
        <3>1. <<>> \in Seq(Seq(Chars))
            OBVIOUS
        <3>2. Words(l) = texts \o (<<x>> \o <<>>)
            BY <1>2, <2>1, <2>5
        <3> QED BY <2>5, <3>1, <3>2, WordMoves
    <2>7. Append(texts, x) \in Seq(Seq(Chars)) /\ Len(Append(texts, x)) = Len(t.starts)
        BY <1>4, <2>5, AppendProperties
    <2>8. Stored(t, texts, N + 2)
        <3>1. s <= N + 2 /\ N + 2 \in Nat
            BY <1>0, <2>4
        <3> QED BY <1>4, <2>3, <2>4, <3>1, StaysStored
    <2>9. Stored(t, Append(texts, x), N + 2)
        <3>1. s = t.starts[Len(texts) + 1] /\ N + 2 \in Nat
            BY <1>0, <1>4 DEF s
        <3>2. s + Len(x) = N + 1 /\ s + Len(x) < N + 2 /\ t.mem[s + Len(x)] = "NUL"
            <4>1. Len(x) = (N + 1) - s
                BY <2>5
            <4>2. s + Len(x) = N + 1
                BY <1>0, <2>4, <4>1
            <4>3. t.mem[N + 1] = "NUL"
                BY <1>0, <2>2
            <4> QED BY <1>0, <4>2, <4>3
        <3>3. \A j \in 1..Len(x) : t.mem[s + j - 1] = x[j]
            <4> SUFFICES ASSUME NEW j \in 1..((N + 1) - s) PROVE t.mem[s + j - 1] = x[j]
                BY <2>5
            <4>1. s + j - 1 \in s..(t.p - 1)
                BY <1>0, <2>2, <2>4
            <4> QED BY <2>1, <2>5, <4>1
        <3>4. x \in Seq(Chars)
            BY <2>5
        <3> DEFINE g == N + 2
        <3>5. g \in Nat /\ Stored(t, texts, g) /\ s + Len(x) < g /\ t.mem[s + Len(x)] = "NUL"
            BY <2>8, <3>1, <3>2
        <3> HIDE DEF g
        <3>6. Stored(t, Append(texts, x), g)
            BY <3>1, <3>3, <3>4, <3>5, OneMoreStored
        <3> QED BY <3>6 DEF g
    <2>10. FirstOnes(Words(l)) = Append(texts, x)
        <3>1. <<>> \in Seq(Seq(Chars))
            OBVIOUS
        <3> QED BY <1>1, <2>6, <2>7, <3>1, FirstOfThem
    <2> QED BY <2>7, <2>9, <2>10
<1>5. t.at # "quoted"
    BY DEF Stopped
<1>6. PICK texts \in Seq(Seq(Chars)) :
          \/ BlanksInv(l, t, texts)
          \/ Len(t.starts) = Len(texts) + 1 /\ Stored(t, texts, s) /\ WordInv(l, t, texts, s)
    BY <1>5 DEF ScanInv, QuotedInv
<1> QED BY <1>3, <1>4, <1>6

\* tokenize leaves in argv the first words of the line, whatever the line: its
\* quotes, escapes and length, and the words that did not fit (cmd.c 69-99).
THEOREM TokenizeCorrect ==
    ASSUME NEW l \in Seq(Chars)
    PROVE  tokenize(l) = FirstOnes(Words(l)) /\ tokenize(l) \in Seq(Seq(Chars))
           /\ Len(tokenize(l)) <= MAX_ARGV
<1> DEFINE t == Scan(l)[Len(l) + 1]
           N == Len(l)
<1>1. ScanInv(l, t) /\ Stopped(t) /\ N \in Nat
    BY ScanEnds, LenProperties
<1>2. tokenize(l) = [k \in 1..Len(t.starts) |-> CString(t.mem, t.starts[k])]
    BY DEF tokenize
<1> HIDE DEF t
<1>3. PICK texts \in Seq(Seq(Chars)) :
            /\ Len(texts) = Len(t.starts) /\ Stored(t, texts, N + 2)
            /\ FirstOnes(Words(l)) = texts
    BY <1>1, StoppedWords
<1>4. /\ t.mem \in [1..(N + 1) -> Chars \cup {"NUL"}] /\ t.starts \in Seq(1..(N + 1))
      /\ Len(t.starts) <= MAX_ARGV
    BY <1>1 DEF ScanInv
<1>5. \A k \in 1..Len(texts) : CString(t.mem, t.starts[k]) = texts[k]
    <2> SUFFICES ASSUME NEW k \in 1..Len(texts) PROVE CString(t.mem, t.starts[k]) = texts[k]
        OBVIOUS
    <2>1. t.starts[k] \in 1..(N + 1)
        BY <1>3, <1>4, ElementOfSeq
    <2> QED BY <1>1, <1>3, <1>4, <2>1, StringRead
<1>6. tokenize(l) = [k \in 1..Len(texts) |-> texts[k]]
    BY <1>2, <1>3, <1>5
<1>7. texts = [k \in 1..Len(texts) |-> texts[k]]
    BY LenProperties
<1> QED BY <1>3, <1>4, <1>6, <1>7

-----------------------------------------------------------------------------
(* The command table and the server task.                                  *)

Names == Builtins \cup {Project[i] : i \in 1..Len(Project)} \cup {<<>>}

\* A registration under way has filled what it has filled of the next entry.
RegisterInv ==
    registering[2] # "check" =>
        /\ registering[1] <= Len(Project) /\ s_n < MAX_CMDS
        /\ registering[2] \in {"fn", "count"} => s_tbl[s_n + 1].name = Project[registering[1]]
        /\ registering[2] = "count" => s_tbl[s_n + 1].fn = Project[registering[1]]

\* What a search has seen so far, and what a call is about to use.
ServeInv ==
    /\ dispatching \in {"search", "call"} =>
          line \in Lines /\ argv = FirstOnes(Words(line)) /\ argv # <<>> /\ ran = Nothing
    /\ dispatching = "search" =>
          /\ index <= s_n + 1 /\ \A i \in 1..(index - 1) : s_tbl[i].name # argv[1]
          /\ ~absent => \E i \in 1..s_n : s_tbl[i].name = argv[1]
    /\ dispatching = "call" => index <= s_n /\ s_tbl[index].name = argv[1]

DispatchInv ==
    /\ DispatchTypeOK
    /\ s_tbl \in [1..MAX_CMDS -> [name : Names, fn : Names]]
    /\ RegisterInv
    /\ ServeInv
    /\ ReplyIsOwn

LEMMA DispatchBounds ==
    /\ MAX_CMDS \in Nat /\ MAX_ARGV \in Nat \ {0} /\ Codes \subseteq Nat \ {0}
    /\ Len(Project) \in Nat /\ Lines \subseteq Seq(Chars)
    /\ Cardinality(Builtins) \in Nat /\ Cardinality(Builtins) <= MAX_CMDS
BY DispatchAssumption, LenProperties, FS_CardinalityType

LEMMA DispatchInitial == DispatchInit => DispatchInv
<1> SUFFICES ASSUME DispatchInit PROVE DispatchInv
    OBVIOUS
<1> DEFINE b == Cardinality(Builtins)
<1>0. b \in Nat /\ b <= MAX_CMDS /\ MAX_CMDS \in Nat /\ Len(Project) \in Nat
    BY DispatchBounds
<1> HIDE DEF b
<1>1. PICK order \in [1..b -> Builtins] :
          s_tbl = [i \in 1..MAX_CMDS |->
                      IF i \in DOMAIN order THEN [name |-> order[i], fn |-> order[i]] ELSE NoEntry]
    BY DEF DispatchInit, b
<1>2. \A i \in 1..MAX_CMDS :
          s_tbl[i] = IF i \in 1..b THEN [name |-> order[i], fn |-> order[i]] ELSE NoEntry
    BY <1>1
<1>3. s_tbl \in [1..MAX_CMDS -> [name : Names, fn : Names]]
    <2>1. ASSUME NEW i \in 1..MAX_CMDS PROVE s_tbl[i] \in [name : Names, fn : Names]
        <3>1. CASE i \in 1..b
            <4>1. order[i] \in Names
                BY <3>1 DEF Names
            <4>2. s_tbl[i] = [name |-> order[i], fn |-> order[i]]
                BY <1>2, <3>1
            <4> QED BY <4>1, <4>2
        <3>2. CASE i \notin 1..b
            <4>1. s_tbl[i] = [name |-> <<>>, fn |-> <<>>] /\ <<>> \in Names
                BY <1>2, <3>2 DEF NoEntry, Names
            <4> QED BY <4>1
        <3> QED BY <3>1, <3>2
    <2> QED BY <1>1, <2>1
<1>4. /\ s_n = b /\ registering = <<1, "check">> /\ s_last_err = 0 /\ dispatching = "idle"
      /\ argv = <<>> /\ index = 1
    BY DEF DispatchInit, b
<1>5. DispatchTypeOK
    <2>1. ASSUME NEW i \in 1..s_n PROVE s_tbl[i].name = s_tbl[i].fn
        <3>1. i \in 1..b /\ i \in 1..MAX_CMDS
            BY <1>0, <1>4
        <3>2. s_tbl[i] = [name |-> order[i], fn |-> order[i]]
            BY <1>2, <3>1
        <3> QED BY <3>2
    <2>2. Len(argv) <= MAX_ARGV
        BY <1>4, DispatchBounds
    <2>3. registering \in (1..(Len(Project) + 1)) \X {"check", "name", "fn", "count"}
        BY <1>0, <1>4
    <2> QED BY <1>0, <1>4, <2>1, <2>2, <2>3 DEF DispatchTypeOK
<1>6. RegisterInv /\ ServeInv /\ ReplyIsOwn
    BY <1>4 DEF RegisterInv, ServeInv, ReplyIsOwn
<1> QED BY <1>3, <1>5, <1>6 DEF DispatchInv

\* A registration leaves what the server task has seen of the table true.
LEMMA RegisterLeaves ==
    ASSUME DispatchInv, UNCHANGED serveVars,
           s_n' \in s_n..MAX_CMDS,
           \A i \in 1..s_n : s_tbl'[i] = s_tbl[i]
    PROVE  ServeInv' /\ ReplyIsOwn'
<1>0. /\ UNCHANGED <<s_last_err, dispatching, line, argv, index, ran, absent, reply>>
      /\ s_n \in Nat /\ s_n' \in Nat /\ s_n <= s_n' /\ index \in Nat
    BY DispatchBounds DEF serveVars, DispatchInv, DispatchTypeOK
<1>1. ReplyIsOwn'
    BY <1>0 DEF DispatchInv, ReplyIsOwn
<1>2. /\ dispatching' \in {"search", "call"} =>
            line' \in Lines /\ argv' = FirstOnes(Words(line')) /\ argv' # <<>> /\ ran' = Nothing
    BY <1>0 DEF DispatchInv, ServeInv
<1>3. dispatching' = "call" => index' <= s_n' /\ s_tbl'[index'].name = argv'[1]
    <2>1. index \in 1..(MAX_CMDS + 1)
        BY DEF DispatchInv, DispatchTypeOK
    <2> QED BY <1>0, <2>1 DEF DispatchInv, ServeInv
<1>4. ASSUME dispatching = "search", ~absent
      PROVE  \E i \in 1..s_n' : s_tbl'[i].name = argv'[1]
    <2>1. PICK i \in 1..s_n : s_tbl[i].name = argv[1]
        BY <1>4 DEF DispatchInv, ServeInv
    <2>2. i \in 1..s_n' /\ s_tbl'[i].name = argv'[1]
        BY <1>0, <2>1
    <2> QED BY <2>2
<1>5. dispatching = "search" =>
          index <= s_n + 1 /\ \A i \in 1..(index - 1) : i \in 1..s_n /\ s_tbl[i].name # argv[1]
    BY <1>0 DEF DispatchInv, ServeInv
<1>6. dispatching' = "search" =>
          /\ index' <= s_n' + 1 /\ \A i \in 1..(index' - 1) : s_tbl'[i].name # argv'[1]
          /\ ~absent' => \E i \in 1..s_n' : s_tbl'[i].name = argv'[1]
    BY <1>0, <1>4, <1>5
<1> QED BY <1>1, <1>2, <1>3, <1>6 DEF ServeInv

\* A step that looks at the table and nothing else leaves it as it is.
LEMMA ServeTypes ==
    ASSUME DispatchInv, Serve
    PROVE  /\ s_tbl' = s_tbl /\ s_n' = s_n /\ registering' = registering
           /\ s_tbl' \in [1..MAX_CMDS -> [name : Names, fn : Names]]
           /\ RegisterInv'
<1>1. s_tbl' = s_tbl /\ s_n' = s_n /\ registering' = registering
    BY DEF Serve, tableVars
<1>2. s_tbl' \in [1..MAX_CMDS -> [name : Names, fn : Names]]
    BY <1>1 DEF DispatchInv
<1>3. RegisterInv'
    BY <1>1 DEF DispatchInv, RegisterInv
<1> QED BY <1>1, <1>2, <1>3

LEMMA ReceiveInv == ASSUME DispatchInv, Serve, NEW l \in Lines, Receive(l) PROVE DispatchInv'
<1>0. MAX_CMDS \in Nat /\ MAX_ARGV \in Nat \ {0} /\ s_n \in 0..MAX_CMDS
    BY DispatchBounds DEF DispatchInv, DispatchTypeOK
<1>1. l \in Seq(Chars)
    BY DispatchBounds
<1>2. /\ argv' = FirstOnes(Words(l)) /\ argv' \in Seq(Seq(Chars)) /\ Len(argv') <= MAX_ARGV
    BY <1>1, TokenizeCorrect DEF Receive
<1>3. DispatchTypeOK'
    <2>1. dispatching' \in {"idle", "search", "call", "done"} /\ index' \in 1..(MAX_CMDS + 1)
        BY <1>0 DEF Receive
    <2> QED BY <1>2, <2>1, ServeTypes DEF DispatchInv, DispatchTypeOK, Receive
<1>4. ServeInv'
    <2>1. dispatching' \in {"search", "call"} => dispatching' = "search" /\ argv' # <<>>
        BY DEF Receive
    <2>2. line' = l /\ ran' = Nothing /\ index' = 1
        BY DEF Receive
    <2>3. ~absent' /\ argv' # <<>> => \E i \in 1..s_n' : s_tbl'[i].name = argv'[1]
        BY ServeTypes DEF Receive
    <2>4. index' <= s_n' + 1 /\ \A i \in 1..(index' - 1) : s_tbl'[i].name # argv'[1]
        BY <1>0, <2>2, ServeTypes
    <2> QED BY <1>2, <2>1, <2>2, <2>3, <2>4 DEF ServeInv
<1>5. ReplyIsOwn'
    <2>1. dispatching' = "done" =>
              argv' = <<>> /\ reply' = [kind |-> "OK", payload |-> FALSE]
        BY DEF Receive
    <2>2. line' = l
        BY DEF Receive
    <2> QED BY <1>2, <2>1, <2>2 DEF ReplyIsOwn
<1> QED BY <1>3, <1>4, <1>5, ServeTypes DEF DispatchInv

LEMMA SearchInv == ASSUME DispatchInv, Serve, Search PROVE DispatchInv'
<1>0. /\ MAX_CMDS \in Nat /\ s_n \in 0..MAX_CMDS /\ index \in 1..(MAX_CMDS + 1)
      /\ dispatching = "search" /\ index <= s_n /\ index \in Nat /\ s_n \in Nat
      /\ argv' = argv /\ line' = line /\ ran' = ran /\ absent' = absent /\ s_last_err' = s_last_err
      /\ s_n' = s_n /\ s_tbl' = s_tbl
    BY DispatchBounds, ServeTypes DEF DispatchInv, DispatchTypeOK, Search
<1>1. /\ line \in Lines /\ argv = FirstOnes(Words(line)) /\ argv # <<>> /\ ran = Nothing
      /\ \A i \in 1..(index - 1) : s_tbl[i].name # argv[1]
      /\ ~absent => \E i \in 1..s_n : s_tbl[i].name = argv[1]
    BY <1>0 DEF DispatchInv, ServeInv
<1>2. CASE s_tbl[index].name = argv[1]
    <2>1. dispatching' = "call" /\ index' = index
        BY <1>2 DEF Search
    <2>2. DispatchTypeOK'
        BY <1>0, <2>1, ServeTypes DEF DispatchInv, DispatchTypeOK
    <2>3. ServeInv'
        BY <1>0, <1>1, <1>2, <2>1 DEF ServeInv
    <2>4. ReplyIsOwn'
        BY <2>1 DEF ReplyIsOwn
    <2> QED BY <2>2, <2>3, <2>4, ServeTypes DEF DispatchInv
<1>3. CASE s_tbl[index].name # argv[1]
    <2>1. dispatching' = "search" /\ index' = index + 1
        BY <1>0, <1>3 DEF Search
    <2>2. index' \in 1..(MAX_CMDS + 1) /\ index' <= s_n' + 1
        BY <1>0, <2>1
    <2>3. DispatchTypeOK'
        BY <1>0, <2>1, <2>2, ServeTypes DEF DispatchInv, DispatchTypeOK
    <2>4. \A i \in 1..(index' - 1) : s_tbl'[i].name # argv'[1]
        <3>1. \A i \in 1..(index' - 1) : i \in 1..(index - 1) \/ i = index
            BY <1>0, <2>1
        <3> QED BY <1>0, <1>1, <1>3, <3>1
    <2>5. ServeInv'
        BY <1>0, <1>1, <2>1, <2>2, <2>4 DEF ServeInv
    <2>6. ReplyIsOwn'
        BY <2>1 DEF ReplyIsOwn
    <2> QED BY <2>3, <2>5, <2>6, ServeTypes DEF DispatchInv
<1> QED BY <1>2, <1>3

LEMMA NotFoundInv == ASSUME DispatchInv, Serve, NotFound PROVE DispatchInv'
<1>0. /\ s_n \in Nat /\ index \in Nat /\ dispatching = "search" /\ index > s_n
      /\ dispatching' = "done" /\ reply' = [kind |-> "ERR", code |-> E_UNKNOWN_CMD]
      /\ argv' = argv /\ line' = line /\ ran' = ran /\ absent' = absent /\ s_last_err' = s_last_err
      /\ index' = index /\ s_n' = s_n /\ s_tbl' = s_tbl
    BY DispatchBounds, ServeTypes DEF DispatchInv, DispatchTypeOK, NotFound
<1>1. /\ argv = FirstOnes(Words(line)) /\ argv # <<>> /\ ran = Nothing
      /\ \A i \in 1..(index - 1) : s_tbl[i].name # argv[1]
      /\ ~absent => \E i \in 1..s_n : s_tbl[i].name = argv[1]
    BY <1>0 DEF DispatchInv, ServeInv
<1>2. \A i \in 1..s_n : i \in 1..(index - 1)
    BY <1>0
<1>3. absent = TRUE \/ absent
    BY <1>1, <1>2
<1>4. DispatchTypeOK'
    BY <1>0, ServeTypes DEF DispatchInv, DispatchTypeOK
<1>5. ServeInv'
    BY <1>0 DEF ServeInv
<1>6. ReplyIsOwn'
    BY <1>0, <1>1, <1>3 DEF ReplyIsOwn
<1> QED BY <1>4, <1>5, <1>6, ServeTypes DEF DispatchInv

LEMMA CallInv ==
    ASSUME DispatchInv, Serve, NEW ok \in BOOLEAN, NEW payload \in BOOLEAN, NEW code \in Codes \cup {0},
           CallHandler(ok, payload, code)
    PROVE  DispatchInv'
<1>0. /\ s_n \in 0..MAX_CMDS /\ MAX_CMDS \in Nat /\ index \in 1..(MAX_CMDS + 1)
      /\ dispatching = "call" /\ dispatching' = "done"
      /\ argv' = argv /\ line' = line /\ absent' = absent /\ index' = index
    BY DispatchBounds DEF DispatchInv, DispatchTypeOK, CallHandler
<1>1. /\ argv = FirstOnes(Words(line)) /\ argv # <<>>
      /\ index <= s_n /\ s_tbl[index].name = argv[1]
    BY <1>0 DEF DispatchInv, ServeInv
<1>2. s_tbl[index].fn = argv[1]
    <2>1. index \in 1..s_n
        BY <1>0, <1>1
    <2> QED BY <1>1, <2>1 DEF DispatchInv, DispatchTypeOK
<1>3. /\ s_last_err' = code
      /\ ran' = [kind |-> "ran", fn |-> s_tbl[index].fn, args |-> Tail(argv),
                 ok |-> ok, payload |-> payload, code |-> code]
      /\ reply' = IF ok THEN [kind |-> "OK", payload |-> payload]
                        ELSE [kind |-> "ERR", code |-> IF code = 0 THEN E_INTERNAL ELSE code]
    BY DEF CallHandler, Cleared
<1>4. ran'.kind = "ran" /\ Nothing.kind = "none"
    BY <1>3 DEF Nothing
<1>5. ran' # Nothing
    BY <1>4
<1>6. /\ ran'.fn = argv[1] /\ ran'.args = Tail(argv)
      /\ ran'.ok = ok /\ ran'.payload = payload /\ ran'.code = code
    BY <1>2, <1>3
<1>7. ReplyIsOwn'
    <2>1. reply' = IF ran'.ok THEN [kind |-> "OK", payload |-> ran'.payload]
                   ELSE [kind |-> "ERR", code |-> IF ran'.code = 0 THEN E_INTERNAL ELSE ran'.code]
        BY <1>3, <1>6
    <2>2. FirstOnes(Words(line')) = argv
        BY <1>0, <1>1
    <2> QED BY <1>1, <1>5, <1>6, <2>1, <2>2 DEF ReplyIsOwn
<1>8. DispatchTypeOK'
    BY <1>0, <1>3, ServeTypes DEF DispatchInv, DispatchTypeOK
<1>9. ServeInv'
    BY <1>0 DEF ServeInv
<1> QED BY <1>7, <1>8, <1>9, ServeTypes DEF DispatchInv

LEMMA SendReplyInv == ASSUME DispatchInv, Serve, SendReply PROVE DispatchInv'
<1>0. MAX_CMDS \in Nat /\ MAX_ARGV \in Nat
    BY DispatchBounds
<1>1. /\ dispatching' = "idle" /\ argv' = <<>> /\ index' = 1 /\ s_last_err' = s_last_err
    BY DEF SendReply
<1>2. DispatchTypeOK'
    <2>1. Len(argv') <= MAX_ARGV /\ index' \in 1..(MAX_CMDS + 1)
        BY <1>0, <1>1
    <2> QED BY <1>1, <2>1, ServeTypes DEF DispatchInv, DispatchTypeOK
<1>3. ServeInv' /\ ReplyIsOwn'
    BY <1>1 DEF ServeInv, ReplyIsOwn
<1> QED BY <1>2, <1>3, ServeTypes DEF DispatchInv

LEMMA NamesFacts ==
    /\ \A i \in 1..Len(Project) : Project[i] \in Names
    /\ DispatchInv => /\ s_n \in 0..MAX_CMDS /\ MAX_CMDS \in Nat /\ Len(Project) \in Nat
                      /\ registering = <<registering[1], registering[2]>>
                      /\ registering[1] \in 1..(Len(Project) + 1)
BY DispatchBounds DEF Names, DispatchInv, DispatchTypeOK

\* Storing into the entry under way disturbs no other.
LEMMA EntryStored ==
    ASSUME DispatchInv, s_n < MAX_CMDS, NEW what \in {"name", "fn"}, NEW name \in Names,
           s_tbl' = [s_tbl EXCEPT ![s_n + 1] = [@ EXCEPT ![what] = name]]
    PROVE  /\ s_tbl' \in [1..MAX_CMDS -> [name : Names, fn : Names]]
           /\ \A i \in 1..s_n : s_tbl'[i] = s_tbl[i]
           /\ s_tbl'[s_n + 1] = [s_tbl[s_n + 1] EXCEPT ![what] = name]
<1>1. s_n \in 0..MAX_CMDS /\ MAX_CMDS \in Nat /\ s_n + 1 \in 1..MAX_CMDS
    BY NamesFacts
<1>2. s_tbl \in [1..MAX_CMDS -> [name : Names, fn : Names]]
    BY DEF DispatchInv
<1>3. s_tbl[s_n + 1] \in [name : Names, fn : Names]
    BY <1>1, <1>2
<1>4. [s_tbl[s_n + 1] EXCEPT ![what] = name] \in [name : Names, fn : Names]
    <2>1. CASE what = "name"
        BY <1>3, <2>1
    <2>2. CASE what = "fn"
        BY <1>3, <2>2
    <2> QED BY <2>1, <2>2
<1>5. \A i \in 1..s_n : i # s_n + 1 /\ i \in 1..MAX_CMDS
    BY <1>1
<1> QED BY <1>1, <1>2, <1>4, <1>5

LEMMA RegisterInvKept == ASSUME DispatchInv, Register PROVE DispatchInv'
<1>0. /\ s_n \in 0..MAX_CMDS /\ MAX_CMDS \in Nat /\ Len(Project) \in Nat
      /\ registering[1] \in 1..(Len(Project) + 1)
      /\ UNCHANGED serveVars
      /\ s_tbl \in [1..MAX_CMDS -> [name : Names, fn : Names]]
      /\ \A i \in 1..s_n : s_tbl[i].name = s_tbl[i].fn
    BY NamesFacts DEF DispatchInv, DispatchTypeOK, Register
<1>1. ASSUME s_n' \in s_n..MAX_CMDS,
             \A i \in 1..s_n : s_tbl'[i] = s_tbl[i],
             \A i \in 1..s_n' : s_tbl'[i].name = s_tbl'[i].fn,
             s_tbl' \in [1..MAX_CMDS -> [name : Names, fn : Names]],
             registering' \in (1..(Len(Project) + 1)) \X {"check", "name", "fn", "count"},
             RegisterInv'
      PROVE  DispatchInv'
    <2>1. ServeInv' /\ ReplyIsOwn'
        BY <1>0, <1>1, RegisterLeaves
    <2>2. DispatchTypeOK'
        BY <1>0, <1>1 DEF DispatchInv, DispatchTypeOK, serveVars
    <2> QED BY <1>1, <2>1, <2>2 DEF DispatchInv
<1>2. CASE CheckName
    <2>1. s_tbl' = s_tbl /\ s_n' = s_n /\ registering[1] <= Len(Project)
        BY <1>2 DEF CheckName, Registering
    <2>2. \/ registering' = <<registering[1], "name">> /\ s_n < MAX_CMDS
          \/ registering' = <<registering[1] + 1, "check">>
        BY <1>2 DEF CheckName, Then, RegisterOrder
    <2>3. registering' \in (1..(Len(Project) + 1)) \X {"check", "name", "fn", "count"}
        BY <1>0, <2>1, <2>2
    <2>4. RegisterInv'
        BY <2>1, <2>2 DEF RegisterInv
    <2> QED BY <1>0, <1>1, <2>1, <2>3, <2>4
<1>3. CASE StoreName
    <2>1. /\ s_n' = s_n /\ registering[1] <= Len(Project) /\ registering[2] = "name"
          /\ s_tbl' = [s_tbl EXCEPT ![s_n + 1].name = Project[registering[1]]]
          /\ registering' = <<registering[1], "fn">>
        BY <1>3 DEF StoreName, Registering, NewEntry, Then, RegisterOrder
    <2>2. s_n < MAX_CMDS
        BY <2>1 DEF DispatchInv, RegisterInv
    <2>3. Project[registering[1]] \in Names
        BY <1>0, <2>1, NamesFacts
    <2>4. s_tbl' = [s_tbl EXCEPT ![s_n + 1] = [@ EXCEPT !["name"] = Project[registering[1]]]]
        BY <2>1
    <2>5. /\ s_tbl' \in [1..MAX_CMDS -> [name : Names, fn : Names]]
          /\ \A i \in 1..s_n : s_tbl'[i] = s_tbl[i]
          /\ s_tbl'[s_n + 1] = [s_tbl[s_n + 1] EXCEPT !["name"] = Project[registering[1]]]
        BY <2>2, <2>3, <2>4, EntryStored
    <2>6. s_tbl[s_n + 1] \in [name : Names, fn : Names]
        BY <1>0, <2>2
    <2>7. RegisterInv'
        BY <2>1, <2>2, <2>5, <2>6 DEF RegisterInv
    <2>8. registering' \in (1..(Len(Project) + 1)) \X {"check", "name", "fn", "count"}
        BY <1>0, <2>1
    <2> QED BY <1>0, <1>1, <2>1, <2>5, <2>7, <2>8
<1>4. CASE StoreFn
    <2>1. /\ s_n' = s_n /\ registering[1] <= Len(Project) /\ registering[2] = "fn"
          /\ s_tbl' = [s_tbl EXCEPT ![s_n + 1].fn = Project[registering[1]]]
          /\ registering' = <<registering[1], "count">>
        BY <1>4 DEF StoreFn, Registering, NewEntry, Then, RegisterOrder
    <2>2. s_n < MAX_CMDS /\ s_tbl[s_n + 1].name = Project[registering[1]]
        BY <2>1 DEF DispatchInv, RegisterInv
    <2>3. Project[registering[1]] \in Names
        BY <1>0, <2>1, NamesFacts
    <2>4. s_tbl' = [s_tbl EXCEPT ![s_n + 1] = [@ EXCEPT !["fn"] = Project[registering[1]]]]
        BY <2>1
    <2>5. /\ s_tbl' \in [1..MAX_CMDS -> [name : Names, fn : Names]]
          /\ \A i \in 1..s_n : s_tbl'[i] = s_tbl[i]
          /\ s_tbl'[s_n + 1] = [s_tbl[s_n + 1] EXCEPT !["fn"] = Project[registering[1]]]
        BY <2>2, <2>3, <2>4, EntryStored
    <2>6. s_tbl[s_n + 1] \in [name : Names, fn : Names]
        BY <1>0, <2>2
    <2>7. RegisterInv'
        BY <2>1, <2>2, <2>5, <2>6 DEF RegisterInv
    <2>8. registering' \in (1..(Len(Project) + 1)) \X {"check", "name", "fn", "count"}
        BY <1>0, <2>1
    <2> QED BY <1>0, <1>1, <2>1, <2>5, <2>7, <2>8
<1>5. CASE CountEntry
    <2>1. /\ s_n' = s_n + 1 /\ s_tbl' = s_tbl
          /\ registering[1] <= Len(Project) /\ registering[2] = "count"
          /\ registering' = <<registering[1] + 1, "check">>
        BY <1>5 DEF CountEntry, Registering, Then, RegisterOrder
    <2>2. /\ s_n < MAX_CMDS /\ s_tbl[s_n + 1].name = s_tbl[s_n + 1].fn
        BY <2>1 DEF DispatchInv, RegisterInv
    <2>3. \A i \in 1..s_n' : s_tbl'[i].name = s_tbl'[i].fn
        <3>1. \A i \in 1..s_n' : i \in 1..s_n \/ i = s_n + 1
            BY <1>0, <2>1
        <3> QED BY <1>0, <2>1, <2>2, <3>1
    <2>4. RegisterInv'
        BY <2>1 DEF RegisterInv
    <2>5. registering' \in (1..(Len(Project) + 1)) \X {"check", "name", "fn", "count"}
        BY <1>0, <2>1
    <2>6. s_n' \in s_n..MAX_CMDS
        BY <1>0, <2>1, <2>2
    <2> QED BY <1>0, <1>1, <2>1, <2>3, <2>4, <2>5, <2>6
<1> QED BY <1>2, <1>3, <1>4, <1>5 DEF Register

LEMMA DispatchStep == DispatchInv /\ [DispatchNext]_dispatchVars => DispatchInv'
<1> SUFFICES ASSUME DispatchInv, [DispatchNext]_dispatchVars PROVE DispatchInv'
    OBVIOUS
<1>1. CASE Register
    BY <1>1, RegisterInvKept
<1>2. CASE Serve
    <2>1. CASE \E l \in Lines : Receive(l)
        BY <1>2, <2>1, ReceiveInv
    <2>2. CASE Search
        BY <1>2, <2>2, SearchInv
    <2>3. CASE NotFound
        BY <1>2, <2>3, NotFoundInv
    <2>4. CASE \E ok, payload \in BOOLEAN, code \in Codes \cup {0} : CallHandler(ok, payload, code)
        BY <1>2, <2>4, CallInv
    <2>5. CASE SendReply
        BY <1>2, <2>5, SendReplyInv
    <2> QED BY <1>2, <2>1, <2>2, <2>3, <2>4, <2>5 DEF Serve
<1>3. CASE UNCHANGED dispatchVars
    BY <1>3 DEF dispatchVars, tableVars, serveVars, DispatchInv, DispatchTypeOK, RegisterInv,
                ServeInv, ReplyIsOwn
<1> QED BY <1>1, <1>2, <1>3 DEF DispatchNext

\* The inductive invariant of the command table and of the search in it
\* (cmd.c 28-50, 101-132).
THEOREM DispatchInvariance == DispatchSpec => []DispatchInv
<1> QED BY DispatchInitial, DispatchStep, PTL DEF DispatchSpec

\* Entries that count are whole, and no line has more words than argv has room
\* for (cmd.c 17-31).
THEOREM DispatchTypeCorrect == DispatchSpec => []DispatchTypeOK
<1>1. DispatchInv => DispatchTypeOK
    BY DEF DispatchInv
<1> QED BY <1>1, DispatchInvariance, PTL

\* Whatever line arrives, while the main task registers: the reply is that of the
\* command its first word names, called with its other words, or says that there
\* was none when the search began (cmd.c 45-48, 72-99, 111-132).
THEOREM DispatchReplies == DispatchSpec => []ReplyIsOwn
<1>1. DispatchInv => ReplyIsOwn
    BY DEF DispatchInv
<1> QED BY <1>1, DispatchInvariance, PTL

-----------------------------------------------------------------------------
(* Discovery: what is read record by record, or line by line.              *)

\* Records are noted one after the other.
LEMMA NotingIs ==
    ASSUME NEW rs, Len(rs) \in Nat
    PROVE  /\ Noting(rs)[0] = NoDevice
           /\ \A n \in 1..Len(rs) : Noting(rs)[n] = Note(Noting(rs)[n - 1], rs[n])
<1> DEFINE Step(x, i) == Note(x, rs[i])
           D(g, n) == g = [i \in 0..n |-> IF i = 0 THEN NoDevice ELSE Step(g[i - 1], i)]
           S == {n \in Nat : \E g : D(g, n)}
<1>1. 0 \in S
    <2> DEFINE g == [i \in 0..0 |-> NoDevice]
    <2>1. D(g, 0)
        <3>1. \A i \in 0..0 : i = 0
            OBVIOUS
        <3> HIDE DEF Step
        <3> QED BY <3>1
    <2> HIDE DEF D, g
    <2> QED BY <2>1
<1>2. ASSUME NEW n \in Nat, n \in S PROVE n + 1 \in S
    <2>1. PICK e : D(e, n)
        BY <1>2
    <2> DEFINE g == [i \in 0..(n + 1) |-> IF i = 0 THEN NoDevice ELSE Step(e[i - 1], i)]
    <2> HIDE DEF Step
    <2>2. \A i \in 0..n : g[i] = e[i]
        BY <2>1
    <2>3. \A i \in 0..(n + 1) : i = 0 \/ i - 1 \in 0..n
        OBVIOUS
    <2>4. \A i \in 0..(n + 1) : i # 0 => e[i - 1] = g[i - 1]
        BY <2>2, <2>3
    <2>5. g = [i \in 0..(n + 1) |-> IF i = 0 THEN NoDevice ELSE Step(g[i - 1], i)]
        <3> HIDE DEF D
        <3> QED BY <2>4
    <2> HIDE DEF g
    <2>6. \E h : D(h, n + 1)
        BY <2>5
    <2>7. n + 1 \in Nat
        OBVIOUS
    <2> HIDE DEF D
    <2> QED BY <2>6, <2>7
<1>3. Nat \subseteq S
    <2> HIDE DEF S
    <2> QED BY <1>1, <1>2, SetInduction
<1> DEFINE F(g) == g = [i \in 0..Len(rs) |-> IF i = 0 THEN NoDevice ELSE Note(g[i - 1], rs[i])]
<1>4. \E g : F(g)
    BY <1>3
<1> HIDE DEF S, D
<1>5. F(CHOOSE g : F(g))
    BY <1>4, Zenon
<1>6. Noting(rs) = CHOOSE g : F(g)
    BY Zenon DEF Noting
<1>7. F(Noting(rs))
    BY <1>5, <1>6, Zenon
<1> DEFINE h == Noting(rs)
<1>8. h = [i \in 0..Len(rs) |-> IF i = 0 THEN NoDevice ELSE Note(h[i - 1], rs[i])]
    BY <1>7
<1> HIDE DEF h
<1>9. h[0] = NoDevice
    BY <1>8
<1>10. \A n \in 1..Len(rs) : h[n] = Note(h[n - 1], rs[n])
    BY <1>8
<1> QED BY <1>9, <1>10 DEF h

\* Sections are printed one after the other.
LEMMA PrintingIs ==
    ASSUME NEW ds, Len(ds) \in Nat
    PROVE  /\ Printing(ds)[0] = <<>>
           /\ \A n \in 1..Len(ds) : Printing(ds)[n] = Printing(ds)[n - 1] \o Section(ds[n])
<1> DEFINE Step(x, i) == x \o Section(ds[i])
           D(g, n) == g = [i \in 0..n |-> IF i = 0 THEN <<>> ELSE Step(g[i - 1], i)]
           S == {n \in Nat : \E g : D(g, n)}
<1>1. 0 \in S
    <2> DEFINE g == [i \in 0..0 |-> <<>>]
    <2>1. D(g, 0)
        <3>1. \A i \in 0..0 : i = 0
            OBVIOUS
        <3> HIDE DEF Step
        <3> QED BY <3>1
    <2> HIDE DEF D, g
    <2> QED BY <2>1
<1>2. ASSUME NEW n \in Nat, n \in S PROVE n + 1 \in S
    <2>1. PICK e : D(e, n)
        BY <1>2
    <2> DEFINE g == [i \in 0..(n + 1) |-> IF i = 0 THEN <<>> ELSE Step(e[i - 1], i)]
    <2> HIDE DEF Step
    <2>2. \A i \in 0..n : g[i] = e[i]
        BY <2>1
    <2>3. \A i \in 0..(n + 1) : i = 0 \/ i - 1 \in 0..n
        OBVIOUS
    <2>4. \A i \in 0..(n + 1) : i # 0 => e[i - 1] = g[i - 1]
        BY <2>2, <2>3
    <2>5. g = [i \in 0..(n + 1) |-> IF i = 0 THEN <<>> ELSE Step(g[i - 1], i)]
        <3> HIDE DEF D
        <3> QED BY <2>4
    <2> HIDE DEF g
    <2>6. \E h : D(h, n + 1)
        BY <2>5
    <2>7. n + 1 \in Nat
        OBVIOUS
    <2> HIDE DEF D
    <2> QED BY <2>6, <2>7
<1>3. Nat \subseteq S
    <2> HIDE DEF S
    <2> QED BY <1>1, <1>2, SetInduction
<1> DEFINE F(g) == g = [i \in 0..Len(ds) |-> IF i = 0 THEN <<>> ELSE g[i - 1] \o Section(ds[i])]
<1>4. \E g : F(g)
    BY <1>3
<1> HIDE DEF S, D
<1>5. F(CHOOSE g : F(g))
    BY <1>4, Zenon
<1>6. Printing(ds) = CHOOSE g : F(g)
    BY Zenon DEF Printing
<1>7. F(Printing(ds))
    BY <1>5, <1>6, Zenon
<1> DEFINE h == Printing(ds)
<1>8. h = [i \in 0..Len(ds) |-> IF i = 0 THEN <<>> ELSE h[i - 1] \o Section(ds[i])]
    BY <1>7
<1> HIDE DEF h
<1>9. h[0] = <<>>
    BY <1>8
<1>10. \A n \in 1..Len(ds) : h[n] = h[n - 1] \o Section(ds[n])
    BY <1>8
<1> QED BY <1>9, <1>10 DEF h

\* Lines are read one after the other.
LEMMA LoadingIs ==
    ASSUME NEW name, NEW f, Len(f) \in Nat
    PROVE  /\ Loading(name, f)[0] = NoProfile
           /\ \A n \in 1..Len(f) : Loading(name, f)[n] = ReadLine(name, Loading(name, f)[n - 1], f[n])
<1> DEFINE Step(x, i) == ReadLine(name, x, f[i])
           D(g, n) == g = [i \in 0..n |-> IF i = 0 THEN NoProfile ELSE Step(g[i - 1], i)]
           S == {n \in Nat : \E g : D(g, n)}
<1>1. 0 \in S
    <2> DEFINE g == [i \in 0..0 |-> NoProfile]
    <2>1. D(g, 0)
        <3>1. \A i \in 0..0 : i = 0
            OBVIOUS
        <3> HIDE DEF Step
        <3> QED BY <3>1
    <2> HIDE DEF D, g
    <2> QED BY <2>1
<1>2. ASSUME NEW n \in Nat, n \in S PROVE n + 1 \in S
    <2>1. PICK e : D(e, n)
        BY <1>2
    <2> DEFINE g == [i \in 0..(n + 1) |-> IF i = 0 THEN NoProfile ELSE Step(e[i - 1], i)]
    <2> HIDE DEF Step
    <2>2. \A i \in 0..n : g[i] = e[i]
        BY <2>1
    <2>3. \A i \in 0..(n + 1) : i = 0 \/ i - 1 \in 0..n
        OBVIOUS
    <2>4. \A i \in 0..(n + 1) : i # 0 => e[i - 1] = g[i - 1]
        BY <2>2, <2>3
    <2>5. g = [i \in 0..(n + 1) |-> IF i = 0 THEN NoProfile ELSE Step(g[i - 1], i)]
        <3> HIDE DEF D
        <3> QED BY <2>4
    <2> HIDE DEF g
    <2>6. \E h : D(h, n + 1)
        BY <2>5
    <2>7. n + 1 \in Nat
        OBVIOUS
    <2> HIDE DEF D
    <2> QED BY <2>6, <2>7
<1>3. Nat \subseteq S
    <2> HIDE DEF S
    <2> QED BY <1>1, <1>2, SetInduction
<1> DEFINE F(g) == g = [i \in 0..Len(f) |-> IF i = 0 THEN NoProfile ELSE ReadLine(name, g[i - 1], f[i])]
<1>4. \E g : F(g)
    BY <1>3
<1> HIDE DEF S, D
<1>5. F(CHOOSE g : F(g))
    BY <1>4, Zenon
<1>6. Loading(name, f) = CHOOSE g : F(g)
    BY Zenon DEF Loading
<1>7. F(Loading(name, f))
    BY <1>5, <1>6, Zenon
<1> DEFINE h == Loading(name, f)
<1>8. h = [i \in 0..Len(f) |-> IF i = 0 THEN NoProfile ELSE ReadLine(name, h[i - 1], f[i])]
    BY <1>7
<1> HIDE DEF h
<1>9. h[0] = NoProfile
    BY <1>8
<1>10. \A n \in 1..Len(f) : h[n] = ReadLine(name, h[n - 1], f[n])
    BY <1>8
<1> QED BY <1>9, <1>10 DEF h

-----------------------------------------------------------------------------
(* Discovery: a device is what its answer says.                            *)

\* A record is the last of its type as soon as it is read.
LEMMA SaysNext ==
    ASSUME NEW rs, NEW n \in Nat, NEW type
    PROVE  /\ Says(rs, 0, type) = {}
           /\ Says(rs, n + 1, type) = IF rs[n + 1].type = type THEN {rs[n + 1]} ELSE Says(rs, n, type)
<1> DEFINE Last(m) == {j \in 1..m : rs[j].type = type /\ \A k \in (j + 1)..m : rs[k].type # type}
<1>1. Last(0) = {}
    OBVIOUS
<1>2. CASE rs[n + 1].type = type
    <2>1. \A j \in 1..(n + 1) : j # n + 1 => n + 1 \in (j + 1)..(n + 1)
        OBVIOUS
    <2>2. n + 1 \in Last(n + 1)
        BY <1>2
    <2>3. \A j \in Last(n + 1) : j = n + 1
        BY <1>2, <2>1
    <2>4. Last(n + 1) = {n + 1}
        <3> HIDE DEF Last
        <3> QED BY <2>2, <2>3
    <2> HIDE DEF Last
    <2>5. {rs[i] : i \in Last(n + 1)} = {rs[n + 1]}
        BY <2>4
    <2> QED BY <1>1, <1>2, <2>5 DEF Says, Last
<1>3. CASE rs[n + 1].type # type
    <2>1. \A j \in Last(n) : j \in Last(n + 1)
        <3> SUFFICES ASSUME NEW j \in Last(n), NEW k \in (j + 1)..(n + 1) PROVE rs[k].type # type
            OBVIOUS
        <3>1. k = n + 1 \/ k \in (j + 1)..n
            OBVIOUS
        <3> QED BY <1>3, <3>1
    <2>2. \A j \in Last(n + 1) : j \in Last(n)
        <3> SUFFICES ASSUME NEW j \in Last(n + 1) PROVE j \in Last(n)
            OBVIOUS
        <3>1. j # n + 1 /\ j \in 1..n
            BY <1>3
        <3>2. \A k \in (j + 1)..n : k \in (j + 1)..(n + 1)
            OBVIOUS
        <3> QED BY <3>1, <3>2
    <2>3. Last(n + 1) = Last(n)
        <3> HIDE DEF Last
        <3> QED BY <2>1, <2>2
    <2> HIDE DEF Last
    <2>4. {rs[i] : i \in Last(n + 1)} = {rs[i] : i \in Last(n)}
        BY <2>3
    <2> QED BY <1>1, <1>3, <2>4 DEF Says, Last
<1> QED BY <1>2, <1>3

\* What has been noted is what the records read so far say.
NotedInstance(d, said) ==
    \/ said = {} /\ d.instance = Missing
    \/ \E r \in Records : said = {r} /\ d.instance = r.instance /\ r.instance # Missing
                          /\ TokenOf[r.instance] # Missing
NotedTarget(d, said) ==
    \/ said = {} /\ d.hostname = Missing /\ d.port = 0
    \/ \E r \in Records : said = {r} /\ d.hostname = r.host /\ d.port = r.port
                          /\ r.port \in Nat
NotedAddress(d, said) ==
    \/ said = {} /\ d.a_ip = Missing
    \/ \E r \in Records : said = {r} /\ d.a_host = r.host /\ d.a_ip = r.ip /\ r.ip # Missing

Noted(d, rs, n) ==
    /\ d = [instance |-> d.instance, hostname |-> d.hostname, port |-> d.port, txt |-> d.txt,
            a_host |-> d.a_host, a_ip |-> d.a_ip]
    /\ NotedInstance(d, Says(rs, n, "PTR"))
    /\ NotedTarget(d, Says(rs, n, "SRV"))
    /\ NotedAddress(d, Says(rs, n, "A"))

LEMMA NoteStep ==
    ASSUME NEW rs, NEW n \in Nat, NEW d, Noted(d, rs, n), rs[n + 1] \in Records
    PROVE  Noted(Note(d, rs[n + 1]), rs, n + 1)
<1> DEFINE r == rs[n + 1]
           e == Note(d, r)
<1>1. /\ r.type = "PTR" => r.instance # Missing /\ TokenOf[r.instance] # Missing
      /\ r.type = "SRV" => r.port \in Nat
      /\ r.type = "A" => r.ip # Missing
    BY DiscoveryAssumption
<1>2. d = [instance |-> d.instance, hostname |-> d.hostname, port |-> d.port, txt |-> d.txt,
           a_host |-> d.a_host, a_ip |-> d.a_ip]
    BY DEF Noted
<1>3. \A type : Says(rs, n + 1, type) = IF r.type = type THEN {r} ELSE Says(rs, n, type)
    BY SaysNext
<1>4. NotedInstance(d, Says(rs, n, "PTR")) /\ NotedTarget(d, Says(rs, n, "SRV"))
      /\ NotedAddress(d, Says(rs, n, "A"))
    BY DEF Noted
<1>5. r \in Records
    OBVIOUS
<1> HIDE DEF r
<1>6. CASE r.type = "PTR"
    <2>1. e = [d EXCEPT !.instance = r.instance]
        BY <1>6 DEF Note
    <2>2. e = [instance |-> r.instance, hostname |-> d.hostname, port |-> d.port, txt |-> d.txt,
               a_host |-> d.a_host, a_ip |-> d.a_ip]
        BY <1>2, <2>1
    <2> HIDE DEF e
    <2>3. /\ Says(rs, n + 1, "PTR") = {r} /\ Says(rs, n + 1, "SRV") = Says(rs, n, "SRV")
          /\ Says(rs, n + 1, "A") = Says(rs, n, "A")
        BY <1>3, <1>6
    <2>4. NotedInstance(e, {r})
        BY <1>1, <1>5, <1>6, <2>2 DEF NotedInstance
    <2>5. NotedTarget(e, Says(rs, n, "SRV"))
        BY <1>4, <2>2 DEF NotedTarget
    <2>6. NotedAddress(e, Says(rs, n, "A"))
        BY <1>4, <2>2 DEF NotedAddress
    <2>7. Noted(e, rs, n + 1)
        BY <2>2, <2>3, <2>4, <2>5, <2>6 DEF Noted
    <2> QED BY <2>7 DEF e, r
<1>7. CASE r.type = "SRV"
    <2>1. e = [d EXCEPT !.hostname = r.host, !.port = r.port]
        BY <1>7 DEF Note
    <2>2. e = [instance |-> d.instance, hostname |-> r.host, port |-> r.port, txt |-> d.txt,
               a_host |-> d.a_host, a_ip |-> d.a_ip]
        BY <1>2, <2>1
    <2> HIDE DEF e
    <2>3. /\ Says(rs, n + 1, "SRV") = {r} /\ Says(rs, n + 1, "PTR") = Says(rs, n, "PTR")
          /\ Says(rs, n + 1, "A") = Says(rs, n, "A")
        BY <1>3, <1>7
    <2>4. NotedTarget(e, {r})
        BY <1>1, <1>5, <1>7, <2>2 DEF NotedTarget
    <2>5. NotedInstance(e, Says(rs, n, "PTR"))
        BY <1>4, <2>2 DEF NotedInstance
    <2>6. NotedAddress(e, Says(rs, n, "A"))
        BY <1>4, <2>2 DEF NotedAddress
    <2>7. Noted(e, rs, n + 1)
        BY <2>2, <2>3, <2>4, <2>5, <2>6 DEF Noted
    <2> QED BY <2>7 DEF e, r
<1>8. CASE r.type = "A"
    <2>1. e = [d EXCEPT !.a_host = r.host, !.a_ip = r.ip]
        BY <1>8 DEF Note
    <2>2. e = [instance |-> d.instance, hostname |-> d.hostname, port |-> d.port, txt |-> d.txt,
               a_host |-> r.host, a_ip |-> r.ip]
        BY <1>2, <2>1
    <2> HIDE DEF e
    <2>3. /\ Says(rs, n + 1, "A") = {r} /\ Says(rs, n + 1, "PTR") = Says(rs, n, "PTR")
          /\ Says(rs, n + 1, "SRV") = Says(rs, n, "SRV")
        BY <1>3, <1>8
    <2>4. NotedAddress(e, {r})
        BY <1>1, <1>5, <1>8, <2>2 DEF NotedAddress
    <2>5. NotedInstance(e, Says(rs, n, "PTR"))
        BY <1>4, <2>2 DEF NotedInstance
    <2>6. NotedTarget(e, Says(rs, n, "SRV"))
        BY <1>4, <2>2 DEF NotedTarget
    <2>7. Noted(e, rs, n + 1)
        BY <2>2, <2>3, <2>4, <2>5, <2>6 DEF Noted
    <2> QED BY <2>7 DEF e, r
<1>9. CASE r.type \notin {"PTR", "SRV", "A"}
    <2> DEFINE txt == IF r.type = "TXT" THEN r.txt ELSE d.txt
    <2>1. r.type = "TXT" => e = [d EXCEPT !.txt = r.txt]
        BY DEF Note
    <2>2. r.type # "TXT" => e = d
        BY <1>9 DEF Note
    <2> HIDE DEF e
    <2>3. e = [instance |-> d.instance, hostname |-> d.hostname, port |-> d.port, txt |-> txt,
               a_host |-> d.a_host, a_ip |-> d.a_ip]
        BY <1>2, <2>1, <2>2
    <2> HIDE DEF txt
    <2>4. /\ Says(rs, n + 1, "A") = Says(rs, n, "A") /\ Says(rs, n + 1, "PTR") = Says(rs, n, "PTR")
          /\ Says(rs, n + 1, "SRV") = Says(rs, n, "SRV")
        BY <1>3, <1>9
    <2>5. NotedInstance(e, Says(rs, n, "PTR"))
        BY <1>4, <2>3 DEF NotedInstance
    <2>6. NotedTarget(e, Says(rs, n, "SRV"))
        BY <1>4, <2>3 DEF NotedTarget
    <2>7. NotedAddress(e, Says(rs, n, "A"))
        BY <1>4, <2>3 DEF NotedAddress
    <2>8. Noted(e, rs, n + 1)
        BY <2>3, <2>4, <2>5, <2>6, <2>7 DEF Noted
    <2> QED BY <2>8 DEF e, r
<1> QED BY <1>6, <1>7, <1>8, <1>9

LEMMA NotingInv ==
    ASSUME NEW rs \in Seq(Records)
    PROVE  Noted(Noting(rs)[Len(rs)], rs, Len(rs))
<1> DEFINE S == {n \in Nat : n <= Len(rs) => Noted(Noting(rs)[n], rs, n)}
<1>0. Len(rs) \in Nat
    BY LenProperties
<1>a. /\ Noting(rs)[0] = NoDevice
      /\ \A n \in 1..Len(rs) : Noting(rs)[n] = Note(Noting(rs)[n - 1], rs[n])
    BY <1>0, NotingIs
<1>1. 0 \in S
    <2>1. \A type : Says(rs, 0, type) = {}
        BY SaysNext
    <2>2. Noted(NoDevice, rs, 0)
        BY <2>1 DEF Noted, NoDevice, NotedInstance, NotedTarget, NotedAddress
    <2> QED BY <1>a, <2>2
<1>2. ASSUME NEW n \in Nat, n \in S PROVE n + 1 \in S
    <2>1. ASSUME n + 1 <= Len(rs) PROVE Noted(Noting(rs)[n + 1], rs, n + 1)
        <3>1. Noted(Noting(rs)[n], rs, n)
            BY <1>0, <1>2, <2>1
        <3>2. n + 1 \in 1..Len(rs) /\ (n + 1) - 1 = n
            BY <1>0, <2>1
        <3>3. rs[n + 1] \in Records
            BY <3>2, ElementOfSeq
        <3>4. Noting(rs)[n + 1] = Note(Noting(rs)[n], rs[n + 1])
            BY <1>a, <3>2
        <3> QED BY <3>1, <3>3, <3>4, NoteStep
    <2>2. n + 1 \in Nat
        OBVIOUS
    <2> QED BY <2>1, <2>2
<1>3. Nat \subseteq S
    <2> HIDE DEF S
    <2> QED BY <1>1, <1>2, SetInduction
<1>4. Len(rs) \in S
    <2> HIDE DEF S
    <2> QED BY <1>0, <1>3
<1> QED BY <1>0, <1>4

\* A device has the name, the address and the port that its answer's last records
\* say, wherever in the answer they stand, or the defaults.
LEMMA DeviceIs ==
    ASSUME NEW pkt \in Answers
    PROVE  LET d == Device(pkt) IN
           /\ d.ip = Address(pkt) /\ d.port = Port(pkt)
           /\ d.instance # Missing => TokenOf[d.instance] # Missing
           /\ d.ip # Missing
<1> DEFINE rs == pkt.records
           d  == Noting(rs)[Len(rs)]
           A  == Says(rs, Len(rs), "A")
           T  == Says(rs, Len(rs), "SRV")
           ip == IF d.a_ip # Missing /\ d.hostname \in {Missing, d.a_host} THEN d.a_ip ELSE pkt.src
           port == IF d.port = 0 THEN 9000 ELSE d.port
<1>1. rs \in Seq(Records) /\ pkt.src # Missing
    BY DiscoveryAssumption
<1>2. NotedInstance(d, Says(rs, Len(rs), "PTR")) /\ NotedTarget(d, T) /\ NotedAddress(d, A)
    BY <1>1, NotingInv DEF Noted
<1>3. Device(pkt) = [instance |-> IF d.instance = Nameless THEN "espshell" ELSE d.instance,
                     hostname |-> d.hostname, txt |-> d.txt, ip |-> ip, port |-> port]
    BY DEF Device, Parse
<1> HIDE DEF rs, d
<1>4. d.instance # Missing => TokenOf[d.instance] # Missing
    BY <1>2 DEF NotedInstance
<1> DEFINE matching == {a \in A : \A s \in T : s.host \in {Missing, a.host}}
           ports == {s.port : s \in T} \ {0}
<1>5. Address(pkt) = IF matching = {} THEN pkt.src ELSE (CHOOSE a \in matching : TRUE).ip
    BY DEF Address, rs
<1>6. Port(pkt) = IF ports = {} THEN 9000 ELSE CHOOSE p \in ports : TRUE
    BY DEF Port, rs
<1> HIDE DEF A, T
<1>7. ip = Address(pkt)
    <2>1. CASE A = {} /\ d.a_ip = Missing
        <3>1. matching = {}
            BY <2>1
        <3> QED BY <1>5, <2>1, <3>1
    <2>2. ASSUME NEW a \in Records, A = {a}, d.a_host = a.host, d.a_ip = a.ip, a.ip # Missing
          PROVE  ip = Address(pkt)
        <3>1. d.hostname \in {Missing, d.a_host} <=> \A s \in T : s.host \in {Missing, a.host}
            BY <1>2, <2>2 DEF NotedTarget
        <3>2. CASE \A s \in T : s.host \in {Missing, a.host}
            <4>1. matching = {a}
                BY <2>2, <3>2
            <4>2. (CHOOSE x \in matching : TRUE) = a
                <5> HIDE DEF matching
                <5> QED BY <4>1
            <4> HIDE DEF matching
            <4> QED BY <1>5, <2>2, <3>1, <3>2, <4>1, <4>2
        <3>3. CASE ~ \A s \in T : s.host \in {Missing, a.host}
            <4>1. matching = {}
                BY <2>2, <3>3
            <4> HIDE DEF matching
            <4> QED BY <1>5, <3>1, <3>3, <4>1
        <3> QED BY <3>2, <3>3
    <2> QED BY <1>2, <2>1, <2>2 DEF NotedAddress
<1>8. port = Port(pkt)
    <2>1. CASE T = {} /\ d.port = 0
        <3>1. ports = {}
            BY <2>1
        <3> HIDE DEF ports
        <3> QED BY <1>6, <2>1, <3>1
    <2>2. ASSUME NEW s \in Records, T = {s}, d.port = s.port PROVE port = Port(pkt)
        <3>1. CASE s.port = 0
            <4>1. ports = {}
                BY <2>2, <3>1
            <4> HIDE DEF ports
            <4> QED BY <1>6, <2>2, <3>1, <4>1
        <3>2. CASE s.port # 0
            <4>1. ports = {s.port}
                BY <2>2, <3>2
            <4>2. (CHOOSE p \in ports : TRUE) = s.port
                <5> HIDE DEF ports
                <5> QED BY <4>1
            <4> HIDE DEF ports
            <4> QED BY <1>6, <2>2, <3>2, <4>1, <4>2
        <3> QED BY <3>1, <3>2
    <2> QED BY <1>2, <2>1, <2>2 DEF NotedTarget
<1>9. ip # Missing
    BY <1>1
<1>10. TokenOf["espshell"] # Missing
    BY DiscoveryAssumption
<1> HIDE DEF ip, port
<1> QED BY <1>3, <1>4, <1>7, <1>8, <1>9, <1>10

-----------------------------------------------------------------------------
(* Discovery: a section loads, whatever it follows.                        *)

\* h is g with s after it.
Follows(h, g, s) ==
    /\ Len(g) \in Nat /\ Len(s) \in Nat /\ Len(h) = Len(g) + Len(s)
    /\ \A i \in 1..Len(g) : h[i] = g[i]
    /\ \A k \in 1..Len(s) : h[Len(g) + k] = s[k]

LEMMA ConcatFollows ==
    ASSUME NEW A, NEW s \in Seq(A), NEW t \in Seq(A)
    PROVE  Follows(s \o t, s, t)
<1>1. /\ Len(s \o t) = Len(s) + Len(t)
      /\ \A i \in 1..(Len(s) + Len(t)) : (s \o t)[i] = IF i <= Len(s) THEN s[i] ELSE t[i - Len(s)]
    BY ConcatProperties
<1>2. Len(s) \in Nat /\ Len(t) \in Nat
    BY LenProperties
<1>3. ASSUME NEW i \in 1..Len(s) PROVE (s \o t)[i] = s[i]
    BY <1>1, <1>2
<1>4. ASSUME NEW k \in 1..Len(t) PROVE (s \o t)[Len(s) + k] = t[k]
    <2>1. Len(s) + k \in 1..(Len(s) + Len(t)) /\ ~(Len(s) + k <= Len(s)) /\ (Len(s) + k) - Len(s) = k
        BY <1>2
    <2> QED BY <1>1, <2>1
<1> QED BY <1>1, <1>2, <1>3, <1>4 DEF Follows

\* What has been read depends on the lines read only.
LEMMA LoadingAgrees ==
    ASSUME NEW name, NEW f, NEW h, Len(f) \in Nat, Len(h) \in Nat, Len(f) <= Len(h),
           \A i \in 1..Len(f) : h[i] = f[i]
    PROVE  Loading(name, h)[Len(f)] = Loading(name, f)[Len(f)]
<1> DEFINE S == {n \in Nat : n <= Len(f) => Loading(name, h)[n] = Loading(name, f)[n]}
<1>a. /\ Loading(name, f)[0] = NoProfile
      /\ \A n \in 1..Len(f) : Loading(name, f)[n] = ReadLine(name, Loading(name, f)[n - 1], f[n])
    BY LoadingIs
<1>b. /\ Loading(name, h)[0] = NoProfile
      /\ \A n \in 1..Len(h) : Loading(name, h)[n] = ReadLine(name, Loading(name, h)[n - 1], h[n])
    BY LoadingIs
<1>1. 0 \in S
    BY <1>a, <1>b
<1>2. ASSUME NEW n \in Nat, n \in S PROVE n + 1 \in S
    <2>1. ASSUME n + 1 <= Len(f) PROVE Loading(name, h)[n + 1] = Loading(name, f)[n + 1]
        <3>1. n + 1 \in 1..Len(f) /\ n + 1 \in 1..Len(h) /\ (n + 1) - 1 = n /\ n <= Len(f)
            BY <2>1
        <3>2. Loading(name, h)[n] = Loading(name, f)[n] /\ h[n + 1] = f[n + 1]
            BY <1>2, <3>1
        <3> QED BY <1>a, <1>b, <3>1, <3>2
    <2>2. n + 1 \in Nat
        OBVIOUS
    <2> QED BY <2>1, <2>2
<1>3. Nat \subseteq S
    <2> HIDE DEF S
    <2> QED BY <1>1, <1>2, SetInduction
<1>4. Len(f) \in S
    <2> HIDE DEF S
    <2> QED BY <1>3
<1> QED BY <1>4

IsProfile(p) ==
    p = [in_section |-> p.in_section, host |-> p.host, port |-> p.port, token |-> p.token]

LEMMA ReadLineShape ==
    ASSUME NEW name, NEW p, NEW l, IsProfile(p)
    PROVE  IsProfile(ReadLine(name, p, l))
<1>1. p = [in_section |-> p.in_section, host |-> p.host, port |-> p.port, token |-> p.token]
    BY DEF IsProfile
<1>2. CASE l.key = "["
    <2>1. ReadLine(name, p, l) = [in_section |-> (l.value = name), host |-> p.host,
                                  port |-> p.port, token |-> p.token]
        BY <1>1, <1>2 DEF ReadLine
    <2> QED BY <2>1 DEF IsProfile
<1>3. CASE l.key # "[" /\ p.in_section /\ l.key \in {"host", "port", "token"}
    <2>1. ReadLine(name, p, l) = [p EXCEPT ![l.key] = l.value]
        BY <1>3 DEF ReadLine
    <2>2. CASE l.key = "host"
        <3>1. ReadLine(name, p, l) = [in_section |-> p.in_section, host |-> l.value,
                                      port |-> p.port, token |-> p.token]
            BY <1>1, <2>1, <2>2
        <3> QED BY <3>1 DEF IsProfile
    <2>3. CASE l.key = "port"
        <3>1. ReadLine(name, p, l) = [in_section |-> p.in_section, host |-> p.host,
                                      port |-> l.value, token |-> p.token]
            BY <1>1, <2>1, <2>3
        <3> QED BY <3>1 DEF IsProfile
    <2>4. CASE l.key = "token"
        <3>1. ReadLine(name, p, l) = [in_section |-> p.in_section, host |-> p.host,
                                      port |-> p.port, token |-> l.value]
            BY <1>1, <2>1, <2>4
        <3> QED BY <3>1 DEF IsProfile
    <2> QED BY <1>3, <2>2, <2>3, <2>4
<1>4. CASE l.key # "[" /\ ~(p.in_section /\ l.key \in {"host", "port", "token"})
    <2>1. ReadLine(name, p, l) = p
        BY <1>4 DEF ReadLine
    <2> QED BY <2>1
<1> QED BY <1>2, <1>3, <1>4

LEMMA LoadingShape ==
    ASSUME NEW name, NEW f, Len(f) \in Nat
    PROVE  IsProfile(Loading(name, f)[Len(f)])
<1> DEFINE S == {n \in Nat : n <= Len(f) => IsProfile(Loading(name, f)[n])}
<1>a. /\ Loading(name, f)[0] = NoProfile
      /\ \A n \in 1..Len(f) : Loading(name, f)[n] = ReadLine(name, Loading(name, f)[n - 1], f[n])
    BY LoadingIs
<1>1. 0 \in S
    BY <1>a DEF IsProfile, NoProfile
<1>2. ASSUME NEW n \in Nat, n \in S PROVE n + 1 \in S
    <2>1. ASSUME n + 1 <= Len(f) PROVE IsProfile(Loading(name, f)[n + 1])
        <3>1. n + 1 \in 1..Len(f) /\ (n + 1) - 1 = n /\ n <= Len(f)
            BY <2>1
        <3>2. IsProfile(Loading(name, f)[n])
            BY <1>2, <3>1
        <3>3. Loading(name, f)[n + 1] = ReadLine(name, Loading(name, f)[n], f[n + 1])
            BY <1>a, <3>1
        <3> QED BY <3>2, <3>3, ReadLineShape
    <2>2. n + 1 \in Nat
        OBVIOUS
    <2> QED BY <2>1, <2>2
<1>3. Nat \subseteq S
    <2> HIDE DEF S
    <2> QED BY <1>1, <1>2, SetInduction
<1>4. Len(f) \in S
    <2> HIDE DEF S
    <2> QED BY <1>3
<1> QED BY <1>4

\* The four lines of a section.
Lines4(d) == <<[key |-> "[", value |-> d.instance], [key |-> "host", value |-> d.ip],
               [key |-> "port", value |-> d.port], [key |-> "token", value |-> TokenOf[d.instance]]>>

\* A sequence with one more element.
LEMMA ConcatOne ==
    ASSUME NEW T, NEW s \in Seq(T), NEW x \in T, NEW t \in Seq(T), Len(t) = Len(s) + 1,
           \A i \in 1..Len(s) : t[i] = s[i], t[Len(s) + 1] = x
    PROVE  s \o <<x>> = t
<1>1. Append(s, x) = s \o <<x>>
    BY AppendIsConcat
<1> DEFINE u == Append(s, x)
<1>2. /\ u \in Seq(T) /\ Len(u) = Len(s) + 1 /\ u[Len(s) + 1] = x
      /\ \A i \in 1..Len(s) : u[i] = s[i]
    BY AppendProperties
<1> HIDE DEF u
<1>3. Len(s) \in Nat
    BY LenProperties
<1>4. \A i \in 1..Len(u) : u[i] = t[i]
    BY <1>2, <1>3
<1>5. u = t
    BY <1>2, <1>4, SeqEqual
<1> QED BY <1>1, <1>5 DEF u

\* Four of them, and nothing between them.
LEMMA FourInARow ==
    ASSUME NEW a, NEW b, NEW c, NEW e
    PROVE  <<a>> \o <<b>> \o <<>> \o <<c>> \o <<>> \o <<e>> = <<a, b, c, e>>
<1> DEFINE T == {a, b, c, e}
<1>1. a \in T /\ b \in T /\ c \in T /\ e \in T
    OBVIOUS
<1>2. /\ <<a>> \in Seq(T) /\ <<a, b>> \in Seq(T)
      /\ <<a, b, c>> \in Seq(T) /\ <<a, b, c, e>> \in Seq(T)
    OBVIOUS
<1> HIDE DEF T
<1>3. <<a>> \o <<b>> = <<a, b>>
    <2> DEFINE s == <<a>>
               t == <<a, b>>
    <2>1. Len(s) = 1 /\ Len(t) = 2 /\ t[2] = b /\ t[1] = s[1]
        OBVIOUS
    <2>2. s \in Seq(T) /\ t \in Seq(T)
        BY <1>2
    <2> HIDE DEF s, t
    <2>3. Len(t) = Len(s) + 1 /\ t[Len(s) + 1] = b /\ \A i \in 1..Len(s) : t[i] = s[i]
        BY <2>1
    <2>4. s \o <<b>> = t
        BY <1>1, <2>2, <2>3, ConcatOne
    <2> QED BY <2>4 DEF s, t
<1>4. <<a, b>> \o <<c>> = <<a, b, c>>
    <2> DEFINE s == <<a, b>>
               t == <<a, b, c>>
    <2>1. Len(s) = 2 /\ Len(t) = 3 /\ t[3] = c /\ t[1] = s[1] /\ t[2] = s[2]
        OBVIOUS
    <2>2. s \in Seq(T) /\ t \in Seq(T)
        BY <1>2
    <2> HIDE DEF s, t
    <2>3. Len(t) = Len(s) + 1 /\ t[Len(s) + 1] = c /\ \A i \in 1..Len(s) : t[i] = s[i]
        BY <2>1
    <2>4. s \o <<c>> = t
        BY <1>1, <2>2, <2>3, ConcatOne
    <2> QED BY <2>4 DEF s, t
<1>5. <<a, b, c>> \o <<e>> = <<a, b, c, e>>
    <2> DEFINE s == <<a, b, c>>
               t == <<a, b, c, e>>
    <2>1. Len(s) = 3 /\ Len(t) = 4 /\ t[4] = e /\ t[1] = s[1] /\ t[2] = s[2] /\ t[3] = s[3]
        OBVIOUS
    <2>2. s \in Seq(T) /\ t \in Seq(T)
        BY <1>2
    <2> HIDE DEF s, t
    <2>3. Len(t) = Len(s) + 1 /\ t[Len(s) + 1] = e /\ \A i \in 1..Len(s) : t[i] = s[i]
        BY <2>1
    <2>4. s \o <<e>> = t
        BY <1>1, <2>2, <2>3, ConcatOne
    <2> QED BY <2>4 DEF s, t
<1>6. <<a, b>> \o <<>> = <<a, b>> /\ <<a, b, c>> \o <<>> = <<a, b, c>>
    BY <1>2, ConcatEmptySeq
<1> QED BY <1>3, <1>4, <1>5, <1>6, Zenon

\* The section of a device whose texts break no line has these.
LEMMA PlainSection ==
    ASSUME NEW d, Plain(d)
    PROVE  Section(d) = Lines4(d)
<1>1. /\ Heading(d.instance) = <<[key |-> "[", value |-> d.instance]>>
      /\ Started(d.hostname) = <<>> /\ Started(d.txt) = <<>>
    BY DEF Plain, Heading, Started
<1> DEFINE a == [key |-> "[", value |-> d.instance]
           b == [key |-> "host", value |-> d.ip]
           c == [key |-> "port", value |-> d.port]
           e == [key |-> "token", value |-> TokenOf[d.instance]]
<1>2. Section(d) = <<a>> \o <<b>> \o <<>> \o <<c>> \o <<>> \o <<e>> /\ Lines4(d) = <<a, b, c, e>>
    BY <1>1, Zenon DEF Section, Lines4
<1> HIDE DEF a, b, c, e
<1>3. <<a>> \o <<b>> \o <<>> \o <<c>> \o <<>> \o <<e>> = <<a, b, c, e>>
    BY FourInARow
<1> QED BY <1>2, <1>3, Zenon

\* Whatever a device says, its section is a sequence of lines.
LEMMA SectionType ==
    ASSUME NEW T, OldLines \subseteq T, NEW d, \A k \in 1..4 : Lines4(d)[k] \in T
    PROVE  Section(d) \in Seq(T)
<1>1. ASSUME NEW text PROVE Started(text) \in Seq(T)
    <2>1. CASE text \in DOMAIN Breaks
        <3>1. Breaks[text] \in Seq(OldLines)
            BY <2>1, DiscoveryAssumption
        <3>2. Breaks[text] \in Seq(T)
            BY <3>1, LenProperties
        <3> QED BY <2>1, <3>2 DEF Started
    <2>2. CASE text \notin DOMAIN Breaks
        BY <2>2 DEF Started
    <2> QED BY <2>1, <2>2
<1>2. /\ [key |-> "[", value |-> d.instance] \in T /\ [key |-> "host", value |-> d.ip] \in T
      /\ [key |-> "port", value |-> d.port] \in T
      /\ [key |-> "token", value |-> TokenOf[d.instance]] \in T
    <2>1. Lines4(d)[1] \in T /\ Lines4(d)[2] \in T /\ Lines4(d)[3] \in T /\ Lines4(d)[4] \in T
        OBVIOUS
    <2> QED BY <2>1 DEF Lines4
<1>3. Heading(d.instance) \in Seq(T)
    <2>1. CASE d.instance \in DOMAIN Breaks
        BY <1>1, <2>1 DEF Heading, Started
    <2>2. CASE d.instance \notin DOMAIN Breaks
        BY <1>2, <2>2 DEF Heading
    <2> QED BY <2>1, <2>2
<1> DEFINE a == Heading(d.instance)
           b == <<[key |-> "host", value |-> d.ip]>>
           c == Started(d.hostname)
           e == <<[key |-> "port", value |-> d.port]>>
           f == Started(d.txt)
           g == <<[key |-> "token", value |-> TokenOf[d.instance]]>>
<1>4. a \in Seq(T) /\ b \in Seq(T) /\ c \in Seq(T) /\ e \in Seq(T) /\ f \in Seq(T) /\ g \in Seq(T)
    BY <1>1, <1>2, <1>3
<1>5. Section(d) = a \o b \o c \o e \o f \o g
    BY DEF Section
<1> HIDE DEF a, b, c, e, f, g
<1>6. a \o b \in Seq(T)
    BY <1>4, ConcatProperties
<1>7. a \o b \o c \in Seq(T)
    BY <1>4, <1>6, ConcatProperties
<1>8. a \o b \o c \o e \in Seq(T)
    BY <1>4, <1>7, ConcatProperties
<1>9. a \o b \o c \o e \o f \in Seq(T)
    BY <1>4, <1>8, ConcatProperties
<1>10. a \o b \o c \o e \o f \o g \in Seq(T)
    BY <1>4, <1>9, ConcatProperties
<1> QED BY <1>5, <1>10

\* A plain section that follows a file gives its own name its own values, and leaves
\* those of every other name.
LEMMA SectionRead ==
    ASSUME NEW name, NEW d, Plain(d), NEW f, NEW h, Follows(h, f, Section(d))
    PROVE  LET p == Loading(name, f)[Len(f)] IN
           Loading(name, h)[Len(h)] =
               IF d.instance = name
               THEN [in_section |-> TRUE, host |-> d.ip, port |-> d.port, token |-> TokenOf[d.instance]]
               ELSE [in_section |-> FALSE, host |-> p.host, port |-> p.port, token |-> p.token]
<1> DEFINE m == Len(f)
           p == Loading(name, f)[Len(f)]
           q(k) == Loading(name, h)[m + k]
           here == (d.instance = name)
<1>b. Section(d) = Lines4(d)
    BY PlainSection
<1>a. Len(Section(d)) = 4
    BY <1>b DEF Lines4
<1>0. m \in Nat /\ Len(h) \in Nat /\ Len(h) = m + 4
    BY <1>a DEF Follows
<1>1. \A n \in 1..Len(h) : Loading(name, h)[n] = ReadLine(name, Loading(name, h)[n - 1], h[n])
    BY <1>0, LoadingIs
<1>2. Loading(name, h)[m] = p
    BY <1>0, LoadingAgrees DEF Follows
<1>3. p = [in_section |-> p.in_section, host |-> p.host, port |-> p.port, token |-> p.token]
    BY <1>0, LoadingShape DEF IsProfile
<1>4. /\ h[m + 1] = [key |-> "[", value |-> d.instance] /\ h[m + 2] = [key |-> "host", value |-> d.ip]
      /\ h[m + 3] = [key |-> "port", value |-> d.port]
      /\ h[m + 4] = [key |-> "token", value |-> TokenOf[d.instance]]
    <2>1. \A k \in 1..4 : h[m + k] = Section(d)[k]
        BY <1>a DEF Follows
    <2> HIDE DEF m
    <2> QED BY <1>b, <2>1 DEF Lines4
<1> HIDE DEF p, m
<1>5. /\ Loading(name, h)[m + 1] = ReadLine(name, p, h[m + 1])
      /\ Loading(name, h)[m + 2] = ReadLine(name, Loading(name, h)[m + 1], h[m + 2])
      /\ Loading(name, h)[m + 3] = ReadLine(name, Loading(name, h)[m + 2], h[m + 3])
      /\ Loading(name, h)[m + 4] = ReadLine(name, Loading(name, h)[m + 3], h[m + 4])
    <2>1. /\ m + 1 \in 1..Len(h) /\ (m + 1) - 1 = m /\ m + 2 \in 1..Len(h) /\ (m + 2) - 1 = m + 1
          /\ m + 3 \in 1..Len(h) /\ (m + 3) - 1 = m + 2 /\ m + 4 \in 1..Len(h) /\ (m + 4) - 1 = m + 3
        BY <1>0
    <2> QED BY <1>1, <1>2, <2>1
<1>6. Loading(name, h)[m + 1] =
          [in_section |-> here, host |-> p.host, port |-> p.port, token |-> p.token]
    BY <1>3, <1>4, <1>5 DEF ReadLine
<1>7. CASE here
    <2>0. here = TRUE
        BY <1>7
    <2> HIDE DEF here
    <2>1. Loading(name, h)[m + 2] =
              [in_section |-> TRUE, host |-> d.ip, port |-> p.port, token |-> p.token]
        <3> DEFINE a == Loading(name, h)[m + 1]
                   l == h[m + 2]
        <3>1. a = [in_section |-> TRUE, host |-> p.host, port |-> p.port, token |-> p.token]
            BY <1>6, <2>0
        <3>2. a.in_section /\ l.key = "host" /\ l.value = d.ip
            BY <1>4, <3>1
        <3> HIDE DEF a, l
        <3>3. ReadLine(name, a, l) = [a EXCEPT !["host"] = d.ip]
            BY <3>2 DEF ReadLine
        <3>4. Loading(name, h)[m + 2] = [a EXCEPT !["host"] = d.ip]
            BY <1>5, <3>3 DEF a, l
        <3> QED BY <3>1, <3>4
    <2>2. Loading(name, h)[m + 3] =
              [in_section |-> TRUE, host |-> d.ip, port |-> d.port, token |-> p.token]
        <3> DEFINE a == Loading(name, h)[m + 2]
                   l == h[m + 3]
        <3>1. a = [in_section |-> TRUE, host |-> d.ip, port |-> p.port, token |-> p.token]
            BY <2>1
        <3>2. a.in_section /\ l.key = "port" /\ l.value = d.port
            BY <1>4, <3>1
        <3> HIDE DEF a, l
        <3>3. ReadLine(name, a, l) = [a EXCEPT !["port"] = d.port]
            BY <3>2 DEF ReadLine
        <3>4. Loading(name, h)[m + 3] = [a EXCEPT !["port"] = d.port]
            BY <1>5, <3>3 DEF a, l
        <3> QED BY <3>1, <3>4
    <2>3. Loading(name, h)[m + 4] =
              [in_section |-> TRUE, host |-> d.ip, port |-> d.port, token |-> TokenOf[d.instance]]
        <3> DEFINE a == Loading(name, h)[m + 3]
                   l == h[m + 4]
        <3>1. a = [in_section |-> TRUE, host |-> d.ip, port |-> d.port, token |-> p.token]
            BY <2>2
        <3>2. a.in_section /\ l.key = "token" /\ l.value = TokenOf[d.instance]
            BY <1>4, <3>1
        <3> HIDE DEF a, l
        <3>3. ReadLine(name, a, l) = [a EXCEPT !["token"] = TokenOf[d.instance]]
            BY <3>2 DEF ReadLine
        <3>4. Loading(name, h)[m + 4] = [a EXCEPT !["token"] = TokenOf[d.instance]]
            BY <1>5, <3>3 DEF a, l
        <3> QED BY <3>1, <3>4
    <2> QED BY <1>0, <1>7, <2>3 DEF here
<1>8. CASE ~here
    <2>0. here = FALSE
        BY <1>8
    <2> HIDE DEF here
    <2>1. Loading(name, h)[m + 2] = Loading(name, h)[m + 1]
        BY <1>4, <1>5, <1>6, <2>0 DEF ReadLine
    <2>2. Loading(name, h)[m + 3] = Loading(name, h)[m + 1]
        BY <1>4, <1>5, <1>6, <2>0, <2>1 DEF ReadLine
    <2>3. Loading(name, h)[m + 4] = Loading(name, h)[m + 1]
        BY <1>4, <1>5, <1>6, <2>0, <2>2 DEF ReadLine
    <2> QED BY <1>0, <1>6, <1>8, <2>0, <2>3 DEF here, p
<1> QED BY <1>7, <1>8

\* However many sections follow the old file, a name has its values when its
\* section and those after it are plain.
LEMMA SectionsLoad ==
    ASSUME NEW old \in Seq(OldLines), NEW ds, Len(ds) \in Nat,
           \A i, j \in 1..Len(ds) : ds[i].instance = ds[j].instance => i = j
    PROVE  LET f == old \o Printing(ds)[Len(ds)] IN
           /\ Len(f) \in Nat
           /\ \A i \in 1..Len(ds) :
                 (\A j \in i..Len(ds) : Plain(ds[j])) =>
                     LET p == Loading(ds[i].instance, f)[Len(f)] IN
                     p.host = ds[i].ip /\ p.port = ds[i].port /\ p.token = TokenOf[ds[i].instance]
<1> DEFINE Texts == OldLines \cup UNION {{Lines4(ds[i])[k] : k \in 1..4} : i \in 1..Len(ds)}
           f(n) == old \o Printing(ds)[n]
           Loads(n, i) == LET p == Loading(ds[i].instance, f(n))[Len(f(n))] IN
                          p.host = ds[i].ip /\ p.port = ds[i].port /\ p.token = TokenOf[ds[i].instance]
           Ends(n, i) == \A j \in i..n : Plain(ds[j])
           Good(n) == Printing(ds)[n] \in Seq(Texts) /\ \A i \in 1..n : Ends(n, i) => Loads(n, i)
           S == {n \in Nat : n <= Len(ds) => Good(n)}
<1>a. /\ Printing(ds)[0] = <<>>
      /\ \A n \in 1..Len(ds) : Printing(ds)[n] = Printing(ds)[n - 1] \o Section(ds[n])
    BY PrintingIs
<1>b. old \in Seq(Texts)
    BY LenProperties
<1>c. \A i \in 1..Len(ds) : Section(ds[i]) \in Seq(Texts)
    <2> SUFFICES ASSUME NEW i \in 1..Len(ds) PROVE Section(ds[i]) \in Seq(Texts)
        OBVIOUS
    <2>1. OldLines \subseteq Texts /\ \A k \in 1..4 : Lines4(ds[i])[k] \in Texts
        OBVIOUS
    <2> HIDE DEF Texts
    <2> QED BY <2>1, SectionType
<1> HIDE DEF Texts
<1>1. 0 \in S
    <2>1. Printing(ds)[0] \in Seq(Texts)
        BY <1>a
    <2>2. \A i \in 1..0 : Ends(0, i) => Loads(0, i)
        OBVIOUS
    <2> HIDE DEF Loads, Ends
    <2> QED BY <2>1, <2>2
<1>2. ASSUME NEW n \in Nat, n \in S PROVE n + 1 \in S
    <2>1. ASSUME n + 1 <= Len(ds) PROVE Good(n + 1)
        <3> DEFINE d == ds[n + 1]
                   t == Printing(ds)[n]
                   u == Printing(ds)[n + 1]
        <3>1. n + 1 \in 1..Len(ds) /\ (n + 1) - 1 = n /\ n <= Len(ds)
            BY <2>1
        <3>2. t \in Seq(Texts) /\ \A i \in 1..n : Ends(n, i) => Loads(n, i)
            <4> HIDE DEF Loads, Ends
            <4> QED BY <1>2, <3>1
        <3>3. u = t \o Section(d) /\ Section(d) \in Seq(Texts)
            BY <1>a, <1>c, <3>1
        <3> HIDE DEF t, u
        <3> DEFINE g == old \o t
                   h == old \o u
                   s == Section(d)
        <3>4. u = t \o s /\ s \in Seq(Texts)
            BY <3>3
        <3> HIDE DEF s, d
        <3>5. u \in Seq(Texts)
            BY <3>2, <3>4, ConcatProperties
        <3>6. Follows(h, g, s)
            <4>1. g \in Seq(Texts)
                BY <1>b, <3>2, ConcatProperties
            <4>2. h = g \o s
                <5>1. (old \o t) \o s = old \o (t \o s)
                    BY <1>b, <3>2, <3>4, ConcatAssociative, Z3
                <5> QED BY <3>4, <5>1
            <4> HIDE DEF g, h
            <4>3. Follows(g \o s, g, s)
                BY <3>4, <4>1, ConcatFollows
            <4> QED BY <4>2, <4>3
        <3> HIDE DEF g, h
        <3>9. ASSUME NEW name, Plain(d)
              PROVE  LET p == Loading(name, g)[Len(g)] IN
                     Loading(name, h)[Len(h)] =
                        IF d.instance = name
                        THEN [in_section |-> TRUE, host |-> d.ip, port |-> d.port,
                              token |-> TokenOf[d.instance]]
                        ELSE [in_section |-> FALSE, host |-> p.host, port |-> p.port, token |-> p.token]
            BY <3>6, <3>9, SectionRead DEF s
        <3>10. ASSUME NEW i \in 1..(n + 1), Ends(n + 1, i) PROVE Loads(n + 1, i)
            <4> DEFINE p == Loading(ds[i].instance, g)[Len(g)]
                       q == Loading(ds[i].instance, h)[Len(h)]
            <4>0. Plain(d) /\ Ends(n, i)
                <5>1. n + 1 \in i..(n + 1) /\ \A j \in i..n : j \in i..(n + 1)
                    OBVIOUS
                <5> QED BY <3>10, <5>1 DEF d
            <4> HIDE DEF Ends
            <4>1. q = IF d.instance = ds[i].instance
                      THEN [in_section |-> TRUE, host |-> d.ip, port |-> d.port,
                            token |-> TokenOf[d.instance]]
                      ELSE [in_section |-> FALSE, host |-> p.host, port |-> p.port, token |-> p.token]
                BY <3>9, <4>0
            <4>2. CASE i = n + 1
                <5>1. q.host = ds[i].ip /\ q.port = ds[i].port /\ q.token = TokenOf[ds[i].instance]
                    <6> HIDE DEF q, p
                    <6> QED BY <4>1, <4>2 DEF d
                <5> QED BY <5>1 DEF u, h
            <4>3. CASE i # n + 1
                <5>1. i \in 1..n /\ d.instance # ds[i].instance
                    BY <3>1, <4>3 DEF d
                <5>2. p.host = ds[i].ip /\ p.port = ds[i].port /\ p.token = TokenOf[ds[i].instance]
                    BY <3>2, <4>0, <5>1 DEF t, g
                <5>3. q.host = ds[i].ip /\ q.port = ds[i].port /\ q.token = TokenOf[ds[i].instance]
                    <6> HIDE DEF q, p
                    <6> QED BY <4>1, <5>1, <5>2
                <5> QED BY <5>3 DEF u, h
            <4> QED BY <4>2, <4>3
        <3> HIDE DEF Loads, Ends
        <3> QED BY <3>5, <3>10 DEF u
    <2>2. n + 1 \in Nat
        OBVIOUS
    <2> HIDE DEF Good
    <2> QED BY <2>1, <2>2
<1>3. Nat \subseteq S
    <2> HIDE DEF S
    <2> QED BY <1>1, <1>2, SetInduction
<1>4. Good(Len(ds))
    <2>1. Len(ds) \in S
        <3> HIDE DEF S
        <3> QED BY <1>3
    <2> HIDE DEF Good
    <2> QED BY <2>1
<1>5. Len(f(Len(ds))) \in Nat
    <2>1. f(Len(ds)) \in Seq(Texts)
        BY <1>b, <1>4, ConcatProperties
    <2> HIDE DEF f
    <2> QED BY <2>1, LenProperties
<1> QED BY <1>4, <1>5

-----------------------------------------------------------------------------
(* Discovery: what is listed.                                              *)

\* What was listed is what the answers say, one device per name, and the file is
\* an older one, with their sections after it once they are pasted.
DiscoveryInv ==
    /\ DiscoveryTypeOK
    /\ devs \in Seq({Device(pkt) : pkt \in Answers}) /\ firsts \in Seq(Answers)
    /\ \A i \in 1..Len(devs) : devs[i] = Device(firsts[i]) /\ devs[i].instance # Missing
    /\ \A i, j \in 1..Len(devs) : devs[i].instance = devs[j].instance => i = j
    /\ window # "pasted" => file \in Existing
    /\ window = "pasted" => \E old \in Existing : file = old \o Printed

LEMMA DiscoveryBounds ==
    MAX_DEVICES \in Nat /\ MaxAnswers \in Nat /\ Existing \subseteq Seq(OldLines)
BY DiscoveryAssumption

LEMMA DiscoveryInitial == DiscoveryInit => DiscoveryInv
BY DiscoveryBounds DEF DiscoveryInit, DiscoveryInv, DiscoveryTypeOK

LEMMA HearStep ==
    ASSUME DiscoveryInv, NEW pkt \in Answers, Hear(pkt)
    PROVE  DiscoveryInv'
<1> DEFINE d == Device(pkt)
           D == {Device(p) : p \in Answers}
<1>0. /\ window = "open" /\ UNCHANGED <<window, file, private>>
      /\ received' = received + 1 /\ received < MaxAnswers
    BY DEF Hear
<1>1. /\ devs \in Seq(D) /\ firsts \in Seq(Answers) /\ Len(devs) \in Nat /\ Len(firsts) = Len(devs)
      /\ Len(devs) <= MAX_DEVICES /\ received \in 0..MaxAnswers /\ private \in BOOLEAN
      /\ MAX_DEVICES \in Nat /\ MaxAnswers \in Nat /\ file \in Existing
    BY <1>0, LenProperties, DiscoveryBounds DEF DiscoveryInv, DiscoveryTypeOK
<1>2. d \in D
    OBVIOUS
<1>3. received' \in 0..MaxAnswers
    BY <1>0, <1>1
<1>4. CASE UNCHANGED <<devs, firsts>>
    <2>1. DiscoveryTypeOK'
        BY <1>0, <1>1, <1>3, <1>4 DEF DiscoveryTypeOK
    <2> QED BY <1>0, <1>4, <2>1 DEF DiscoveryInv
<1>5. CASE /\ ~(d.instance = Missing \/ Dup(d) \/ Len(devs) = MAX_DEVICES)
           /\ devs' = Append(devs, d) /\ firsts' = Append(firsts, pkt)
    <2> HIDE DEF d, D
    <2> DEFINE n == Len(devs) + 1
    <2>1. /\ devs' \in Seq(D) /\ Len(devs') = n
          /\ devs'[n] = d /\ \A i \in 1..Len(devs) : devs'[i] = devs[i]
        BY <1>1, <1>2, <1>5, AppendProperties
    <2>2. /\ firsts' \in Seq(Answers) /\ Len(firsts') = n
          /\ firsts'[n] = pkt /\ \A i \in 1..Len(devs) : firsts'[i] = firsts[i]
        BY <1>1, <1>5, AppendProperties
    <2>3. n \in Nat /\ n <= MAX_DEVICES /\ \A i \in 1..n : i = n \/ i \in 1..Len(devs)
        BY <1>1, <1>5
    <2>4. DiscoveryTypeOK'
        BY <1>0, <1>1, <1>3, <2>1, <2>2, <2>3 DEF DiscoveryTypeOK
    <2>5. \A i \in 1..Len(devs) : devs[i] = Device(firsts[i]) /\ devs[i].instance # Missing
        BY DEF DiscoveryInv
    <2>6. ASSUME NEW i \in 1..Len(devs') PROVE devs'[i] = Device(firsts'[i]) /\ devs'[i].instance # Missing
        <3>1. CASE i = n
            <4>1. devs'[i] = d /\ firsts'[i] = pkt
                BY <2>1, <2>2, <3>1
            <4>2. d.instance # Missing
                BY <1>5
            <4> QED BY <4>1, <4>2 DEF d
        <3>2. CASE i \in 1..Len(devs)
            <4>1. devs'[i] = devs[i] /\ firsts'[i] = firsts[i]
                BY <2>1, <2>2, <3>2
            <4> QED BY <2>5, <3>2, <4>1
        <3> QED BY <2>1, <2>3, <3>1, <3>2
    <2>7. \A i \in 1..Len(devs) : devs[i].instance # d.instance
        BY <1>5 DEF Dup
    <2>8. ASSUME NEW i \in 1..Len(devs'), NEW j \in 1..Len(devs'), devs'[i].instance = devs'[j].instance
          PROVE  i = j
        <3>1. \A a, b \in 1..Len(devs) : devs[a].instance = devs[b].instance => a = b
            BY DEF DiscoveryInv
        <3>2. (i = n \/ i \in 1..Len(devs)) /\ (j = n \/ j \in 1..Len(devs))
            BY <2>1, <2>3
        <3> HIDE DEF n
        <3> QED BY <2>1, <2>7, <2>8, <3>1, <3>2
    <2>9. window' = window /\ file' = file
        BY <1>0
    <2> QED BY <1>0, <1>1, <2>1, <2>2, <2>4, <2>6, <2>8, <2>9 DEF DiscoveryInv, D
<1> QED BY <1>4, <1>5 DEF Hear

LEMMA DiscoveryStep == DiscoveryInv /\ [DiscoveryNext]_discoveryVars => DiscoveryInv'
<1> SUFFICES ASSUME DiscoveryInv, [DiscoveryNext]_discoveryVars PROVE DiscoveryInv'
    OBVIOUS
<1>1. CASE \E pkt \in Answers : Hear(pkt)
    BY <1>1, HearStep
<1>2. CASE Deadline
    BY <1>2 DEF Deadline, DiscoveryInv, DiscoveryTypeOK
<1>3. CASE Paste
    <2>1. Printed' = Printed
        BY <1>3 DEF Paste, Printed
    <2>2. file \in Existing /\ file' = file \o Printed' /\ window' = "pasted"
        BY <1>3, <2>1 DEF Paste, DiscoveryInv
    <2>3. UNCHANGED <<devs, firsts, received, private>>
        BY <1>3 DEF Paste
    <2>4. DiscoveryTypeOK'
        BY <2>2, <2>3 DEF DiscoveryInv, DiscoveryTypeOK
    <2> QED BY <2>2, <2>3, <2>4 DEF DiscoveryInv
<1>4. CASE Chmod \/ UNCHANGED discoveryVars
    <2>1. UNCHANGED <<window, devs, firsts, received, file>> /\ private' \in BOOLEAN
        BY <1>4 DEF Chmod, discoveryVars, DiscoveryInv, DiscoveryTypeOK
    <2>2. Printed' = Printed
        BY <2>1 DEF Printed
    <2>3. DiscoveryTypeOK'
        BY <2>1 DEF DiscoveryInv, DiscoveryTypeOK
    <2> QED BY <2>1, <2>2, <2>3 DEF DiscoveryInv
<1> QED BY <1>1, <1>2, <1>3, <1>4 DEF DiscoveryNext

\* The inductive invariant of a discovery (discover.c 203-233).
THEOREM DiscoveryInvariance == DiscoverySpec => []DiscoveryInv
BY DiscoveryInitial, DiscoveryStep, PTL DEF DiscoverySpec

\* No more devices are listed than there is room for (discover.c 183-184, 216).
THEOREM DiscoveryTypeCorrect == DiscoverySpec => []DiscoveryTypeOK
<1>1. DiscoveryInv => DiscoveryTypeOK
    BY DEF DiscoveryInv
<1> QED BY <1>1, DiscoveryInvariance, PTL

\* Whatever was heard, in whatever order and however often, and whatever the file
\* held, a device that was listed is loaded under its name with the address and
\* port of the answer it was listed for, unless its own text or that of a device
\* listed after it holds a newline (discover.c 148-155, 211-218, 225-233, profile.c
\* 63-112).
THEOREM ListedDevicesLoad == DiscoverySpec => []ListedCanBeLoaded
<1>1. DiscoveryInv => ListedCanBeLoaded
    <2> SUFFICES ASSUME DiscoveryInv, window = "pasted", private, NEW i \in 1..Len(devs),
                        \A j \in i..Len(devs) : Plain(devs[j])
                 PROVE  profile_load(devs[i].instance) =
                            [host |-> Address(firsts[i]), port |-> Port(firsts[i]),
                             token |-> TokenOf[devs[i].instance]]
        BY DEF ListedCanBeLoaded
    <2>1. PICK old \in Existing : file = old \o Printed
        BY DEF DiscoveryInv
    <2>2. old \in Seq(OldLines) /\ Len(devs) \in Nat
        BY DiscoveryBounds, LenProperties DEF DiscoveryInv
    <2>3. \A a, b \in 1..Len(devs) : devs[a].instance = devs[b].instance => a = b
        BY DEF DiscoveryInv
    <2> DEFINE p == Loading(devs[i].instance, file)[Len(file)]
    <2>4. p.host = devs[i].ip /\ p.port = devs[i].port /\ p.token = TokenOf[devs[i].instance]
        <3>1. file = old \o Printing(devs)[Len(devs)]
            BY <2>1 DEF Printed
        <3> DEFINE f == old \o Printing(devs)[Len(devs)]
                   q(j) == Loading(devs[j].instance, f)[Len(f)]
        <3>2. \A j \in 1..Len(devs) :
                 (\A k \in j..Len(devs) : Plain(devs[k])) =>
                     /\ q(j).host = devs[j].ip /\ q(j).port = devs[j].port
                     /\ q(j).token = TokenOf[devs[j].instance]
            <4> HIDE DEF p
            <4> QED BY <2>2, <2>3, SectionsLoad
        <3>3. p = q(i)
            BY <3>1
        <3> HIDE DEF p, q, f
        <3> QED BY <3>2, <3>3
    <2>5. firsts[i] \in Answers /\ devs[i] = Device(firsts[i]) /\ devs[i].instance # Missing
        <3>1. i \in 1..Len(firsts)
            BY DEF DiscoveryInv, DiscoveryTypeOK
        <3>2. firsts[i] \in Answers
            BY <3>1, ElementOfSeq DEF DiscoveryInv
        <3> QED BY <3>2 DEF DiscoveryInv
    <2>6. /\ devs[i].ip = Address(firsts[i]) /\ devs[i].port = Port(firsts[i])
          /\ TokenOf[devs[i].instance] # Missing /\ devs[i].ip # Missing
        BY <2>5, DeviceIs
    <2> HIDE DEF p
    <2>8. p.host # Missing /\ p.token # Missing
        BY <2>4, <2>6
    <2>9. profile_load(devs[i].instance) = [host |-> p.host, port |-> p.port, token |-> p.token]
        BY <2>8 DEF profile_load, p
    <2> QED BY <2>4, <2>6, <2>9
<1> QED BY <1>1, DiscoveryInvariance, PTL
===============================================================================
