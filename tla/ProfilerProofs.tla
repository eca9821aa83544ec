---------------------------- MODULE ProfilerProofs ----------------------------
(***************************************************************************)
(* Proofs about the sources of DataSources that stand on a profiler:       *)
(* roctracer, CUPTI, the one inside the HIP runtime and rocprofiler-sdk,   *)
(* for every number of threads, calls, operations, records, batches,       *)
(* slabs, counters and storages.  What a batch of records leaves behind is *)
(* defined by recursion over its length (in Selected() and Handled[]):     *)
(* those are unfolded here by chains of states, and by induction over Nat  *)
(* with a set in the place of a predicate.                                 *)
(***************************************************************************)
EXTENDS DataSources, Selection, SequenceTheorems, FiniteSetTheorems, WellFoundedInduction, TLAPS

-----------------------------------------------------------------------------
(* Induction and recursion over Nat, with a set in the place of a predicate  *)

LEMMA LeastElement ==
    ASSUME NEW T \in SUBSET Nat, T # {}
    PROVE  \E n \in T : \A m \in T : n <= m
<1> DEFINE R == OpToRel(<, Nat)
<1>1. IsWellFoundedOn(R, Nat)
  BY NatLessThanWellFounded
<1>2. \A m, n \in Nat : m < n => <<m, n>> \in R
  BY Zenon DEF OpToRel
<1> HIDE DEF R
<1>3. PICK n \in T : \A m \in T : ~ (<<m, n>> \in R)
  BY <1>1, WFMin, Zenon
<1>4. \A m \in T : ~ (m < n)
  BY <1>2, <1>3
<1> QED
  BY <1>4

LEMMA NatSetInduction ==
    ASSUME NEW T, 0 \in T, \A n \in Nat : n \in T => n + 1 \in T
    PROVE  \A n \in Nat : n \in T
<1>1. SUFFICES ASSUME Nat \ T # {} PROVE FALSE
  OBVIOUS
<1>2. PICK n \in Nat \ T : \A m \in Nat \ T : n <= m
  BY <1>1, LeastElement, Zenon
<1>3. n - 1 \in Nat
  BY <1>2
<1>4. n - 1 \in T
  BY <1>2, <1>3
<1> QED
  BY <1>2, <1>3, <1>4

\* A function that is defined by recursion over Nat exists.
Chain(g, n, S, base, D) ==
    /\ g \in [0 .. n -> S] /\ g[0] = base
    /\ \A i \in 1 .. n : g[i] = D[<<g[i - 1], i>>]

LEMMA ChainsExist ==
    ASSUME NEW S, NEW base \in S, NEW D \in [S \X Nat -> S]
    PROVE  \A n \in Nat : \E g : Chain(g, n, S, base, D)
<1> DEFINE T == {n \in Nat : \E g : Chain(g, n, S, base, D)}
<1>1. 0 \in T
  <2>1. Chain([i \in 0 .. 0 |-> base], 0, S, base, D)
    BY DEF Chain
  <2> QED
    BY <2>1
<1>2. ASSUME NEW n \in Nat, n \in T PROVE n + 1 \in T
  <2>1. PICK g : Chain(g, n, S, base, D)
    BY <1>2
  <2> DEFINE h == [i \in 0 .. n + 1 |-> IF i <= n THEN g[i] ELSE D[<<g[n], n + 1>>]]
  <2>2. g[n] \in S
    BY <2>1 DEF Chain
  <2>3. h \in [0 .. n + 1 -> S]
    BY <2>1, <2>2 DEF Chain
  <2>4. h[0] = base
    BY <2>1 DEF Chain
  <2>5. \A i \in 1 .. n + 1 : h[i] = D[<<h[i - 1], i>>]
    <3> TAKE i \in 1 .. n + 1
    <3>1. h[i - 1] = g[i - 1] /\ i - 1 <= n
      OBVIOUS
    <3>2. CASE i <= n
      BY <2>1, <3>1, <3>2 DEF Chain
    <3>3. CASE i = n + 1
      <4>1. h[n + 1] = D[<<g[n], n + 1>>] /\ h[n] = g[n] /\ (n + 1) - 1 = n
        OBVIOUS
      <4> HIDE DEF h
      <4> QED
        BY <3>3, <4>1
    <3> QED
      BY <3>2, <3>3
  <2> HIDE DEF h
  <2>6. Chain(h, n + 1, S, base, D)
    BY <2>3, <2>4, <2>5 DEF Chain
  <2> QED
    BY <2>6
<1> HIDE DEF T
<1>3. \A n \in Nat : n \in T
  BY <1>1, <1>2, NatSetInduction, Zenon
<1> QED
  BY <1>3 DEF T

LEMMA ChainsAgree ==
    ASSUME NEW S, NEW base, NEW D, NEW m \in Nat, NEW n \in Nat, m <= n,
           NEW g, Chain(g, m, S, base, D), NEW h, Chain(h, n, S, base, D)
    PROVE  g[m] = h[m]
<1> DEFINE T == {i \in Nat : i <= m => g[i] = h[i]}
<1>1. 0 \in T
  BY DEF Chain
<1>2. ASSUME NEW i \in Nat, i \in T PROVE i + 1 \in T
  <2>1. SUFFICES ASSUME i + 1 <= m PROVE g[i + 1] = h[i + 1]
    OBVIOUS
  <2>2. g[i] = h[i] /\ i + 1 \in 1 .. m /\ i + 1 \in 1 .. n /\ (i + 1) - 1 = i
    BY <1>2, <2>1
  <2>3. g[i + 1] = D[<<g[(i + 1) - 1], i + 1>>] /\ h[i + 1] = D[<<h[(i + 1) - 1], i + 1>>]
    BY <2>2 DEF Chain
  <2> QED
    BY <2>2, <2>3
<1> HIDE DEF T
<1>3. m \in T
  BY <1>1, <1>2, NatSetInduction, Zenon
<1> QED
  BY <1>3 DEF T

Recurs(g, base, D) == g = [n \in Nat |-> IF n = 0 THEN base ELSE D[<<g[n - 1], n>>]]

LEMMA Recursion ==
    ASSUME NEW S, NEW base \in S, NEW D \in [S \X Nat -> S]
    PROVE  \E g : Recurs(g, base, D)
<1> DEFINE ch(n) == CHOOSE g : Chain(g, n, S, base, D)
           G == [n \in Nat |-> ch(n)[n]]
<1>1. \A n \in Nat : Chain(ch(n), n, S, base, D)
  BY ChainsExist, Zenon
<1> HIDE DEF ch
<1>2. \A n \in Nat : G[n] = ch(n)[n]
  OBVIOUS
<1>3. G[0] = base
  BY <1>1 DEF Chain
<1>4. ASSUME NEW n \in Nat, n # 0 PROVE G[n] = D[<<G[n - 1], n>>]
  <2>1. n - 1 \in Nat /\ n - 1 <= n /\ n \in 1 .. n
    BY <1>4
  <2>2. ch(n)[n] = D[<<ch(n)[n - 1], n>>]
    BY <1>1, <2>1 DEF Chain
  <2>3. ch(n - 1)[n - 1] = ch(n)[n - 1]
    BY <1>1, <2>1, ChainsAgree
  <2> QED
    BY <1>2, <2>1, <2>2, <2>3
<1>5. G = [n \in Nat |-> IF n = 0 THEN base ELSE D[<<G[n - 1], n>>]]
  <2>1. \A n \in Nat : G[n] = IF n = 0 THEN base ELSE D[<<G[n - 1], n>>]
    BY <1>3, <1>4
  <2> HIDE DEF G
  <2>2. G = [n \in Nat |-> G[n]]
    BY DEF G
  <2> QED
    BY <2>1, <2>2
<1> QED
  BY <1>5 DEF Recurs

-----------------------------------------------------------------------------
(* What Selected() keeps *)

Kept(batch, wanted, n, f) ==
    IF n = 0 THEN <<>> ELSE IF batch[n] \in wanted THEN Append(f[n - 1], batch[n]) ELSE f[n - 1]

LEMMA SelectedUnfolds ==
    ASSUME NEW T, NEW batch \in Seq(T), NEW wanted
    PROVE  \E f : /\ f = [n \in Nat |-> Kept(batch, wanted, n, f)]
                  /\ Selected(batch, wanted) = f[Len(batch)]
<1> DEFINE A == T \cup {batch[n] : n \in Nat}
           D == [p \in Seq(A) \X Nat |-> IF batch[p[2]] \in wanted THEN Append(p[1], batch[p[2]])
                                                                    ELSE p[1]]
<1>1. D \in [Seq(A) \X Nat -> Seq(A)]
  <2>1. ASSUME NEW s \in Seq(A), NEW n \in Nat PROVE Append(s, batch[n]) \in Seq(A)
    <3>1. batch[n] \in A
      OBVIOUS
    <3> HIDE DEF A
    <3> QED
      BY <3>1, AppendProperties
  <2> HIDE DEF A
  <2> QED
    BY <2>1
<1>2. <<>> \in Seq(A)
  BY EmptySeq, Zenon
<1>3. \E g : g = [n \in Nat |-> IF n = 0 THEN <<>> ELSE D[<<g[n - 1], n>>]]
  <2> DEFINE S == Seq(A)
             e == <<>>
  <2>1. e \in S /\ D \in [S \X Nat -> S]
    BY <1>1, <1>2
  <2> HIDE DEF A, D, S, e
  <2>2. PICK g : Recurs(g, e, D)
    BY <2>1, Recursion
  <2>3. g = [n \in Nat |-> IF n = 0 THEN <<>> ELSE D[<<g[n - 1], n>>]]
    BY <2>2 DEF e, Recurs
  <2> QED
    BY <2>3
<1>9. PICK g : g = [n \in Nat |-> IF n = 0 THEN <<>> ELSE D[<<g[n - 1], n>>]]
  BY <1>3
<1>4. \A n \in Nat : g[n] \in Seq(A)
  <2> DEFINE N == {n \in Nat : g[n] \in Seq(A)}
  <2>1. 0 \in N
    BY <1>2, <1>9, Zenon
  <2>2. ASSUME NEW n \in Nat, n \in N PROVE n + 1 \in N
    <3>1. g[n + 1] = D[<<g[n], n + 1>>]
      <4>1. n + 1 \in Nat /\ n + 1 # 0 /\ (n + 1) - 1 = n
        OBVIOUS
      <4> HIDE DEF D
      <4> QED
        BY <1>9, <4>1
    <3> HIDE DEF D, A
    <3> QED
      BY <1>1, <2>2, <3>1
  <2> HIDE DEF N
  <2>3. \A n \in Nat : n \in N
    BY <2>1, <2>2, NatSetInduction, Zenon
  <2> QED
    BY <2>3 DEF N
<1>5. g = [n \in Nat |-> IF n = 0 THEN <<>>
                         ELSE IF batch[n] \in wanted THEN Append(g[n - 1], batch[n]) ELSE g[n - 1]]
  <2>1. ASSUME NEW n \in Nat, n # 0
        PROVE  D[<<g[n - 1], n>>] = IF batch[n] \in wanted THEN Append(g[n - 1], batch[n]) ELSE g[n - 1]
    <3>1. n - 1 \in Nat
      BY <2>1
    <3>2. g[n - 1] \in Seq(A)
      BY <1>4, <3>1
    <3> QED
      BY <3>2
  <2> HIDE DEF D, A
  <2> QED
    BY <1>9, <2>1
<1> DEFINE f == CHOOSE f : f = [n \in Nat |-> IF n = 0 THEN <<>>
                         ELSE IF batch[n] \in wanted THEN Append(f[n - 1], batch[n]) ELSE f[n - 1]]
<1>6. f = [n \in Nat |-> IF n = 0 THEN <<>>
                         ELSE IF batch[n] \in wanted THEN Append(f[n - 1], batch[n]) ELSE f[n - 1]]
  <2> HIDE DEF A, D
  <2> QED
    BY <1>5, Zenon
<1>7. Selected(batch, wanted) = f[Len(batch)]
  BY Zenon DEF Selected
<1> HIDE DEF f
<1> QED
  BY <1>6, <1>7, Zenon DEF Kept

Once(s) == \A i, j \in 1 .. Len(s) : s[i] = s[j] => i = j

LEMMA SelectedProperties ==
    ASSUME NEW T, NEW batch \in Seq(T), NEW wanted
    PROVE  /\ Selected(batch, wanted) \in Seq(T)
           /\ \A x : (\E j \in 1 .. Len(Selected(batch, wanted)) : Selected(batch, wanted)[j] = x)
                     <=> x \in wanted /\ \E j \in 1 .. Len(batch) : batch[j] = x
           /\ Once(batch) => Once(Selected(batch, wanted))
<1>1. PICK f : /\ f = [n \in Nat |-> Kept(batch, wanted, n, f)]
               /\ Selected(batch, wanted) = f[Len(batch)]
  BY SelectedUnfolds, Zenon
<1>2. \A n \in Nat : f[n] = Kept(batch, wanted, n, f)
  BY <1>1, Zenon
<1>3. Len(batch) \in Nat /\ \A n \in 1 .. Len(batch) : batch[n] \in T
  BY LenProperties, ElementOfSeq
<1> DEFINE OK(n) ==
       /\ f[n] \in Seq(T)
       /\ \A x : (\E j \in 1 .. Len(f[n]) : f[n][j] = x) <=> x \in wanted /\ \E j \in 1 .. n : batch[j] = x
       /\ Once(batch) => Once(f[n])
    N == {n \in Nat : n <= Len(batch) => OK(n)}
<1>4. 0 \in N
  <2>1. f[0] = <<>> /\ Len(<<>>) = 0
    BY <1>2 DEF Kept
  <2>2. 1 .. 0 = {}
    OBVIOUS
  <2>3. OK(0)
    BY <2>1, <2>2 DEF Once
  <2> QED
    BY <2>3
<1>5. ASSUME NEW n \in Nat, n \in N PROVE n + 1 \in N
  <2>1. SUFFICES ASSUME n + 1 <= Len(batch) PROVE OK(n + 1)
    OBVIOUS
  <2>2. OK(n)
    <3> HIDE DEF OK
    <3> QED
      BY <1>3, <1>5, <2>1
  <2>3. batch[n + 1] \in T
    BY <1>3, <2>1
  <2>4. f[n + 1] = IF batch[n + 1] \in wanted THEN Append(f[n], batch[n + 1]) ELSE f[n]
    BY <1>2 DEF Kept
  <2>5. \A j : j \in 1 .. n + 1 <=> j \in 1 .. n \/ j = n + 1
    OBVIOUS
  <2>6. CASE batch[n + 1] \notin wanted
    <3>1. f[n + 1] = f[n]
      BY <2>4, <2>6
    <3>2. \A x \in wanted : (\E j \in 1 .. n + 1 : batch[j] = x) <=> \E j \in 1 .. n : batch[j] = x
      BY <2>5, <2>6
    <3> QED
      BY <2>2, <3>1, <3>2
  <2>7. CASE batch[n + 1] \in wanted
    <3> DEFINE s == f[n]
               t == f[n + 1]
    <3>1. s \in Seq(T) /\ t = Append(s, batch[n + 1])
      BY <2>2, <2>4, <2>7
    <3> HIDE DEF s, t
    <3>2. /\ t \in Seq(T) /\ Len(t) = Len(s) + 1 /\ Len(s) \in Nat /\ t[Len(s) + 1] = batch[n + 1]
          /\ \A j \in 1 .. Len(s) : t[j] = s[j]
      BY <2>3, <3>1, AppendProperties, LenProperties
    <3>3. \A j : j \in 1 .. Len(t) <=> j \in 1 .. Len(s) \/ j = Len(s) + 1
      BY <3>2
    <3>4. \A x : (\E j \in 1 .. Len(t) : t[j] = x) <=> (\E j \in 1 .. Len(s) : s[j] = x) \/ x = batch[n + 1]
      BY <3>2, <3>3
    <3>5. \A x : (\E j \in 1 .. Len(t) : t[j] = x) <=> x \in wanted /\ \E j \in 1 .. n + 1 : batch[j] = x
      BY <2>2, <2>5, <2>7, <3>4 DEF s
    <3>6. ASSUME Once(batch) PROVE Once(t)
      <4>1. Once(s)
        BY <2>2, <3>6 DEF s
      <4>2. \A j \in 1 .. Len(s) : s[j] # batch[n + 1]
        <5> TAKE j \in 1 .. Len(s)
        <5>1. PICK k \in 1 .. n : batch[k] = s[j]
          BY <2>2 DEF s
        <5>2. k \in 1 .. Len(batch) /\ n + 1 \in 1 .. Len(batch) /\ k # n + 1
          BY <1>3, <2>1
        <5> QED
          BY <3>6, <5>1, <5>2 DEF Once
      <4> QED
        BY <3>2, <3>3, <4>1, <4>2 DEF Once
    <3> QED
      BY <3>2, <3>5, <3>6 DEF t
  <2> QED
    BY <2>6, <2>7
<1> HIDE DEF N
<1>6. Len(batch) \in N
  BY <1>3, <1>4, <1>5, NatSetInduction, Zenon
<1>7. OK(Len(batch))
  BY <1>3, <1>6 DEF N
<1> QED
  BY <1>1, <1>7

IsSelection(s, batch, wanted) ==
    /\ \A x : (\E j \in 1 .. Len(s) : s[j] = x) <=> x \in wanted /\ \E j \in 1 .. Len(batch) : batch[j] = x
    /\ Once(batch) => Once(s)

LEMMA SelectedIs ==
    ASSUME NEW T, NEW batch \in Seq(T), NEW wanted
    PROVE  Selected(batch, wanted) \in Seq(T) /\ IsSelection(Selected(batch, wanted), batch, wanted)
BY SelectedProperties DEF IsSelection

\* What \o puts together.
LEMMA Joined ==
    ASSUME NEW T, NEW s \in Seq(T), NEW t \in Seq(T)
    PROVE  /\ s \o t \in Seq(T) /\ Len(s) \in Nat /\ Len(t) \in Nat
           /\ DOMAIN (s \o t) = 1 .. Len(s) + Len(t)
           /\ \A i \in 1 .. Len(s) : (s \o t)[i] = s[i]
           /\ \A i \in 1 .. Len(t) : (s \o t)[Len(s) + i] = t[i]
           /\ \A j \in 1 .. Len(s) + Len(t) : j \in 1 .. Len(s) \/ \E k \in 1 .. Len(t) : j = Len(s) + k
<1>1. Len(s) \in Nat /\ Len(t) \in Nat
  BY LenProperties
<1>2. /\ s \o t \in Seq(T) /\ Len(s \o t) = Len(s) + Len(t)
      /\ \A i \in 1 .. Len(s) + Len(t) : (s \o t)[i] = IF i <= Len(s) THEN s[i] ELSE t[i - Len(s)]
  BY ConcatProperties
<1>3. DOMAIN (s \o t) = 1 .. Len(s) + Len(t)
  BY <1>2, LenProperties
<1>4. ASSUME NEW m \in Nat, NEW n \in Nat, NEW i \in 1 .. n
      PROVE  m + i \in 1 .. m + n /\ ~(m + i <= m) /\ (m + i) - m = i
  OBVIOUS
<1>5. \A i \in 1 .. Len(t) : (s \o t)[Len(s) + i] = t[i]
  BY <1>1, <1>2, <1>4
<1>6. \A i \in 1 .. Len(s) : (s \o t)[i] = s[i]
  BY <1>1, <1>2
<1>7. ASSUME NEW m \in Nat, NEW n \in Nat, NEW j \in 1 .. m + n
      PROVE  j \in 1 .. m \/ \E k \in 1 .. n : j = m + k
  <2>1. CASE j > m
    <3>1. j - m \in 1 .. n /\ j = m + (j - m)
      BY <2>1
    <3> QED
      BY <3>1
  <2> QED
    BY <2>1
<1> QED
  BY <1>1, <1>2, <1>3, <1>5, <1>6, <1>7

Joins(u, s, n, t, m) ==
    /\ DOMAIN u = 1 .. n + m
    /\ \A i \in 1 .. n : u[i] = s[i] /\ i \in DOMAIN u
    /\ \A i \in 1 .. m : u[n + i] = t[i] /\ n + i \in DOMAIN u
    /\ \A j \in DOMAIN u : j \in 1 .. n \/ \E k \in 1 .. m : j = n + k

LEMMA JoinedIs ==
    ASSUME NEW T, NEW s \in Seq(T), NEW t \in Seq(T)
    PROVE  s \o t \in Seq(T) /\ Joins(s \o t, s, Len(s), t, Len(t))
<1>1. ASSUME NEW m \in Nat, NEW n \in Nat
      PROVE  /\ \A j \in 1 .. n : j \in 1 .. n + m
             /\ \A j \in 1 .. m : n + j \in 1 .. n + m
  OBVIOUS
<1> QED
  BY <1>1, Joined DEF Joins

\* A sequence given element by element.
LEMMA Listed ==
    ASSUME NEW T, NEW n \in Nat, NEW f, DOMAIN f = 1 .. n, \A j \in 1 .. n : f[j] \in T,
           f = [j \in DOMAIN f |-> f[j]]
    PROVE  f \in Seq(T) /\ Len(f) = n
<1>1. f \in [1 .. n -> T]
  OBVIOUS
<1>2. f \in Seq(T)
  BY <1>1, SeqDef
<1> QED
  BY <1>2, LenProperties

\* A sequence cut in two.
Cuts(s, n, a, b) ==
    /\ \A k \in DOMAIN a : a[k] = s[k] /\ k \in DOMAIN s
    /\ \A k \in DOMAIN b : b[k] = s[n + k] /\ n + k \in DOMAIN s
    /\ \A k, l \in DOMAIN b : n + k = n + l => k = l
    /\ \A k \in DOMAIN a, l \in DOMAIN b : k # n + l
    /\ \A i \in DOMAIN s : i \in DOMAIN a \/ \E k \in DOMAIN b : i = n + k

LEMMA CutIs ==
    ASSUME NEW T, NEW s \in Seq(T), NEW n \in 1 .. Len(s)
    PROVE  /\ SubSeq(s, 1, n) \in Seq(T) /\ SubSeq(s, n + 1, Len(s)) \in Seq(T)
           /\ Cuts(s, n, SubSeq(s, 1, n), SubSeq(s, n + 1, Len(s)))
<1> DEFINE a == SubSeq(s, 1, n)
           b == SubSeq(s, n + 1, Len(s))
<1>1. Len(s) \in Nat /\ DOMAIN s = 1 .. Len(s) /\ n \in Nat /\ 1 <= n /\ n <= Len(s)
  BY LenProperties
<1>2. \A i \in 1 .. Len(s) : s[i] \in T
  BY ElementOfSeq
<1>3. a \in Seq(T) /\ DOMAIN a = 1 .. n /\ \A k \in 1 .. n : a[k] = s[k]
  <2>1. /\ a \in Seq(T) /\ Len(a) = IF 1 <= n THEN n - 1 + 1 ELSE 0
        /\ \A i \in 1 .. n - 1 + 1 : a[i] = s[1 + i - 1]
    BY <1>1, <1>2, SubSeqProperties
  <2> QED
    BY <1>1, <2>1, LenProperties
<1>4. /\ b \in Seq(T) /\ DOMAIN b = 1 .. Len(s) - n
      /\ \A k \in 1 .. Len(s) - n : b[k] = s[n + k]
  <2>0. \A i \in (n + 1) .. Len(s) : s[i] \in T
    BY <1>1, <1>2
  <2>1. /\ b \in Seq(T) /\ Len(b) = IF n + 1 <= Len(s) THEN Len(s) - (n + 1) + 1 ELSE 0
        /\ \A i \in 1 .. Len(s) - (n + 1) + 1 : b[i] = s[(n + 1) + i - 1]
    BY <1>1, <2>0, SubSeqProperties
  <2> QED
    BY <1>1, <2>1, LenProperties
<1>5. ASSUME NEW m \in Nat, n <= m
      PROVE  /\ \A k \in 1 .. n : k \in 1 .. m
             /\ \A k \in 1 .. m - n : n + k \in 1 .. m
             /\ \A k, l \in 1 .. m - n : n + k = n + l => k = l
             /\ \A k \in 1 .. n, l \in 1 .. m - n : k # n + l
             /\ \A i \in 1 .. m : i \in 1 .. n \/ \E k \in 1 .. m - n : i = n + k
  <2> USE <1>1, <1>5
  <2>1. \A i \in 1 .. m : i \in 1 .. n \/ \E k \in 1 .. m - n : i = n + k
    <3> TAKE i \in 1 .. m
    <3>1. CASE i > n
      <4>1. i - n \in 1 .. m - n /\ i = n + (i - n)
        BY <3>1
      <4> QED
        BY <4>1
    <3> QED
      BY <3>1
  <2>2. /\ \A k \in 1 .. n : k \in 1 .. m
        /\ \A k \in 1 .. m - n : n + k \in 1 .. m
        /\ \A k, l \in 1 .. m - n : n + k = n + l => k = l
        /\ \A k \in 1 .. n, l \in 1 .. m - n : k # n + l
    OBVIOUS
  <2> QED
    BY <2>1, <2>2
<1> HIDE DEF a, b
<1>6. Cuts(s, n, a, b)
  <2>1. PICK m \in Nat : m = Len(s) /\ n <= m
    BY <1>1
  <2>2. DOMAIN s = 1 .. m /\ DOMAIN a = 1 .. n /\ DOMAIN b = 1 .. m - n
    BY <1>1, <1>3, <1>4, <2>1
  <2>3. /\ \A k \in 1 .. n : a[k] = s[k]
        /\ \A k \in 1 .. m - n : b[k] = s[n + k]
    BY <1>3, <1>4, <2>1
  <2> QED
    <3>1. /\ \A k \in DOMAIN a : a[k] = s[k] /\ k \in DOMAIN s
          /\ \A k \in DOMAIN b : b[k] = s[n + k] /\ n + k \in DOMAIN s
      BY <1>5, <2>1, <2>2, <2>3
    <3>2. /\ \A k, l \in DOMAIN b : n + k = n + l => k = l
          /\ \A k \in DOMAIN a, l \in DOMAIN b : k # n + l
      BY <1>5, <2>1, <2>2
    <3>3. \A i \in DOMAIN s : i \in DOMAIN a \/ \E k \in DOMAIN b : i = n + k
      <4> TAKE i \in DOMAIN s
      <4>1. i \in 1 .. m
        BY <2>2
      <4>2. i \in 1 .. n \/ \E k \in 1 .. m - n : i = n + k
        BY <1>5, <2>1, <4>1
      <4> QED
        BY <2>2, <4>2
    <3> QED
      BY <3>1, <3>2, <3>3 DEF Cuts
<1> QED
  BY <1>3, <1>4, <1>6 DEF a, b

-----------------------------------------------------------------------------
(* roctracer                                                                 *)

Places3 == {"queued", "completed", "handed over"}
HipCalls == [thread : HipThreads, api : HipApis, exited : BOOLEAN, traced : BOOLEAN, reported : BOOLEAN]
OpRows   == [op : Nat, corr : Nat, start : Nat \X Nat]
HipOps   == [corr : Nat, kind : {"kernel", "copy", "barrier"}, at : Places3]

RtrTypes ==
    /\ calls \in Seq(HipCalls) /\ DOMAIN timestamp = HipThreads
    /\ operations \in Seq(HipOps) /\ buffer \in Seq(Nat)
    /\ DOMAIN tables = {"api", "kernels", "copies", "ops", "frames"}
    /\ tables.ops \in Seq(OpRows)
    /\ storageNow \in {1, 2} /\ idsFrom \in {0, storageNow}

\* A thread has one call at a time, and its stamp is that call's.
StampInv ==
    /\ \A c, d \in DOMAIN calls :
           ~calls[c].exited /\ ~calls[d].exited /\ calls[c].thread = calls[d].thread => c = d
    /\ \A c \in DOMAIN calls : /\ calls[c].reported <=> calls[c].traced /\ Rtr!contains(calls[c].api)
                               /\ ~calls[c].exited /\ calls[c].reported =>
                                      timestamp[calls[c].thread] = Rtr!clocktime(c)

RtrWork == Rtr!LaunchApis \cup Rtr!CopyApis
HasRows(c) == /\ \E row \in tables.api : row.call = c
              /\ c \in tables.kernels \/ \E row \in tables.copies : row.call = c
\* A reported call that returned has its rows.
CallInv == \A c \in DOMAIN calls :
               calls[c].exited /\ calls[c].reported /\ calls[c].api \in RtrWork => HasRows(c)

\* An operation is in the pool or has its row, once, and only if it was recorded.
OpKnown(i)  == operations[i].corr \in DOMAIN calls /\ calls[operations[i].corr].api \in RtrWork
Logged(i)   == operations[i].at = "handed over" /\ operations[i].kind # "barrier"
HasOpRow(i) == \E j \in DOMAIN tables.ops : tables.ops[j].op = i
Pooled(i)   == i \in DOMAIN operations /\ operations[i].at = "completed" /\ Rtr!Recorded(i)
OpRowTrue(row) == /\ row.op \in DOMAIN operations /\ Logged(row.op) /\ Rtr!Recorded(row.op)
                  /\ row.corr = operations[row.op].corr /\ row.start = Rtr!clocktime(row.op)
OpInv ==
    /\ \A i \in DOMAIN operations : OpKnown(i) /\ (Logged(i) => HasOpRow(i))
    /\ \A k \in DOMAIN buffer : Pooled(buffer[k])
    /\ \A k, l \in DOMAIN buffer : buffer[k] = buffer[l] => k = l
    /\ \A j \in DOMAIN tables.ops : OpRowTrue(tables.ops[j])
    /\ \A j, k \in DOMAIN tables.ops : tables.ops[j].op = tables.ops[k].op => j = k

RtrInv == RtrTypes /\ StampInv /\ CallInv /\ OpInv /\ Rtr!CallRowsAreOwn

LEMMA RtrInit == SourcesInit /\ subject = "roctracer" => RtrInv
<1> SUFFICES ASSUME Rtr!Init PROVE RtrInv
  BY DEF SourcesInit
<1>1. calls = <<>> /\ operations = <<>> /\ buffer = <<>> /\ tables.ops = <<>> /\ tables.api = {} /\ tables.frames = {}
  BY DEF Rtr!Init
<1>2. RtrTypes
  BY <1>1 DEF Rtr!Init, RtrTypes
<1>3. DOMAIN calls = {} /\ DOMAIN operations = {} /\ DOMAIN buffer = {} /\ DOMAIN tables.ops = {}
  BY <1>1
<1>4. StampInv /\ CallInv /\ OpInv
  BY <1>3 DEF StampInv, CallInv, OpInv
<1>5. Rtr!CallRowsAreOwn
  BY <1>1 DEF Rtr!CallRowsAreOwn
<1> QED
  BY <1>2, <1>4, <1>5 DEF RtrInv

LEMMA RtrElements ==
    ASSUME RtrTypes
    PROVE  /\ Len(calls) \in Nat /\ DOMAIN calls = 1 .. Len(calls)
           /\ Len(operations) \in Nat /\ DOMAIN operations = 1 .. Len(operations)
           /\ Len(buffer) \in Nat /\ DOMAIN buffer = 1 .. Len(buffer)
           /\ Len(tables.ops) \in Nat /\ DOMAIN tables.ops = 1 .. Len(tables.ops)
           /\ \A c \in DOMAIN calls : calls[c] \in HipCalls
           /\ \A i \in DOMAIN operations : operations[i] \in HipOps
           /\ \A k \in DOMAIN buffer : buffer[k] \in Nat
<1> USE DEF RtrTypes
<1>1. /\ Len(calls) \in Nat /\ DOMAIN calls = 1 .. Len(calls)
      /\ Len(operations) \in Nat /\ DOMAIN operations = 1 .. Len(operations)
      /\ Len(buffer) \in Nat /\ DOMAIN buffer = 1 .. Len(buffer)
      /\ Len(tables.ops) \in Nat /\ DOMAIN tables.ops = 1 .. Len(tables.ops)
  BY LenProperties
<1> QED
  BY <1>1, ElementOfSeq

\* Append() leaves the elements before the new one.
LEMMA Appended ==
    ASSUME NEW T, NEW s \in Seq(T), NEW e \in T
    PROVE  /\ Append(s, e) \in Seq(T) /\ Len(s) \in Nat
           /\ DOMAIN Append(s, e) = DOMAIN s \cup {Len(s) + 1}
           /\ Len(s) + 1 \notin DOMAIN s
           /\ Append(s, e)[Len(s) + 1] = e
           /\ \A i \in DOMAIN s : Append(s, e)[i] = s[i]
<1>1. /\ Append(s, e) \in Seq(T) /\ Len(s) \in Nat /\ DOMAIN s = 1 .. Len(s)
      /\ DOMAIN Append(s, e) = 1 .. Len(s) + 1
      /\ Append(s, e)[Len(s) + 1] = e
      /\ \A i \in 1 .. Len(s) : Append(s, e)[i] = s[i]
  BY AppendProperties, LenProperties
<1> QED
  BY <1>1

\* What is known of the operations stays true when calls return and operations come.
LEMMA RtrOpsKept ==
    ASSUME OpInv, UNCHANGED buffer, tables'.ops = tables.ops,
           DOMAIN calls \subseteq DOMAIN calls',
           \A c \in DOMAIN calls : calls'[c].api = calls[c].api /\ calls'[c].traced = calls[c].traced,
           DOMAIN operations \subseteq DOMAIN operations',
           \A i \in DOMAIN operations : operations'[i] = operations[i],
           \A i \in DOMAIN operations' \ DOMAIN operations :
               /\ operations'[i].corr \in DOMAIN calls' /\ calls'[operations'[i].corr].api \in RtrWork
               /\ operations'[i].at = "queued"
    PROVE  OpInv'
<1>1. ASSUME NEW i \in DOMAIN operations
      PROVE  /\ OpKnown(i)' /\ Logged(i)' = Logged(i) /\ HasOpRow(i)' = HasOpRow(i)
             /\ Pooled(i)' = Pooled(i) /\ Rtr!Recorded(i)' = Rtr!Recorded(i)
  <2>1. operations'[i] = operations[i] /\ i \in DOMAIN operations'
    OBVIOUS
  <2>2. operations[i].corr \in DOMAIN calls /\ calls[operations[i].corr].api \in RtrWork
    BY DEF OpInv, OpKnown
  <2>3. Rtr!Recorded(i)' = Rtr!Recorded(i)
    BY <2>1, <2>2 DEF Rtr!Recorded
  <2>4. OpKnown(i)'
    BY <2>1, <2>2 DEF OpKnown
  <2> QED
    BY <2>1, <2>3, <2>4 DEF Logged, HasOpRow, Pooled
<1>2. ASSUME NEW i \in DOMAIN operations' \ DOMAIN operations
      PROVE  OpKnown(i)' /\ ~Logged(i)'
  BY DEF OpKnown, Logged
<1>3. \A i \in DOMAIN operations' : OpKnown(i)' /\ (Logged(i)' => HasOpRow(i)')
  BY <1>1, <1>2 DEF OpInv
<1>4. \A k \in DOMAIN buffer' : Pooled(buffer[k])'
  <2> TAKE k \in DOMAIN buffer'
  <2>1. PICK i \in DOMAIN operations : i = buffer[k] /\ Pooled(i)
    BY DEF OpInv, Pooled
  <2>2. Pooled(i)'
    BY <1>1, <2>1
  <2> QED
    BY <2>1, <2>2
<1>5. \A j \in DOMAIN tables'.ops : OpRowTrue(tables.ops[j])'
  <2> TAKE j \in DOMAIN tables'.ops
  <2>1. PICK row : row = tables.ops[j] /\ OpRowTrue(row) /\ tables'.ops[j] = row
    BY DEF OpInv
  <2>2. PICK i \in DOMAIN operations : i = row.op /\ Logged(i) /\ Rtr!Recorded(i)
    BY <2>1 DEF OpRowTrue
  <2>3. Logged(i)' /\ Rtr!Recorded(i)'
    BY <1>1, <2>2
  <2>4. OpRowTrue(row)'
    BY <2>1, <2>2, <2>3 DEF OpRowTrue
  <2> QED
    BY <2>1, <2>4
<1> QED
  BY <1>3, <1>4, <1>5 DEF OpInv

LEMMA RtrApiEnter ==
    ASSUME RtrInv, NEW t \in HipThreads, NEW api \in HipApis, Rtr!ApiEnter(t, api)
    PROVE  RtrInv'
<1> DEFINE rep == context = "started" /\ Rtr!contains(api)
           c0 == Len(calls) + 1
           new == [thread |-> t, api |-> api, exited |-> FALSE,
                   traced |-> context = "started", reported |-> rep]
<1>1. RtrTypes
  BY DEF RtrInv
<1>2. /\ calls' = Append(calls, new)
      /\ timestamp' = IF rep THEN [timestamp EXCEPT ![t] = Rtr!clocktime(c0)] ELSE timestamp
      /\ ~Rtr!InCall(t)
      /\ UNCHANGED <<operations, buffer, idsFrom, storageNow, tables>>
  BY DEF Rtr!ApiEnter, Rtr!StampAfter, Rtr!rowVars, Rtr!contextVars
<1>3. new \in HipCalls
  BY DEF HipCalls, Rtr!contains
<1>4. /\ calls' \in Seq(HipCalls) /\ Len(calls) \in Nat
      /\ DOMAIN calls' = DOMAIN calls \cup {c0} /\ c0 \notin DOMAIN calls
      /\ calls'[c0] = new
      /\ \A c \in DOMAIN calls : calls'[c] = calls[c]
  <2> HIDE DEF new
  <2>1. calls \in Seq(HipCalls)
    BY <1>1 DEF RtrTypes
  <2> QED
    BY <1>2, <1>3, <2>1, Appended
<1>5. new.thread = t /\ new.api = api /\ new.exited = FALSE /\ new.traced = (context = "started") /\ new.reported = rep
  OBVIOUS
<1>6. \A c \in DOMAIN calls : calls[c] \in HipCalls
  BY <1>1, RtrElements
<1>7. \A c \in DOMAIN calls : ~calls[c].exited => calls[c].thread # t
  BY <1>2 DEF Rtr!InCall
<1> HIDE DEF new, c0
<1>8. RtrTypes'
  BY <1>1, <1>2, <1>4 DEF RtrTypes
<1>9. StampInv'
  <2>1. ASSUME NEW c \in DOMAIN calls', NEW d \in DOMAIN calls', ~calls'[c].exited, ~calls'[d].exited,
               calls'[c].thread = calls'[d].thread
        PROVE  c = d
    BY <1>4, <1>5, <1>7, <2>1 DEF RtrInv, StampInv
  <2>2. ASSUME NEW c \in DOMAIN calls'
        PROVE  /\ calls'[c].reported <=> calls'[c].traced /\ Rtr!contains(calls'[c].api)
               /\ ~calls'[c].exited /\ calls'[c].reported =>
                      timestamp'[calls'[c].thread] = Rtr!clocktime(c)
    <3>1. CASE c = c0
      BY <1>1, <1>2, <1>4, <1>5, <3>1 DEF RtrTypes
    <3>2. CASE c \in DOMAIN calls
      <4>1. calls'[c] = calls[c]
        BY <1>4, <3>2
      <4>2. ~calls[c].exited => timestamp'[calls[c].thread] = timestamp[calls[c].thread]
        BY <1>1, <1>2, <1>6, <1>7, <3>2 DEF RtrTypes, HipCalls
      <4> QED
        BY <3>2, <4>1, <4>2 DEF RtrInv, StampInv
    <3> QED
      BY <1>4, <3>1, <3>2
  <2> QED
    BY <2>1, <2>2, Zenon DEF StampInv
<1>10. CallInv'
  BY <1>2, <1>4, <1>5 DEF RtrInv, CallInv, HasRows
<1>11. OpInv'
  BY <1>2, <1>4, RtrOpsKept DEF RtrInv
<1>12. Rtr!CallRowsAreOwn'
  BY <1>2 DEF RtrInv, Rtr!CallRowsAreOwn
<1> QED
  BY <1>8, <1>9, <1>10, <1>11, <1>12 DEF RtrInv

\* The call a thread is in.
LEMMA RtrCallOf ==
    ASSUME NEW t, Rtr!InCall(t)
    PROVE  Rtr!CallOf(t) \in DOMAIN calls /\ calls[Rtr!CallOf(t)].thread = t /\ ~calls[Rtr!CallOf(t)].exited
BY DEF Rtr!InCall, Rtr!CallOf

LEMMA RtrEnqueue ==
    ASSUME RtrInv, NEW t \in HipThreads, Rtr!Enqueue(t)
    PROVE  RtrInv'
<1> DEFINE c == Rtr!CallOf(t)
           op(kind) == [corr |-> c, kind |-> kind, at |-> "queued"]
<1>1. RtrTypes
  BY DEF RtrInv
<1>2. c \in DOMAIN calls /\ calls[c].api \in RtrWork
  BY RtrCallOf DEF Rtr!Enqueue, RtrWork
<1>3. /\ \/ operations' = operations \o <<op("kernel")>>
         \/ operations' = operations \o <<op("copy"), op("barrier")>>
      /\ UNCHANGED <<calls, timestamp, buffer, idsFrom, storageNow, tables>>
  BY DEF Rtr!Enqueue, Rtr!rowVars
<1>4. /\ operations' \in Seq(HipOps) /\ DOMAIN operations \subseteq DOMAIN operations'
      /\ \A i \in DOMAIN operations : operations'[i] = operations[i]
      /\ \A i \in DOMAIN operations' \ DOMAIN operations :
             operations'[i].corr = c /\ operations'[i].at = "queued"
  <2>1. c \in Nat
    BY <1>1, <1>2, RtrElements
  <2>2. op("kernel") \in HipOps /\ op("copy") \in HipOps /\ op("barrier") \in HipOps
    BY <2>1 DEF HipOps, Places3
  <2>3. \A kind : op(kind).corr = c /\ op(kind).at = "queued"
    OBVIOUS
  <2>4. operations \in Seq(HipOps)
    BY <1>1 DEF RtrTypes
  <2> HIDE DEF op, c
  <2>5. CASE operations' = operations \o <<op("kernel")>>
    <3>1. <<op("kernel")>> \in Seq(HipOps) /\ Len(<<op("kernel")>>) = 1
      BY <2>2
    <3>2. /\ operations' \in Seq(HipOps) /\ Len(operations) \in Nat
          /\ DOMAIN operations = 1 .. Len(operations) /\ DOMAIN operations' = 1 .. Len(operations) + 1
          /\ \A i \in 1 .. Len(operations) : operations'[i] = operations[i]
          /\ operations'[Len(operations) + 1] = op("kernel")
      BY <2>4, <2>5, <3>1, ConcatProperties, LenProperties
    <3> QED
      BY <2>3, <3>2
  <2>6. CASE operations' = operations \o <<op("copy"), op("barrier")>>
    <3>1. <<op("copy"), op("barrier")>> \in Seq(HipOps) /\ Len(<<op("copy"), op("barrier")>>) = 2
      BY <2>2
    <3>2. /\ operations' \in Seq(HipOps) /\ Len(operations) \in Nat
          /\ DOMAIN operations = 1 .. Len(operations) /\ DOMAIN operations' = 1 .. Len(operations) + 2
          /\ \A i \in 1 .. Len(operations) : operations'[i] = operations[i]
          /\ operations'[Len(operations) + 1] = op("copy")
          /\ operations'[Len(operations) + 2] = op("barrier")
      BY <2>4, <2>6, <3>1, ConcatProperties, LenProperties
    <3> QED
      BY <2>3, <3>2
  <2> QED
    BY <1>3, <2>5, <2>6
<1>5. RtrTypes' /\ StampInv' /\ CallInv' /\ Rtr!CallRowsAreOwn'
  BY <1>1, <1>3, <1>4 DEF RtrInv, RtrTypes, StampInv, CallInv, HasRows, Rtr!CallRowsAreOwn
<1>6. OpInv'
  BY <1>2, <1>3, <1>4, RtrOpsKept DEF RtrInv
<1> QED
  BY <1>5, <1>6 DEF RtrInv

RowsAre(rows, c, t) ==
    /\ DOMAIN rows = DOMAIN tables /\ rows.ops = tables.ops
    /\ rows.api = tables.api \cup
           {[call |-> c, start |-> timestamp[t], storage |-> storageNow, ids |-> Rtr!Ids]}
    /\ rows.frames = tables.frames \cup Rtr!unwind(c)
    /\ rows.kernels = IF calls[c].api \in Rtr!LaunchApis THEN tables.kernels \cup {c}
                                                         ELSE tables.kernels
    /\ rows.copies = IF calls[c].api \in Rtr!CopyApis
           THEN tables.copies \cup {[call |-> c, sync |-> Rtr!Sync(calls[c].api)]}
           ELSE tables.copies

LEMMA RtrRowsOfCall ==
    ASSUME RtrTypes, NEW c, NEW t, NEW rows, rows = Rtr!RowsOfCall(c, t)
    PROVE  RowsAre(rows, c, t)
<1>1. DOMAIN tables = {"api", "kernels", "copies", "ops", "frames"}
  BY DEF RtrTypes
<1> QED
  BY <1>1 DEF Rtr!RowsOfCall, RowsAre

LEMMA RtrApiExit ==
    ASSUME RtrInv, NEW t \in HipThreads, Rtr!ApiExit(t)
    PROVE  RtrInv'
<1>0. PICK c : c = Rtr!CallOf(t)
  OBVIOUS
<1>1. RtrTypes
  BY DEF RtrInv
<1>2. c \in DOMAIN calls /\ calls[c].thread = t /\ ~calls[c].exited
  BY <1>0, RtrCallOf DEF Rtr!ApiExit
<1>3. /\ calls' = [calls EXCEPT ![c].exited = TRUE]
      /\ UNCHANGED <<timestamp, operations, buffer, storageNow>>
      /\ IF calls[c].reported THEN tables' = Rtr!RowsOfCall(c, t) /\ idsFrom' = Rtr!Ids
                              ELSE UNCHANGED <<tables, idsFrom>>
  BY <1>0 DEF Rtr!ApiExit, Rtr!contextVars
<1>4. /\ \A d \in DOMAIN calls : calls[d] \in HipCalls
      /\ Len(calls) \in Nat /\ DOMAIN calls = 1 .. Len(calls)
  BY <1>1, RtrElements
<1>5. /\ calls' \in Seq(HipCalls) /\ DOMAIN calls' = DOMAIN calls
      /\ calls'[c] = [calls[c] EXCEPT !.exited = TRUE]
      /\ \A d \in DOMAIN calls \ {c} : calls'[d] = calls[d]
  <2>1. [calls[c] EXCEPT !.exited = TRUE] \in HipCalls
    BY <1>2, <1>4 DEF HipCalls
  <2>2. calls' = [calls EXCEPT ![c] = [calls[c] EXCEPT !.exited = TRUE]]
    BY <1>3
  <2> QED
    BY <1>1, <1>2, <1>4, <2>1, <2>2, ExceptSeq DEF RtrTypes
<1>6. /\ \A d \in DOMAIN calls : /\ calls'[d].thread = calls[d].thread /\ calls'[d].api = calls[d].api
                                 /\ calls'[d].traced = calls[d].traced
                                 /\ calls'[d].reported = calls[d].reported
      /\ calls'[c].exited
      /\ \A d \in DOMAIN calls \ {c} : calls'[d].exited = calls[d].exited
  BY <1>2, <1>4, <1>5 DEF HipCalls
<1>20. PICK rows : rows = Rtr!RowsOfCall(c, t)
  OBVIOUS
<1>21. RowsAre(rows, c, t)
  BY <1>1, <1>20, RtrRowsOfCall
<1>22. IF calls[c].reported THEN tables' = rows /\ idsFrom' = Rtr!Ids
                            ELSE UNCHANGED <<tables, idsFrom>>
  BY <1>3, <1>20
<1>7. /\ DOMAIN tables' = DOMAIN tables /\ tables'.ops = tables.ops
      /\ storageNow' = storageNow /\ idsFrom' \in {0, storageNow'}
      /\ tables.api \subseteq tables'.api /\ tables.kernels \subseteq tables'.kernels
      /\ tables.copies \subseteq tables'.copies
  <2>1. CASE calls[c].reported
    BY <1>1, <1>3, <1>21, <1>22, <2>1 DEF RtrTypes, Rtr!Ids, RowsAre
  <2>2. CASE ~calls[c].reported
    BY <1>1, <1>3, <2>2 DEF RtrTypes
  <2> QED
    BY <2>1, <2>2
<1>8. RtrTypes'
  BY <1>1, <1>3, <1>5, <1>7 DEF RtrTypes
<1>9. StampInv'
  BY <1>3, <1>5, <1>6 DEF RtrInv, StampInv
<1>10. calls[c].reported /\ calls[c].api \in RtrWork => HasRows(c)'
  <2> SUFFICES ASSUME calls[c].reported, calls[c].api \in RtrWork PROVE HasRows(c)'
    OBVIOUS
  <2>1. tables' = rows
    BY <1>22
  <2>2. \E row \in rows.api : row.call = c
    <3>1. [call |-> c, start |-> timestamp[t], storage |-> storageNow, ids |-> Rtr!Ids] \in rows.api
      BY <1>21 DEF RowsAre
    <3> QED
      BY <3>1
  <2>3. CASE calls[c].api \in Rtr!LaunchApis
    BY <1>21, <2>1, <2>2, <2>3 DEF HasRows, RowsAre
  <2>4. CASE calls[c].api \in Rtr!CopyApis
    <3>1. \E row \in rows.copies : row.call = c
      <4>1. [call |-> c, sync |-> Rtr!Sync(calls[c].api)] \in rows.copies
        BY <1>21, <2>4 DEF RowsAre
      <4> QED
        BY <4>1
    <3> QED
      BY <2>1, <2>2, <3>1 DEF HasRows
  <2> QED
    BY <2>3, <2>4 DEF RtrWork
<1>11. CallInv'
  <2>1. ASSUME NEW d \in DOMAIN calls, d # c, calls[d].exited, calls[d].reported, calls[d].api \in RtrWork
        PROVE  HasRows(d)'
    <3>1. HasRows(d)
      BY <2>1 DEF RtrInv, CallInv
    <3> QED
      BY <1>7, <3>1 DEF HasRows
  <2>2. ASSUME NEW d \in DOMAIN calls', calls'[d].exited, calls'[d].reported, calls'[d].api \in RtrWork
        PROVE  HasRows(d)'
    <3>1. CASE d = c
      <4>1. HasRows(c)'
        BY <1>5, <1>6, <1>10, <2>2, <3>1
      <4> QED
        BY <3>1, <4>1
    <3>2. CASE d # c
      BY <1>5, <1>6, <2>1, <2>2, <3>2
    <3> QED
      BY <3>1, <3>2
  <2> QED
    BY <2>2 DEF CallInv
<1>12. OpInv'
  BY <1>3, <1>5, <1>6, <1>7, RtrOpsKept DEF RtrInv
<1>13. Rtr!CallRowsAreOwn'
  <2>1. CASE ~calls[c].reported
    BY <1>3, <2>1 DEF RtrInv, Rtr!CallRowsAreOwn
  <2>2. CASE calls[c].reported
    <3> DEFINE new == [call |-> c, start |-> timestamp[t], storage |-> storageNow, ids |-> Rtr!Ids]
    <3>1. tables'.api = tables.api \cup {new} /\ tables'.frames = tables.frames \cup Rtr!unwind(c)
      BY <1>21, <1>22, <2>2 DEF RowsAre
    <3>2. new.start = Rtr!clocktime(c) /\ new.call = c /\ new.ids = new.storage /\ new.storage = storageNow
      BY <1>1, <1>2, <2>2 DEF RtrInv, StampInv, RtrTypes, Rtr!Ids
    <3>3. \A f \in Rtr!unwind(c) : f.call = c /\ f.storage = storageNow
      BY DEF Rtr!unwind
    <3> HIDE DEF new
    <3> QED
      BY <3>1, <3>2, <3>3 DEF RtrInv, Rtr!CallRowsAreOwn
  <2> QED
    BY <2>1, <2>2
<1> QED
  BY <1>8, <1>9, <1>11, <1>12, <1>13 DEF RtrInv

LEMMA RtrComplete ==
    ASSUME RtrInv, NEW i \in DOMAIN operations, Rtr!Complete(i)
    PROVE  RtrInv'
<1>1. RtrTypes
  BY DEF RtrInv
<1>2. /\ operations[i].at = "queued" /\ operations' = [operations EXCEPT ![i].at = "completed"]
      /\ buffer' = IF Rtr!Recorded(i) THEN Append(buffer, i) ELSE buffer
      /\ UNCHANGED <<calls, timestamp, idsFrom, storageNow, tables>>
  BY DEF Rtr!Complete, Rtr!rowVars
<1>3. /\ \A k \in DOMAIN operations : operations[k] \in HipOps
      /\ Len(operations) \in Nat /\ DOMAIN operations = 1 .. Len(operations)
      /\ i \in Nat
  BY <1>1, RtrElements
<1>4. /\ operations' \in Seq(HipOps) /\ DOMAIN operations' = DOMAIN operations
      /\ operations'[i].at = "completed"
      /\ \A k \in DOMAIN operations : /\ operations'[k].corr = operations[k].corr
                                      /\ operations'[k].kind = operations[k].kind
                                      /\ k # i => operations'[k] = operations[k]
  <2>1. [operations[i] EXCEPT !.at = "completed"] \in HipOps
    BY <1>3 DEF HipOps, Places3
  <2>2. operations' = [operations EXCEPT ![i] = [operations[i] EXCEPT !.at = "completed"]]
    BY <1>2
  <2>3. /\ operations' \in Seq(HipOps) /\ DOMAIN operations' = DOMAIN operations
        /\ operations'[i] = [operations[i] EXCEPT !.at = "completed"]
        /\ \A k \in DOMAIN operations \ {i} : operations'[k] = operations[k]
    BY <1>1, <1>3, <2>1, <2>2, ExceptSeq DEF RtrTypes
  <2> QED
    BY <1>3, <2>3 DEF HipOps
<1>5. /\ buffer' \in Seq(Nat) /\ DOMAIN buffer \subseteq DOMAIN buffer'
      /\ \A k \in DOMAIN buffer : buffer'[k] = buffer[k]
      /\ \A k \in DOMAIN buffer' \ DOMAIN buffer : buffer'[k] = i /\ Rtr!Recorded(i)
      /\ \A k, l \in DOMAIN buffer' \ DOMAIN buffer : k = l
  <2>1. buffer \in Seq(Nat)
    BY <1>1 DEF RtrTypes
  <2>2. CASE ~Rtr!Recorded(i)
    BY <1>2, <2>1, <2>2
  <2>3. CASE Rtr!Recorded(i)
    BY <1>2, <1>3, <2>1, <2>3, Appended
  <2> QED
    BY <2>2, <2>3
<1>6. \A k \in DOMAIN buffer : buffer[k] # i
  BY <1>2 DEF RtrInv, OpInv, Pooled
<1>7. ASSUME NEW k \in DOMAIN operations
      PROVE  /\ OpKnown(k)' = OpKnown(k) /\ Logged(k)' = Logged(k) /\ HasOpRow(k)' = HasOpRow(k)
             /\ Rtr!Recorded(k)' = Rtr!Recorded(k) /\ (Pooled(k) => Pooled(k)')
  BY <1>2, <1>4 DEF OpKnown, Logged, HasOpRow, Rtr!Recorded, Pooled
<1>8. RtrTypes' /\ StampInv' /\ CallInv' /\ Rtr!CallRowsAreOwn'
  <2>1. RtrTypes'
    BY <1>1, <1>2, <1>4, <1>5 DEF RtrTypes
  <2> QED
    BY <1>2, <2>1 DEF RtrInv, StampInv, CallInv, HasRows, Rtr!CallRowsAreOwn
<1>9. OpInv'
  <2>1. \A k \in DOMAIN operations' : OpKnown(k)' /\ (Logged(k)' => HasOpRow(k)')
    BY <1>4, <1>7 DEF RtrInv, OpInv
  <2>2. ASSUME NEW k \in DOMAIN buffer'
        PROVE  Pooled(buffer[k])'
    <3>1. CASE k \in DOMAIN buffer
      <4>1. PICK p \in DOMAIN operations : p = buffer[k] /\ Pooled(p)
        BY <3>1 DEF RtrInv, OpInv, Pooled
      <4>2. Pooled(p)' /\ p = buffer'[k]
        BY <1>5, <1>7, <3>1, <4>1
      <4> QED
        BY <4>2
    <3>2. CASE k \notin DOMAIN buffer
      <4>1. buffer'[k] = i /\ Rtr!Recorded(i)
        BY <1>5, <2>2, <3>2
      <4>2. Pooled(i)'
        BY <1>4, <1>7, <4>1 DEF Pooled
      <4> QED
        BY <4>1, <4>2
    <3> QED
      BY <3>1, <3>2
  <2>3. \A k, l \in DOMAIN buffer' : buffer'[k] = buffer'[l] => k = l
    <3> TAKE k, l \in DOMAIN buffer'
    <3>1. CASE k \in DOMAIN buffer /\ l \in DOMAIN buffer
      BY <1>5, <3>1 DEF RtrInv, OpInv
    <3>2. CASE k \notin DOMAIN buffer /\ l \notin DOMAIN buffer
      BY <1>5, <3>2
    <3>3. CASE k \in DOMAIN buffer /\ l \notin DOMAIN buffer
      BY <1>5, <1>6, <3>3
    <3>4. CASE k \notin DOMAIN buffer /\ l \in DOMAIN buffer
      BY <1>5, <1>6, <3>4
    <3> QED
      BY <3>1, <3>2, <3>3, <3>4
  <2>4. ASSUME NEW j \in DOMAIN tables'.ops PROVE OpRowTrue(tables.ops[j])'
    <3>1. PICK row : row = tables.ops[j] /\ OpRowTrue(row) /\ tables'.ops[j] = row
      BY <1>2 DEF RtrInv, OpInv
    <3>2. PICK p \in DOMAIN operations : p = row.op /\ Logged(p) /\ Rtr!Recorded(p)
      BY <3>1 DEF OpRowTrue
    <3>3. Logged(p)' /\ Rtr!Recorded(p)'
      BY <1>7, <3>2
    <3>4. OpRowTrue(row)'
      BY <1>4, <3>1, <3>2, <3>3 DEF OpRowTrue
    <3> QED
      BY <3>1, <3>4
  <2>5. \A j, k \in DOMAIN tables'.ops : tables'.ops[j].op = tables'.ops[k].op => j = k
    BY <1>2 DEF RtrInv, OpInv
  <2> QED
    BY <2>1, <2>2, <2>3, <2>4, <2>5 DEF OpInv
<1> QED
  BY <1>8, <1>9 DEF RtrInv

LEMMA RtrLogged ==
    ASSUME RtrInv
    PROVE  \E logged \in Seq(Nat) :
             /\ Rtr!RowsOfBatch(buffer) = [j \in DOMAIN logged |-> Rtr!OpRow(logged[j])]
             /\ \A x : (\E j \in 1 .. Len(logged) : logged[j] = x)
                       <=> /\ x \in DOMAIN operations /\ operations[x].kind # "barrier"
                           /\ \E k \in DOMAIN buffer : buffer[k] = x
             /\ Once(logged)
<1> DEFINE wanted == {i \in DOMAIN operations : operations[i].kind # "barrier"}
           logged == Selected(buffer, wanted)
<1>1. buffer \in Seq(Nat) /\ DOMAIN buffer = 1 .. Len(buffer)
  BY RtrElements DEF RtrInv, RtrTypes
<1>2. Rtr!Selected(buffer, wanted) = logged
  BY DEF Rtr!Selected, Selected
<1>3. Rtr!RowsOfBatch(buffer) = [j \in DOMAIN logged |-> Rtr!OpRow(logged[j])]
  <2> HIDE DEF logged
  <2> QED
    BY <1>2 DEF Rtr!RowsOfBatch
<1>4. Once(buffer)
  BY <1>1 DEF RtrInv, OpInv, Once
<1>5. /\ logged \in Seq(Nat) /\ Once(logged)
      /\ \A x : (\E j \in 1 .. Len(logged) : logged[j] = x)
                <=> x \in wanted /\ \E j \in 1 .. Len(buffer) : buffer[j] = x
  <2> HIDE DEF wanted
  <2>1. PICK s : s = Selected(buffer, wanted)
    OBVIOUS
  <2>2. s \in Seq(Nat) /\ IsSelection(s, buffer, wanted)
    BY <1>1, <2>1, SelectedIs
  <2> QED
    BY <1>4, <2>1, <2>2 DEF IsSelection
<1> HIDE DEF logged
<1> QED
  BY <1>1, <1>3, <1>5

LEMMA RtrHandOver ==
    ASSUME RtrInv, Rtr!hcc_activity_callback
    PROVE  RtrInv'
<1>1. RtrTypes
  BY DEF RtrInv
<1>2. PICK logged \in Seq(Nat) :
             /\ Rtr!RowsOfBatch(buffer) = [j \in DOMAIN logged |-> Rtr!OpRow(logged[j])]
             /\ \A x : (\E j \in 1 .. Len(logged) : logged[j] = x)
                       <=> /\ x \in DOMAIN operations /\ operations[x].kind # "barrier"
                           /\ \E k \in DOMAIN buffer : buffer[k] = x
             /\ Once(logged)
  BY RtrLogged
<1>3. PICK rows : rows = [j \in DOMAIN logged |-> Rtr!OpRow(logged[j])]
  OBVIOUS
<1>4. /\ tables' = [tables EXCEPT !.ops = @ \o rows]
      /\ operations' = [i \in DOMAIN operations |->
                          IF i \in Rtr!Range(buffer) THEN [operations[i] EXCEPT !.at = "handed over"]
                                                     ELSE operations[i]]
      /\ buffer' = <<>>
      /\ UNCHANGED <<calls, timestamp, idsFrom, storageNow>>
  BY <1>2, <1>3 DEF Rtr!hcc_activity_callback
<1>5. /\ Len(operations) \in Nat /\ DOMAIN operations = 1 .. Len(operations)
      /\ \A i \in DOMAIN operations : operations[i] \in HipOps
      /\ Len(logged) \in Nat /\ DOMAIN logged = 1 .. Len(logged)
      /\ \A j \in 1 .. Len(logged) : logged[j] \in DOMAIN operations
  BY <1>1, <1>2, RtrElements, LenProperties
<1>6. /\ operations' \in Seq(HipOps) /\ DOMAIN operations' = DOMAIN operations
      /\ \A i \in DOMAIN operations : /\ operations'[i].corr = operations[i].corr
                                      /\ operations'[i].kind = operations[i].kind
                                      /\ operations'[i].at = IF i \in Rtr!Range(buffer) THEN "handed over"
                                                             ELSE operations[i].at
  <2>1. \A i \in DOMAIN operations : operations'[i] \in HipOps
    BY <1>4, <1>5 DEF HipOps, Places3
  <2>2. operations' \in [1 .. Len(operations) -> HipOps]
    BY <1>4, <1>5, <2>1
  <2>3. operations' \in Seq(HipOps)
    BY <1>5, <2>2
  <2> QED
    BY <1>4, <1>5, <2>3 DEF HipOps
<1>7. /\ rows \in Seq(OpRows) /\ Len(rows) = Len(logged)
      /\ \A j \in 1 .. Len(logged) : /\ rows[j].op = logged[j] /\ rows[j].corr = operations[logged[j]].corr
                                     /\ rows[j].start = Rtr!clocktime(logged[j])
  <2>1. \A j \in 1 .. Len(logged) :
            /\ rows[j] = [op |-> logged[j], corr |-> operations[logged[j]].corr, start |-> <<logged[j], 1>>]
            /\ logged[j] \in Nat /\ operations[logged[j]].corr \in Nat
    BY <1>3, <1>5 DEF Rtr!OpRow, Rtr!adjust_external_ts, Rtr!Raw, HipOps
  <2>2. ASSUME NEW j \in 1 .. Len(logged)
        PROVE  rows[j] \in OpRows /\ rows[j].op = logged[j] /\ rows[j].corr = operations[logged[j]].corr
               /\ rows[j].start = <<logged[j], 1>>
    <3>1. PICK o, c : o = logged[j] /\ c = operations[logged[j]].corr /\ o \in Nat /\ c \in Nat
      BY <2>1
    <3>2. <<o, 1>> \in Nat \X Nat
      BY <3>1
    <3>3. [op |-> o, corr |-> c, start |-> <<o, 1>>] \in OpRows
      BY <3>1, <3>2 DEF OpRows
    <3> QED
      BY <2>1, <3>1, <3>3
  <2>3. DOMAIN rows = 1 .. Len(logged) /\ rows = [j \in DOMAIN rows |-> rows[j]]
    BY <1>3, <1>5
  <2>4. rows \in Seq(OpRows) /\ Len(rows) = Len(logged)
    BY <1>5, <2>2, <2>3, Listed
  <2> QED
    BY <2>2, <2>4 DEF Rtr!clocktime
<1>8. PICK old, n, all :
          /\ old \in Seq(OpRows) /\ n \in Nat /\ old = tables.ops /\ n = Len(old) /\ DOMAIN old = 1 .. n /\ all = old \o rows
  BY <1>1, LenProperties DEF RtrTypes
<1>9. /\ all \in Seq(OpRows)
      /\ \A j \in 1 .. n : all[j] = old[j] /\ j \in DOMAIN all
      /\ \A j \in 1 .. Len(logged) : all[n + j] = rows[j] /\ n + j \in DOMAIN all
      /\ \A j \in DOMAIN all : j \in 1 .. n \/ \E k \in 1 .. Len(logged) : j = n + k
  <2>1. all \in Seq(OpRows) /\ Joins(all, old, n, rows, Len(logged))
    BY <1>7, <1>8, JoinedIs
  <2> QED
    BY <2>1 DEF Joins
<1>10. /\ DOMAIN tables' = DOMAIN tables /\ tables'.ops = all
       /\ tables'.api = tables.api /\ tables'.kernels = tables.kernels
       /\ tables'.copies = tables.copies /\ tables'.frames = tables.frames
  <2>1. DOMAIN tables = {"api", "kernels", "copies", "ops", "frames"}
    BY <1>1 DEF RtrTypes
  <2>2. tables' = [tables EXCEPT !.ops = all]
    BY <1>4, <1>8
  <2> QED
    BY <2>1, <2>2
<1>11. \A i : i \in Rtr!Range(buffer) <=> \E k \in DOMAIN buffer : buffer[k] = i
  BY DEF Rtr!Range
<1>12. ASSUME NEW i \in DOMAIN operations
       PROVE  /\ OpKnown(i)' = OpKnown(i) /\ Rtr!Recorded(i)' = Rtr!Recorded(i)
              /\ Logged(i) => Logged(i)'
  BY <1>4, <1>6 DEF OpKnown, Rtr!Recorded, Logged
<1>13. RtrTypes'
  <2>1. /\ calls' \in Seq(HipCalls) /\ DOMAIN timestamp' = HipThreads
        /\ storageNow' \in {1, 2} /\ idsFrom' \in {0, storageNow'}
    BY <1>1, <1>4 DEF RtrTypes
  <2>2. buffer' \in Seq(Nat)
    BY <1>4, EmptySeq
  <2>3. DOMAIN tables' = {"api", "kernels", "copies", "ops", "frames"} /\ tables'.ops \in Seq(OpRows)
    BY <1>1, <1>9, <1>10 DEF RtrTypes
  <2> QED
    BY <1>6, <2>1, <2>2, <2>3 DEF RtrTypes
<1>14. StampInv' /\ CallInv' /\ Rtr!CallRowsAreOwn'
  <2>1. StampInv'
    BY <1>4 DEF RtrInv, StampInv
  <2>2. CallInv'
    BY <1>4, <1>10 DEF RtrInv, CallInv, HasRows
  <2>3. Rtr!CallRowsAreOwn'
    BY <1>10 DEF RtrInv, Rtr!CallRowsAreOwn
  <2> QED
    BY <2>1, <2>2, <2>3
<1>15. \A i \in DOMAIN operations' : OpKnown(i)' /\ (Logged(i)' => HasOpRow(i)')
  <2> SUFFICES ASSUME NEW i \in DOMAIN operations PROVE OpKnown(i)' /\ (Logged(i)' => HasOpRow(i)')
    BY <1>6
  <2>1. OpKnown(i)'
    BY <1>12 DEF RtrInv, OpInv
  <2>2. CASE i \in Rtr!Range(buffer) /\ Logged(i)'
    <3>1. PICK j \in 1 .. Len(logged) : logged[j] = i
      BY <1>2, <1>6, <1>11, <2>2 DEF Logged
    <3>2. all[n + j].op = i /\ n + j \in DOMAIN all
      BY <1>7, <1>9, <3>1
    <3> QED
      BY <1>10, <2>1, <3>2 DEF HasOpRow
  <2>3. CASE i \notin Rtr!Range(buffer) /\ Logged(i)'
    <3>1. HasOpRow(i)
      BY <1>6, <2>3 DEF Logged, RtrInv, OpInv
    <3>2. PICK j \in 1 .. n : old[j].op = i
      BY <1>8, <3>1 DEF HasOpRow
    <3>3. all[j].op = i /\ j \in DOMAIN all
      BY <1>9, <3>2
    <3> QED
      BY <1>10, <2>1, <3>3 DEF HasOpRow
  <2> QED
    BY <2>1, <2>2, <2>3
<1>16. DOMAIN buffer' = {}
  <2>1. buffer' = <<>>
    BY <1>4
  <2> QED
    BY <2>1
<1>17. ASSUME NEW j \in 1 .. Len(logged)
       PROVE  Pooled(logged[j]) /\ operations[logged[j]].kind # "barrier" /\ logged[j] \in Rtr!Range(buffer)
  <2>1. PICK k \in DOMAIN buffer : buffer[k] = logged[j]
    BY <1>2
  <2>2. Pooled(logged[j])
    BY <2>1 DEF RtrInv, OpInv
  <2> QED
    BY <1>2, <1>11, <2>1, <2>2
<1>18. ASSUME NEW j \in DOMAIN all PROVE OpRowTrue(all[j])'
  <2>1. PICK row : row = all[j]
    OBVIOUS
  <2>2. CASE j \in 1 .. n
    <3>1. OpRowTrue(row)
      BY <1>8, <1>9, <2>1, <2>2 DEF RtrInv, OpInv
    <3>2. PICK i \in DOMAIN operations : i = row.op /\ Logged(i) /\ Rtr!Recorded(i)
      BY <3>1 DEF OpRowTrue
    <3>3. Logged(i)' /\ Rtr!Recorded(i)'
      BY <1>12, <3>2
    <3>4. OpRowTrue(row)'
      BY <1>6, <3>1, <3>2, <3>3 DEF OpRowTrue
    <3> QED
      BY <2>1, <3>4
  <2>3. ASSUME NEW k \in 1 .. Len(logged), j = n + k PROVE OpRowTrue(row)'
    <3>1. PICK i \in DOMAIN operations : i = logged[k]
      BY <1>5
    <3>2. Rtr!Recorded(i) /\ operations[i].kind # "barrier" /\ i \in Rtr!Range(buffer)
      BY <1>17, <3>1 DEF Pooled
    <3>3. row.op = i /\ row.corr = operations[i].corr /\ row.start = Rtr!clocktime(i)
      BY <1>7, <1>9, <2>1, <2>3, <3>1
    <3>4. Logged(i)' /\ Rtr!Recorded(i)'
      BY <1>6, <1>12, <3>2 DEF Logged
    <3> QED
      BY <1>6, <3>3, <3>4 DEF OpRowTrue
  <2> QED
    BY <1>9, <2>1, <2>2, <2>3
<1>19. ASSUME NEW j \in DOMAIN all, NEW k \in DOMAIN all, all[j].op = all[k].op
       PROVE  j = k
  <2>1. ASSUME NEW i \in 1 .. n, NEW l \in 1 .. Len(logged) PROVE all[i].op # all[n + l].op
    <3>1. OpRowTrue(old[i])
      BY <1>8 DEF RtrInv, OpInv
    <3>2. operations[old[i].op].at = "handed over"
      BY <3>1 DEF OpRowTrue, Logged
    <3>3. operations[logged[l]].at = "completed"
      BY <1>17 DEF Pooled
    <3>4. old[i].op # logged[l]
      BY <3>2, <3>3
    <3> QED
      BY <1>7, <1>9, <3>4
  <2>2. CASE j \in 1 .. n /\ k \in 1 .. n
    <3>1. old[j].op = old[k].op
      BY <1>9, <1>19, <2>2
    <3> QED
      BY <1>8, <2>2, <3>1 DEF RtrInv, OpInv
  <2>3. ASSUME NEW a \in 1 .. Len(logged), NEW b \in 1 .. Len(logged), j = n + a, k = n + b
        PROVE  j = k
    <3>1. logged[a] = logged[b]
      BY <1>7, <1>9, <1>19, <2>3
    <3> QED
      BY <1>2, <2>3, <3>1 DEF Once
  <2>4. CASE j \in 1 .. n /\ \E l \in 1 .. Len(logged) : k = n + l
    BY <1>19, <2>1, <2>4
  <2>5. CASE k \in 1 .. n /\ \E l \in 1 .. Len(logged) : j = n + l
    BY <1>19, <2>1, <2>5
  <2> QED
    BY <1>9, <2>2, <2>3, <2>4, <2>5
<1>20. OpInv'
  <2>1. \A j \in DOMAIN tables'.ops : OpRowTrue(tables.ops[j])'
    BY <1>10, <1>18
  <2>2. \A j, k \in DOMAIN tables'.ops : tables'.ops[j].op = tables'.ops[k].op => j = k
    BY <1>10, <1>19
  <2> QED
    BY <1>15, <1>16, <2>1, <2>2, Zenon DEF OpInv
<1> QED
  BY <1>13, <1>14, <1>20 DEF RtrInv

LEMMA RtrStep == ASSUME RtrInv, [Rtr!Next]_<<lifeVars, rowVars, callVars, opVars>> PROVE RtrInv'
<1>1. ASSUME UNCHANGED <<calls, timestamp, operations, buffer, tables>>, storageNow' \in {1, 2},
             idsFrom' \in {0, storageNow'}
      PROVE  RtrInv'
  <2>1. RtrTypes'
    BY <1>1 DEF RtrInv, RtrTypes
  <2>2. StampInv' /\ CallInv' /\ Rtr!CallRowsAreOwn'
    BY <1>1 DEF RtrInv, StampInv, CallInv, HasRows, Rtr!CallRowsAreOwn
  <2>3. OpInv'
    BY <1>1, RtrOpsKept DEF RtrInv
  <2> QED
    BY <2>1, <2>2, <2>3 DEF RtrInv
<1>2. storageNow \in {1, 2} /\ idsFrom \in {0, storageNow}
  BY DEF RtrInv, RtrTypes
<1>3. CASE \E t \in HipThreads : (\E api \in HipApis : Rtr!ApiEnter(t, api)) \/ Rtr!Enqueue(t) \/ Rtr!ApiExit(t)
  BY <1>3, RtrApiEnter, RtrEnqueue, RtrApiExit
<1>4. CASE \E i \in DOMAIN operations : Rtr!Complete(i)
  BY <1>4, RtrComplete
<1>5. CASE Rtr!PoolFull \/ Rtr!flush
  BY <1>5, RtrHandOver DEF Rtr!PoolFull, Rtr!flush
<1>6. CASE Rtr!init \/ Rtr!startTracing \/ Rtr!stopTracing \/ Rtr!end \/ UNCHANGED <<lifeVars, rowVars, callVars, opVars>>
  BY <1>1, <1>2, <1>6 DEF Rtr!init, Rtr!startTracing, Rtr!stopTracing, Rtr!end, Rtr!rowVars,
     lifeVars, rowVars, callVars, opVars
<1>7. CASE Rtr!reset
  BY <1>1, <1>7 DEF Rtr!reset, Rtr!IdsAfterReset
<1> QED
  BY <1>3, <1>4, <1>5, <1>6, <1>7 DEF Rtr!Next

LEMMA RtrCardinality == ASSUME NEW S PROVE Rtr!Cardinality(S) = Cardinality(S)
BY DEF Rtr!Cardinality, Cardinality

LEMMA RtrOnce == ASSUME RtrInv PROVE Rtr!OperationsOnce
<1>1. ASSUME NEW i \in DOMAIN operations
      PROVE  Rtr!Cardinality({j \in DOMAIN tables.ops : tables.ops[j].op = i}) =
               IF operations[i].at = "handed over" /\ operations[i].kind # "barrier" THEN 1 ELSE 0
  <2> DEFINE own == {j \in DOMAIN tables.ops : tables.ops[j].op = i}
  <2>1. CASE Logged(i)
    <3>1. PICK j \in DOMAIN tables.ops : tables.ops[j].op = i
      BY <2>1 DEF RtrInv, OpInv, HasOpRow
    <3>2. own = {j}
      BY <3>1 DEF RtrInv, OpInv
    <3> HIDE DEF own
    <3>3. Rtr!Cardinality(own) = 1
      BY <3>2, FS_Singleton, RtrCardinality
    <3> QED
      BY <2>1, <3>3 DEF own, Logged
  <2>2. CASE ~Logged(i)
    <3>1. \A j \in DOMAIN tables.ops : tables.ops[j].op # i
      BY <2>2 DEF RtrInv, OpInv, OpRowTrue
    <3>2. own = {}
      BY <3>1
    <3> HIDE DEF own
    <3>3. Rtr!Cardinality(own) = 0
      BY <3>2, FS_EmptySet, RtrCardinality
    <3> QED
      BY <2>2, <3>3 DEF own, Logged
  <2> QED
    BY <2>1, <2>2
<1>2. ASSUME NEW j \in DOMAIN tables.ops
      PROVE  LET op == tables.ops[j] IN
             /\ op.start = Rtr!clocktime(op.op)
             /\ calls[op.corr].exited =>
                  /\ \E row \in tables.api : row.call = op.corr
                  /\ op.corr \in tables.kernels \/ \E row \in tables.copies : row.call = op.corr
  <2>1. PICK op : op = tables.ops[j] /\ OpRowTrue(op)
    BY DEF RtrInv, OpInv
  <2>2. PICK i \in DOMAIN operations : i = op.op /\ Rtr!Recorded(i) /\ op.corr = operations[i].corr
    BY <2>1 DEF OpRowTrue
  <2>3. PICK c \in DOMAIN calls : c = op.corr /\ calls[c].api \in RtrWork /\ calls[c].traced
    BY <2>2 DEF RtrInv, OpInv, OpKnown, Rtr!Recorded
  <2>4. Rtr!contains(calls[c].api)
    BY <2>3 DEF RtrWork, Rtr!LaunchApis, Rtr!CopyApis, Rtr!contains
  <2>5. calls[c].reported
    BY <2>3, <2>4 DEF RtrInv, StampInv
  <2>6. calls[c].exited => HasRows(c)
    BY <2>3, <2>5 DEF RtrInv, CallInv
  <2> QED
    BY <2>1, <2>3, <2>6 DEF OpRowTrue, HasRows
<1> QED
  BY <1>1, <1>2 DEF Rtr!OperationsOnce

-----------------------------------------------------------------------------
(* CUPTI                                                                     *)

CudaCalls == [thread : CudaThreads, api : CudaApis, exited : BOOLEAN, reported : BOOLEAN,
              driver : {"none", "open", "done"}, inner : BOOLEAN]
CudaOps   == [corr : Nat, traced : BOOLEAN, at : Places3]

CupTypes ==
    /\ calls \in Seq(CudaCalls)
    /\ DOMAIN timestamp = CudaThreads /\ \A t \in CudaThreads : DOMAIN timestamp[t] = Cup!Domains
    /\ cuptiCrashHack \in [CudaThreads -> Nat]
    /\ operations \in Seq(CudaOps) /\ buffer \in Seq(Nat)
    /\ DOMAIN tables = {"api", "kernels", "copies", "ops"}
    /\ tables.ops \in Seq(OpRows)
    /\ storageNow \in {1, 2} /\ idsFrom \in {0, storageNow}

\* A thread has one call of the runtime at a time, and in it one of the driver:
\* each stamp is the one of the call it was read for.
CupStamps(c) ==
    /\ ~calls[c].exited /\ calls[c].reported =>
           timestamp[calls[c].thread]["runtime"] = Cup!clocktime(<<c, "runtime">>)
    /\ calls[c].driver = "open" => Cup!Works(c) /\ ~calls[c].exited
    /\ calls[c].driver = "open" /\ calls[c].inner =>
           timestamp[calls[c].thread]["driver"] = Cup!clocktime(<<c, "driver">>)
CupStampInv ==
    /\ \A c, d \in DOMAIN calls :
           ~calls[c].exited /\ ~calls[d].exited /\ calls[c].thread = calls[d].thread => c = d
    /\ \A c \in DOMAIN calls : CupStamps(c)

HasRuntimeRow(c) == \E row \in tables.api : row.call = c /\ row.domain = "runtime"
CupCallInv == \A c \in DOMAIN calls : calls[c].exited /\ calls[c].reported => HasRuntimeRow(c)

\* A thread counts its launches, the nameless ones among them.
Nameless(t) == {row \in tables.kernels : calls[row.call].thread = t /\ ~row.named}
NamesInv ==
    /\ \A row \in tables.kernels : row.call \in DOMAIN calls
    /\ \A t \in CudaThreads : /\ IsFiniteSet(Nameless(t))
                              /\ Cardinality(Nameless(t)) <= cuptiCrashHack[t]
                              /\ Cardinality(Nameless(t)) <= LostNames

\* An operation is in a buffer or has its row, once.
CudaKnown(i)  == operations[i].corr \in DOMAIN calls
CudaLogged(i) == operations[i].at = "handed over"
CudaPooled(i) == i \in DOMAIN operations /\ operations[i].at = "completed"
CudaRowTrue(row) == /\ row.op \in DOMAIN operations /\ CudaLogged(row.op)
                    /\ row.corr = operations[row.op].corr
CupOpInv ==
    /\ \A i \in DOMAIN operations : CudaKnown(i) /\ (CudaLogged(i) => HasOpRow(i))
    /\ \A k \in DOMAIN buffer : CudaPooled(buffer[k])
    /\ \A k, l \in DOMAIN buffer : buffer[k] = buffer[l] => k = l
    /\ \A j \in DOMAIN tables.ops : CudaRowTrue(tables.ops[j])
    /\ \A j, k \in DOMAIN tables.ops : tables.ops[j].op = tables.ops[k].op => j = k

CupRowsOwn == \A row \in tables.api :
                  row.start = Cup!clocktime(<<row.call, row.domain>>) /\ row.ids = row.storage

CupInv == CupTypes /\ CupStampInv /\ CupCallInv /\ NamesInv /\ CupOpInv /\ CupRowsOwn

LEMMA CupInit == SourcesInit /\ subject = "cupti" => CupInv
<1> SUFFICES ASSUME Cup!Init PROVE CupInv
  BY DEF SourcesInit
<1>1. /\ calls = <<>> /\ operations = <<>> /\ buffer = <<>> /\ tables.ops = <<>>
      /\ tables.api = {} /\ tables.kernels = {}
  BY DEF Cup!Init
<1>2. CupTypes
  BY <1>1 DEF Cup!Init, CupTypes
<1>3. DOMAIN calls = {} /\ DOMAIN operations = {} /\ DOMAIN buffer = {} /\ DOMAIN tables.ops = {}
  BY <1>1
<1>4. CupStampInv /\ CupCallInv /\ CupOpInv /\ CupRowsOwn
  BY <1>1, <1>3 DEF CupStampInv, CupCallInv, CupOpInv, CupRowsOwn
<1>5. NamesInv
  <2>1. \A t : Nameless(t) = {}
    BY <1>1 DEF Nameless
  <2>2. IsFiniteSet({}) /\ Cardinality({}) = 0
    BY FS_EmptySet
  <2>3. \A t \in CudaThreads : cuptiCrashHack[t] = 0
    BY DEF Cup!Init
  <2> QED
    <3>1. ASSUME NEW t \in CudaThreads
          PROVE  /\ IsFiniteSet(Nameless(t)) /\ Cardinality(Nameless(t)) <= cuptiCrashHack[t]
                 /\ Cardinality(Nameless(t)) <= LostNames
      <4>1. IsFiniteSet(Nameless(t)) /\ Cardinality(Nameless(t)) = 0
        BY <2>1, <2>2
      <4> QED
        BY <2>3, <4>1, NamesAssumption
    <3> QED
      BY <1>1, <3>1 DEF NamesInv
<1> QED
  BY <1>2, <1>4, <1>5 DEF CupInv

LEMMA CupElements ==
    ASSUME CupTypes
    PROVE  /\ Len(calls) \in Nat /\ DOMAIN calls = 1 .. Len(calls)
           /\ Len(operations) \in Nat /\ DOMAIN operations = 1 .. Len(operations)
           /\ Len(buffer) \in Nat /\ DOMAIN buffer = 1 .. Len(buffer)
           /\ Len(tables.ops) \in Nat /\ DOMAIN tables.ops = 1 .. Len(tables.ops)
           /\ \A c \in DOMAIN calls : calls[c] \in CudaCalls
           /\ \A i \in DOMAIN operations : operations[i] \in CudaOps
           /\ \A k \in DOMAIN buffer : buffer[k] \in Nat
<1> USE DEF CupTypes
<1>1. /\ Len(calls) \in Nat /\ DOMAIN calls = 1 .. Len(calls)
      /\ Len(operations) \in Nat /\ DOMAIN operations = 1 .. Len(operations)
      /\ Len(buffer) \in Nat /\ DOMAIN buffer = 1 .. Len(buffer)
      /\ Len(tables.ops) \in Nat /\ DOMAIN tables.ops = 1 .. Len(tables.ops)
  BY LenProperties
<1> QED
  BY <1>1, ElementOfSeq

\* The call a thread is in.
LEMMA CupCallOf ==
    ASSUME NEW t, Cup!InCall(t)
    PROVE  Cup!CallOf(t) \in DOMAIN calls /\ calls[Cup!CallOf(t)].thread = t /\ ~calls[Cup!CallOf(t)].exited
BY DEF Cup!InCall, Cup!CallOf

\* What is known of the operations stays true when calls go on and operations come.
LEMMA CupOpsKept ==
    ASSUME CupOpInv, UNCHANGED buffer, tables'.ops = tables.ops,
           DOMAIN calls \subseteq DOMAIN calls',
           DOMAIN operations \subseteq DOMAIN operations',
           \A i \in DOMAIN operations : operations'[i] = operations[i],
           \A i \in DOMAIN operations' \ DOMAIN operations :
               operations'[i].corr \in DOMAIN calls' /\ operations'[i].at = "queued"
    PROVE  CupOpInv'
<1>1. ASSUME NEW i \in DOMAIN operations
      PROVE  /\ CudaKnown(i)' /\ CudaLogged(i)' = CudaLogged(i) /\ HasOpRow(i)' = HasOpRow(i)
             /\ CudaPooled(i)' = CudaPooled(i)
  <2>1. operations'[i] = operations[i] /\ i \in DOMAIN operations'
    OBVIOUS
  <2>2. operations[i].corr \in DOMAIN calls
    BY DEF CupOpInv, CudaKnown
  <2> QED
    BY <2>1, <2>2 DEF CudaKnown, CudaLogged, HasOpRow, CudaPooled
<1>2. ASSUME NEW i \in DOMAIN operations' \ DOMAIN operations
      PROVE  CudaKnown(i)' /\ ~CudaLogged(i)'
  BY DEF CudaKnown, CudaLogged
<1>3. \A i \in DOMAIN operations' : CudaKnown(i)' /\ (CudaLogged(i)' => HasOpRow(i)')
  BY <1>1, <1>2 DEF CupOpInv
<1>4. \A k \in DOMAIN buffer' : CudaPooled(buffer[k])'
  <2> TAKE k \in DOMAIN buffer'
  <2>1. PICK i \in DOMAIN operations : i = buffer[k] /\ CudaPooled(i)
    BY DEF CupOpInv, CudaPooled
  <2>2. CudaPooled(i)'
    BY <1>1, <2>1
  <2> QED
    BY <2>1, <2>2
<1>5. \A j \in DOMAIN tables'.ops : CudaRowTrue(tables.ops[j])'
  <2> TAKE j \in DOMAIN tables'.ops
  <2>1. PICK row : row = tables.ops[j] /\ CudaRowTrue(row) /\ tables'.ops[j] = row
    BY DEF CupOpInv
  <2>2. PICK i \in DOMAIN operations : i = row.op /\ CudaLogged(i)
    BY <2>1 DEF CudaRowTrue
  <2>3. CudaLogged(i)'
    BY <1>1, <2>2
  <2>4. CudaRowTrue(row)'
    BY <2>1, <2>2, <2>3 DEF CudaRowTrue
  <2> QED
    BY <2>1, <2>4
<1> QED
  BY <1>3, <1>4, <1>5 DEF CupOpInv

\* The names of the launches, when the rows of the kernels stay.
LEMMA CupNamesKept ==
    ASSUME NamesInv, tables'.kernels = tables.kernels, UNCHANGED cuptiCrashHack,
           DOMAIN calls \subseteq DOMAIN calls',
           \A c \in DOMAIN calls : calls'[c].thread = calls[c].thread
    PROVE  NamesInv'
<1>1. ASSUME NEW t \in CudaThreads PROVE Nameless(t)' = Nameless(t)
  BY DEF NamesInv, Nameless
<1>2. \A row \in tables'.kernels : row.call \in DOMAIN calls'
  BY DEF NamesInv
<1> QED
  BY <1>1, <1>2 DEF NamesInv

\* The call with changes to its record.
LEMMA CupCallChanged ==
    ASSUME CupTypes, NEW c \in DOMAIN calls, NEW call \in CudaCalls,
           calls' = [calls EXCEPT ![c] = call]
    PROVE  /\ calls' \in Seq(CudaCalls) /\ DOMAIN calls' = DOMAIN calls /\ calls'[c] = call
           /\ \A d \in DOMAIN calls \ {c} : calls'[d] = calls[d]
BY CupElements, ExceptSeq DEF CupTypes

LEMMA CupRuntimeEnter ==
    ASSUME CupInv, NEW t \in CudaThreads, NEW api \in CudaApis, Cup!RuntimeEnter(t, api)
    PROVE  CupInv'
<1>1. CupTypes
  BY DEF CupInv
<1>2. PICK rep, new, c0 :
        /\ rep \in BOOLEAN /\ (rep <=> context = "started" /\ Cup!contains(api))
        /\ new = [thread |-> t, api |-> api, exited |-> FALSE, reported |-> rep,
                  driver |-> "none", inner |-> FALSE]
        /\ c0 = Len(calls) + 1 /\ calls' = Append(calls, new)
  <2> DEFINE r == context = "started" /\ Cup!contains(api)
  <2>1. r \in BOOLEAN
    OBVIOUS
  <2>2. calls' = Append(calls, [thread |-> t, api |-> api, exited |-> FALSE, reported |-> r,
                                driver |-> "none", inner |-> FALSE])
    BY DEF Cup!RuntimeEnter
  <2> QED
    BY <2>1, <2>2
<1>3. /\ timestamp' = IF rep THEN Cup!StampAfter(t, "runtime", Cup!clocktime(<<c0, "runtime">>)) ELSE timestamp
      /\ ~Cup!InCall(t)
      /\ UNCHANGED <<cuptiCrashHack, operations, buffer, idsFrom, storageNow, tables>>
  BY <1>2 DEF Cup!RuntimeEnter, Cup!Enter, Cup!rowVars, Cup!contextVars
<1>4. new \in CudaCalls
  BY <1>2 DEF CudaCalls
<1>5. /\ calls' \in Seq(CudaCalls)
      /\ DOMAIN calls' = DOMAIN calls \cup {c0} /\ c0 \notin DOMAIN calls
      /\ calls'[c0] = new
      /\ \A c \in DOMAIN calls : calls'[c] = calls[c]
  BY <1>1, <1>2, <1>4, Appended DEF CupTypes
<1>6. new.thread = t /\ new.api = api /\ ~new.exited /\ new.reported = rep /\ new.driver = "none"
  BY <1>2
<1>7. \A c \in DOMAIN calls : calls[c] \in CudaCalls
  BY <1>1, CupElements
<1>8. \A c \in DOMAIN calls : ~calls[c].exited => calls[c].thread # t
  BY <1>3 DEF Cup!InCall
<1>9. /\ DOMAIN timestamp' = CudaThreads
      /\ \A u \in CudaThreads : DOMAIN timestamp'[u] = Cup!Domains
      /\ \A u \in CudaThreads \ {t} : timestamp'[u] = timestamp[u]
      /\ rep => timestamp'[t]["runtime"] = Cup!clocktime(<<c0, "runtime">>)
  <2>1. CASE ~rep
    BY <1>1, <1>3, <2>1 DEF CupTypes
  <2>2. CASE rep
    <3>1. timestamp' = [timestamp EXCEPT ![t] = [timestamp[t] EXCEPT !["runtime"] = Cup!clocktime(<<c0, "runtime">>)]]
      BY <1>3, <2>2 DEF Cup!StampAfter
    <3> QED
      BY <1>1, <3>1 DEF CupTypes, Cup!Domains
  <2> QED
    BY <2>1, <2>2
<1>10. CupTypes'
  BY <1>1, <1>3, <1>5, <1>9 DEF CupTypes
<1>11. CupStampInv'
  <2>1. ASSUME NEW c \in DOMAIN calls', NEW d \in DOMAIN calls', ~calls'[c].exited, ~calls'[d].exited,
               calls'[c].thread = calls'[d].thread
        PROVE  c = d
    BY <1>5, <1>6, <1>8, <2>1 DEF CupInv, CupStampInv
  <2>2. ASSUME NEW c \in DOMAIN calls' PROVE CupStamps(c)'
    <3>1. CASE c = c0
      BY <1>5, <1>6, <1>9, <3>1 DEF CupStamps
    <3>2. CASE c \in DOMAIN calls
      <4>1. calls'[c] = calls[c] /\ CupStamps(c) /\ calls[c].thread \in CudaThreads
        BY <1>5, <1>7, <3>2 DEF CupInv, CupStampInv, CudaCalls
      <4>2. ~calls[c].exited => timestamp'[calls[c].thread] = timestamp[calls[c].thread]
        BY <1>8, <1>9, <3>2, <4>1
      <4>3. Cup!Works(c)' = Cup!Works(c)
        BY <4>1 DEF Cup!Works
      <4> QED
        BY <4>1, <4>2, <4>3 DEF CupStamps
    <3> QED
      BY <1>5, <3>1, <3>2
  <2> QED
    BY <2>1, <2>2, Zenon DEF CupStampInv
<1>12. CupCallInv'
  BY <1>3, <1>5, <1>6 DEF CupInv, CupCallInv, HasRuntimeRow
<1>13. CupOpInv'
  BY <1>3, <1>5, CupOpsKept DEF CupInv
<1>14. NamesInv' /\ CupRowsOwn'
  BY <1>3, <1>5, CupNamesKept DEF CupInv, CupRowsOwn
<1> QED
  BY <1>10, <1>11, <1>12, <1>13, <1>14 DEF CupInv

LEMMA CupDriverEnter ==
    ASSUME CupInv, NEW t \in CudaThreads, Cup!DriverEnter(t)
    PROVE  CupInv'
<1>1. CupTypes
  BY DEF CupInv
<1>2. PICK c, inner : c = Cup!CallOf(t) /\ inner \in BOOLEAN /\ (inner <=> context = "started")
  <2>1. (context = "started") \in BOOLEAN
    OBVIOUS
  <2> QED
    BY <2>1
<1>3. /\ c \in DOMAIN calls /\ calls[c].thread = t /\ ~calls[c].exited
      /\ Cup!Works(c) /\ calls[c].driver = "none"
  BY <1>2, CupCallOf DEF Cup!DriverEnter
<1>4. PICK op : op = [corr |-> c, traced |-> inner, at |-> "queued"]
  OBVIOUS
<1>5. /\ calls' = [calls EXCEPT ![c].driver = "open", ![c].inner = inner]
      /\ timestamp' = IF inner THEN Cup!StampAfter(t, "driver", Cup!clocktime(<<c, "driver">>)) ELSE timestamp
      /\ operations' = Append(operations, op)
      /\ UNCHANGED <<cuptiCrashHack, buffer, idsFrom, storageNow, tables>>
  <2>1. inner = (context = "started")
    BY <1>2
  <2> QED
    BY <1>2, <1>4, <2>1 DEF Cup!DriverEnter, Cup!Enter, Cup!rowVars, Cup!contextVars
<1>6. calls[c] \in CudaCalls /\ c \in Nat /\ inner \in BOOLEAN
  BY <1>1, <1>2, <1>3, CupElements
<1>7. PICK call : call = [calls[c] EXCEPT !.driver = "open", !.inner = inner]
  OBVIOUS
<1>8. /\ call \in CudaCalls /\ call.thread = t /\ call.api = calls[c].api /\ ~call.exited
      /\ call.reported = calls[c].reported /\ call.driver = "open" /\ call.inner = inner
      /\ call.exited = calls[c].exited
  BY <1>3, <1>6, <1>7 DEF CudaCalls
<1>9. calls' = [calls EXCEPT ![c] = call]
  BY <1>5, <1>6, <1>7 DEF CudaCalls
<1>10. /\ calls' \in Seq(CudaCalls) /\ DOMAIN calls' = DOMAIN calls /\ calls'[c] = call
       /\ \A d \in DOMAIN calls \ {c} : calls'[d] = calls[d]
  BY <1>1, <1>3, <1>8, <1>9, CupCallChanged
<1>11. op \in CudaOps /\ op.corr = c /\ op.at = "queued"
  BY <1>4, <1>6 DEF CudaOps, Places3
<1>12. /\ operations' \in Seq(CudaOps)
       /\ DOMAIN operations' = DOMAIN operations \cup {Len(operations) + 1}
       /\ operations'[Len(operations) + 1] = op
       /\ \A i \in DOMAIN operations : operations'[i] = operations[i]
  BY <1>1, <1>5, <1>11, Appended DEF CupTypes
<1>13. /\ DOMAIN timestamp' = CudaThreads
       /\ \A u \in CudaThreads : DOMAIN timestamp'[u] = Cup!Domains
       /\ \A u \in CudaThreads \ {t} : timestamp'[u] = timestamp[u]
       /\ timestamp'[t]["runtime"] = timestamp[t]["runtime"]
       /\ inner => timestamp'[t]["driver"] = Cup!clocktime(<<c, "driver">>)
  <2>1. CASE ~inner
    BY <1>1, <1>5, <2>1 DEF CupTypes
  <2>2. CASE inner
    <3>1. timestamp' = [timestamp EXCEPT ![t] = [timestamp[t] EXCEPT !["driver"] = Cup!clocktime(<<c, "driver">>)]]
      BY <1>5, <2>2 DEF Cup!StampAfter
    <3> QED
      BY <1>1, <3>1 DEF CupTypes, Cup!Domains
  <2> QED
    BY <2>1, <2>2
<1>14. CupTypes'
  BY <1>1, <1>5, <1>10, <1>12, <1>13 DEF CupTypes
<1>15. \A d \in DOMAIN calls : calls'[d].thread = calls[d].thread /\ calls'[d].exited = calls[d].exited
                               /\ calls'[d].reported = calls[d].reported
  BY <1>3, <1>8, <1>10
<1>16. CupStampInv'
  <2>1. ASSUME NEW d \in DOMAIN calls PROVE CupStamps(d)'
    <3>1. CASE d = c
      <4>1. Cup!Works(c)'
        BY <1>3, <1>8, <1>10 DEF Cup!Works
      <4>2. CupStamps(c)
        BY <1>3 DEF CupInv, CupStampInv
      <4>3. CupStamps(c)'
        BY <1>3, <1>8, <1>10, <1>13, <4>1, <4>2 DEF CupStamps
      <4> QED
        BY <3>1, <4>3
    <3>2. CASE d # c
      <4>1. calls'[d] = calls[d] /\ CupStamps(d) /\ calls[d].thread \in CudaThreads
        BY <1>1, <1>10, <3>2, CupElements DEF CupInv, CupStampInv, CudaCalls
      <4>2. ~calls[d].exited => calls[d].thread # t
        BY <1>3, <3>2 DEF CupInv, CupStampInv
      <4>3. ~calls[d].exited => timestamp'[calls[d].thread] = timestamp[calls[d].thread]
        BY <1>13, <4>1, <4>2
      <4>4. Cup!Works(d)' = Cup!Works(d)
        BY <4>1 DEF Cup!Works
      <4> QED
        BY <4>1, <4>3, <4>4 DEF CupStamps
    <3> QED
      BY <3>1, <3>2
  <2>2. ASSUME NEW d \in DOMAIN calls', NEW e \in DOMAIN calls', ~calls'[d].exited, ~calls'[e].exited,
               calls'[d].thread = calls'[e].thread
        PROVE  d = e
    BY <1>10, <1>15, <2>2 DEF CupInv, CupStampInv
  <2>3. \A d \in DOMAIN calls' : CupStamps(d)'
    BY <1>10, <2>1
  <2> QED
    BY <2>2, <2>3, Zenon DEF CupStampInv
<1>17. CupCallInv'
  BY <1>5, <1>10, <1>15 DEF CupInv, CupCallInv, HasRuntimeRow
<1>18. CupOpInv'
  <2>1. \A i \in DOMAIN operations' \ DOMAIN operations :
            operations'[i].corr \in DOMAIN calls' /\ operations'[i].at = "queued"
    BY <1>3, <1>10, <1>11, <1>12
  <2> QED
    BY <1>5, <1>10, <1>12, <2>1, CupOpsKept DEF CupInv
<1>19. NamesInv' /\ CupRowsOwn'
  BY <1>5, <1>10, <1>15, CupNamesKept DEF CupInv, CupRowsOwn
<1> QED
  BY <1>14, <1>16, <1>17, <1>18, <1>19 DEF CupInv

LEMMA CupApiRow ==
    ASSUME CupInv, NEW c \in DOMAIN calls, NEW t, NEW domain, NEW row,
           row = Cup!ApiRow(c, t, domain), calls[c].thread = t,
           \/ domain = "runtime" /\ ~calls[c].exited /\ calls[c].reported
           \/ domain = "driver" /\ calls[c].driver = "open" /\ calls[c].inner
    PROVE  /\ row.start = Cup!clocktime(<<row.call, row.domain>>) /\ row.ids = row.storage
           /\ row.call = c /\ row.domain = domain
<1>1. /\ row.start = timestamp[t][domain] /\ row.call = c /\ row.domain = domain
      /\ row.ids = Cup!Ids /\ row.storage = storageNow
  BY DEF Cup!ApiRow
<1>2. Cup!Ids = storageNow
  BY DEF CupInv, CupTypes, Cup!Ids
<1>3. timestamp[t][domain] = Cup!clocktime(<<c, domain>>)
  BY DEF CupInv, CupStampInv, CupStamps
<1> QED
  BY <1>1, <1>2, <1>3

LEMMA CupDriverExit ==
    ASSUME CupInv, NEW t \in CudaThreads, Cup!DriverExit(t)
    PROVE  CupInv'
<1>1. CupTypes
  BY DEF CupInv
<1>2. PICK c, row : c = Cup!CallOf(t) /\ row = Cup!ApiRow(c, t, "driver")
  OBVIOUS
<1>3. c \in DOMAIN calls /\ calls[c].thread = t /\ ~calls[c].exited /\ calls[c].driver = "open"
  BY <1>2, CupCallOf DEF Cup!DriverExit
<1>4. /\ calls' = [calls EXCEPT ![c].driver = "done"]
      /\ IF calls[c].inner THEN tables' = [tables EXCEPT !.api = @ \cup {row}] /\ idsFrom' = Cup!Ids
                           ELSE UNCHANGED <<tables, idsFrom>>
      /\ UNCHANGED <<timestamp, cuptiCrashHack, operations, buffer, storageNow>>
  BY <1>2 DEF Cup!DriverExit, Cup!contextVars
<1>5. calls[c] \in CudaCalls
  BY <1>1, <1>3, CupElements
<1>6. PICK call : call = [calls[c] EXCEPT !.driver = "done"]
  OBVIOUS
<1>7. /\ call \in CudaCalls /\ call.thread = calls[c].thread /\ call.exited = calls[c].exited
      /\ call.reported = calls[c].reported /\ call.driver = "done"
  BY <1>5, <1>6 DEF CudaCalls
<1>8. calls' = [calls EXCEPT ![c] = call]
  BY <1>4, <1>6
<1>9. /\ calls' \in Seq(CudaCalls) /\ DOMAIN calls' = DOMAIN calls /\ calls'[c] = call
      /\ \A d \in DOMAIN calls \ {c} : calls'[d] = calls[d]
  BY <1>1, <1>3, <1>7, <1>8, CupCallChanged
<1>10. \A d \in DOMAIN calls : calls'[d].thread = calls[d].thread /\ calls'[d].exited = calls[d].exited
                               /\ calls'[d].reported = calls[d].reported
  BY <1>3, <1>7, <1>9
<1>11. /\ DOMAIN tables' = DOMAIN tables /\ tables'.ops = tables.ops /\ tables'.kernels = tables.kernels
       /\ tables.api \subseteq tables'.api /\ tables'.api \subseteq tables.api \cup {row}
       /\ calls[c].inner \/ tables'.api = tables.api
       /\ storageNow' = storageNow /\ idsFrom' \in {0, storageNow}
  <2>1. DOMAIN tables = {"api", "kernels", "copies", "ops"}
    BY <1>1 DEF CupTypes
  <2>2. idsFrom \in {0, storageNow} /\ Cup!Ids \in {0, storageNow}
    BY <1>1 DEF CupTypes, Cup!Ids
  <2> QED
    BY <1>4, <2>1, <2>2
<1>12. CupTypes'
  BY <1>1, <1>4, <1>9, <1>11 DEF CupTypes
<1>13. CupStampInv'
  <2>1. ASSUME NEW d \in DOMAIN calls PROVE CupStamps(d)'
    <3>1. CASE d = c
      BY <1>3, <1>4, <1>7, <1>9, <3>1 DEF CupInv, CupStampInv, CupStamps
    <3>2. CASE d # c
      BY <1>4, <1>9, <3>2 DEF CupInv, CupStampInv, CupStamps, Cup!Works
    <3> QED
      BY <3>1, <3>2
  <2>2. ASSUME NEW d \in DOMAIN calls', NEW e \in DOMAIN calls', ~calls'[d].exited, ~calls'[e].exited,
               calls'[d].thread = calls'[e].thread
        PROVE  d = e
    BY <1>9, <1>10, <2>2 DEF CupInv, CupStampInv
  <2>3. \A d \in DOMAIN calls' : CupStamps(d)'
    BY <1>9, <2>1
  <2> QED
    BY <2>2, <2>3, Zenon DEF CupStampInv
<1>14. CupCallInv'
  BY <1>9, <1>10, <1>11 DEF CupInv, CupCallInv, HasRuntimeRow
<1>15. CupOpInv'
  <2>1. DOMAIN operations' = DOMAIN operations /\ operations' = operations
    BY <1>4
  <2> QED
    BY <1>4, <1>9, <1>11, <2>1, CupOpsKept DEF CupInv
<1>16. NamesInv'
  BY <1>4, <1>9, <1>10, <1>11, CupNamesKept DEF CupInv
<1>17. CupRowsOwn'
  <2>1. CASE calls[c].inner
    <3>1. row.start = Cup!clocktime(<<row.call, row.domain>>) /\ row.ids = row.storage
      BY <1>2, <1>3, <2>1, CupApiRow
    <3> QED
      BY <1>11, <3>1 DEF CupInv, CupRowsOwn
  <2>2. CASE tables'.api = tables.api
    BY <2>2 DEF CupInv, CupRowsOwn
  <2> QED
    BY <1>11, <2>1, <2>2
<1> QED
  BY <1>12, <1>13, <1>14, <1>15, <1>16, <1>17 DEF CupInv

CudaRowsAre(rows, c, t) ==
    /\ DOMAIN rows = DOMAIN tables /\ rows.ops = tables.ops
    /\ rows.api = tables.api \cup {Cup!ApiRow(c, t, "runtime")}
    /\ rows.kernels = IF calls[c].api \in Cup!LaunchApis THEN tables.kernels \cup {Cup!KernelRow(c, t)}
                                                         ELSE tables.kernels

LEMMA CupRowsOfCall ==
    ASSUME CupTypes, NEW c, NEW t, NEW rows, rows = Cup!RowsOfCall(c, t)
    PROVE  CudaRowsAre(rows, c, t)
<1>1. DOMAIN tables = {"api", "kernels", "copies", "ops"}
  BY DEF CupTypes
<1> QED
  BY <1>1 DEF Cup!RowsOfCall, CudaRowsAre

\* A launch of a thread adds a row without a name only while names are lost.
LEMMA CupNamesGrow ==
    ASSUME CupTypes, NamesInv, NEW t \in CudaThreads, NEW c \in DOMAIN calls, calls[c].thread = t,
           tables'.kernels = tables.kernels \cup {Cup!KernelRow(c, t)},
           cuptiCrashHack' = [cuptiCrashHack EXCEPT ![t] = @ + 1],
           DOMAIN calls' = DOMAIN calls,
           \A d \in DOMAIN calls : calls'[d].thread = calls[d].thread
    PROVE  NamesInv'
<1>1. PICK row : row = Cup!KernelRow(c, t)
  OBVIOUS
<1>2. row.call = c /\ (row.named <=> cuptiCrashHack[t] + 1 > LostNames)
  BY <1>1 DEF Cup!KernelRow
<1>3. \A r \in tables'.kernels : r.call \in DOMAIN calls'
  BY <1>1, <1>2 DEF NamesInv
<1>4. cuptiCrashHack[t] \in Nat /\ cuptiCrashHack'[t] = cuptiCrashHack[t] + 1
      /\ \A u \in CudaThreads \ {t} : cuptiCrashHack'[u] = cuptiCrashHack[u]
  BY DEF CupTypes
<1>5. ASSUME NEW u \in CudaThreads
      PROVE  Nameless(u)' = IF u = t /\ ~row.named THEN Nameless(u) \cup {row} ELSE Nameless(u)
  <2>1. \A r \in tables.kernels : calls'[r.call].thread = calls[r.call].thread
    BY DEF NamesInv
  <2>2. calls'[row.call].thread = t /\ tables'.kernels = tables.kernels \cup {row}
    BY <1>1, <1>2
  <2>3. CASE u = t /\ ~row.named
    BY <2>1, <2>2, <2>3 DEF Nameless
  <2>4. CASE ~(u = t /\ ~row.named)
    BY <2>1, <2>2, <2>4 DEF Nameless
  <2> QED
    BY <2>3, <2>4
<1>6. ASSUME NEW u \in CudaThreads
      PROVE  /\ IsFiniteSet(Nameless(u)') /\ Cardinality(Nameless(u)') <= cuptiCrashHack'[u]
             /\ Cardinality(Nameless(u)') <= LostNames
  <2>0. /\ IsFiniteSet(Nameless(u)) /\ Cardinality(Nameless(u)) <= cuptiCrashHack[u]
        /\ Cardinality(Nameless(u)) <= LostNames /\ cuptiCrashHack[u] \in Nat
        /\ Cardinality(Nameless(u)) \in Nat
    BY FS_CardinalityType DEF NamesInv, CupTypes
  <2>1. CASE u = t /\ ~row.named
    <3>1. PICK S, x : S = Nameless(u) /\ x = Nameless(u)' /\ x = S \cup {row}
      BY <1>5, <2>1
    <3>2. /\ IsFiniteSet(x)
          /\ Cardinality(x) = Cardinality(S) \/ Cardinality(x) = Cardinality(S) + 1
      <4>1. IsFiniteSet(S)
        BY <2>0, <3>1
      <4>2. /\ IsFiniteSet(S \cup {row})
            /\ Cardinality(S \cup {row}) = IF row \in S THEN Cardinality(S) ELSE Cardinality(S) + 1
        BY <4>1, FS_AddElement
      <4> QED
        BY <3>1, <4>2
    <3>3. ~(cuptiCrashHack[t] + 1 > LostNames)
      BY <1>2, <2>1
    <3> QED
      BY <1>4, <2>0, <2>1, <3>1, <3>2, <3>3, NamesAssumption
  <2>2. CASE ~(u = t /\ ~row.named)
    <3>1. Nameless(u)' = Nameless(u)
      BY <1>5, <2>2
    <3>2. cuptiCrashHack[u] <= cuptiCrashHack'[u] /\ cuptiCrashHack'[u] \in Nat
      BY <1>4, <2>0
    <3> QED
      BY <2>0, <3>1, <3>2
  <2> QED
    BY <2>1, <2>2
<1> QED
  BY <1>3, <1>6 DEF NamesInv

LEMMA CupRuntimeExit ==
    ASSUME CupInv, NEW t \in CudaThreads, Cup!RuntimeExit(t)
    PROVE  CupInv'
<1>1. CupTypes
  BY DEF CupInv
<1>2. PICK c, rows, row : c = Cup!CallOf(t) /\ rows = Cup!RowsOfCall(c, t) /\ row = Cup!ApiRow(c, t, "runtime")
  OBVIOUS
<1>3. /\ c \in DOMAIN calls /\ calls[c].thread = t /\ ~calls[c].exited
      /\ Cup!Works(c) => calls[c].driver = "done"
  BY <1>2, CupCallOf DEF Cup!RuntimeExit
<1>4. /\ calls' = [calls EXCEPT ![c].exited = TRUE]
      /\ calls[c].reported =>
           /\ tables' = rows /\ idsFrom' = Cup!Ids
           /\ cuptiCrashHack' = IF calls[c].api \in Cup!LaunchApis
                                THEN [cuptiCrashHack EXCEPT ![t] = @ + 1] ELSE cuptiCrashHack
      /\ ~calls[c].reported => UNCHANGED <<tables, idsFrom, cuptiCrashHack>>
      /\ UNCHANGED <<timestamp, operations, buffer, storageNow>>
  BY <1>2 DEF Cup!RuntimeExit, Cup!contextVars
<1>5. calls[c] \in CudaCalls
  BY <1>1, <1>3, CupElements
<1>6. PICK call : call = [calls[c] EXCEPT !.exited = TRUE]
  OBVIOUS
<1>7. /\ call \in CudaCalls /\ call.thread = calls[c].thread /\ call.exited /\ call.api = calls[c].api
      /\ call.reported = calls[c].reported /\ call.driver = calls[c].driver
  BY <1>5, <1>6 DEF CudaCalls
<1>8. calls' = [calls EXCEPT ![c] = call]
  BY <1>4, <1>6
<1>9. /\ calls' \in Seq(CudaCalls) /\ DOMAIN calls' = DOMAIN calls /\ calls'[c] = call
      /\ \A d \in DOMAIN calls \ {c} : calls'[d] = calls[d]
  BY <1>1, <1>3, <1>7, <1>8, CupCallChanged
<1>10. \A d \in DOMAIN calls : calls'[d].thread = calls[d].thread /\ calls'[d].reported = calls[d].reported
  BY <1>3, <1>7, <1>9
<1>11. CudaRowsAre(rows, c, t)
  BY <1>1, <1>2, CupRowsOfCall
<1>12. /\ DOMAIN tables' = DOMAIN tables /\ tables'.ops = tables.ops
       /\ tables'.api = IF calls[c].reported THEN tables.api \cup {row} ELSE tables.api
       /\ storageNow' = storageNow /\ idsFrom' \in {0, storageNow}
       /\ cuptiCrashHack' \in [CudaThreads -> Nat]
  <2>1. idsFrom \in {0, storageNow} /\ Cup!Ids \in {0, storageNow}
    BY <1>1 DEF CupTypes, Cup!Ids
  <2>2. [cuptiCrashHack EXCEPT ![t] = @ + 1] \in [CudaThreads -> Nat]
        /\ cuptiCrashHack \in [CudaThreads -> Nat]
    BY <1>1 DEF CupTypes
  <2>3. CASE calls[c].reported
    BY <1>2, <1>4, <1>11, <2>1, <2>2, <2>3 DEF CudaRowsAre
  <2>4. CASE ~calls[c].reported
    BY <1>1, <1>4, <2>1, <2>2, <2>4 DEF CupTypes
  <2> QED
    BY <2>3, <2>4
<1>13. CupTypes'
  BY <1>1, <1>4, <1>9, <1>12 DEF CupTypes
<1>14. CupStampInv'
  <2>1. ASSUME NEW d \in DOMAIN calls PROVE CupStamps(d)'
    <3>1. CASE d = c
      <4>1. calls'[c].exited /\ calls[c].driver # "open"
        BY <1>3, <1>7, <1>9 DEF CupInv, CupStampInv, CupStamps
      <4>2. calls'[c].driver # "open"
        BY <1>7, <1>9, <4>1
      <4> QED
        BY <3>1, <4>1, <4>2 DEF CupStamps
    <3>2. CASE d # c
      BY <1>4, <1>9, <3>2 DEF CupInv, CupStampInv, CupStamps, Cup!Works
    <3> QED
      BY <3>1, <3>2
  <2>2. ASSUME NEW d \in DOMAIN calls', NEW e \in DOMAIN calls', ~calls'[d].exited, ~calls'[e].exited,
               calls'[d].thread = calls'[e].thread
        PROVE  d = e
    <3>1. d # c /\ e # c
      BY <1>7, <1>9, <2>2
    <3> QED
      BY <1>9, <2>2, <3>1 DEF CupInv, CupStampInv
  <2>3. \A d \in DOMAIN calls' : CupStamps(d)'
    BY <1>9, <2>1
  <2> QED
    BY <2>2, <2>3, Zenon DEF CupStampInv
<1>15. ASSUME calls[c].reported
       PROVE  /\ row.start = Cup!clocktime(<<row.call, row.domain>>) /\ row.ids = row.storage
              /\ row.call = c /\ row.domain = "runtime"
  BY <1>2, <1>3, <1>15, CupApiRow
<1>16. CupCallInv'
  <2>1. ASSUME NEW d \in DOMAIN calls', calls'[d].exited, calls'[d].reported PROVE HasRuntimeRow(d)'
    <3>1. CASE d = c
      BY <1>10, <1>3, <1>12, <1>15, <2>1, <3>1 DEF HasRuntimeRow
    <3>2. CASE d # c
      BY <1>9, <1>12, <2>1, <3>2 DEF CupInv, CupCallInv, HasRuntimeRow
    <3> QED
      BY <3>1, <3>2
  <2> QED
    BY <2>1 DEF CupCallInv
<1>17. CupOpInv'
  <2>1. DOMAIN operations' = DOMAIN operations /\ operations' = operations
    BY <1>4
  <2> QED
    BY <1>4, <1>9, <1>12, <2>1, CupOpsKept DEF CupInv
<1>18. NamesInv'
  <2>1. CASE calls[c].reported /\ calls[c].api \in Cup!LaunchApis
    <3>1. /\ tables'.kernels = tables.kernels \cup {Cup!KernelRow(c, t)}
          /\ cuptiCrashHack' = [cuptiCrashHack EXCEPT ![t] = @ + 1]
      BY <1>4, <1>11, <2>1 DEF CudaRowsAre
    <3> QED
      BY <1>1, <1>3, <1>9, <1>10, <3>1, CupNamesGrow DEF CupInv
  <2>2. CASE ~(calls[c].reported /\ calls[c].api \in Cup!LaunchApis)
    <3>1. tables'.kernels = tables.kernels /\ cuptiCrashHack' = cuptiCrashHack
      BY <1>4, <1>11, <2>2 DEF CudaRowsAre
    <3> QED
      BY <1>9, <1>10, <3>1, CupNamesKept DEF CupInv
  <2> QED
    BY <2>1, <2>2
<1>19. CupRowsOwn'
  BY <1>12, <1>15 DEF CupInv, CupRowsOwn
<1> QED
  BY <1>13, <1>14, <1>16, <1>17, <1>18, <1>19 DEF CupInv

LEMMA CupComplete ==
    ASSUME CupInv, NEW i \in DOMAIN operations, Cup!Complete(i)
    PROVE  CupInv'
<1>1. CupTypes
  BY DEF CupInv
<1>2. /\ operations[i].at = "queued" /\ operations' = [operations EXCEPT ![i].at = "completed"]
      /\ buffer' = IF operations[i].traced THEN Append(buffer, i) ELSE buffer
      /\ UNCHANGED <<calls, timestamp, cuptiCrashHack, idsFrom, storageNow, tables>>
  BY DEF Cup!Complete, Cup!rowVars
<1>3. /\ \A k \in DOMAIN operations : operations[k] \in CudaOps
      /\ Len(operations) \in Nat /\ DOMAIN operations = 1 .. Len(operations)
      /\ i \in Nat
  BY <1>1, CupElements
<1>4. /\ operations' \in Seq(CudaOps) /\ DOMAIN operations' = DOMAIN operations
      /\ operations'[i].at = "completed"
      /\ \A k \in DOMAIN operations : /\ operations'[k].corr = operations[k].corr
                                      /\ k # i => operations'[k] = operations[k]
  <2>1. [operations[i] EXCEPT !.at = "completed"] \in CudaOps
    BY <1>3 DEF CudaOps, Places3
  <2>2. operations' = [operations EXCEPT ![i] = [operations[i] EXCEPT !.at = "completed"]]
    BY <1>2
  <2>3. /\ operations' \in Seq(CudaOps) /\ DOMAIN operations' = DOMAIN operations
        /\ operations'[i] = [operations[i] EXCEPT !.at = "completed"]
        /\ \A k \in DOMAIN operations \ {i} : operations'[k] = operations[k]
    BY <1>1, <1>3, <2>1, <2>2, ExceptSeq DEF CupTypes
  <2> QED
    BY <1>3, <2>3 DEF CudaOps
<1>5. /\ buffer' \in Seq(Nat) /\ DOMAIN buffer \subseteq DOMAIN buffer'
      /\ \A k \in DOMAIN buffer : buffer'[k] = buffer[k]
      /\ \A k \in DOMAIN buffer' \ DOMAIN buffer : buffer'[k] = i
      /\ \A k, l \in DOMAIN buffer' \ DOMAIN buffer : k = l
  <2>1. buffer \in Seq(Nat)
    BY <1>1 DEF CupTypes
  <2>2. CASE ~operations[i].traced
    BY <1>2, <2>1, <2>2
  <2>3. CASE operations[i].traced
    BY <1>2, <1>3, <2>1, <2>3, Appended
  <2> QED
    BY <2>2, <2>3
<1>6. \A k \in DOMAIN buffer : buffer[k] # i
  BY <1>2 DEF CupInv, CupOpInv, CudaPooled
<1>7. ASSUME NEW k \in DOMAIN operations
      PROVE  /\ CudaKnown(k)' = CudaKnown(k) /\ CudaLogged(k)' = CudaLogged(k)
             /\ HasOpRow(k)' = HasOpRow(k) /\ (CudaPooled(k) => CudaPooled(k)')
  BY <1>2, <1>4 DEF CudaKnown, CudaLogged, HasOpRow, CudaPooled
<1>8. CupTypes' /\ CupStampInv' /\ CupCallInv' /\ NamesInv' /\ CupRowsOwn'
  <2>1. CupTypes'
    BY <1>1, <1>2, <1>4, <1>5 DEF CupTypes
  <2>2. CupStampInv' /\ CupCallInv' /\ CupRowsOwn'
    BY <1>2 DEF CupInv, CupStampInv, CupStamps, Cup!Works, CupCallInv, HasRuntimeRow, CupRowsOwn
  <2>3. NamesInv'
    BY <1>2, CupNamesKept DEF CupInv
  <2> QED
    BY <2>1, <2>2, <2>3
<1>9. CupOpInv'
  <2>1. \A k \in DOMAIN operations' : CudaKnown(k)' /\ (CudaLogged(k)' => HasOpRow(k)')
    BY <1>4, <1>7 DEF CupInv, CupOpInv
  <2>2. ASSUME NEW k \in DOMAIN buffer'
        PROVE  CudaPooled(buffer[k])'
    <3>1. CASE k \in DOMAIN buffer
      <4>1. PICK p \in DOMAIN operations : p = buffer[k] /\ CudaPooled(p)
        BY <3>1 DEF CupInv, CupOpInv, CudaPooled
      <4>2. CudaPooled(p)' /\ p = buffer'[k]
        BY <1>5, <1>7, <3>1, <4>1
      <4> QED
        BY <4>2
    <3>2. CASE k \notin DOMAIN buffer
      BY <1>4, <1>5, <2>2, <3>2 DEF CudaPooled
    <3> QED
      BY <3>1, <3>2
  <2>3. \A k, l \in DOMAIN buffer' : buffer'[k] = buffer'[l] => k = l
    <3> TAKE k, l \in DOMAIN buffer'
    <3>1. CASE k \in DOMAIN buffer /\ l \in DOMAIN buffer
      BY <1>5, <3>1 DEF CupInv, CupOpInv
    <3>2. CASE k \notin DOMAIN buffer /\ l \notin DOMAIN buffer
      BY <1>5, <3>2
    <3>3. CASE k \in DOMAIN buffer /\ l \notin DOMAIN buffer
      BY <1>5, <1>6, <3>3
    <3>4. CASE k \notin DOMAIN buffer /\ l \in DOMAIN buffer
      BY <1>5, <1>6, <3>4
    <3> QED
      BY <3>1, <3>2, <3>3, <3>4
  <2>4. ASSUME NEW j \in DOMAIN tables'.ops PROVE CudaRowTrue(tables.ops[j])'
    <3>1. PICK row : row = tables.ops[j] /\ CudaRowTrue(row) /\ tables'.ops[j] = row
      BY <1>2 DEF CupInv, CupOpInv
    <3>2. PICK p \in DOMAIN operations : p = row.op /\ CudaLogged(p)
      BY <3>1 DEF CudaRowTrue
    <3>3. CudaLogged(p)'
      BY <1>7, <3>2
    <3>4. CudaRowTrue(row)'
      BY <1>4, <3>1, <3>2, <3>3 DEF CudaRowTrue
    <3> QED
      BY <3>1, <3>4
  <2>5. \A j, k \in DOMAIN tables'.ops : tables'.ops[j].op = tables'.ops[k].op => j = k
    BY <1>2 DEF CupInv, CupOpInv
  <2> QED
    BY <2>1, <2>2, <2>3, <2>4, <2>5 DEF CupOpInv
<1> QED
  BY <1>8, <1>9 DEF CupInv

LEMMA CupHandOver ==
    ASSUME CupInv, NEW n, Cup!bufferCompleted(n)
    PROVE  CupInv'
<1>1. CupTypes
  BY DEF CupInv
<1>2. PICK batch, rest, rows, old, all :
        /\ batch = SubSeq(buffer, 1, n) /\ rest = SubSeq(buffer, n + 1, Len(buffer))
        /\ rows = [j \in DOMAIN batch |-> [op |-> batch[j], corr |-> operations[batch[j]].corr,
                                           start |-> Cup!OpTime(batch[j])]]
        /\ old = tables.ops /\ all = old \o rows
  OBVIOUS
<1>3. /\ n \in DOMAIN buffer
      /\ tables' = [tables EXCEPT !.ops = all]
      /\ operations' = [i \in DOMAIN operations |->
                          IF i \in Cup!Range(batch) THEN [operations[i] EXCEPT !.at = "handed over"]
                                                    ELSE operations[i]]
      /\ buffer' = rest
      /\ UNCHANGED <<calls, timestamp, cuptiCrashHack, idsFrom, storageNow>>
  BY <1>2 DEF Cup!bufferCompleted, Cup!RowsOfBatch
<1>4. /\ Len(operations) \in Nat /\ DOMAIN operations = 1 .. Len(operations)
      /\ \A i \in DOMAIN operations : operations[i] \in CudaOps
      /\ DOMAIN buffer = 1 .. Len(buffer) /\ buffer \in Seq(Nat)
  BY <1>1, CupElements DEF CupTypes
<1>5. batch \in Seq(Nat) /\ rest \in Seq(Nat) /\ Cuts(buffer, n, batch, rest)
  BY <1>2, <1>3, <1>4, CutIs
<1>6. /\ \A k \in DOMAIN batch : CudaPooled(batch[k]) /\ batch[k] \in Nat
      /\ \A k \in DOMAIN rest : CudaPooled(rest[k])
      /\ \A k, l \in DOMAIN batch : batch[k] = batch[l] => k = l
      /\ \A k, l \in DOMAIN rest : rest[k] = rest[l] => k = l
      /\ \A k \in DOMAIN batch, l \in DOMAIN rest : batch[k] # rest[l]
  <2>1. \A k \in DOMAIN buffer : buffer[k] \in Nat
    BY <1>1, CupElements
  <2> QED
    BY <1>5, <2>1 DEF Cuts, CupInv, CupOpInv
<1>7. Len(batch) \in Nat /\ DOMAIN batch = 1 .. Len(batch)
  BY <1>5, LenProperties
<1>8. \A i : i \in Cup!Range(batch) <=> \E k \in DOMAIN batch : batch[k] = i
  BY DEF Cup!Range
<1>9. /\ operations' \in Seq(CudaOps) /\ DOMAIN operations' = DOMAIN operations
      /\ \A i \in DOMAIN operations : /\ operations'[i].corr = operations[i].corr
                                      /\ operations'[i].at = IF i \in Cup!Range(batch) THEN "handed over"
                                                             ELSE operations[i].at
  <2>1. \A i \in DOMAIN operations : operations'[i] \in CudaOps
    BY <1>3, <1>4 DEF CudaOps, Places3
  <2>2. operations' \in [1 .. Len(operations) -> CudaOps]
    BY <1>3, <1>4, <2>1
  <2>3. operations' \in Seq(CudaOps)
    BY <1>4, <2>2
  <2> QED
    BY <1>3, <1>4, <2>3 DEF CudaOps
<1>10. /\ rows \in Seq(OpRows) /\ Len(rows) = Len(batch)
       /\ \A j \in 1 .. Len(batch) : rows[j].op = batch[j] /\ rows[j].corr = operations[batch[j]].corr
  <2>1. \A j \in 1 .. Len(batch) :
            /\ rows[j] = [op |-> batch[j], corr |-> operations[batch[j]].corr, start |-> <<batch[j], 2>>]
            /\ batch[j] \in Nat /\ operations[batch[j]].corr \in Nat
    <3>1. \A i : Cup!OpTime(i) = <<i, 2>>
      BY DEF Cup!OpTime, Cup!PlusOffset, Cup!adjust_external_ts, Cup!clocktime
    <3>2. \A i \in DOMAIN operations : operations[i].corr \in Nat
      BY <1>4 DEF CudaOps
    <3>3. \A j \in 1 .. Len(batch) : batch[j] \in DOMAIN operations /\ batch[j] \in Nat
      BY <1>6, <1>7 DEF CudaPooled
    <3>4. \A j \in 1 .. Len(batch) : rows[j] = [op |-> batch[j], corr |-> operations[batch[j]].corr,
                                                start |-> Cup!OpTime(batch[j])]
      BY <1>2, <1>7
    <3> QED
      BY <3>1, <3>2, <3>3, <3>4
  <2>2. ASSUME NEW j \in 1 .. Len(batch)
        PROVE  rows[j] \in OpRows /\ rows[j].op = batch[j] /\ rows[j].corr = operations[batch[j]].corr
    <3>1. PICK o, c : o = batch[j] /\ c = operations[batch[j]].corr /\ o \in Nat /\ c \in Nat
      BY <2>1
    <3>2. <<o, 2>> \in Nat \X Nat
      BY <3>1
    <3>3. [op |-> o, corr |-> c, start |-> <<o, 2>>] \in OpRows
      BY <3>1, <3>2 DEF OpRows
    <3> QED
      BY <2>1, <3>1, <3>3
  <2>3. DOMAIN rows = 1 .. Len(batch) /\ rows = [j \in DOMAIN rows |-> rows[j]]
    BY <1>2, <1>7
  <2>4. rows \in Seq(OpRows) /\ Len(rows) = Len(batch)
    BY <1>7, <2>2, <2>3, Listed
  <2> QED
    BY <2>2, <2>4
<1>11. PICK m : m = Len(old)
  OBVIOUS
<1>12. /\ all \in Seq(OpRows) /\ DOMAIN old = 1 .. m
       /\ \A j \in DOMAIN old : all[j] = old[j] /\ j \in DOMAIN all
       /\ \A j \in 1 .. Len(batch) : all[m + j] = rows[j] /\ m + j \in DOMAIN all
       /\ \A j \in DOMAIN all : j \in DOMAIN old \/ \E k \in 1 .. Len(batch) : j = m + k
  <2>1. old \in Seq(OpRows) /\ DOMAIN old = 1 .. m
    BY <1>1, <1>2, <1>11, LenProperties DEF CupTypes
  <2>2. all \in Seq(OpRows) /\ Joins(all, old, m, rows, Len(batch))
    <3>1. rows \in Seq(OpRows) /\ Len(rows) = Len(batch)
      BY <1>10
    <3>2. old \o rows \in Seq(OpRows) /\ Joins(old \o rows, old, Len(old), rows, Len(rows))
      BY <2>1, <3>1, JoinedIs
    <3> QED
      BY <1>2, <1>11, <3>1, <3>2
  <2> QED
    BY <2>1, <2>2 DEF Joins
<1>13. /\ DOMAIN tables' = DOMAIN tables /\ tables'.ops = all
       /\ tables'.api = tables.api /\ tables'.kernels = tables.kernels
  <2>1. DOMAIN tables = {"api", "kernels", "copies", "ops"}
    BY <1>1 DEF CupTypes
  <2> QED
    BY <1>3, <2>1
<1>14. CupTypes'
  BY <1>1, <1>3, <1>5, <1>9, <1>12, <1>13 DEF CupTypes
<1>15. CupStampInv' /\ CupCallInv' /\ NamesInv' /\ CupRowsOwn'
  <2>1. CupStampInv'
    BY <1>3 DEF CupInv, CupStampInv, CupStamps, Cup!Works
  <2>2. CupCallInv'
    BY <1>3, <1>13 DEF CupInv, CupCallInv, HasRuntimeRow
  <2>3. NamesInv'
    BY <1>3, <1>13, CupNamesKept DEF CupInv
  <2>4. CupRowsOwn'
    BY <1>13 DEF CupInv, CupRowsOwn
  <2> QED
    BY <2>1, <2>2, <2>3, <2>4
<1>16. \A i \in DOMAIN operations' : CudaKnown(i)' /\ (CudaLogged(i)' => HasOpRow(i)')
  <2> SUFFICES ASSUME NEW i \in DOMAIN operations PROVE CudaKnown(i)' /\ (CudaLogged(i)' => HasOpRow(i)')
    BY <1>9
  <2>1. CudaKnown(i)'
    BY <1>3, <1>9 DEF CupInv, CupOpInv, CudaKnown
  <2>2. CASE i \in Cup!Range(batch)
    <3>1. PICK j \in 1 .. Len(batch) : batch[j] = i
      BY <1>7, <1>8, <2>2
    <3>2. all[m + j].op = i /\ m + j \in DOMAIN all
      BY <1>10, <1>12, <3>1
    <3> QED
      BY <1>13, <2>1, <3>2 DEF HasOpRow
  <2>3. CASE i \notin Cup!Range(batch) /\ CudaLogged(i)'
    <3>1. HasOpRow(i)
      BY <1>9, <2>3 DEF CudaLogged, CupInv, CupOpInv
    <3>2. PICK j \in DOMAIN old : old[j].op = i
      BY <1>2, <3>1 DEF HasOpRow
    <3>3. all[j].op = i /\ j \in DOMAIN all
      BY <1>12, <3>2
    <3> QED
      BY <1>13, <2>1, <3>3 DEF HasOpRow
  <2> QED
    BY <2>1, <2>2, <2>3
<1>17. \A k \in DOMAIN buffer' : CudaPooled(buffer[k])'
  <2> SUFFICES ASSUME NEW k \in DOMAIN rest PROVE CudaPooled(rest[k])'
    BY <1>3
  <2>1. PICK i : i = rest[k] /\ CudaPooled(i) /\ i \notin Cup!Range(batch)
    BY <1>6, <1>8
  <2>2. CudaPooled(i)'
    BY <1>9, <2>1 DEF CudaPooled
  <2> QED
    BY <2>1, <2>2
<1>18. ASSUME NEW j \in DOMAIN all PROVE CudaRowTrue(all[j])'
  <2>1. PICK row : row = all[j]
    OBVIOUS
  <2>2. CASE j \in DOMAIN old
    <3>1. CudaRowTrue(row)
      BY <1>2, <1>12, <2>1, <2>2 DEF CupInv, CupOpInv
    <3> QED
      BY <1>9, <2>1, <3>1 DEF CudaRowTrue, CudaLogged
  <2>3. ASSUME NEW k \in 1 .. Len(batch), j = m + k PROVE CudaRowTrue(row)'
    <3>1. row.op = batch[k] /\ row.corr = operations[batch[k]].corr
      BY <1>10, <1>12, <2>1, <2>3
    <3>2. batch[k] \in DOMAIN operations /\ batch[k] \in Cup!Range(batch)
      BY <1>6, <1>7, <1>8 DEF CudaPooled
    <3> QED
      BY <1>9, <3>1, <3>2 DEF CudaRowTrue, CudaLogged
  <2> QED
    BY <1>12, <2>1, <2>2, <2>3
<1>19. ASSUME NEW j \in DOMAIN all, NEW k \in DOMAIN all, all[j].op = all[k].op
       PROVE  j = k
  <2>1. ASSUME NEW i \in DOMAIN old, NEW l \in 1 .. Len(batch) PROVE all[i].op # all[m + l].op
    <3>1. operations[old[i].op].at = "handed over"
      BY <1>2 DEF CupInv, CupOpInv, CudaRowTrue, CudaLogged
    <3>2. operations[batch[l]].at = "completed"
      BY <1>6, <1>7 DEF CudaPooled
    <3>3. old[i].op # batch[l]
      BY <3>1, <3>2
    <3> QED
      BY <1>10, <1>12, <3>3
  <2>2. CASE j \in DOMAIN old /\ k \in DOMAIN old
    <3>1. old[j].op = old[k].op
      BY <1>12, <1>19, <2>2
    <3> QED
      BY <1>2, <2>2, <3>1 DEF CupInv, CupOpInv
  <2>3. ASSUME NEW a \in 1 .. Len(batch), NEW b \in 1 .. Len(batch), j = m + a, k = m + b
        PROVE  j = k
    <3>1. batch[a] = batch[b]
      BY <1>10, <1>12, <1>19, <2>3
    <3> QED
      BY <1>6, <1>7, <2>3, <3>1
  <2>4. CASE j \in DOMAIN old /\ \E l \in 1 .. Len(batch) : k = m + l
    BY <1>19, <2>1, <2>4
  <2>5. CASE k \in DOMAIN old /\ \E l \in 1 .. Len(batch) : j = m + l
    BY <1>19, <2>1, <2>5
  <2> QED
    BY <1>12, <2>2, <2>3, <2>4, <2>5
<1>20. CupOpInv'
  <2>1. \A j \in DOMAIN tables'.ops : CudaRowTrue(tables.ops[j])'
    BY <1>13, <1>18
  <2>2. \A j, k \in DOMAIN tables'.ops : tables'.ops[j].op = tables'.ops[k].op => j = k
    BY <1>13, <1>19
  <2>3. \A k, l \in DOMAIN buffer' : buffer'[k] = buffer'[l] => k = l
    BY <1>3, <1>6
  <2> QED
    BY <1>16, <1>17, <2>1, <2>2, <2>3, Zenon DEF CupOpInv
<1> QED
  BY <1>14, <1>15, <1>20 DEF CupInv

LEMMA CupStep ==
    ASSUME CupInv, [Cup!Next]_<<lifeVars, rowVars, callVars, opVars, cuptiCrashHack>>
    PROVE  CupInv'
<1>1. ASSUME UNCHANGED <<calls, timestamp, cuptiCrashHack, operations, buffer, tables>>,
             storageNow' \in {1, 2}, idsFrom' \in {0, storageNow'}
      PROVE  CupInv'
  <2>1. CupTypes'
    BY <1>1 DEF CupInv, CupTypes
  <2>2. CupStampInv' /\ CupCallInv' /\ CupRowsOwn'
    BY <1>1 DEF CupInv, CupStampInv, CupStamps, Cup!Works, CupCallInv, HasRuntimeRow, CupRowsOwn
  <2>3. CupOpInv'
    BY <1>1, CupOpsKept DEF CupInv
  <2>4. NamesInv'
    BY <1>1, CupNamesKept DEF CupInv
  <2> QED
    BY <2>1, <2>2, <2>3, <2>4 DEF CupInv
<1>2. storageNow \in {1, 2} /\ idsFrom \in {0, storageNow}
  BY DEF CupInv, CupTypes
<1>3. CASE \E t \in CudaThreads : \/ \E api \in CudaApis : Cup!RuntimeEnter(t, api)
                                  \/ Cup!DriverEnter(t) \/ Cup!DriverExit(t) \/ Cup!RuntimeExit(t)
  BY <1>3, CupRuntimeEnter, CupDriverEnter, CupDriverExit, CupRuntimeExit
<1>4. CASE \E i \in DOMAIN operations : Cup!Complete(i)
  BY <1>4, CupComplete
<1>5. CASE Cup!BufferFull \/ Cup!flush
  BY <1>5, CupHandOver DEF Cup!BufferFull, Cup!flush
<1>6. CASE Cup!init \/ Cup!startTracing \/ Cup!stopTracing \/ Cup!end
           \/ UNCHANGED <<lifeVars, rowVars, callVars, opVars, cuptiCrashHack>>
  BY <1>1, <1>2, <1>6 DEF Cup!init, Cup!startTracing, Cup!stopTracing, Cup!end, Cup!rowVars,
     lifeVars, rowVars, callVars, opVars
<1>7. CASE Cup!reset
  BY <1>1, <1>7 DEF Cup!reset, Cup!IdsAfterReset
<1> QED
  BY <1>3, <1>4, <1>5, <1>6, <1>7 DEF Cup!Next

LEMMA CupCardinality == ASSUME NEW S PROVE Cup!Cardinality(S) = Cardinality(S)
BY DEF Cup!Cardinality, Cardinality

LEMMA CupRows == ASSUME CupInv PROVE Cup!CallRowsAreOwn
<1>1. \A t \in CudaThreads :
          Cup!Cardinality({row \in tables.kernels : calls[row.call].thread = t /\ ~row.named}) <= LostNames
  BY CupCardinality DEF CupInv, NamesInv, Nameless
<1> QED
  BY <1>1 DEF CupInv, CupRowsOwn, Cup!CallRowsAreOwn

LEMMA CupOnce == ASSUME CupInv PROVE Cup!OperationsOnce
<1>1. ASSUME NEW i \in DOMAIN operations
      PROVE  Cup!Cardinality({j \in DOMAIN tables.ops : tables.ops[j].op = i}) =
               IF operations[i].at = "handed over" THEN 1 ELSE 0
  <2> DEFINE own == {j \in DOMAIN tables.ops : tables.ops[j].op = i}
  <2>1. CASE CudaLogged(i)
    <3>1. PICK j \in DOMAIN tables.ops : tables.ops[j].op = i
      BY <2>1 DEF CupInv, CupOpInv, HasOpRow
    <3>2. own = {j}
      BY <3>1 DEF CupInv, CupOpInv
    <3> HIDE DEF own
    <3>3. Cup!Cardinality(own) = 1
      BY <3>2, FS_Singleton, CupCardinality
    <3> QED
      BY <2>1, <3>3 DEF own, CudaLogged
  <2>2. CASE ~CudaLogged(i)
    <3>1. \A j \in DOMAIN tables.ops : tables.ops[j].op # i
      BY <2>2 DEF CupInv, CupOpInv, CudaRowTrue
    <3>2. own = {}
      BY <3>1
    <3> HIDE DEF own
    <3>3. Cup!Cardinality(own) = 0
      BY <3>2, FS_EmptySet, CupCardinality
    <3> QED
      BY <2>2, <3>3 DEF own, CudaLogged
  <2> QED
    BY <2>1, <2>2
<1>2. ASSUME NEW j \in DOMAIN tables.ops
      PROVE  LET c == tables.ops[j].corr IN
             calls[c].exited /\ calls[c].reported =>
                 \E row \in tables.api : row.call = c /\ row.domain = "runtime"
  <2>1. tables.ops[j].corr \in DOMAIN calls
    BY DEF CupInv, CupOpInv, CudaRowTrue, CudaKnown
  <2> QED
    BY <2>1 DEF CupInv, CupCallInv, HasRuntimeRow
<1> QED
  BY <1>1, <1>2 DEF Cup!OperationsOnce

-----------------------------------------------------------------------------
(* The profiler inside the HIP runtime                                       *)

ClrRecords == [kind : Kinds, traced : BOOLEAN]
ClrRanges  == [start : Nat, end : Nat]
ClrRows    == [record : Nat, storage : {1, 2}, ids : {1, 2}, op : {"launch", "copy", "barrier", "none"},
               kernel : BOOLEAN, copy : BOOLEAN]
ClrTypes ==
    /\ records \in Seq(ClrRecords)
    /\ delivered \in Nat /\ m_processedCount \in Nat /\ snapshot \in Nat \cup {-1}
    /\ m_ranges \in Seq(ClrRanges)
    /\ storageNow \in {1, 2} /\ idsFrom \in {0, storageNow}
    /\ tables \in Seq(ClrRows)

\* What was consumed is there, and all that was delivered was consumed.
CountInv == /\ snapshot <= Len(records) /\ m_processedCount <= Len(records)
            /\ delivered * SlabSize <= m_processedCount

\* A record that was traced is in a range, and the last range is open while tracing.
RangeInv == /\ \A i \in 1 .. Len(records) : records[i].traced => Clr!in_range(i - 1)
            /\ context = "started" => \E k \in DOMAIN m_ranges :
                   k = Len(m_ranges) /\ m_ranges[k].end = 0 /\ m_ranges[k].start <= Len(records)

\* The records below the mark have their rows, and no other.
ClrHasRow(i) == \E j \in DOMAIN tables : tables[j].record = i - 1
ClrWanted(i) == records[i].traced /\ Clr!m_apiList_contains(records[i].kind)
TableInv ==
    /\ \A j \in DOMAIN tables : tables[j].record < m_processedCount /\ tables[j].ids = tables[j].storage
    /\ \A j, k \in DOMAIN tables : tables[j].record = tables[k].record => j = k
    /\ \A i \in 1 .. m_processedCount : ClrWanted(i) => ClrHasRow(i)

ClrInv == ClrTypes /\ CountInv /\ RangeInv /\ TableInv

LEMMA ClrInit == SourcesInit /\ subject = "clr" => ClrInv
<1> SUFFICES ASSUME Clr!Init PROVE ClrInv
  BY DEF SourcesInit
<1>1. records = <<>> /\ tables = <<>> /\ m_ranges = <<>> /\ delivered = 0 /\ m_processedCount = 0
      /\ snapshot = -1 /\ context = "none"
  BY DEF Clr!Init
<1>2. ClrTypes
  BY <1>1 DEF Clr!Init, ClrTypes
<1>3. Len(records) = 0 /\ DOMAIN tables = {}
  BY <1>1
<1>4. CountInv
  BY <1>1, <1>3, SlabAssumption DEF CountInv
<1>5. 1 .. 0 = {}
  OBVIOUS
<1>6. RangeInv
  BY <1>1, <1>3, <1>5 DEF RangeInv
<1>7. TableInv
  BY <1>1, <1>3, <1>5 DEF TableInv
<1> QED
  BY <1>2, <1>4, <1>6, <1>7 DEF ClrInv

LEMMA ClrElements ==
    ASSUME ClrTypes
    PROVE  /\ Len(records) \in Nat /\ DOMAIN records = 1 .. Len(records)
           /\ Len(tables) \in Nat /\ DOMAIN tables = 1 .. Len(tables)
           /\ Len(m_ranges) \in Nat /\ DOMAIN m_ranges = 1 .. Len(m_ranges)
           /\ \A i \in DOMAIN records : records[i] \in ClrRecords
           /\ \A k \in DOMAIN m_ranges : m_ranges[k] \in ClrRanges
           /\ \A j \in DOMAIN tables : tables[j] \in ClrRows
<1> USE DEF ClrTypes
<1>1. /\ Len(records) \in Nat /\ DOMAIN records = 1 .. Len(records)
      /\ Len(tables) \in Nat /\ DOMAIN tables = 1 .. Len(tables)
      /\ Len(m_ranges) \in Nat /\ DOMAIN m_ranges = 1 .. Len(m_ranges)
  BY LenProperties
<1> QED
  BY <1>1, ElementOfSeq

\* Whole slabs.
LEMMA SlabWhole == ASSUME NEW i \in Nat, NEW s \in Nat \ {0}, NEW d \in Nat, d < i \div s
                   PROVE  (d + 1) * s <= i /\ (d + 1) * s = d * s + s /\ d * s \in Nat
OBVIOUS
LEMMA SlabLater == ASSUME NEW i \in Nat, NEW s \in Nat \ {0}, NEW d \in Nat, d * s <= i PROVE d <= i \div s
OBVIOUS

LEMMA ClrNewRecord ==
    ASSUME ClrInv, NEW kind \in Kinds, Clr!NewRecord(kind)
    PROVE  ClrInv'
<1>1. ClrTypes
  BY DEF ClrInv
<1>2. PICK new, traced, n : /\ n = Len(records) /\ new = [kind |-> kind, traced |-> traced]
                            /\ traced \in BOOLEAN /\ (traced <=> context = "started")
                            /\ records' = Append(records, new)
  <2>1. (context = "started") \in BOOLEAN
    OBVIOUS
  <2> QED
    BY <2>1 DEF Clr!NewRecord
<1>3. UNCHANGED <<context, delivered, snapshot, m_ranges, m_processedCount, idsFrom, storageNow, tables>>
  BY DEF Clr!NewRecord, Clr!contextVars, Clr!rowVars
<1>4. /\ records' \in Seq(ClrRecords) /\ n \in Nat /\ DOMAIN records = 1 .. n /\ DOMAIN records' = 1 .. n + 1
      /\ Len(records') = n + 1 /\ records'[n + 1] = new
      /\ \A i \in 1 .. n : records'[i] = records[i]
  <2>1. new \in ClrRecords /\ records \in Seq(ClrRecords)
    BY <1>1, <1>2 DEF ClrRecords, ClrTypes
  <2> QED
    BY <1>2, <2>1, AppendProperties, LenProperties
<1>5. \A i \in 1 .. n + 1 : i \in 1 .. n \/ i = n + 1
  BY <1>4
<1>6. ClrTypes'
  BY <1>1, <1>3, <1>4 DEF ClrTypes
<1>7. CountInv'
  <2>1. /\ snapshot <= n /\ m_processedCount <= n /\ delivered * SlabSize <= m_processedCount
        /\ snapshot \in Nat \cup {-1} /\ m_processedCount \in Nat
    BY <1>1, <1>2 DEF ClrInv, CountInv, ClrTypes
  <2>2. snapshot <= n + 1 /\ m_processedCount <= n + 1
    BY <1>4, <2>1
  <2> QED
    BY <1>3, <1>4, <2>1, <2>2 DEF CountInv
<1>8. RangeInv'
  <2>1. ASSUME NEW i \in 1 .. n, records'[i].traced PROVE Clr!in_range(i - 1)'
    BY <1>2, <1>3, <1>4, <2>1 DEF ClrInv, RangeInv, Clr!in_range
  <2>2. ASSUME context = "started"
        PROVE  \E k \in DOMAIN m_ranges : k = Len(m_ranges) /\ m_ranges[k].end = 0 /\ m_ranges[k].start <= n
                                          /\ m_ranges[k].start \in Nat
    BY <1>1, <1>2, <2>2, ClrElements DEF ClrInv, RangeInv, ClrRanges
  <2>3. ASSUME records'[n + 1].traced PROVE Clr!in_range(n + 1 - 1)'
    <3>1. context = "started"
      BY <1>2, <1>4, <2>3
    <3>2. n + 1 - 1 = n
      BY <1>4
    <3>3. Clr!in_range(n)'
      BY <1>3, <1>4, <2>2, <3>1 DEF Clr!in_range
    <3> QED
      BY <3>2, <3>3
  <2>4. \A i \in 1 .. Len(records') : records'[i].traced => Clr!in_range(i - 1)'
    BY <1>4, <1>5, <2>1, <2>3
  <2>5. ASSUME NEW m \in Nat, m <= n PROVE m <= n + 1
    BY <1>4, <2>5
  <2> QED
    BY <1>3, <1>4, <2>2, <2>4, <2>5 DEF RangeInv
<1>9. TableInv'
  <2>1. \A i \in 1 .. m_processedCount : i \in 1 .. n
    BY <1>1, <1>2, <1>4 DEF ClrInv, CountInv, ClrTypes
  <2>2. \A i \in 1 .. m_processedCount : ClrWanted(i)' = ClrWanted(i) /\ ClrHasRow(i)' = ClrHasRow(i)
    BY <1>3, <1>4, <2>1 DEF ClrWanted, ClrHasRow
  <2> QED
    BY <1>3, <2>2 DEF ClrInv, TableInv
<1> QED
  BY <1>6, <1>7, <1>8, <1>9 DEF ClrInv

\* The ranges may only grow.
LEMMA ClrLife ==
    ASSUME ClrInv, UNCHANGED <<records, delivered, m_processedCount, tables>>,
           snapshot' \in Nat \cup {-1}, snapshot' <= Len(records),
           storageNow' \in {1, 2}, idsFrom' \in {0, storageNow'}, m_ranges' \in Seq(ClrRanges),
           \A i \in 0 .. Len(records) - 1 : Clr!in_range(i) => Clr!in_range(i)',
           context' = "started" => \E k \in DOMAIN m_ranges' :
               k = Len(m_ranges') /\ m_ranges'[k].end = 0 /\ m_ranges'[k].start <= Len(records)
    PROVE  ClrInv'
<1>1. ClrTypes'
  BY DEF ClrInv, ClrTypes
<1>2. CountInv' /\ TableInv'
  BY DEF ClrInv, CountInv, TableInv, ClrWanted, ClrHasRow
<1>3. RangeInv'
  <2>1. \A i \in 1 .. Len(records) : i - 1 \in 0 .. Len(records) - 1
    BY ClrElements DEF ClrInv
  <2> QED
    BY <2>1 DEF ClrInv, RangeInv
<1> QED
  BY <1>1, <1>2, <1>3 DEF ClrInv

LEMMA ClrStart == ASSUME ClrInv, Clr!startTracing PROVE ClrInv'
<1>1. /\ Len(records) \in Nat /\ m_ranges \in Seq(ClrRanges) /\ DOMAIN m_ranges = 1 .. Len(m_ranges)
      /\ snapshot \in Nat \cup {-1} /\ snapshot <= Len(records)
      /\ storageNow \in {1, 2} /\ idsFrom \in {0, storageNow}
  BY ClrElements DEF ClrInv, ClrTypes, CountInv
<1>2. PICK new : new = [start |-> Len(records), end |-> 0] /\ m_ranges' = Append(m_ranges, new)
  BY DEF Clr!startTracing
<1>3. new \in ClrRanges /\ new.start = Len(records) /\ new.end = 0
  BY <1>1, <1>2 DEF ClrRanges
<1>4. /\ m_ranges' \in Seq(ClrRanges) /\ DOMAIN m_ranges \subseteq DOMAIN m_ranges'
      /\ \A k \in DOMAIN m_ranges : m_ranges'[k] = m_ranges[k]
      /\ Len(m_ranges) + 1 \in DOMAIN m_ranges' /\ m_ranges'[Len(m_ranges) + 1] = new
      /\ Len(m_ranges') = Len(m_ranges) + 1
  BY <1>1, <1>2, <1>3, Appended, AppendProperties
<1>5. \A i \in 0 .. Len(records) - 1 : Clr!in_range(i) => Clr!in_range(i)'
  BY <1>4 DEF Clr!in_range
<1>6. \E k \in DOMAIN m_ranges' :
          k = Len(m_ranges') /\ m_ranges'[k].end = 0 /\ m_ranges'[k].start <= Len(records)
  BY <1>1, <1>3, <1>4
<1>7. UNCHANGED <<records, delivered, m_processedCount, tables, snapshot, storageNow, idsFrom>>
  BY DEF Clr!startTracing, Clr!runtimeVars, Clr!rowVars
<1> QED
  BY <1>1, <1>4, <1>5, <1>6, <1>7, ClrLife

LEMMA ClrStop == ASSUME ClrInv, Clr!stopTracing PROVE ClrInv'
<1>1. /\ Len(records) \in Nat /\ m_ranges \in Seq(ClrRanges) /\ DOMAIN m_ranges = 1 .. Len(m_ranges)
      /\ snapshot \in Nat \cup {-1} /\ snapshot <= Len(records)
      /\ storageNow \in {1, 2} /\ idsFrom \in {0, storageNow}
      /\ \A k \in DOMAIN m_ranges : m_ranges[k] \in ClrRanges
  BY ClrElements DEF ClrInv, ClrTypes, CountInv
<1>2. PICK last \in DOMAIN m_ranges : last = Len(m_ranges)
  BY DEF ClrInv, RangeInv, Clr!stopTracing
<1>3. PICK new : new = [m_ranges[last] EXCEPT !.end = Len(records)]
  OBVIOUS
<1>4. new \in ClrRanges /\ new.start = m_ranges[last].start /\ new.end = Len(records)
  BY <1>1, <1>3 DEF ClrRanges
<1>5. m_ranges' = [m_ranges EXCEPT ![last] = new]
  BY <1>2, <1>3 DEF Clr!stopTracing
<1>6. /\ m_ranges' \in Seq(ClrRanges) /\ DOMAIN m_ranges' = DOMAIN m_ranges /\ m_ranges'[last] = new
      /\ \A k \in DOMAIN m_ranges \ {last} : m_ranges'[k] = m_ranges[k]
  BY <1>1, <1>4, <1>5, ExceptSeq
<1>7. ASSUME NEW i \in 0 .. Len(records) - 1, Clr!in_range(i) PROVE Clr!in_range(i)'
  <2>1. PICK k \in DOMAIN m_ranges : i >= m_ranges[k].start /\ (m_ranges[k].end = 0 \/ i < m_ranges[k].end)
    BY <1>7 DEF Clr!in_range
  <2>2. i >= m_ranges'[k].start /\ (m_ranges'[k].end = 0 \/ i < m_ranges'[k].end)
    <3>1. i < Len(records)
      BY <1>1
    <3> QED
      BY <1>4, <1>6, <2>1, <3>1
  <2> QED
    BY <1>6, <2>2 DEF Clr!in_range
<1>8. /\ UNCHANGED <<records, delivered, m_processedCount, tables, snapshot, storageNow, idsFrom>>
      /\ context' # "started"
  BY DEF Clr!stopTracing, Clr!runtimeVars, Clr!rowVars
<1> QED
  BY <1>1, <1>6, <1>7, <1>8, ClrLife

\* RecordsFrom() counts from a to b - 1.
Counts(ids, a, b) ==
    /\ ids \in Seq(Nat) /\ Once(ids) /\ DOMAIN ids = 1 .. Len(ids)
    /\ \A x : (\E j \in 1 .. Len(ids) : ids[j] = x) <=> x \in Nat /\ a <= x /\ x < b
    /\ a < b => ids[Len(ids)] = b - 1

LEMMA ClrFrom ==
    ASSUME NEW a \in Nat, NEW b \in Nat, NEW ids, ids = Clr!RecordsFrom(a, b)
    PROVE  Counts(ids, a, b)
<1>1. DOMAIN ids = 1 .. b - a /\ \A j \in 1 .. b - a : ids[j] = a + j - 1
  BY DEF Clr!RecordsFrom
<1>2. ids = [j \in DOMAIN ids |-> ids[j]]
  BY DEF Clr!RecordsFrom
<1>3. \A j \in 1 .. b - a : a + j - 1 \in Nat /\ a <= a + j - 1 /\ a + j - 1 < b
  OBVIOUS
<1>4. PICK n \in Nat : 1 .. b - a = 1 .. n /\ (a < b => n = b - a)
  <2>1. CASE a <= b
    <3>1. b - a \in Nat
      BY <2>1
    <3> QED
      BY <3>1
  <2>2. CASE a > b
    <3>1. 1 .. b - a = 1 .. 0 /\ 0 \in Nat
      BY <2>2
    <3> QED
      BY <2>2, <3>1
  <2> QED
    BY <2>1, <2>2
<1>5. ids \in Seq(Nat) /\ Len(ids) = n
  BY <1>1, <1>2, <1>3, <1>4, Listed
<1>6. Once(ids)
  <2>1. \A i, j \in 1 .. b - a : a + i - 1 = a + j - 1 => i = j
    OBVIOUS
  <2> QED
    BY <1>1, <1>4, <1>5, <2>1 DEF Once
<1>7. ASSUME NEW x PROVE (\E j \in 1 .. Len(ids) : ids[j] = x) <=> x \in Nat /\ a <= x /\ x < b
  <2>1. ASSUME x \in Nat, a <= x, x < b PROVE \E j \in 1 .. Len(ids) : ids[j] = x
    <3>1. x - a + 1 \in 1 .. b - a /\ a + (x - a + 1) - 1 = x
      BY <2>1
    <3>2. ids[x - a + 1] = x
      BY <1>1, <3>1
    <3> QED
      BY <1>4, <1>5, <3>1, <3>2
  <2>2. ASSUME NEW j \in 1 .. Len(ids), ids[j] = x PROVE x \in Nat /\ a <= x /\ x < b
    BY <1>1, <1>3, <1>4, <1>5, <2>2
  <2> QED
    BY <2>1, <2>2
<1>8. a < b => n = b - a /\ b - a \in 1 .. b - a /\ a + (b - a) - 1 = b - 1
  BY <1>4
<1>9. a < b => ids[Len(ids)] = b - 1
  BY <1>1, <1>4, <1>5, <1>8
<1> QED
  BY <1>4, <1>5, <1>6, <1>7, <1>9 DEF Counts

LEMMA ClrCounts == ASSUME NEW a \in Nat, NEW b \in Nat PROVE Counts(Clr!RecordsFrom(a, b), a, b)
BY ClrFrom

\* The records from the mark on, each once, become rows, and the mark moves.
LEMMA ClrProcess ==
    ASSUME ClrInv, NEW ids \in Seq(Nat), NEW hi \in Nat, Clr!processRecords(ids), Once(ids),
           m_processedCount <= hi, hi <= Len(records), m_processedCount' = hi,
           \A x : (\E j \in 1 .. Len(ids) : ids[j] = x) <=> x \in Nat /\ m_processedCount <= x /\ x < hi,
           UNCHANGED <<records, m_ranges, storageNow>>
    PROVE  tables' \in Seq(ClrRows) /\ idsFrom' \in {0, storageNow'} /\ TableInv'
<1>1. ClrTypes
  BY DEF ClrInv
<1>2. PICK wanted, logged, rows :
        /\ wanted = {i \in Clr!Range(ids) : Clr!in_range(i) /\ Clr!m_apiList_contains(records[i + 1].kind)}
        /\ logged = Selected(ids, wanted) /\ rows = [j \in DOMAIN logged |-> Clr!RowOf(logged[j])]
  OBVIOUS
<1>3. /\ tables' = tables \o rows
      /\ idsFrom' = IF logged = <<>> THEN idsFrom ELSE Clr!Ids
  <2>1. Clr!Selected(ids, wanted) = logged
    BY <1>2 DEF Clr!Selected, Selected
  <2> QED
    BY <1>2, <2>1 DEF Clr!processRecords
<1>4. /\ logged \in Seq(Nat) /\ Len(logged) \in Nat /\ DOMAIN logged = 1 .. Len(logged) /\ Once(logged)
      /\ \A x : (\E j \in 1 .. Len(logged) : logged[j] = x)
                <=> x \in wanted /\ \E j \in 1 .. Len(ids) : ids[j] = x
  <2>1. logged \in Seq(Nat) /\ IsSelection(logged, ids, wanted)
    BY <1>2, SelectedIs
  <2> QED
    BY <2>1, LenProperties DEF IsSelection
<1>5. DOMAIN ids = 1 .. Len(ids) /\ m_processedCount \in Nat
  BY <1>1, LenProperties DEF ClrTypes
<1>6. \A x : x \in wanted <=> /\ \E j \in 1 .. Len(ids) : ids[j] = x
                              /\ Clr!in_range(x) /\ Clr!m_apiList_contains(records[x + 1].kind)
  BY <1>2, <1>5 DEF Clr!Range
<1>7. \A j \in 1 .. Len(logged) : /\ logged[j] \in Nat
                                  /\ m_processedCount <= logged[j] /\ logged[j] < hi
  BY <1>4, <1>6
<1>8. /\ rows \in Seq(ClrRows) /\ Len(rows) = Len(logged)
      /\ \A j \in 1 .. Len(logged) : rows[j].record = logged[j] /\ rows[j].ids = rows[j].storage
  <2>1. Clr!Ids = storageNow /\ storageNow \in {1, 2}
    BY <1>1 DEF ClrTypes, Clr!Ids
  <2>2. ASSUME NEW j \in 1 .. Len(logged)
        PROVE  rows[j] \in ClrRows /\ rows[j].record = logged[j] /\ rows[j].ids = rows[j].storage
    <3>1. PICK i \in Nat : i = logged[j] /\ rows[j] = Clr!RowOf(i)
      BY <1>2, <1>4
    <3>2. PICK kind : kind = records[i + 1].kind
      OBVIOUS
    <3>3. PICK op \in {"launch", "copy", "barrier", "none"} :
              op = IF kind \in {"launch", "copy", "barrier"} THEN kind ELSE "none"
      OBVIOUS
    <3>4. PICK kernel \in BOOLEAN : kernel = (kind = "launch")
      OBVIOUS
    <3>6. PICK copy \in BOOLEAN : copy = (kind \in {"copy", "host copy"})
      <4>1. (kind \in {"copy", "host copy"}) \in BOOLEAN
        OBVIOUS
      <4> QED
        BY <4>1
    <3>5. Clr!RowOf(i) = [record |-> i, storage |-> storageNow, ids |-> storageNow, op |-> op,
                          kernel |-> kernel, copy |-> copy]
      BY <2>1, <3>2, <3>3, <3>4, <3>6 DEF Clr!RowOf
    <3>7. /\ [record |-> i, storage |-> storageNow, ids |-> storageNow, op |-> op,
              kernel |-> kernel, copy |-> copy] \in ClrRows
          /\ Clr!RowOf(i).record = i /\ Clr!RowOf(i).ids = Clr!RowOf(i).storage
      BY <2>1, <3>5 DEF ClrRows
    <3> QED
      BY <3>1, <3>5, <3>7
  <2>3. DOMAIN rows = 1 .. Len(logged) /\ rows = [j \in DOMAIN rows |-> rows[j]]
    BY <1>2, <1>4
  <2>4. rows \in Seq(ClrRows) /\ Len(rows) = Len(logged)
    BY <1>4, <2>2, <2>3, Listed
  <2> QED
    BY <2>2, <2>4
<1>9. PICK old, m, all : old = tables /\ m = Len(old) /\ all = old \o rows
  OBVIOUS
<1>10. /\ all \in Seq(ClrRows) /\ DOMAIN old = 1 .. m
       /\ \A j \in DOMAIN old : all[j] = old[j] /\ j \in DOMAIN all
       /\ \A j \in 1 .. Len(logged) : all[m + j] = rows[j] /\ m + j \in DOMAIN all
       /\ \A j \in DOMAIN all : j \in DOMAIN old \/ \E k \in 1 .. Len(logged) : j = m + k
  <2>1. old \in Seq(ClrRows) /\ DOMAIN old = 1 .. m
    BY <1>1, <1>9, LenProperties DEF ClrTypes
  <2>2. all \in Seq(ClrRows) /\ Joins(all, old, m, rows, Len(logged))
    BY <1>8, <1>9, <2>1, JoinedIs
  <2> QED
    BY <2>1, <2>2 DEF Joins
<1>11. tables' = all
  BY <1>3, <1>9
<1>12. idsFrom' \in {0, storageNow'}
  BY <1>1, <1>3 DEF ClrTypes, Clr!Ids
<1>13. \A j \in DOMAIN old : old[j].record < m_processedCount /\ old[j].ids = old[j].storage /\ old[j].record \in Nat
  BY <1>1, <1>9, ClrElements DEF ClrInv, TableInv, ClrRows
<1>20. \A k \in 1 .. Len(logged) : /\ rows[k].record \in Nat /\ m_processedCount <= rows[k].record
                                    /\ rows[k].record < hi /\ rows[k].ids = rows[k].storage
  BY <1>7, <1>8
<1>14. ASSUME NEW j \in DOMAIN all PROVE all[j].record < hi /\ all[j].ids = all[j].storage
  <2>1. CASE j \in DOMAIN old
    BY <1>5, <1>10, <1>13, <2>1
  <2>2. CASE \E k \in 1 .. Len(logged) : j = m + k
    <3>1. PICK k \in 1 .. Len(logged) : j = m + k
      BY <2>2
    <3>2. all[j] = rows[k]
      BY <1>10, <3>1
    <3> QED
      BY <1>20, <3>2
  <2> QED
    BY <1>10, <2>1, <2>2
<1>15. ASSUME NEW j \in DOMAIN all, NEW k \in DOMAIN all, all[j].record = all[k].record
       PROVE  j = k
  <2>1. ASSUME NEW i \in DOMAIN old, NEW l \in 1 .. Len(logged) PROVE all[i].record # all[m + l].record
    <3>1. all[i].record \in Nat /\ all[i].record < m_processedCount
      BY <1>10, <1>13
    <3>2. all[m + l].record \in Nat /\ m_processedCount <= all[m + l].record
      BY <1>10, <1>20
    <3> QED
      BY <1>5, <3>1, <3>2
  <2>2. CASE j \in DOMAIN old /\ k \in DOMAIN old
    <3>1. old[j].record = old[k].record
      BY <1>10, <1>15, <2>2
    <3> QED
      BY <1>9, <2>2, <3>1 DEF ClrInv, TableInv
  <2>3. ASSUME NEW a \in 1 .. Len(logged), NEW b \in 1 .. Len(logged), j = m + a, k = m + b
        PROVE  j = k
    <3>1. logged[a] = logged[b]
      BY <1>8, <1>10, <1>15, <2>3
    <3> QED
      BY <1>4, <2>3, <3>1 DEF Once
  <2>4. CASE j \in DOMAIN old /\ \E l \in 1 .. Len(logged) : k = m + l
    BY <1>15, <2>1, <2>4
  <2>5. CASE k \in DOMAIN old /\ \E l \in 1 .. Len(logged) : j = m + l
    BY <1>15, <2>1, <2>5
  <2> QED
    BY <1>10, <2>2, <2>3, <2>4, <2>5
<1>16. ASSUME NEW i \in 1 .. hi, ClrWanted(i) PROVE \E j \in DOMAIN all : all[j].record = i - 1
  <2>1. CASE i <= m_processedCount
    <3>1. i \in 1 .. m_processedCount
      BY <1>5, <2>1
    <3>2. PICK j \in DOMAIN old : old[j].record = i - 1
      BY <1>9, <1>16, <3>1 DEF ClrInv, TableInv, ClrHasRow
    <3> QED
      BY <1>10, <3>2
  <2>2. CASE i > m_processedCount
    <3>1. i - 1 \in Nat /\ m_processedCount <= i - 1 /\ i - 1 < hi /\ (i - 1) + 1 = i
      BY <1>5, <2>2
    <3>2. i \in 1 .. Len(records)
      BY <1>1, ClrElements
    <3>3. Clr!in_range(i - 1) /\ Clr!m_apiList_contains(records[i].kind)
      BY <1>16, <3>2 DEF ClrWanted, ClrInv, RangeInv
    <3>4. i - 1 \in wanted
      BY <1>6, <3>1, <3>3
    <3>5. PICK l \in 1 .. Len(logged) : logged[l] = i - 1
      BY <1>4, <3>1, <3>4
    <3>6. PICK j : j = m + l
      OBVIOUS
    <3>7. j \in DOMAIN all /\ all[j].record = logged[l]
      BY <1>8, <1>10, <3>6
    <3> QED
      BY <3>5, <3>7
  <2> QED
    BY <1>5, <2>1, <2>2
<1>17. TableInv'
  <2>1. \A i : ClrWanted(i)' = ClrWanted(i)
    BY DEF ClrWanted
  <2>2. \A i \in 1 .. m_processedCount' : ClrWanted(i)' => ClrHasRow(i)'
    BY <1>11, <1>16, <2>1 DEF ClrHasRow
  <2>3. \A j \in DOMAIN tables' : tables'[j].record < m_processedCount' /\ tables'[j].ids = tables'[j].storage
    BY <1>11, <1>14
  <2>4. \A j, k \in DOMAIN tables' : tables'[j].record = tables'[k].record => j = k
    BY <1>11, <1>15
  <2> QED
    BY <2>2, <2>3, <2>4, Zenon DEF TableInv
<1> QED
  BY <1>10, <1>11, <1>12, <1>17

LEMMA ClrFlushEnd == ASSUME ClrInv, Clr!FlushEnd PROVE ClrInv'
<1>1. ClrTypes
  BY DEF ClrInv
<1>2. /\ snapshot \in Nat /\ snapshot <= Len(records) /\ m_processedCount \in Nat
      /\ m_processedCount <= Len(records) /\ Len(records) \in Nat
  BY <1>1, ClrElements DEF ClrInv, CountInv, ClrTypes, Clr!FlushEnd, Clr!Unlocked
<1>3. PICK ids, hi : /\ ids = Clr!RecordsFrom(m_processedCount, snapshot)
                     /\ hi = IF snapshot > m_processedCount THEN snapshot ELSE m_processedCount
  OBVIOUS
<1>4. /\ Clr!processRecords(ids) /\ m_processedCount' = hi /\ snapshot' = -1
      /\ UNCHANGED <<context, records, delivered, m_ranges, storageNow>>
  BY <1>3 DEF Clr!FlushEnd, Clr!FlushFrom, Clr!contextVars, Clr!runtimeVars
<1>5. /\ ids \in Seq(Nat) /\ Once(ids)
      /\ \A x : (\E j \in 1 .. Len(ids) : ids[j] = x) <=> x \in Nat /\ m_processedCount <= x /\ x < snapshot
  <2>1. Counts(ids, m_processedCount, snapshot)
    BY <1>2, <1>3, ClrCounts
  <2> QED
    BY <2>1 DEF Counts
<1>6. hi \in Nat /\ m_processedCount <= hi /\ hi <= Len(records)
  BY <1>2, <1>3
<1>7. \A x \in Nat : m_processedCount <= x /\ x < snapshot <=> m_processedCount <= x /\ x < hi
  BY <1>2, <1>3
<1>8. tables' \in Seq(ClrRows) /\ idsFrom' \in {0, storageNow'} /\ TableInv'
  BY <1>4, <1>5, <1>6, <1>7, ClrProcess
<1>9. ClrTypes'
  BY <1>1, <1>4, <1>6, <1>8 DEF ClrTypes
<1>10. CountInv'
  <2>1. delivered * SlabSize <= m_processedCount /\ delivered * SlabSize \in Nat
    BY <1>1, SlabAssumption DEF ClrInv, CountInv, ClrTypes
  <2>2. delivered * SlabSize <= hi
    BY <1>2, <1>6, <2>1
  <2> QED
    BY <1>2, <1>4, <1>6, <2>2 DEF CountInv
<1>11. RangeInv'
  BY <1>4 DEF ClrInv, RangeInv, Clr!in_range
<1> QED
  BY <1>8, <1>9, <1>10, <1>11 DEF ClrInv

LEMMA ClrChunk == ASSUME ClrInv, Clr!chunkCallback PROVE ClrInv'
<1>1. ClrTypes
  BY DEF ClrInv
<1>2. /\ snapshot = -1 /\ m_processedCount \in Nat
      /\ m_processedCount <= Len(records) /\ Len(records) \in Nat
      /\ delivered \in Nat /\ SlabSize \in Nat \ {0} /\ delivered * SlabSize <= m_processedCount
  BY <1>1, ClrElements, SlabAssumption DEF ClrInv, CountInv, ClrTypes, Clr!chunkCallback, Clr!Unlocked
<1>3. PICK first, end, slab, ids, hi :
        /\ first = delivered * SlabSize /\ end = first + SlabSize
        /\ slab = Clr!RecordsFrom(first, end) /\ ids = Clr!NotConsumed(slab)
        /\ hi = IF slab[Len(slab)] + 1 > m_processedCount THEN slab[Len(slab)] + 1 ELSE m_processedCount
  OBVIOUS
<1>4. /\ Clr!processRecords(ids) /\ m_processedCount' = hi /\ delivered' = delivered + 1
      /\ UNCHANGED <<context, records, snapshot, m_ranges, storageNow>>
  BY <1>3 DEF Clr!chunkCallback, Clr!contextVars
<1>5. /\ first \in Nat /\ end \in Nat /\ first < end /\ end <= Len(records)
      /\ first <= m_processedCount /\ (delivered + 1) * SlabSize = end
  <2>1. delivered < Len(records) \div SlabSize
    BY DEF Clr!chunkCallback, Clr!SlabsFull
  <2>2. /\ (delivered + 1) * SlabSize <= Len(records) /\ delivered * SlabSize \in Nat
        /\ (delivered + 1) * SlabSize = delivered * SlabSize + SlabSize
    BY <1>2, <2>1, SlabWhole
  <2> QED
    BY <1>2, <1>3, <2>2
<1>6. /\ slab \in Seq(Nat) /\ Once(slab) /\ DOMAIN slab = 1 .. Len(slab)
      /\ \A x : (\E j \in 1 .. Len(slab) : slab[j] = x) <=> x \in Nat /\ first <= x /\ x < end
      /\ slab[Len(slab)] = end - 1
  <2>1. Counts(slab, first, end)
    BY <1>3, <1>5, ClrCounts
  <2> QED
    BY <1>5, <2>1 DEF Counts
<1>7. /\ ids \in Seq(Nat) /\ Once(ids)
      /\ \A x : (\E j \in 1 .. Len(ids) : ids[j] = x)
                <=> x \in Nat /\ first <= x /\ x < end /\ x >= m_processedCount
  <2>1. PICK wanted : wanted = {i \in Clr!Range(slab) : i >= m_processedCount}
    OBVIOUS
  <2>2. ids = Selected(slab, wanted)
    BY <1>3, <2>1 DEF Clr!NotConsumed, Clr!Selected, Selected
  <2>3. ids \in Seq(Nat) /\ IsSelection(ids, slab, wanted)
    BY <1>6, <2>2, SelectedIs
  <2>4. \A x : x \in wanted <=> (\E j \in 1 .. Len(slab) : slab[j] = x) /\ x >= m_processedCount
    BY <1>6, <2>1 DEF Clr!Range
  <2> QED
    BY <1>6, <2>3, <2>4 DEF IsSelection
<1>8. hi = IF end > m_processedCount THEN end ELSE m_processedCount
  BY <1>3, <1>5, <1>6
<1>9. hi \in Nat /\ m_processedCount <= hi /\ hi <= Len(records) /\ end <= hi
  BY <1>2, <1>5, <1>8
<1>10. \A x \in Nat : first <= x /\ x < end /\ x >= m_processedCount <=> m_processedCount <= x /\ x < hi
  BY <1>2, <1>5, <1>8
<1>11. tables' \in Seq(ClrRows) /\ idsFrom' \in {0, storageNow'} /\ TableInv'
  BY <1>4, <1>7, <1>9, <1>10, ClrProcess
<1>12. ClrTypes'
  BY <1>1, <1>2, <1>4, <1>9, <1>11 DEF ClrTypes
<1>13. CountInv'
  BY <1>2, <1>4, <1>5, <1>9 DEF CountInv
<1>14. RangeInv'
  BY <1>4 DEF ClrInv, RangeInv, Clr!in_range
<1> QED
  BY <1>11, <1>12, <1>13, <1>14 DEF ClrInv

LEMMA ClrStep == ASSUME ClrInv, [Clr!Next]_<<lifeVars, rowVars, chunkVars>> PROVE ClrInv'
<1>1. /\ Len(records) \in Nat /\ m_ranges \in Seq(ClrRanges)
      /\ snapshot \in Nat \cup {-1} /\ snapshot <= Len(records)
      /\ storageNow \in {1, 2} /\ idsFrom \in {0, storageNow}
  BY ClrElements DEF ClrInv, ClrTypes, CountInv
<1>2. ASSUME UNCHANGED <<records, delivered, m_processedCount, tables, m_ranges>>,
             snapshot' \in Nat \cup {-1}, snapshot' <= Len(records),
             storageNow' \in {1, 2}, idsFrom' \in {0, storageNow'},
             context' = "started" => context = "started"
      PROVE  ClrInv'
  <2>1. \A i \in 0 .. Len(records) - 1 : Clr!in_range(i) => Clr!in_range(i)'
    BY <1>2 DEF Clr!in_range
  <2>2. context' = "started" => \E k \in DOMAIN m_ranges' :
               k = Len(m_ranges') /\ m_ranges'[k].end = 0 /\ m_ranges'[k].start <= Len(records)
    BY <1>2 DEF ClrInv, RangeInv
  <2> QED
    BY <1>1, <1>2, <2>1, <2>2, ClrLife
<1>3. CASE Clr!FreeSlab \/ Clr!init \/ Clr!end \/ UNCHANGED <<lifeVars, rowVars, chunkVars>>
  BY <1>1, <1>2, <1>3 DEF Clr!FreeSlab, Clr!init, Clr!end, Clr!rowVars, Clr!contextVars, Clr!runtimeVars,
     lifeVars, rowVars, chunkVars
<1>4. CASE Clr!FlushBegin
  <2>1. Len(records) <= Len(records)
    BY <1>1
  <2> QED
    BY <1>1, <1>2, <1>4, <2>1 DEF Clr!FlushBegin, Clr!rowVars, Clr!contextVars, Clr!runtimeVars
<1>5. CASE Clr!reset
  BY <1>1, <1>2, <1>5 DEF Clr!reset, Clr!IdsAfterReset, Clr!contextVars, Clr!runtimeVars
<1> QED
  BY <1>3, <1>4, <1>5, ClrNewRecord, ClrChunk, ClrFlushEnd, ClrStart, ClrStop DEF Clr!Next

LEMMA ClrCardinality == ASSUME NEW S PROVE Clr!Cardinality(S) = Cardinality(S)
BY DEF Clr!Cardinality, Cardinality

LEMMA ClrOnce == ASSUME ClrInv PROVE Clr!EachRecordOnce /\ Clr!FlushSparesDelivered
<1>1. ClrTypes
  BY DEF ClrInv
<1>2. /\ Len(records) \in Nat /\ m_processedCount \in Nat /\ delivered \in Nat
      /\ \A j \in DOMAIN tables : tables[j].ids = tables[j].storage
  BY <1>1, ClrElements DEF ClrTypes, ClrInv, TableInv
<1>3. ASSUME NEW i \in 0 .. Len(records) - 1
      PROVE  LET rows == Clr!Cardinality({j \in DOMAIN tables : tables[j].record = i}) IN
             /\ rows <= 1
             /\ i < m_processedCount /\ records[i + 1].traced
                  /\ Clr!m_apiList_contains(records[i + 1].kind) => rows = 1
  <2> DEFINE own == {j \in DOMAIN tables : tables[j].record = i}
  <2>1. ASSUME NEW j \in own PROVE Clr!Cardinality(own) = 1
    <3>1. own = {j}
      BY DEF ClrInv, TableInv
    <3> HIDE DEF own
    <3> QED
      BY <3>1, FS_Singleton, ClrCardinality
  <2>2. ASSUME own = {} PROVE Clr!Cardinality(own) = 0
    <3> HIDE DEF own
    <3> QED
      BY <2>2, FS_EmptySet, ClrCardinality
  <2>3. Clr!Cardinality(own) = 0 \/ Clr!Cardinality(own) = 1
    <3> HIDE DEF own
    <3> QED
      BY <2>1, <2>2
  <2>4. ASSUME i < m_processedCount, records[i + 1].traced, Clr!m_apiList_contains(records[i + 1].kind)
        PROVE  Clr!Cardinality(own) = 1
    <3>1. i + 1 \in 1 .. m_processedCount /\ (i + 1) - 1 = i
      BY <1>2, <2>4
    <3>2. \E j \in DOMAIN tables : tables[j].record = i
      BY <2>4, <3>1 DEF ClrInv, TableInv, ClrWanted, ClrHasRow
    <3>3. PICK j : j \in own
      BY <3>2
    <3> HIDE DEF own
    <3> QED
      BY <2>1, <3>3
  <2> HIDE DEF own
  <2>5. /\ Clr!Cardinality(own) <= 1
        /\ i < m_processedCount /\ records[i + 1].traced
             /\ Clr!m_apiList_contains(records[i + 1].kind) => Clr!Cardinality(own) = 1
    BY <2>3, <2>4
  <2> QED
    BY <2>5 DEF own
<1>4. Clr!EachRecordOnce
  BY <1>2, <1>3 DEF Clr!EachRecordOnce
<1>5. Clr!FlushSparesDelivered
  <2> SUFFICES ASSUME ~Clr!Unlocked, NEW i \in m_processedCount .. snapshot - 1
               PROVE  i \div SlabSize >= delivered
    BY DEF Clr!FlushSparesDelivered, Clr!FlushFrom, Clr!SlabOf
  <2>1. snapshot \in Nat
    BY <1>1 DEF ClrTypes, Clr!Unlocked
  <2>2. /\ i \in Nat /\ m_processedCount <= i /\ delivered * SlabSize <= m_processedCount
        /\ delivered * SlabSize \in Nat
    BY <1>2, <2>1, SlabAssumption DEF ClrInv, CountInv
  <2>3. delivered * SlabSize <= i
    BY <1>2, <2>2
  <2>4. delivered <= i \div SlabSize /\ i \div SlabSize \in Nat
    BY <1>2, <2>2, <2>3, SlabLater, SlabAssumption
  <2> QED
    BY <1>2, <2>4
<1> QED
  BY <1>4, <1>5

-----------------------------------------------------------------------------
(* rocprofiler: the states and what holds of them                            *)

RocCalls == [thread : RocprofThreads, api : RocprofApis, exited : BOOLEAN, traced : BOOLEAN,
             copying : BOOLEAN, retired : BOOLEAN]
RocDispatches == [corr : Nat, kernel : Roc!Kernels, agent : Agents, set : Nat, counted : BOOLEAN,
                  at : {"new", "queued", "done"}]
CounterNames == {CountersOf[p[1]][p[2]] : p \in Nat \X Nat}
NatMaps      == UNION {[D -> Nat] : D \in SUBSET Nat}
RocOps       == [corr : Nat, disp : Nat, storage : {1, 2}, ids : {1, 2}]
RocArgs      == [corr : Nat, args : Nat]
RocCounters  == [op : Nat, counter : CounterNames, parts : SUBSET (Nat \X Nat), storage : {1, 2}]
RocSlots     == [counter : CounterNames, parts : SUBSET (Nat \X Nat)]
ArgSets      == SUBSET RocArgs
CounterSets  == SUBSET RocCounters
RocTables    == [ops : Seq(RocOps), kernels : ArgSets, copies : ArgSets, counters : CounterSets]
RocPending   == [kernels : NatMaps, copies : NatMaps, opIds : NatMaps]
RocStates    == [pend : RocPending, rows : RocTables, ctrOp : Nat, slots : Seq(RocSlots)]

RocCallInv ==
    /\ calls \in Seq(RocCalls)
    /\ \A c \in DOMAIN calls : calls[c].retired => calls[c].exited
IsSetOf(set, a) == \E i \in DOMAIN SetsOf[a] : SetsOf[a][i] = set
DispatchInv ==
    /\ dispatches \in Seq(RocDispatches)
    /\ \A d \in DOMAIN dispatches :
           /\ dispatches[d].corr \in DOMAIN calls
           /\ dispatches[d].set # 0 => IsSetOf(dispatches[d].set, dispatches[d].agent)
           /\ dispatches[d].at = "new" => dispatches[d].set = 0 /\ ~dispatches[d].counted
ConfigInv ==
    /\ \A a \in DOMAIN counterConfigs : counterConfigs[a] = SetsOf[a]
    /\ dispatchCount \in [{NameOf[k] : k \in Roc!Kernels} -> Nat]
IdsInv == storageNow \in {1, 2} /\ idsFrom \in {0, storageNow}

\* The count says how often each set was used.
OnAgent(name, a) ==
    \A d \in DOMAIN dispatches : NameOf[dispatches[d].kernel] = name => dispatches[d].agent = a
UsedBy(name, s) == {d \in DOMAIN dispatches : NameOf[dispatches[d].kernel] = name /\ dispatches[d].set = s}
Turns(n, i, m) == (n + m - i) \div m
TurnInv ==
    \A name \in DOMAIN dispatchCount, a \in Agents :
        OnAgent(name, a) => \A i \in DOMAIN SetsOf[a] :
            Cardinality(UsedBy(name, SetsOf[a][i])) = Turns(dispatchCount[name], i, Len(SetsOf[a]))

\* A record is of what happened; the last record of a call is its retirement, and
\* the values of a dispatch are behind its header.
Retirement(c) == [kind |-> "retire", corr |-> c]
PartOf(d, part, counter) == CountersOf[dispatches[d].set][part] = counter
Seen(d) == d \in DOMAIN dispatches /\ dispatches[d].at # "new"
RecordOk(r) ==
    \/ r.kind = "dispatch" /\ r.corr \in DOMAIN calls /\ Seen(r.disp)
    \/ r.kind = "copy" /\ r.corr \in DOMAIN calls
    \/ r.kind = "api" /\ r.corr \in DOMAIN calls /\ r.api = calls[r.corr].api
    \/ r.kind = "retire" /\ r.corr \in DOMAIN calls
    \/ r.kind \in {"kfd", "scratch"}
    \/ r.kind = "header" /\ Seen(r.disp) /\ dispatches[r.disp].counted
    \/ r.kind = "value" /\ Seen(r.disp) /\ r.part \in Nat /\ PartOf(r.disp, r.part, r.counter)
Follows(r, s) == r.kind \in {"header", "value"} /\ r.disp = s.disp
BufferInv ==
    /\ \E S : buffer \in Seq(S)
    /\ \A i \in DOMAIN buffer : RecordOk(buffer[i])
    /\ \A i \in DOMAIN buffer : buffer[i].kind = "api" /\ calls[buffer[i].corr].retired =>
           \E j \in DOMAIN buffer : i < j /\ buffer[j] = Retirement(buffer[i].corr)
    /\ \A i \in DOMAIN buffer : buffer[i].kind = "value" /\ i > 1 => Follows(buffer[i - 1], buffer[i])

\* What is kept for a call is its own, until the retirement behind the i-th record.
RetireComes(c, i) == calls[c].retired => \E j \in DOMAIN buffer : i < j /\ buffer[j] = Retirement(c)
PendOk(k, p, i) ==
    /\ \A c \in DOMAIN k : /\ c \in DOMAIN calls /\ RetireComes(c, i)
                           /\ k[c] = Roc!extractKernelLaunchData(calls[c].api, c)
    /\ \A c \in DOMAIN p : /\ c \in DOMAIN calls /\ RetireComes(c, i)
                           /\ p[c] = Roc!extractCopyData(calls[c].api, c)
RowsOk(ops, kernels, copies) ==
    /\ \A j \in DOMAIN ops : ops[j].ids = ops[j].storage
    /\ \A row \in kernels : /\ row.corr \in DOMAIN calls
                            /\ row.args = Roc!extractKernelLaunchData(calls[row.corr].api, row.corr)
    /\ \A row \in copies : /\ row.corr \in DOMAIN calls
                           /\ row.args = Roc!extractCopyData(calls[row.corr].api, row.corr)

\* An operation that waits for its counters has no row of them yet, and if they
\* are still to come it is in the storage they will be written to.
Unread(d, i) ==
    \/ dispatches[d].set # 0 /\ ~dispatches[d].counted
    \/ \E j \in DOMAIN buffer : i < j /\ buffer[j].kind = "header" /\ buffer[j].disp = d
OpIdsOk(o, ops, rows, ctrOp, i) ==
    \A d \in DOMAIN o :
        /\ Seen(d) /\ o[d] \in DOMAIN ops /\ o[d] # ctrOp /\ ops[o[d]].disp = d
        /\ \A row \in rows : row.op # o[d]
        /\ Unread(d, i) => ops[o[d]].storage = storageNow

\* The values added up since the last header are of the dispatch of that header.
SlotOk(slot, d) == \A part \in slot.parts : part[1] = d /\ PartOf(d, part[2], slot.counter)
SlotsOk(ctrOp, slots, ops, rows, i) ==
    /\ ctrOp = 0 => slots = <<>>
    /\ ctrOp # 0 =>
        /\ ctrOp \in DOMAIN ops /\ ops[ctrOp].storage = storageNow /\ Seen(ops[ctrOp].disp)
        /\ \A row \in rows : row.op # ctrOp
        /\ i \in DOMAIN buffer
        /\ buffer[i].kind \in {"header", "value"} => buffer[i].disp = ops[ctrOp].disp
        /\ \A s \in DOMAIN slots : SlotOk(slots[s], ops[ctrOp].disp)
        /\ \A s, t \in DOMAIN slots : slots[s].counter = slots[t].counter => s = t
CounterOk(row, ops) ==
    /\ row.op \in DOMAIN ops /\ row.storage = ops[row.op].storage
    /\ row.parts # {} => Seen(ops[row.op].disp)
    /\ SlotOk(row, ops[row.op].disp)
CountersOk(rows, ops) ==
    /\ \A row \in rows : CounterOk(row, ops)
    /\ \A row, other \in rows : other.op = row.op /\ other.counter = row.counter => other = row

\* The state of buffer_callback() after the i-th record.
StateOk(st, i) ==
    /\ st \in RocStates
    /\ PendOk(st.pend.kernels, st.pend.copies, i)
    /\ RowsOk(st.rows.ops, st.rows.kernels, st.rows.copies)
    /\ OpIdsOk(st.pend.opIds, st.rows.ops, st.rows.counters, st.ctrOp, i)
    /\ SlotsOk(st.ctrOp, st.slots, st.rows.ops, st.rows.counters, i)
    /\ CountersOk(st.rows.counters, st.rows.ops)
Start == [pend |-> pending, rows |-> tables, ctrOp |-> 0, slots |-> <<>>]

RocInv == /\ RocCallInv /\ DispatchInv /\ ConfigInv /\ IdsInv /\ TurnInv
          /\ BufferInv /\ StateOk(Start, 0)

-----------------------------------------------------------------------------
LEMMA RocInit == SourcesInit /\ subject = "rocprof" => RocInv
<1> SUFFICES ASSUME Roc!Init PROVE RocInv
  BY DEF SourcesInit
<1>1. /\ calls = <<>> /\ dispatches = <<>> /\ buffer = <<>> /\ idsFrom = 0 /\ storageNow = 1
      /\ counterConfigs = Roc!Empty /\ pending = [kernels |-> Roc!Empty, copies |-> Roc!Empty, opIds |-> Roc!Empty]
      /\ tables = [ops |-> <<>>, kernels |-> {}, copies |-> {}, counters |-> {}]
      /\ dispatchCount = [n \in {NameOf[k] : k \in Roc!Kernels} |-> 0]
  BY DEF Roc!Init
<1>2. DOMAIN calls = {} /\ DOMAIN dispatches = {} /\ DOMAIN buffer = {}
  BY <1>1
<1>3. Roc!Empty \in NatMaps /\ DOMAIN Roc!Empty = {}
  <2>1. Roc!Empty \in [{} -> Nat] /\ {} \in SUBSET Nat
    BY DEF Roc!Empty
  <2> QED
    BY <2>1 DEF NatMaps, Roc!Empty
<1>4. RocCallInv /\ DispatchInv /\ IdsInv
  BY <1>1, <1>2, EmptySeq DEF RocCallInv, DispatchInv, IdsInv
<1>5. ConfigInv
  BY <1>1, <1>3 DEF ConfigInv
<1>6. TurnInv
  <2> SUFFICES ASSUME NEW name \in DOMAIN dispatchCount, NEW a \in Agents, NEW i \in DOMAIN SetsOf[a]
               PROVE  Cardinality(UsedBy(name, SetsOf[a][i])) = Turns(dispatchCount[name], i, Len(SetsOf[a]))
    BY DEF TurnInv
  <2>1. UsedBy(name, SetsOf[a][i]) = {}
    BY <1>2 DEF UsedBy
  <2>2. Len(SetsOf[a]) \in Nat /\ i \in 1 .. Len(SetsOf[a])
    BY SetsAssumption, LenProperties
  <2>3. \A m \in Nat : \A j \in 1 .. m : (0 + m - j) \div m = 0
    OBVIOUS
  <2>4. dispatchCount[name] = 0
    BY <1>1
  <2> QED
    BY <2>1, <2>2, <2>3, <2>4, FS_EmptySet DEF Turns
<1>7. BufferInv
  BY <1>1, <1>2, EmptySeq DEF BufferInv
<1>8. StateOk(Start, 0)
  <2>1. /\ Start.pend = pending /\ Start.rows = tables /\ Start.ctrOp = 0 /\ Start.slots = <<>>
    BY DEF Start
  <2>2. pending \in RocPending /\ tables \in RocTables
    BY <1>1, <1>3, EmptySeq DEF RocPending, RocTables, ArgSets, CounterSets
  <2>3. Start \in RocStates
    BY <2>2, EmptySeq DEF Start, RocStates
  <2>4. /\ DOMAIN pending.kernels = {} /\ DOMAIN pending.copies = {} /\ DOMAIN pending.opIds = {}
        /\ DOMAIN tables.ops = {} /\ tables.kernels = {} /\ tables.copies = {} /\ tables.counters = {}
    BY <1>1, <1>3
  <2> QED
    BY <2>1, <2>3, <2>4 DEF StateOk, PendOk, RowsOk, OpIdsOk, SlotsOk, CountersOk
<1> QED
  BY <1>4, <1>5, <1>6, <1>7, <1>8 DEF RocInv

\* Handled[] is what its definition says.
RocChain(g, n) ==
    /\ g = [i \in 0 .. n |-> g[i]] /\ g[0] = Start
    /\ \A i \in 1 .. n : g[i] = Roc!OnRecord(g[i - 1], buffer[i])

LEMMA RocChainsExist == \A n \in Nat : \E g : RocChain(g, n)
<1> DEFINE T == {n \in Nat : \E g : RocChain(g, n)}
<1>1. 0 \in T
  <2>1. RocChain([i \in 0 .. 0 |-> Start], 0)
    BY DEF RocChain
  <2> QED
    BY <2>1
<1>2. ASSUME NEW n \in Nat, n \in T PROVE n + 1 \in T
  <2>1. PICK g : RocChain(g, n)
    BY <1>2
  <2>2. PICK last : last = Roc!OnRecord(g[n], buffer[n + 1])
    OBVIOUS
  <2>3. PICK h : h = [i \in 0 .. n + 1 |-> IF i <= n THEN g[i] ELSE last]
    OBVIOUS
  <2>4. h = [i \in 0 .. n + 1 |-> h[i]]
    BY <2>3
  <2>5. h[0] = Start
    BY <2>1, <2>3 DEF RocChain
  <2>6. \A i \in 1 .. n + 1 : h[i] = Roc!OnRecord(h[i - 1], buffer[i])
    <3> TAKE i \in 1 .. n + 1
    <3>1. h[i - 1] = g[i - 1] /\ i - 1 <= n
      BY <2>3
    <3>2. CASE i <= n
      <4>1. h[i] = g[i]
        BY <2>3, <3>2
      <4> QED
        <5>1. i \in 1 .. n
          BY <3>2
        <5>2. g[i] = Roc!OnRecord(g[i - 1], buffer[i])
          BY <2>1, <5>1 DEF RocChain
        <5> QED
          BY <3>1, <4>1, <5>2
    <3>3. CASE i = n + 1
      <4>1. h[n + 1] = last /\ h[n] = g[n] /\ (n + 1) - 1 = n
        BY <2>3
      <4> QED
        BY <2>2, <3>3, <4>1
    <3> QED
      BY <3>2, <3>3
  <2>7. RocChain(h, n + 1)
    BY <2>4, <2>5, <2>6 DEF RocChain
  <2> QED
    BY <2>7
<1> HIDE DEF T
<1>3. \A n \in Nat : n \in T
  BY <1>1, <1>2, NatSetInduction, Zenon
<1> QED
  BY <1>3 DEF T

LEMMA RocChainsAgree ==
    ASSUME NEW m \in Nat, NEW n \in Nat, m <= n, NEW g, RocChain(g, m), NEW h, RocChain(h, n)
    PROVE  g[m] = h[m]
<1> DEFINE T == {i \in Nat : i <= m => g[i] = h[i]}
<1>1. 0 \in T
  BY DEF RocChain
<1>2. ASSUME NEW i \in Nat, i \in T PROVE i + 1 \in T
  <2>1. SUFFICES ASSUME i + 1 <= m PROVE g[i + 1] = h[i + 1]
    OBVIOUS
  <2>2. g[i] = h[i] /\ i + 1 \in 1 .. m /\ i + 1 \in 1 .. n /\ (i + 1) - 1 = i
    BY <1>2, <2>1
  <2>3. /\ g[i + 1] = Roc!OnRecord(g[(i + 1) - 1], buffer[i + 1])
        /\ h[i + 1] = Roc!OnRecord(h[(i + 1) - 1], buffer[i + 1])
    BY <2>2 DEF RocChain
  <2> QED
    BY <2>2, <2>3
<1> HIDE DEF T
<1>3. m \in T
  BY <1>1, <1>2, NatSetInduction, Zenon
<1> QED
  BY <1>3 DEF T

LEMMA HandledUnfolds ==
    /\ Roc!Handled[0] = Start
    /\ \A n \in Nat : Roc!Handled[n + 1] = Roc!OnRecord(Roc!Handled[n], buffer[n + 1])
<1> DEFINE ch(n) == CHOOSE g : RocChain(g, n)
<1>1. \A n \in Nat : RocChain(ch(n), n)
  BY RocChainsExist, Zenon
<1> HIDE DEF ch
<1>2. PICK G : G = [n \in Nat |-> ch(n)[n]]
  OBVIOUS
<1>3. \A n \in Nat : G[n] = ch(n)[n]
  BY <1>2
<1>4. G[0] = Start
  BY <1>1, <1>3 DEF RocChain
<1>5. ASSUME NEW n \in Nat, n # 0 PROVE G[n] = Roc!OnRecord(G[n - 1], buffer[n])
  <2>1. n - 1 \in Nat /\ n - 1 <= n /\ n \in 1 .. n
    BY <1>5
  <2>2. ch(n)[n] = Roc!OnRecord(ch(n)[n - 1], buffer[n])
    BY <1>1, <2>1 DEF RocChain
  <2>3. ch(n - 1)[n - 1] = ch(n)[n - 1]
    BY <1>1, <2>1, RocChainsAgree
  <2> QED
    BY <1>3, <2>1, <2>2, <2>3
<1>6. G = [n \in Nat |-> IF n = 0 THEN Start ELSE Roc!OnRecord(G[n - 1], buffer[n])]
  <2>1. \A n \in Nat : G[n] = IF n = 0 THEN Start ELSE Roc!OnRecord(G[n - 1], buffer[n])
    BY <1>4, <1>5
  <2>2. G = [n \in Nat |-> G[n]]
    BY <1>2
  <2> QED
    BY <2>1, <2>2
<1> DEFINE f == CHOOSE f : f = [n \in Nat |-> IF n = 0 THEN Start ELSE Roc!OnRecord(f[n - 1], buffer[n])]
<1>7. f = [n \in Nat |-> IF n = 0 THEN Start ELSE Roc!OnRecord(f[n - 1], buffer[n])]
  BY <1>6, Zenon
<1>8. Roc!Handled = f
  BY Zenon DEF Roc!Handled, Start
<1> HIDE DEF f
<1>9. \A n \in Nat : n + 1 \in Nat /\ n + 1 # 0 /\ (n + 1) - 1 = n
  OBVIOUS
<1> QED
  BY <1>7, <1>8, <1>9, Zenon

IsWith(g, f, k, v) ==
    /\ DOMAIN g = DOMAIN f \cup {k} /\ g[k] = v
    /\ \A x \in DOMAIN f : x # k => g[x] = f[x]
IsWithout(g, f, k) ==
    /\ DOMAIN g = DOMAIN f \ {k}
    /\ \A x \in DOMAIN f : x # k => g[x] = f[x]

LEMMA MapWith ==
    ASSUME NEW f \in NatMaps, NEW k \in Nat, NEW v \in Nat
    PROVE  Roc!With(f, k, v) \in NatMaps /\ IsWith(Roc!With(f, k, v), f, k, v)
<1>1. PICK D \in SUBSET Nat : f \in [D -> Nat]
  BY DEF NatMaps
<1>2. PICK g : g = [x \in D \cup {k} |-> IF x = k THEN v ELSE f[x]]
  OBVIOUS
<1>3. Roc!With(f, k, v) = g
  BY <1>1, <1>2 DEF Roc!With
<1>4. g \in [D \cup {k} -> Nat] /\ D \cup {k} \in SUBSET Nat
  BY <1>1, <1>2
<1> QED
  BY <1>1, <1>2, <1>3, <1>4 DEF NatMaps, IsWith

LEMMA MapWithout ==
    ASSUME NEW f \in NatMaps, NEW k
    PROVE  Roc!Without(f, k) \in NatMaps /\ IsWithout(Roc!Without(f, k), f, k)
<1>1. PICK D \in SUBSET Nat : f \in [D -> Nat]
  BY DEF NatMaps
<1>2. PICK g : g = [x \in D \ {k} |-> f[x]]
  OBVIOUS
<1>3. Roc!Without(f, k) = g
  BY <1>1, <1>2 DEF Roc!Without
<1>4. g \in [D \ {k} -> Nat] /\ D \ {k} \in SUBSET Nat
  BY <1>1, <1>2
<1> QED
  BY <1>1, <1>2, <1>3, <1>4 DEF NatMaps, IsWithout

LEMMA MapIn == ASSUME NEW f \in NatMaps PROVE \A x \in DOMAIN f : x \in Nat /\ f[x] \in Nat
<1>1. PICK D \in SUBSET Nat : f \in [D -> Nat]
  BY DEF NatMaps
<1> QED
  BY <1>1

LEMMA StateTypes ==
    ASSUME NEW st \in RocStates
    PROVE  /\ st.pend \in RocPending /\ st.rows \in RocTables
           /\ st.pend.kernels \in NatMaps /\ st.pend.copies \in NatMaps /\ st.pend.opIds \in NatMaps
           /\ st.rows.ops \in Seq(RocOps) /\ st.rows.kernels \in ArgSets
           /\ st.rows.copies \in ArgSets /\ st.rows.counters \in CounterSets
           /\ st.ctrOp \in Nat /\ st.slots \in Seq(RocSlots)
BY DEF RocStates, RocPending, RocTables

HasParts(st, k, p, o, ops, kernels, copies, counters, ctrOp, slots) ==
    /\ st \in RocStates
    /\ st.pend.kernels = k /\ st.pend.copies = p /\ st.pend.opIds = o
    /\ st.rows.ops = ops /\ st.rows.kernels = kernels /\ st.rows.copies = copies
    /\ st.rows.counters = counters /\ st.ctrOp = ctrOp /\ st.slots = slots

\* A row more of the table of operations.
AddsOp(ops, old, n, disp) ==
    /\ DOMAIN old \subseteq DOMAIN ops
    /\ \A j \in DOMAIN old : ops[j] = old[j] /\ j # n
    /\ n \in DOMAIN ops /\ n \in Nat
    /\ \A j \in DOMAIN ops : j \in DOMAIN old \/ j = n
    /\ ops[n].disp = disp /\ ops[n].storage = storageNow /\ ops[n].ids = ops[n].storage

LEMMA NewOp ==
    ASSUME RocInv, NEW st \in RocStates, NEW corr \in Nat, NEW disp \in Nat
    PROVE  \E ops \in Seq(RocOps) : /\ ops = Append(st.rows.ops, Roc!OpRow(corr, disp))
                                    /\ AddsOp(ops, st.rows.ops, Len(st.rows.ops) + 1, disp)
<1>1. Roc!Ids = storageNow /\ storageNow \in {1, 2}
  BY DEF RocInv, IdsInv, Roc!Ids
<1>2. PICK row : row = Roc!OpRow(corr, disp)
  OBVIOUS
<1>3. row \in RocOps /\ row.disp = disp /\ row.storage = storageNow /\ row.ids = row.storage
  BY <1>1, <1>2 DEF RocOps, Roc!OpRow
<1>4. PICK old, n, ops : old = st.rows.ops /\ n = Len(old) /\ ops = Append(old, row)
  OBVIOUS
<1>5. old \in Seq(RocOps) /\ n \in Nat /\ DOMAIN old = 1 .. n
  BY <1>4, StateTypes, LenProperties
<1>6. /\ ops \in Seq(RocOps) /\ DOMAIN ops = 1 .. n + 1 /\ ops[n + 1] = row
      /\ \A j \in 1 .. n : ops[j] = old[j]
  BY <1>3, <1>4, <1>5, AppendProperties, LenProperties
<1>7. /\ n + 1 \in 1 .. n + 1 /\ n + 1 \in Nat /\ \A j \in 1 .. n : j # n + 1 /\ j \in 1 .. n + 1
      /\ \A j \in 1 .. n + 1 : j \in 1 .. n \/ j = n + 1
  BY <1>5
<1> QED
  BY <1>2, <1>3, <1>4, <1>5, <1>6, <1>7 DEF AddsOp

OpIdsAfter(st, r) ==
    IF CollectCounters THEN Roc!With(st.pend.opIds, r.disp, Len(st.rows.ops) + 1) ELSE st.pend.opIds
KernelsAfter(st, r) ==
    IF r.corr \in DOMAIN st.pend.kernels
    THEN st.rows.kernels \cup {[corr |-> r.corr, args |-> st.pend.kernels[r.corr]]}
    ELSE st.rows.kernels
CopiesAfter(st, r) ==
    IF r.corr \in DOMAIN st.pend.copies
    THEN st.rows.copies \cup {[corr |-> r.corr, args |-> st.pend.copies[r.corr]]}
    ELSE st.rows.copies

LEMMA DispatchParts ==
    ASSUME NEW st \in RocStates, NEW r, NEW after, after = Roc!OnDispatch(st, r),
           NEW ops \in Seq(RocOps), ops = Append(st.rows.ops, Roc!OpRow(r.corr, r.disp)),
           NEW o \in NatMaps, o = OpIdsAfter(st, r),
           NEW kernels \in ArgSets, kernels = KernelsAfter(st, r)
    PROVE  HasParts(after, st.pend.kernels, st.pend.copies, o, ops, kernels, st.rows.copies,
                    st.rows.counters, st.ctrOp, st.slots)
<1>1. PICK s1, s2, s3 : /\ s1 = [st EXCEPT !.rows.ops = ops]
                        /\ s2 = [s1 EXCEPT !.pend.opIds = o]
                        /\ s3 = [s2 EXCEPT !.rows.kernels = kernels]
  OBVIOUS
<1>2. after = s3
  BY <1>1 DEF Roc!OnDispatch, OpIdsAfter, KernelsAfter
<1>3. /\ s1 \in RocStates /\ s1.pend = st.pend /\ s1.ctrOp = st.ctrOp /\ s1.slots = st.slots
      /\ s1.rows = [st.rows EXCEPT !.ops = ops]
  BY <1>1 DEF RocStates, RocTables
<1>4. /\ s2 \in RocStates /\ s2.rows = s1.rows /\ s2.ctrOp = st.ctrOp /\ s2.slots = st.slots
      /\ s2.pend = [s1.pend EXCEPT !.opIds = o]
  BY <1>1, <1>3 DEF RocStates, RocPending
<1>5. /\ s3 \in RocStates /\ s3.pend = s2.pend /\ s3.ctrOp = st.ctrOp /\ s3.slots = st.slots
      /\ s3.rows = [s2.rows EXCEPT !.kernels = kernels]
  <2>1. s2.rows \in RocTables
    BY <1>4 DEF RocStates
  <2>2. [s2.rows EXCEPT !.kernels = kernels] \in RocTables
    BY <2>1 DEF RocTables
  <2> QED
    BY <1>1, <1>4, <2>2 DEF RocStates
<1> QED
  BY <1>2, <1>3, <1>4, <1>5 DEF RocStates, RocPending, RocTables, HasParts

\* What a record does not disturb.
Extends(ops1, ops) == DOMAIN ops \subseteq DOMAIN ops1 /\ \A j \in DOMAIN ops : ops1[j] = ops[j]

LEMMA PendKept ==
    ASSUME NEW i \in Nat, NEW k, NEW p, PendOk(k, p, i), BufferInv, i + 1 \in DOMAIN buffer,
           buffer[i + 1].kind # "retire"
    PROVE  PendOk(k, p, i + 1)
<1>1. ASSUME NEW c, RetireComes(c, i) PROVE RetireComes(c, i + 1)
  <2> SUFFICES ASSUME calls[c].retired
               PROVE  \E j \in DOMAIN buffer : i + 1 < j /\ buffer[j] = Retirement(c)
    BY DEF RetireComes
  <2>1. PICK j \in DOMAIN buffer : i < j /\ buffer[j] = Retirement(c)
    BY <1>1 DEF RetireComes
  <2>2. j # i + 1
    BY <2>1 DEF Retirement
  <2>3. j \in Nat
    BY LenProperties DEF BufferInv
  <2> QED
    BY <2>1, <2>2, <2>3
<1> QED
  BY <1>1 DEF PendOk

LEMMA OpIdsKept ==
    ASSUME NEW i \in Nat, NEW o, NEW ops, NEW ops1, NEW rows, NEW ctrOp,
           OpIdsOk(o, ops, rows, ctrOp, i), Extends(ops1, ops), BufferInv
    PROVE  OpIdsOk(o, ops1, rows, ctrOp, i + 1)
<1>1. ASSUME NEW d, Unread(d, i + 1) PROVE Unread(d, i)
  <2>1. \A j \in DOMAIN buffer : j \in Nat
    BY LenProperties DEF BufferInv
  <2>2. \A j \in Nat : i + 1 < j => i < j
    OBVIOUS
  <2> QED
    BY <1>1, <2>1, <2>2 DEF Unread
<1> QED
  BY <1>1 DEF OpIdsOk, Extends

LEMMA SlotsKept ==
    ASSUME NEW i \in Nat, NEW ctrOp, NEW slots, NEW ops, NEW ops1, NEW rows,
           SlotsOk(ctrOp, slots, ops, rows, i), Extends(ops1, ops), i + 1 \in DOMAIN buffer,
           buffer[i + 1].kind \notin {"header", "value"}
    PROVE  SlotsOk(ctrOp, slots, ops1, rows, i + 1)
BY DEF SlotsOk, Extends

LEMMA CountersKept ==
    ASSUME NEW rows, NEW ops, NEW ops1, CountersOk(rows, ops), Extends(ops1, ops)
    PROVE  CountersOk(rows, ops1)
BY DEF CountersOk, CounterOk, Extends

LEMMA ExtendsSame == ASSUME NEW ops PROVE Extends(ops, ops)
BY DEF Extends

LEMMA CallIds ==
    ASSUME RocInv, NEW c \in DOMAIN calls
    PROVE  /\ c \in Nat /\ calls[c] \in RocCalls
           /\ Roc!extractKernelLaunchData(calls[c].api, c) \in Nat
           /\ Roc!extractCopyData(calls[c].api, c) \in Nat
<1>1. c \in Nat /\ calls[c] \in RocCalls
  BY LenProperties, ElementOfSeq DEF RocInv, RocCallInv
<1> QED
  BY <1>1 DEF Roc!extractKernelLaunchData, Roc!extractCopyData, Roc!NoArgs

LEMMA SeenIds == ASSUME RocInv, NEW d, Seen(d) PROVE d \in Nat /\ d # 0
BY LenProperties DEF RocInv, DispatchInv, Seen

LEMMA AfterDispatch ==
    ASSUME RocInv, NEW st, NEW i \in Nat, StateOk(st, i), i + 1 \in DOMAIN buffer,
           NEW r, r = buffer[i + 1], r.kind = "dispatch"
    PROVE  StateOk(Roc!OnDispatch(st, r), i + 1)
<1>1. BufferInv /\ st \in RocStates /\ IdsInv
  BY DEF RocInv, StateOk
<1>2. r.corr \in DOMAIN calls /\ Seen(r.disp) /\ r.corr \in Nat /\ r.disp \in Nat
  <2>1. r.corr \in DOMAIN calls /\ Seen(r.disp)
    BY <1>1 DEF BufferInv, RecordOk
  <2> QED
    BY <2>1, CallIds, SeenIds
<1>14. PICK n : n = Len(st.rows.ops) + 1
  OBVIOUS
<1>3. PICK ops \in Seq(RocOps) : /\ ops = Append(st.rows.ops, Roc!OpRow(r.corr, r.disp))
                                 /\ AddsOp(ops, st.rows.ops, n, r.disp)
  BY <1>1, <1>2, <1>14, NewOp
<1>4. PICK o \in NatMaps :
             /\ o = OpIdsAfter(st, r)
             /\ \A d \in DOMAIN o : \/ d \in DOMAIN st.pend.opIds /\ o[d] = st.pend.opIds[d]
                                    \/ d = r.disp /\ o[d] = n
  <2>1. st.pend.opIds \in NatMaps
    BY <1>1, StateTypes
  <2>2. n \in Nat
    BY <1>3 DEF AddsOp
  <2>3. CASE CollectCounters
    <3>1. OpIdsAfter(st, r) = Roc!With(st.pend.opIds, r.disp, n)
      BY <1>14, <2>3 DEF OpIdsAfter
    <3>2. PICK f, d, g : f \in NatMaps /\ d \in Nat /\ f = st.pend.opIds /\ d = r.disp /\ g = Roc!With(f, d, n)
      BY <1>2, <2>1
    <3>3. g \in NatMaps /\ IsWith(g, f, d, n)
      BY <2>2, <3>2, MapWith
    <3>4. \A x \in DOMAIN g : (x \in DOMAIN f /\ g[x] = f[x]) \/ (x = d /\ g[x] = n)
      BY <3>3 DEF IsWith
    <3> QED
      BY <3>1, <3>2, <3>3, <3>4
  <2>4. CASE ~CollectCounters
    BY <2>1, <2>4 DEF OpIdsAfter
  <2> QED
    BY <2>3, <2>4
<1>5. PICK kernels \in ArgSets :
             /\ kernels = KernelsAfter(st, r)
             /\ \A row \in kernels : \/ row \in st.rows.kernels
                                     \/ /\ row.corr \in DOMAIN calls
                                        /\ row.args = Roc!extractKernelLaunchData(calls[row.corr].api, row.corr)
  <2>1. CASE r.corr \in DOMAIN st.pend.kernels
    <3>1. PICK row : row = [corr |-> r.corr, args |-> st.pend.kernels[r.corr]]
      OBVIOUS
    <3>2. row.corr \in DOMAIN calls /\ row.args = Roc!extractKernelLaunchData(calls[row.corr].api, row.corr)
      BY <1>2, <2>1, <3>1 DEF StateOk, PendOk
    <3>3. row \in RocArgs
      BY <1>2, <3>1, <3>2, CallIds DEF RocArgs
    <3>4. st.rows.kernels \cup {row} \in ArgSets
      BY <1>1, <3>3, StateTypes DEF ArgSets
    <3>5. KernelsAfter(st, r) = st.rows.kernels \cup {row}
      BY <2>1, <3>1 DEF KernelsAfter
    <3> QED
      BY <3>2, <3>4, <3>5
  <2>2. CASE r.corr \notin DOMAIN st.pend.kernels
    BY <1>1, <2>2, StateTypes DEF KernelsAfter
  <2> QED
    BY <2>1, <2>2
<1>6. PICK after : after = Roc!OnDispatch(st, r)
  OBVIOUS
<1>7. HasParts(after, st.pend.kernels, st.pend.copies, o, ops, kernels, st.rows.copies,
               st.rows.counters, st.ctrOp, st.slots)
  <2>1. ops = Append(st.rows.ops, Roc!OpRow(r.corr, r.disp)) /\ o = OpIdsAfter(st, r) /\ kernels = KernelsAfter(st, r)
    BY <1>3, <1>4, <1>5
  <2>2. st \in RocStates
    BY <1>1
  <2> QED
    BY <1>6, <2>1, <2>2, DispatchParts
<1>8. Extends(ops, st.rows.ops)
  BY <1>3 DEF Extends, AddsOp
<1>9. PendOk(st.pend.kernels, st.pend.copies, i + 1)
  BY <1>1, PendKept DEF StateOk
<1>10. RowsOk(ops, kernels, st.rows.copies)
  <2>1. RowsOk(st.rows.ops, st.rows.kernels, st.rows.copies)
    BY DEF StateOk
  <2>2. \A j \in DOMAIN ops : ops[j].ids = ops[j].storage
    BY <1>3, <2>1 DEF RowsOk, AddsOp
  <2> QED
    BY <1>5, <2>1, <2>2 DEF RowsOk
<1>11. OpIdsOk(o, ops, st.rows.counters, st.ctrOp, i + 1)
  <2>1. OpIdsOk(st.pend.opIds, ops, st.rows.counters, st.ctrOp, i + 1)
    BY <1>1, <1>8, OpIdsKept DEF StateOk
  <2>2. st.ctrOp # n
    BY <1>3 DEF AddsOp, StateOk, SlotsOk
  <2>3. \A row \in st.rows.counters : row.op # n
    BY <1>3 DEF AddsOp, StateOk, CountersOk, CounterOk
  <2>4. ASSUME NEW d \in DOMAIN o
        PROVE  /\ Seen(d) /\ o[d] \in DOMAIN ops /\ o[d] # st.ctrOp /\ ops[o[d]].disp = d
               /\ \A row \in st.rows.counters : row.op # o[d]
               /\ Unread(d, i + 1) => ops[o[d]].storage = storageNow
    <3>1. CASE d \in DOMAIN st.pend.opIds /\ o[d] = st.pend.opIds[d]
      BY <2>1, <3>1 DEF OpIdsOk
    <3>2. CASE d = r.disp /\ o[d] = n
      BY <1>2, <1>3, <2>2, <2>3, <3>2 DEF AddsOp
    <3> QED
      BY <1>4, <3>1, <3>2
  <2> QED
    BY <2>4 DEF OpIdsOk
<1>12. SlotsOk(st.ctrOp, st.slots, ops, st.rows.counters, i + 1)
  BY <1>8, SlotsKept DEF StateOk
<1>13. CountersOk(st.rows.counters, ops)
  BY <1>8, CountersKept DEF StateOk
<1> QED
  BY <1>6, <1>7, <1>9, <1>10, <1>11, <1>12, <1>13 DEF StateOk, HasParts

LEMMA CopyParts ==
    ASSUME NEW st \in RocStates, NEW r, NEW after, after = Roc!OnCopy(st, r),
           NEW ops \in Seq(RocOps), ops = Append(st.rows.ops, Roc!OpRow(r.corr, 0)),
           NEW copies \in ArgSets, copies = CopiesAfter(st, r)
    PROVE  HasParts(after, st.pend.kernels, st.pend.copies, st.pend.opIds, ops, st.rows.kernels, copies,
                    st.rows.counters, st.ctrOp, st.slots)
<1>1. PICK s1, s2 : s1 = [st EXCEPT !.rows.ops = ops] /\ s2 = [s1 EXCEPT !.rows.copies = copies]
  OBVIOUS
<1>2. after = s2
  BY <1>1 DEF Roc!OnCopy, CopiesAfter
<1>3. /\ s1 \in RocStates /\ s1.pend = st.pend /\ s1.ctrOp = st.ctrOp /\ s1.slots = st.slots
      /\ s1.rows = [st.rows EXCEPT !.ops = ops]
  BY <1>1 DEF RocStates, RocTables
<1>4. /\ s2 \in RocStates /\ s2.pend = st.pend /\ s2.ctrOp = st.ctrOp /\ s2.slots = st.slots
      /\ s2.rows = [s1.rows EXCEPT !.copies = copies]
  BY <1>1, <1>3 DEF RocStates, RocTables
<1> QED
  BY <1>2, <1>3, <1>4 DEF RocStates, RocTables, HasParts

LEMMA AfterCopy ==
    ASSUME RocInv, NEW st, NEW i \in Nat, StateOk(st, i), i + 1 \in DOMAIN buffer,
           NEW r, r = buffer[i + 1], r.kind = "copy"
    PROVE  StateOk(Roc!OnCopy(st, r), i + 1)
<1>1. BufferInv /\ st \in RocStates
  BY DEF RocInv, StateOk
<1>2. r.corr \in DOMAIN calls /\ r.corr \in Nat
  BY <1>1, CallIds DEF BufferInv, RecordOk
<1>3. PICK n : n = Len(st.rows.ops) + 1
  OBVIOUS
<1>4. PICK ops \in Seq(RocOps) : /\ ops = Append(st.rows.ops, Roc!OpRow(r.corr, 0))
                                 /\ AddsOp(ops, st.rows.ops, n, 0)
  BY <1>1, <1>2, <1>3, NewOp
<1>5. PICK copies \in ArgSets :
             /\ copies = CopiesAfter(st, r)
             /\ \A row \in copies : \/ row \in st.rows.copies
                                    \/ /\ row.corr \in DOMAIN calls
                                       /\ row.args = Roc!extractCopyData(calls[row.corr].api, row.corr)
  <2>1. CASE r.corr \in DOMAIN st.pend.copies
    <3>1. PICK row : row = [corr |-> r.corr, args |-> st.pend.copies[r.corr]]
      OBVIOUS
    <3>2. row.corr \in DOMAIN calls /\ row.args = Roc!extractCopyData(calls[row.corr].api, row.corr)
      BY <1>2, <2>1, <3>1 DEF StateOk, PendOk
    <3>3. row \in RocArgs
      BY <1>2, <3>1, <3>2, CallIds DEF RocArgs
    <3>4. st.rows.copies \cup {row} \in ArgSets
      BY <1>1, <3>3, StateTypes DEF ArgSets
    <3>5. CopiesAfter(st, r) = st.rows.copies \cup {row}
      BY <2>1, <3>1 DEF CopiesAfter
    <3> QED
      BY <3>2, <3>4, <3>5
  <2>2. CASE r.corr \notin DOMAIN st.pend.copies
    BY <1>1, <2>2, StateTypes DEF CopiesAfter
  <2> QED
    BY <2>1, <2>2
<1>6. PICK after : after = Roc!OnCopy(st, r)
  OBVIOUS
<1>7. HasParts(after, st.pend.kernels, st.pend.copies, st.pend.opIds, ops, st.rows.kernels, copies,
               st.rows.counters, st.ctrOp, st.slots)
  <2>1. ops = Append(st.rows.ops, Roc!OpRow(r.corr, 0)) /\ copies = CopiesAfter(st, r)
    BY <1>4, <1>5
  <2>2. st \in RocStates
    BY <1>1
  <2> QED
    BY <1>6, <2>1, <2>2, CopyParts
<1>8. Extends(ops, st.rows.ops)
  BY <1>4 DEF Extends, AddsOp
<1>9. PendOk(st.pend.kernels, st.pend.copies, i + 1)
  BY <1>1, PendKept DEF StateOk
<1>10. RowsOk(ops, st.rows.kernels, copies)
  <2>1. RowsOk(st.rows.ops, st.rows.kernels, st.rows.copies)
    BY DEF StateOk
  <2>2. \A j \in DOMAIN ops : ops[j].ids = ops[j].storage
    BY <1>4, <2>1 DEF RowsOk, AddsOp
  <2> QED
    BY <1>5, <2>1, <2>2 DEF RowsOk
<1>11. OpIdsOk(st.pend.opIds, ops, st.rows.counters, st.ctrOp, i + 1)
  BY <1>1, <1>8, OpIdsKept DEF StateOk
<1>12. SlotsOk(st.ctrOp, st.slots, ops, st.rows.counters, i + 1)
  BY <1>8, SlotsKept DEF StateOk
<1>13. CountersOk(st.rows.counters, ops)
  BY <1>8, CountersKept DEF StateOk
<1> QED
  BY <1>6, <1>7, <1>9, <1>10, <1>11, <1>12, <1>13 DEF StateOk, HasParts

LEMMA AfterKfd ==
    ASSUME RocInv, NEW st, NEW i \in Nat, StateOk(st, i), i + 1 \in DOMAIN buffer,
           NEW r, r = buffer[i + 1], r.kind = "kfd"
    PROVE  StateOk(Roc!OnKfd(st, r), i + 1)
<1>1. BufferInv /\ st \in RocStates
  BY DEF RocInv, StateOk
<1>3. PICK n : n = Len(st.rows.ops) + 1
  OBVIOUS
<1>4. PICK ops \in Seq(RocOps) : /\ ops = Append(st.rows.ops, Roc!OpRow(0, 0))
                                 /\ AddsOp(ops, st.rows.ops, n, 0)
  BY <1>1, <1>3, NewOp
<1>6. PICK after : after = Roc!OnKfd(st, r)
  OBVIOUS
<1>7. HasParts(after, st.pend.kernels, st.pend.copies, st.pend.opIds, ops, st.rows.kernels,
               st.rows.copies, st.rows.counters, st.ctrOp, st.slots)
  <2>1. after = [st EXCEPT !.rows.ops = ops]
    BY <1>4, <1>6 DEF Roc!OnKfd
  <2>2. /\ after \in RocStates /\ after.pend = st.pend /\ after.ctrOp = st.ctrOp /\ after.slots = st.slots
        /\ after.rows = [st.rows EXCEPT !.ops = ops]
    BY <1>1, <2>1 DEF RocStates, RocTables
  <2> QED
    BY <1>1, <2>2 DEF RocStates, RocTables, HasParts
<1>8. Extends(ops, st.rows.ops)
  BY <1>4 DEF Extends, AddsOp
<1>9. PendOk(st.pend.kernels, st.pend.copies, i + 1)
  BY <1>1, PendKept DEF StateOk
<1>10. RowsOk(ops, st.rows.kernels, st.rows.copies)
  BY <1>4 DEF StateOk, RowsOk, AddsOp
<1>11. OpIdsOk(st.pend.opIds, ops, st.rows.counters, st.ctrOp, i + 1)
  BY <1>1, <1>8, OpIdsKept DEF StateOk
<1>12. SlotsOk(st.ctrOp, st.slots, ops, st.rows.counters, i + 1)
  BY <1>8, SlotsKept DEF StateOk
<1>13. CountersOk(st.rows.counters, ops)
  BY <1>8, CountersKept DEF StateOk
<1> QED
  BY <1>6, <1>7, <1>9, <1>10, <1>11, <1>12, <1>13 DEF StateOk, HasParts

\* Nothing but the index changes.
LEMMA AfterScratch ==
    ASSUME RocInv, NEW st, NEW i \in Nat, StateOk(st, i), i + 1 \in DOMAIN buffer,
           buffer[i + 1].kind = "scratch"
    PROVE  StateOk(st, i + 1)
<1>1. BufferInv
  BY DEF RocInv
<1>2. PendOk(st.pend.kernels, st.pend.copies, i + 1)
  BY <1>1, PendKept DEF StateOk
<1>3. OpIdsOk(st.pend.opIds, st.rows.ops, st.rows.counters, st.ctrOp, i + 1)
  BY <1>1, OpIdsKept, ExtendsSame DEF StateOk
<1>4. SlotsOk(st.ctrOp, st.slots, st.rows.ops, st.rows.counters, i + 1)
  BY SlotsKept, ExtendsSame DEF StateOk
<1> QED
  BY <1>2, <1>3, <1>4 DEF StateOk

KernelsPending(st, r) ==
    IF Roc!isKernelApi(r.api) THEN Roc!With(st.pend.kernels, r.corr, Roc!extractKernelLaunchData(r.api, r.corr))
                              ELSE st.pend.kernels
CopiesPending(st, r) ==
    IF Roc!isCopyApi(r.api) THEN Roc!With(st.pend.copies, r.corr, Roc!extractCopyData(r.api, r.corr))
                            ELSE st.pend.copies

LEMMA PendParts ==
    ASSUME NEW st \in RocStates, NEW k \in NatMaps, NEW p \in NatMaps, NEW after,
           after = [st EXCEPT !.pend.kernels = k, !.pend.copies = p]
    PROVE  HasParts(after, k, p, st.pend.opIds, st.rows.ops, st.rows.kernels, st.rows.copies,
                    st.rows.counters, st.ctrOp, st.slots)
<1>1. PICK s1, s2 : s1 = [st EXCEPT !.pend.kernels = k] /\ s2 = [s1 EXCEPT !.pend.copies = p]
  OBVIOUS
<1>2. after = s2
  BY <1>1
<1>3. /\ s1 \in RocStates /\ s1.rows = st.rows /\ s1.ctrOp = st.ctrOp /\ s1.slots = st.slots
      /\ s1.pend = [st.pend EXCEPT !.kernels = k]
  BY <1>1 DEF RocStates, RocPending
<1>4. /\ s2 \in RocStates /\ s2.rows = st.rows /\ s2.ctrOp = st.ctrOp /\ s2.slots = st.slots
      /\ s2.pend = [s1.pend EXCEPT !.copies = p]
  BY <1>1, <1>3 DEF RocStates, RocPending
<1> QED
  BY <1>2, <1>3, <1>4 DEF RocStates, RocPending, HasParts

\* With what is pending given, the rest is kept.
LEMMA AfterPend ==
    ASSUME RocInv, NEW st, NEW i \in Nat, StateOk(st, i), i + 1 \in DOMAIN buffer,
           buffer[i + 1].kind \in {"api", "retire"},
           NEW k \in NatMaps, NEW p \in NatMaps, PendOk(k, p, i + 1),
           NEW after, after = [st EXCEPT !.pend.kernels = k, !.pend.copies = p]
    PROVE  StateOk(after, i + 1)
<1>1. BufferInv /\ st \in RocStates
  BY DEF RocInv, StateOk
<1>2. OpIdsOk(st.pend.opIds, st.rows.ops, st.rows.counters, st.ctrOp, i + 1)
  BY <1>1, OpIdsKept, ExtendsSame DEF StateOk
<1>3. SlotsOk(st.ctrOp, st.slots, st.rows.ops, st.rows.counters, i + 1)
  BY SlotsKept, ExtendsSame DEF StateOk
<1>4. HasParts(after, k, p, st.pend.opIds, st.rows.ops, st.rows.kernels, st.rows.copies,
               st.rows.counters, st.ctrOp, st.slots)
  BY <1>1, PendParts
<1> QED
  BY <1>2, <1>3, <1>4 DEF StateOk, HasParts

LEMMA AfterApi ==
    ASSUME RocInv, NEW st, NEW i \in Nat, StateOk(st, i), i + 1 \in DOMAIN buffer,
           NEW r, r = buffer[i + 1], r.kind = "api"
    PROVE  StateOk(Roc!OnApi(st, r), i + 1)
<1>1. BufferInv /\ st \in RocStates
  BY DEF RocInv, StateOk
<1>2. r.corr \in DOMAIN calls /\ r.corr \in Nat /\ r.api = calls[r.corr].api
  BY <1>1, CallIds DEF BufferInv, RecordOk
<1>3. RetireComes(r.corr, i + 1)
  BY <1>1 DEF BufferInv, RetireComes
<1>4. PICK k : /\ k = KernelsPending(st, r) /\ k \in NatMaps
               /\ \A c \in DOMAIN k : \/ c \in DOMAIN st.pend.kernels /\ k[c] = st.pend.kernels[c]
                                      \/ c = r.corr /\ k[c] = Roc!extractKernelLaunchData(calls[c].api, c)
  <2>1. PICK f, v, g : /\ f = st.pend.kernels /\ v = Roc!extractKernelLaunchData(r.api, r.corr)
                       /\ g = Roc!With(f, r.corr, v)
    OBVIOUS
  <2>2. f \in NatMaps /\ v \in Nat
    BY <1>1, <1>2, <2>1, CallIds, StateTypes
  <2>3. g \in NatMaps /\ IsWith(g, f, r.corr, v)
    BY <1>2, <2>1, <2>2, MapWith
  <2> QED
    BY <1>2, <2>1, <2>2, <2>3 DEF KernelsPending, IsWith
<1>5. PICK p : /\ p = CopiesPending(st, r) /\ p \in NatMaps
               /\ \A c \in DOMAIN p : \/ c \in DOMAIN st.pend.copies /\ p[c] = st.pend.copies[c]
                                      \/ c = r.corr /\ p[c] = Roc!extractCopyData(calls[c].api, c)
  <2>1. PICK f, v, g : /\ f = st.pend.copies /\ v = Roc!extractCopyData(r.api, r.corr)
                       /\ g = Roc!With(f, r.corr, v)
    OBVIOUS
  <2>2. f \in NatMaps /\ v \in Nat
    BY <1>1, <1>2, <2>1, CallIds, StateTypes
  <2>3. g \in NatMaps /\ IsWith(g, f, r.corr, v)
    BY <1>2, <2>1, <2>2, MapWith
  <2> QED
    BY <1>2, <2>1, <2>2, <2>3 DEF CopiesPending, IsWith
<1>6. PendOk(st.pend.kernels, st.pend.copies, i + 1)
  BY <1>1, PendKept DEF StateOk
<1>7. PendOk(k, p, i + 1)
  BY <1>2, <1>3, <1>4, <1>5, <1>6 DEF PendOk
<1>8. Roc!OnApi(st, r) = [st EXCEPT !.pend.kernels = k, !.pend.copies = p]
  <2>1. PICK s1, s2 : s1 = [st EXCEPT !.pend.kernels = k] /\ s2 = [s1 EXCEPT !.pend.copies = p]
    OBVIOUS
  <2>2. s1.pend.copies = st.pend.copies
    BY <1>1, <2>1 DEF RocStates, RocPending
  <2>3. Roc!OnApi(st, r) = s2
    BY <1>4, <1>5, <2>1 DEF Roc!OnApi, KernelsPending, CopiesPending
  <2> QED
    BY <2>1, <2>3
<1>9. k \in NatMaps /\ p \in NatMaps
  BY <1>4, <1>5
<1> QED
  <2>1. PICK after : after = [st EXCEPT !.pend.kernels = k, !.pend.copies = p]
    OBVIOUS
  <2>2. buffer[i + 1].kind \in {"api", "retire"}
    OBVIOUS
  <2>3. StateOk(after, i + 1)
    BY <1>7, <1>9, <2>1, <2>2, AfterPend
  <2> QED
    BY <1>8, <2>1, <2>3

LEMMA AfterRetire ==
    ASSUME RocInv, NEW st, NEW i \in Nat, StateOk(st, i), i + 1 \in DOMAIN buffer,
           NEW r, r = buffer[i + 1], r.kind = "retire"
    PROVE  StateOk(Roc!OnRetire(st, r), i + 1)
<1>1. BufferInv /\ st \in RocStates
  BY DEF RocInv, StateOk
<1>2. PICK f, h, k, p : /\ f = st.pend.kernels /\ k = Roc!Without(f, r.corr)
                        /\ h = st.pend.copies /\ p = Roc!Without(h, r.corr)
  OBVIOUS
<1>3. f \in NatMaps /\ h \in NatMaps
  BY <1>1, <1>2, StateTypes
<1>4. k \in NatMaps /\ IsWithout(k, f, r.corr) /\ p \in NatMaps /\ IsWithout(p, h, r.corr)
  BY <1>2, <1>3, MapWithout
<1>5. ASSUME NEW c, c # r.corr, RetireComes(c, i) PROVE RetireComes(c, i + 1)
  <2> SUFFICES ASSUME calls[c].retired
               PROVE  \E j \in DOMAIN buffer : i + 1 < j /\ buffer[j] = Retirement(c)
    BY DEF RetireComes
  <2>1. PICK j \in DOMAIN buffer : i < j /\ buffer[j] = Retirement(c)
    BY <1>5 DEF RetireComes
  <2>2. j # i + 1
    BY <1>5, <2>1 DEF Retirement
  <2>3. j \in Nat
    BY <1>1, LenProperties DEF BufferInv
  <2> QED
    BY <2>1, <2>2, <2>3
<1>6. PendOk(k, p, i + 1)
  BY <1>2, <1>4, <1>5 DEF StateOk, PendOk, IsWithout
<1>7. Roc!OnRetire(st, r) = [st EXCEPT !.pend.kernels = k, !.pend.copies = p]
  <2>1. PICK s1, s2 : s1 = [st EXCEPT !.pend.kernels = k] /\ s2 = [s1 EXCEPT !.pend.copies = p]
    OBVIOUS
  <2>2. s1.pend.copies = st.pend.copies
    BY <1>1, <2>1 DEF RocStates, RocPending
  <2>3. Roc!OnRetire(st, r) = s2
    BY <1>2, <2>1 DEF Roc!OnRetire
  <2> QED
    BY <2>1, <2>3
<1> QED
  <2>1. PICK after : after = [st EXCEPT !.pend.kernels = k, !.pend.copies = p]
    OBVIOUS
  <2>2. buffer[i + 1].kind \in {"api", "retire"}
    OBVIOUS
  <2>3. StateOk(after, i + 1)
    BY <1>4, <1>6, <2>1, <2>2, AfterPend
  <2> QED
    BY <1>7, <2>1, <2>3

\* flush_counters() writes a row for each slot, and empties the slots.
CountersAfter(st) ==
    st.rows.counters \cup {Roc!CounterRow(st.ctrOp, slot) : slot \in Roc!Range(st.slots)}

LEMMA FlushParts ==
    ASSUME NEW st \in RocStates, NEW after, after = Roc!FlushCounters(st),
           NEW rows \in CounterSets, rows = CountersAfter(st)
    PROVE  HasParts(after, st.pend.kernels, st.pend.copies, st.pend.opIds, st.rows.ops, st.rows.kernels,
                    st.rows.copies, rows, 0, <<>>)
<1>1. PICK none : none = <<>>
  OBVIOUS
<1>2. none \in Seq(RocSlots)
  BY <1>1, EmptySeq
<1>3. PICK s1, s2, s3 : /\ s1 = [st EXCEPT !.rows.counters = rows]
                        /\ s2 = [s1 EXCEPT !.slots = none] /\ s3 = [s2 EXCEPT !.ctrOp = 0]
  OBVIOUS
<1>4. after = s3
  BY <1>1, <1>3 DEF Roc!FlushCounters, CountersAfter
<1>5. /\ s1 \in RocStates /\ s1.pend = st.pend /\ s1.ctrOp = st.ctrOp /\ s1.slots = st.slots
      /\ s1.rows = [st.rows EXCEPT !.counters = rows]
  BY <1>3 DEF RocStates, RocTables
<1>6. s2 \in RocStates /\ s2.pend = st.pend /\ s2.rows = s1.rows /\ s2.slots = none
  BY <1>2, <1>3, <1>5 DEF RocStates
<1>7. s3 \in RocStates /\ s3.pend = st.pend /\ s3.rows = s1.rows /\ s3.slots = none /\ s3.ctrOp = 0
  BY <1>3, <1>6 DEF RocStates
<1> QED
  BY <1>1, <1>4, <1>5, <1>7 DEF RocStates, RocTables, HasParts

LEMMA AfterFlush ==
    ASSUME RocInv, NEW st, NEW i \in Nat, StateOk(st, i)
    PROVE  StateOk(Roc!FlushCounters(st), i) /\ Roc!FlushCounters(st).ctrOp = 0
                                             /\ Roc!FlushCounters(st).slots = <<>>
<1>1. st \in RocStates /\ IdsInv /\ st.slots \in Seq(RocSlots) /\ st.ctrOp \in Nat
      /\ st.rows.ops \in Seq(RocOps) /\ st.rows.counters \in CounterSets
  BY StateTypes DEF RocInv, StateOk
<1>2. /\ \A j \in DOMAIN st.slots : st.slots[j] \in RocSlots
      /\ \A slot : slot \in Roc!Range(st.slots) <=> \E j \in DOMAIN st.slots : st.slots[j] = slot
  BY <1>1, ElementOfSeq, LenProperties DEF Roc!Range
<1>3. \A j \in DOMAIN st.slots : st.ctrOp # 0
  BY DEF StateOk, SlotsOk
<1>4. PICK rows : rows = CountersAfter(st)
  OBVIOUS
<1>5. \A row : row \in rows <=> \/ row \in st.rows.counters
                                \/ \E j \in DOMAIN st.slots : row = Roc!CounterRow(st.ctrOp, st.slots[j])
  BY <1>2, <1>4 DEF CountersAfter
<1>6. ASSUME NEW row, NEW j \in DOMAIN st.slots, row = Roc!CounterRow(st.ctrOp, st.slots[j])
      PROVE  /\ row \in RocCounters /\ row.op = st.ctrOp /\ row.counter = st.slots[j].counter
             /\ row.parts = st.slots[j].parts /\ row.storage = storageNow
  BY <1>1, <1>2, <1>6 DEF Roc!CounterRow, RocCounters, RocSlots, IdsInv
<1>7. rows \in CounterSets
  BY <1>1, <1>5, <1>6 DEF CounterSets
<1>8. CountersOk(rows, st.rows.ops)
  <2>1. ASSUME NEW row \in rows PROVE CounterOk(row, st.rows.ops)
    <3>1. CASE row \in st.rows.counters
      BY <3>1 DEF StateOk, CountersOk
    <3>2. ASSUME NEW j \in DOMAIN st.slots, row = Roc!CounterRow(st.ctrOp, st.slots[j])
          PROVE  CounterOk(row, st.rows.ops)
      <4>1. /\ row.op = st.ctrOp /\ row.counter = st.slots[j].counter
            /\ row.parts = st.slots[j].parts /\ row.storage = storageNow
        BY <1>6, <3>2
      <4>2. /\ st.ctrOp \in DOMAIN st.rows.ops /\ st.rows.ops[st.ctrOp].storage = storageNow
            /\ Seen(st.rows.ops[st.ctrOp].disp) /\ SlotOk(st.slots[j], st.rows.ops[st.ctrOp].disp)
        BY <1>3 DEF StateOk, SlotsOk
      <4> QED
        BY <4>1, <4>2 DEF CounterOk, SlotOk
    <3> QED
      BY <1>5, <3>1, <3>2
  <2>2. ASSUME NEW row \in rows, NEW other \in rows, other.op = row.op, other.counter = row.counter
        PROVE  other = row
    <3>1. ASSUME NEW x, NEW j \in DOMAIN st.slots, x = Roc!CounterRow(st.ctrOp, st.slots[j]),
                 NEW y \in st.rows.counters
          PROVE  y.op # x.op
      BY <1>3, <1>6, <3>1 DEF StateOk, SlotsOk
    <3>2. ASSUME NEW j \in DOMAIN st.slots, row = Roc!CounterRow(st.ctrOp, st.slots[j]),
                 NEW k \in DOMAIN st.slots, other = Roc!CounterRow(st.ctrOp, st.slots[k])
          PROVE  other = row
      <4>1. j = k
        BY <1>3, <1>6, <2>2, <3>2 DEF StateOk, SlotsOk
      <4> QED
        BY <3>2, <4>1
    <3>3. CASE row \in st.rows.counters /\ other \in st.rows.counters
      BY <2>2, <3>3 DEF StateOk, CountersOk
    <3> QED
      BY <1>5, <2>2, <3>1, <3>2, <3>3
  <2> QED
    BY <2>1, <2>2 DEF CountersOk
<1>9. OpIdsOk(st.pend.opIds, st.rows.ops, rows, 0, i)
  <2>1. 0 \notin DOMAIN st.rows.ops
    BY <1>1, LenProperties
  <2>2. \A row \in rows : row \in st.rows.counters \/ row.op = st.ctrOp
    BY <1>5, <1>6
  <2> QED
    BY <2>1, <2>2 DEF StateOk, OpIdsOk
<1>10. HasParts(Roc!FlushCounters(st), st.pend.kernels, st.pend.copies, st.pend.opIds, st.rows.ops,
                st.rows.kernels, st.rows.copies, rows, 0, <<>>)
  BY <1>1, <1>4, <1>7, FlushParts
<1>11. SlotsOk(0, <<>>, st.rows.ops, rows, i)
  BY DEF SlotsOk
<1> QED
  BY <1>8, <1>9, <1>10, <1>11 DEF StateOk, HasParts

\* A header, after flush_counters().
LEMMA AfterTake ==
    ASSUME RocInv, NEW st, NEW i \in Nat, StateOk(st, i), st.ctrOp = 0, st.slots = <<>>,
           i + 1 \in DOMAIN buffer, NEW r, r = buffer[i + 1], r.kind = "header"
    PROVE  StateOk(Roc!TakeOp(st, r), i + 1)
<1>1. BufferInv /\ st \in RocStates
  BY DEF RocInv, StateOk
<1>2. PICK f, d : f = st.pend.opIds /\ d = r.disp
  OBVIOUS
<1>3. PendOk(st.pend.kernels, st.pend.copies, i + 1)
  BY <1>1, PendKept DEF StateOk
<1>4. OpIdsOk(f, st.rows.ops, st.rows.counters, 0, i + 1)
  BY <1>1, <1>2, OpIdsKept, ExtendsSame DEF StateOk
<1>5. CASE d \notin DOMAIN f
  <2>1. Roc!TakeOp(st, r) = st
    BY <1>2, <1>5 DEF Roc!TakeOp
  <2>2. SlotsOk(st.ctrOp, st.slots, st.rows.ops, st.rows.counters, i + 1)
    BY DEF SlotsOk
  <2> QED
    BY <1>2, <1>3, <1>4, <2>1, <2>2 DEF StateOk
<1>6. CASE d \in DOMAIN f
  <2>1. PICK op, g : op = f[d] /\ g = Roc!Without(f, d)
    OBVIOUS
  <2>2. f \in NatMaps /\ op \in Nat /\ op # 0
    <3>1. f \in NatMaps /\ st.rows.ops \in Seq(RocOps) /\ op \in DOMAIN st.rows.ops
      BY <1>1, <1>2, <1>4, <1>6, <2>1, StateTypes DEF OpIdsOk
    <3> QED
      BY <3>1, LenProperties
  <2>3. g \in NatMaps /\ IsWithout(g, f, d)
    BY <2>1, <2>2, MapWithout
  <2>4. Roc!TakeOp(st, r) = [st EXCEPT !.ctrOp = op, !.pend.opIds = g]
    <3>1. PICK s1, s2 : s1 = [st EXCEPT !.ctrOp = op] /\ s2 = [s1 EXCEPT !.pend.opIds = g]
      OBVIOUS
    <3>2. s1.pend.opIds = f
      BY <1>1, <1>2, <3>1 DEF RocStates
    <3>3. Roc!TakeOp(st, r) = s2
      BY <1>2, <1>6, <2>1, <3>1 DEF Roc!TakeOp
    <3> QED
      BY <3>1, <3>3
  <2>5. HasParts(Roc!TakeOp(st, r), st.pend.kernels, st.pend.copies, g, st.rows.ops, st.rows.kernels,
                 st.rows.copies, st.rows.counters, op, st.slots)
    <3>1. PICK s1, s2 : s1 = [st EXCEPT !.ctrOp = op] /\ s2 = [s1 EXCEPT !.pend.opIds = g]
      OBVIOUS
    <3>2. s1 \in RocStates /\ s1.pend = st.pend /\ s1.rows = st.rows /\ s1.slots = st.slots /\ s1.ctrOp = op
      BY <1>1, <2>2, <3>1 DEF RocStates
    <3>3. /\ s2 \in RocStates /\ s2.rows = st.rows /\ s2.slots = st.slots /\ s2.ctrOp = op
          /\ s2.pend = [st.pend EXCEPT !.opIds = g]
      BY <2>3, <3>1, <3>2 DEF RocStates, RocPending
    <3>4. Roc!TakeOp(st, r) = s2
      BY <2>4, <3>1
    <3> QED
      BY <1>1, <3>3, <3>4 DEF RocStates, RocPending, HasParts
  <2>6. OpIdsOk(g, st.rows.ops, st.rows.counters, op, i + 1)
    BY <1>4, <1>6, <2>1, <2>3 DEF OpIdsOk, IsWithout
  <2>7. SlotsOk(op, st.slots, st.rows.ops, st.rows.counters, i + 1)
    <3>1. Unread(d, i)
      <4>1. \A n \in Nat : n < n + 1
        OBVIOUS
      <4> QED
        BY <1>2, <4>1 DEF Unread
    <3>2. /\ op \in DOMAIN st.rows.ops /\ st.rows.ops[op].disp = d /\ Seen(d)
          /\ st.rows.ops[op].storage = storageNow
          /\ \A row \in st.rows.counters : row.op # op
      BY <1>2, <1>6, <2>1, <3>1 DEF StateOk, OpIdsOk
    <3>3. DOMAIN st.slots = {}
      OBVIOUS
    <3> QED
      BY <1>2, <2>2, <3>2, <3>3 DEF SlotsOk
  <2> QED
    BY <1>3, <2>5, <2>6, <2>7 DEF StateOk, HasParts
<1> QED
  BY <1>5, <1>6

LEMMA SlotParts ==
    ASSUME NEW st \in RocStates, NEW slots \in Seq(RocSlots), NEW after, after = [st EXCEPT !.slots = slots]
    PROVE  HasParts(after, st.pend.kernels, st.pend.copies, st.pend.opIds, st.rows.ops, st.rows.kernels,
                    st.rows.copies, st.rows.counters, st.ctrOp, slots)
BY DEF RocStates, HasParts

\* The slots that a value of the dispatch d leaves.
SlotsGood(slots, d) ==
    /\ slots \in Seq(RocSlots)
    /\ \A s \in DOMAIN slots : SlotOk(slots[s], d)
    /\ \A s, t \in DOMAIN slots : slots[s].counter = slots[t].counter => s = t

LEMMA SlotAdded ==
    ASSUME NEW slots, NEW d \in Nat, SlotsGood(slots, d), NEW counter \in CounterNames, NEW k \in Nat,
           PartOf(d, k, counter)
    PROVE  /\ \A j \in DOMAIN slots : slots[j].counter = counter =>
                  SlotsGood([slots EXCEPT ![j].parts = @ \cup {<<d, k>>}], d)
           /\ (\A j \in DOMAIN slots : slots[j].counter # counter) =>
                  SlotsGood(Append(slots, [counter |-> counter, parts |-> {<<d, k>>}]), d)
<1>1. PICK part : part = <<d, k>>
  OBVIOUS
<1>2. part \in Nat \X Nat /\ part[1] = d /\ part[2] = k
  BY <1>1
<1>3. /\ slots \in Seq(RocSlots) /\ \A j \in DOMAIN slots : slots[j] \in RocSlots
      /\ DOMAIN slots = 1 .. Len(slots) /\ Len(slots) \in Nat
  BY ElementOfSeq, LenProperties DEF SlotsGood
<1>4. ASSUME NEW j \in DOMAIN slots, slots[j].counter = counter
      PROVE  SlotsGood([slots EXCEPT ![j].parts = @ \cup {<<d, k>>}], d)
  <2>1. PICK slot, after : /\ slot = [counter |-> counter, parts |-> slots[j].parts \cup {part}]
                           /\ after = [slots EXCEPT ![j] = slot]
    OBVIOUS
  <2>2. slot \in RocSlots /\ slot = [slots[j] EXCEPT !.parts = @ \cup {part}]
    <3>1. PICK old \in RocSlots : old = slots[j] /\ old.counter = counter
      BY <1>3, <1>4
    <3>2. old.parts \cup {part} \in SUBSET (Nat \X Nat)
      BY <1>2 DEF RocSlots
    <3>3. PICK parts : parts = old.parts \cup {part} /\ parts \in SUBSET (Nat \X Nat)
      BY <3>2
    <3>4. slot = [counter |-> counter, parts |-> parts]
      BY <2>1, <3>1, <3>3
    <3>5. slot \in RocSlots
      BY <3>3, <3>4 DEF RocSlots
    <3>6. slot = [old EXCEPT !.parts = parts]
      BY <3>1, <3>4 DEF RocSlots
    <3> QED
      BY <3>1, <3>3, <3>5, <3>6
  <2>3. after = [slots EXCEPT ![j].parts = @ \cup {part}]
    BY <2>1, <2>2
  <2>4. /\ after \in Seq(RocSlots) /\ DOMAIN after = DOMAIN slots /\ after[j] = slot
        /\ \A s \in DOMAIN slots \ {j} : after[s] = slots[s]
    BY <1>3, <2>1, <2>2, ExceptSeq
  <2>5. SlotOk(slot, d)
    <3>1. SlotOk(slots[j], d)
      BY DEF SlotsGood
    <3> QED
      BY <1>2, <1>4, <2>1, <3>1 DEF SlotOk
  <2>6. \A s \in DOMAIN slots : SlotOk(after[s], d) /\ after[s].counter = slots[s].counter
    BY <1>4, <2>1, <2>4, <2>5 DEF SlotsGood
  <2>7. SlotsGood(after, d)
    BY <2>4, <2>6 DEF SlotsGood
  <2> QED
    BY <1>1, <2>3, <2>7
<1>5. ASSUME \A j \in DOMAIN slots : slots[j].counter # counter
      PROVE  SlotsGood(Append(slots, [counter |-> counter, parts |-> {<<d, k>>}]), d)
  <2>1. PICK slot, after, n : /\ slot = [counter |-> counter, parts |-> {part}]
                              /\ after = Append(slots, slot) /\ n = Len(slots)
    OBVIOUS
  <2>2. slot \in RocSlots /\ SlotOk(slot, d)
    BY <1>2, <2>1 DEF RocSlots, SlotOk
  <2>3. /\ after \in Seq(RocSlots) /\ DOMAIN after = 1 .. n + 1 /\ after[n + 1] = slot
        /\ \A s \in DOMAIN slots : after[s] = slots[s]
    BY <1>3, <2>1, <2>2, AppendProperties, LenProperties
  <2>4. \A s \in 1 .. n + 1 : s \in DOMAIN slots \/ s = n + 1
    BY <1>3, <2>1
  <2>5. \A s \in DOMAIN after : SlotOk(after[s], d)
    BY <2>2, <2>3, <2>4 DEF SlotsGood
  <2>6. \A s, t \in DOMAIN after : after[s].counter = after[t].counter => s = t
    <3>1. slot.counter = counter
      BY <2>1
    <3> QED
      BY <1>5, <2>3, <2>4, <3>1 DEF SlotsGood
  <2>7. SlotsGood(after, d)
    BY <2>3, <2>5, <2>6 DEF SlotsGood
  <2> QED
    BY <1>1, <2>1, <2>7
<1> QED
  BY <1>4, <1>5

LEMMA AfterValue ==
    ASSUME RocInv, NEW st, NEW i \in Nat, StateOk(st, i), i + 1 \in DOMAIN buffer,
           NEW r, r = buffer[i + 1], r.kind = "value"
    PROVE  StateOk(Roc!OnValue(st, r), i + 1)
<1>1. BufferInv /\ st \in RocStates /\ st.slots \in Seq(RocSlots)
  BY StateTypes DEF RocInv, StateOk
<1>2. PendOk(st.pend.kernels, st.pend.copies, i + 1)
  BY <1>1, PendKept DEF StateOk
<1>3. OpIdsOk(st.pend.opIds, st.rows.ops, st.rows.counters, st.ctrOp, i + 1)
  BY <1>1, OpIdsKept, ExtendsSame DEF StateOk
<1>4. CASE st.ctrOp = 0
  <2>1. Roc!OnValue(st, r) = st
    BY <1>4 DEF Roc!OnValue
  <2>2. SlotsOk(st.ctrOp, st.slots, st.rows.ops, st.rows.counters, i + 1)
    BY <1>4 DEF StateOk, SlotsOk
  <2> QED
    BY <1>2, <1>3, <2>1, <2>2 DEF StateOk
<1>5. CASE st.ctrOp # 0
  <2>1. PICK d : d = r.disp
    OBVIOUS
  <2>2. Seen(d) /\ d \in Nat /\ r.part \in Nat /\ PartOf(d, r.part, r.counter)
    <3>1. Seen(d) /\ r.part \in Nat /\ PartOf(d, r.part, r.counter)
      BY <1>1, <2>1 DEF BufferInv, RecordOk
    <3> QED
      BY <3>1, SeenIds
  <2>3. r.counter \in CounterNames
    <3>1. PICK set, k : set = dispatches[d].set /\ k = r.part /\ r.counter = CountersOf[set][k]
      BY <2>2 DEF PartOf
    <3>2. set \in Nat /\ k \in Nat
      <4>1. dispatches[d] \in RocDispatches
        BY <2>2, ElementOfSeq, LenProperties DEF RocInv, DispatchInv, Seen
      <4> QED
        BY <2>2, <3>1, <4>1 DEF RocDispatches
    <3>3. <<set, k>> \in Nat \X Nat /\ r.counter = CountersOf[<<set, k>>[1]][<<set, k>>[2]]
      BY <3>1, <3>2
    <3> QED
      BY <3>3 DEF CounterNames
  <2>4. st.rows.ops[st.ctrOp].disp = d
    <3>1. i \in DOMAIN buffer /\ (buffer[i].kind \in {"header", "value"} => buffer[i].disp = st.rows.ops[st.ctrOp].disp)
      BY <1>5 DEF StateOk, SlotsOk
    <3>2. i + 1 > 1 /\ (i + 1) - 1 = i
      BY <1>1, <3>1, LenProperties DEF BufferInv
    <3>3. Follows(buffer[i], buffer[i + 1])
      BY <1>1, <3>2 DEF BufferInv
    <3> QED
      BY <2>1, <3>1, <3>3 DEF Follows
  <2>5. SlotsGood(st.slots, d)
    BY <1>1, <1>5, <2>4 DEF StateOk, SlotsOk, SlotsGood
  <2>6. ASSUME NEW slots, SlotsGood(slots, d), NEW after, after = [st EXCEPT !.slots = slots]
        PROVE  StateOk(after, i + 1)
    <3>1. slots \in Seq(RocSlots)
      BY <2>6 DEF SlotsGood
    <3>2. HasParts(after, st.pend.kernels, st.pend.copies, st.pend.opIds, st.rows.ops, st.rows.kernels,
                   st.rows.copies, st.rows.counters, st.ctrOp, slots)
      BY <1>1, <2>6, <3>1, SlotParts
    <3>3. SlotsOk(st.ctrOp, slots, st.rows.ops, st.rows.counters, i + 1)
      BY <1>5, <2>1, <2>4, <2>6 DEF StateOk, SlotsOk, SlotsGood
    <3> QED
      BY <1>2, <1>3, <3>2, <3>3 DEF StateOk, HasParts
  <2>7. PICK part, own : /\ part = <<d, r.part>>
                         /\ own = {j \in DOMAIN st.slots : st.slots[j].counter = r.counter}
    OBVIOUS
  <2>8. CASE own # {}
    <3>1. PICK j : j = CHOOSE x \in own : TRUE
      OBVIOUS
    <3>2. j \in own
      BY <2>8, <3>1
    <3>3. PICK slots : slots = [st.slots EXCEPT ![j].parts = @ \cup {part}]
      OBVIOUS
    <3>4. SlotsGood(slots, d)
      BY <2>2, <2>3, <2>5, <2>7, <3>2, <3>3, SlotAdded
    <3>5. Roc!OnValue(st, r) = [st EXCEPT !.slots = slots]
      BY <1>5, <2>1, <2>7, <2>8, <3>1, <3>3 DEF Roc!OnValue
    <3> QED
      BY <2>6, <3>4, <3>5
  <2>9. CASE own = {} /\ Len(st.slots) < MaxSlots
    <3>1. PICK slots : slots = Append(st.slots, [counter |-> r.counter, parts |-> {part}])
      OBVIOUS
    <3>2. SlotsGood(slots, d)
      <4>1. \A j \in DOMAIN st.slots : st.slots[j].counter # r.counter
        BY <2>7, <2>9
      <4>2. SlotsGood(Append(st.slots, [counter |-> r.counter, parts |-> {<<d, r.part>>}]), d)
        BY <2>2, <2>3, <2>5, <4>1, SlotAdded
      <4> QED
        BY <2>7, <3>1, <4>2
    <3>3. Roc!OnValue(st, r) = [st EXCEPT !.slots = slots]
      BY <1>5, <2>1, <2>7, <2>9, <3>1 DEF Roc!OnValue
    <3> QED
      BY <2>6, <3>2, <3>3
  <2>10. CASE own = {} /\ ~(Len(st.slots) < MaxSlots)
    <3>1. Roc!OnValue(st, r) = st
      BY <1>5, <2>1, <2>7, <2>10 DEF Roc!OnValue
    <3>2. SlotsOk(st.ctrOp, st.slots, st.rows.ops, st.rows.counters, i + 1)
      BY <1>5, <2>1, <2>4 DEF StateOk, SlotsOk
    <3> QED
      BY <1>2, <1>3, <3>1, <3>2 DEF StateOk
  <2> QED
    BY <2>8, <2>9, <2>10
<1> QED
  BY <1>4, <1>5

LEMMA AfterRecord ==
    ASSUME RocInv, NEW st, NEW i \in Nat, StateOk(st, i), i + 1 \in DOMAIN buffer
    PROVE  StateOk(Roc!OnRecord(st, buffer[i + 1]), i + 1)
<1>1. PICK r : r = buffer[i + 1]
  OBVIOUS
<1>2. r.kind \in {"dispatch", "copy", "api", "retire", "kfd", "scratch", "header", "value"}
  BY <1>1 DEF RocInv, BufferInv, RecordOk
<1>3. CASE r.kind = "dispatch"
  BY <1>1, <1>3, AfterDispatch DEF Roc!OnRecord
<1>4. CASE r.kind = "copy"
  BY <1>1, <1>4, AfterCopy DEF Roc!OnRecord
<1>5. CASE r.kind = "api"
  BY <1>1, <1>5, AfterApi DEF Roc!OnRecord
<1>6. CASE r.kind = "retire"
  BY <1>1, <1>6, AfterRetire DEF Roc!OnRecord
<1>7. CASE r.kind = "kfd"
  BY <1>1, <1>7, AfterKfd DEF Roc!OnRecord
<1>8. CASE r.kind = "scratch"
  BY <1>1, <1>8, AfterScratch DEF Roc!OnRecord
<1>9. CASE r.kind = "value"
  BY <1>1, <1>9, AfterValue DEF Roc!OnRecord
<1>10. CASE r.kind = "header"
  <2>1. PICK s : s = Roc!FlushCounters(st) /\ StateOk(s, i) /\ s.ctrOp = 0 /\ s.slots = <<>>
    BY AfterFlush
  <2>2. StateOk(Roc!TakeOp(s, r), i + 1)
    BY <1>1, <1>10, <2>1, AfterTake
  <2>3. Roc!OnRecord(st, r) = Roc!TakeOp(s, r)
    BY <1>10, <2>1 DEF Roc!OnRecord, Roc!OnHeader
  <2> QED
    BY <1>1, <2>2, <2>3
<1> QED
  BY <1>2, <1>3, <1>4, <1>5, <1>6, <1>7, <1>8, <1>9, <1>10

LEMMA HandledOk ==
    ASSUME RocInv, NEW n \in DOMAIN buffer
    PROVE  StateOk(Roc!Handled[n], n)
<1> DEFINE T == {i \in Nat : i <= Len(buffer) => StateOk(Roc!Handled[i], i)}
<1>1. Len(buffer) \in Nat /\ DOMAIN buffer = 1 .. Len(buffer)
  BY LenProperties DEF RocInv, BufferInv
<1>2. 0 \in T
  BY HandledUnfolds DEF RocInv
<1>3. ASSUME NEW i \in Nat, i \in T PROVE i + 1 \in T
  <2>1. SUFFICES ASSUME i + 1 <= Len(buffer) PROVE StateOk(Roc!Handled[i + 1], i + 1)
    OBVIOUS
  <2>2. StateOk(Roc!Handled[i], i) /\ i + 1 \in DOMAIN buffer
    BY <1>1, <1>3, <2>1
  <2>3. Roc!Handled[i + 1] = Roc!OnRecord(Roc!Handled[i], buffer[i + 1])
    BY HandledUnfolds
  <2> QED
    BY <2>2, <2>3, AfterRecord
<1> HIDE DEF T
<1>4. n \in T
  BY <1>1, <1>2, <1>3, NatSetInduction
<1> QED
  BY <1>1, <1>4 DEF T

\* What is left of a sequence.
LEMMA RestIs ==
    ASSUME NEW T, NEW s \in Seq(T), NEW n \in 1 .. Len(s)
    PROVE  /\ SubSeq(s, n + 1, Len(s)) \in Seq(T)
           /\ DOMAIN SubSeq(s, n + 1, Len(s)) = 1 .. Len(s) - n
           /\ \A k \in 1 .. Len(s) - n : /\ SubSeq(s, n + 1, Len(s))[k] = s[n + k]
                                         /\ n + k \in DOMAIN s
<1>1. Len(s) \in Nat /\ DOMAIN s = 1 .. Len(s) /\ n \in Nat /\ 1 <= n /\ n <= Len(s)
  BY LenProperties
<1>2. \A i \in (n + 1) .. Len(s) : s[i] \in T
  BY <1>1, ElementOfSeq
<1>3. /\ SubSeq(s, n + 1, Len(s)) \in Seq(T)
      /\ Len(SubSeq(s, n + 1, Len(s))) = IF n + 1 <= Len(s) THEN Len(s) - (n + 1) + 1 ELSE 0
      /\ \A i \in 1 .. Len(s) - (n + 1) + 1 : SubSeq(s, n + 1, Len(s))[i] = s[(n + 1) + i - 1]
  BY <1>1, <1>2, SubSeqProperties
<1> QED
  BY <1>1, <1>3, LenProperties

\* The rest of the records is a buffer like the whole.
RestOf(rest, n) ==
    /\ \E S : rest \in Seq(S)
    /\ \A j \in DOMAIN rest : j \in Nat /\ n + j \in DOMAIN buffer /\ rest[j] = buffer[n + j]
    /\ \A j \in DOMAIN buffer : n < j => j - n \in DOMAIN rest /\ rest[j - n] = buffer[j]

LEMMA TurnKept == ASSUME TurnInv, UNCHANGED <<dispatches, dispatchCount>> PROVE TurnInv'
<1>1. \A name, a : OnAgent(name, a)' = OnAgent(name, a)
  BY DEF OnAgent
<1>2. \A name, s : UsedBy(name, s)' = UsedBy(name, s)
  BY DEF UsedBy
<1> QED
  BY <1>1, <1>2 DEF TurnInv, Turns

LEMMA RocCallback ==
    ASSUME RocInv, NEW n, Roc!buffer_callback(n)
    PROVE  RocInv'
<1>1. BufferInv /\ IdsInv
  BY DEF RocInv
<1>2. PICK st : st = Roc!FlushCounters(Roc!Handled[n])
  OBVIOUS
<1>3. /\ n \in DOMAIN buffer /\ pending' = st.pend /\ tables' = st.rows /\ idsFrom' = Roc!Ids
      /\ buffer' = SubSeq(buffer, n + 1, Len(buffer))
      /\ UNCHANGED <<context, starts, calls, dispatches, others, registered, counterConfigs, dispatchCount, storageNow>>
  BY <1>2 DEF Roc!buffer_callback, Roc!BatchEnds, Roc!Ids, Roc!contextVars, Roc!appVars, Roc!configVars
<1>4. StateOk(st, n) /\ st.ctrOp = 0 /\ st.slots = <<>>
  BY <1>2, <1>3, HandledOk, AfterFlush
<1>5. n \in Nat /\ RestOf(buffer', n)
  <2>1. PICK S : buffer \in Seq(S)
    BY <1>1 DEF BufferInv
  <2>2. n \in 1 .. Len(buffer) /\ DOMAIN buffer = 1 .. Len(buffer) /\ Len(buffer) \in Nat
    BY <1>3, <2>1, LenProperties
  <2>3. /\ buffer' \in Seq(S) /\ DOMAIN buffer' = 1 .. Len(buffer) - n
        /\ \A k \in 1 .. Len(buffer) - n : buffer'[k] = buffer[n + k] /\ n + k \in DOMAIN buffer
    BY <1>3, <2>1, <2>2, RestIs
  <2>4. ASSUME NEW j \in DOMAIN buffer, n < j
        PROVE  j - n \in DOMAIN buffer' /\ buffer'[j - n] = buffer[j]
    <3>1. j - n \in 1 .. Len(buffer) - n /\ n + (j - n) = j
      BY <2>2, <2>4
    <3> QED
      BY <2>3, <3>1
  <2> QED
    BY <2>2, <2>3, <2>4 DEF RestOf
<1>6. RocCallInv' /\ DispatchInv' /\ ConfigInv' /\ TurnInv' /\ IdsInv'
  <2>1. RocCallInv' /\ DispatchInv' /\ ConfigInv'
    BY <1>3 DEF RocInv, RocCallInv, DispatchInv, ConfigInv
  <2>2. TurnInv'
    BY <1>3, TurnKept DEF RocInv
  <2>3. IdsInv'
    BY <1>1, <1>3 DEF IdsInv, Roc!Ids
  <2> QED
    BY <2>1, <2>2, <2>3
<1>7. ASSUME NEW r PROVE RecordOk(r)' = RecordOk(r)
  BY <1>3 DEF RecordOk, Seen, PartOf
<1>8. BufferInv'
  <2>1. \A i \in DOMAIN buffer' : RecordOk(buffer[i])'
    BY <1>1, <1>5, <1>7 DEF BufferInv, RestOf
  <2>2. ASSUME NEW i \in DOMAIN buffer', buffer'[i].kind = "api", calls'[buffer'[i].corr].retired
        PROVE  \E j \in DOMAIN buffer' : i < j /\ buffer'[j] = Retirement(buffer'[i].corr)
    <3>1. i \in Nat /\ n + i \in DOMAIN buffer /\ buffer'[i] = buffer[n + i]
      BY <1>5 DEF RestOf
    <3>2. PICK j \in DOMAIN buffer : n + i < j /\ buffer[j] = Retirement(buffer[n + i].corr)
      BY <1>1, <1>3, <2>2, <3>1 DEF BufferInv
    <3>3. j \in Nat
      BY <1>1, LenProperties DEF BufferInv
    <3>4. n < j /\ i < j - n
      BY <1>5, <3>1, <3>2, <3>3
    <3> QED
      BY <1>5, <3>1, <3>2, <3>4 DEF RestOf
  <2>3. ASSUME NEW i \in DOMAIN buffer', buffer'[i].kind = "value", i > 1
        PROVE  Follows(buffer'[i - 1], buffer'[i])
    <3>1. i \in Nat /\ n + i \in DOMAIN buffer /\ buffer'[i] = buffer[n + i]
      BY <1>5 DEF RestOf
    <3>2. n + i > 1 /\ (n + i) - 1 = n + (i - 1) /\ i - 1 \in Nat /\ n < n + (i - 1) /\ (n + (i - 1)) - n = i - 1
      BY <1>5, <2>3, <3>1
    <3>3. n + (i - 1) \in DOMAIN buffer
      BY <1>1, <3>1, <3>2, LenProperties DEF BufferInv
    <3>4. buffer'[i - 1] = buffer[n + (i - 1)]
      BY <1>5, <3>2, <3>3 DEF RestOf
    <3> QED
      BY <1>1, <2>3, <3>1, <3>2, <3>4 DEF BufferInv
  <2> QED
    BY <1>5, <2>1, <2>2, <2>3 DEF BufferInv, RestOf
<1>9. StateOk(st, 0)'
  <2>1. ASSUME NEW c, RetireComes(c, n) PROVE RetireComes(c, 0)'
    <3> SUFFICES ASSUME calls'[c].retired
                 PROVE  \E j \in DOMAIN buffer' : 0 < j /\ buffer'[j] = Retirement(c)
      BY DEF RetireComes
    <3>1. PICK j \in DOMAIN buffer : n < j /\ buffer[j] = Retirement(c)
      BY <1>3, <2>1 DEF RetireComes
    <3>2. j \in Nat
      BY <1>1, LenProperties DEF BufferInv
    <3> QED
      BY <1>5, <3>1, <3>2 DEF RestOf
  <2>2. PendOk(st.pend.kernels, st.pend.copies, 0)'
    BY <1>3, <1>4, <2>1 DEF StateOk, PendOk
  <2>3. RowsOk(st.rows.ops, st.rows.kernels, st.rows.copies)'
    BY <1>3, <1>4 DEF StateOk, RowsOk
  <2>4. ASSUME NEW d, Unread(d, 0)' PROVE Unread(d, n)
    <3>1. ASSUME NEW j \in DOMAIN buffer', buffer'[j].kind = "header", buffer'[j].disp = d, 0 < j
          PROVE  Unread(d, n)
      <4>1. j \in Nat /\ n + j \in DOMAIN buffer /\ buffer'[j] = buffer[n + j]
        BY <1>5 DEF RestOf
      <4>2. n < n + j
        BY <1>5, <3>1, <4>1
      <4> QED
        BY <3>1, <4>1, <4>2 DEF Unread
    <3> QED
      BY <1>3, <2>4, <3>1 DEF Unread
  <2>5. OpIdsOk(st.pend.opIds, st.rows.ops, st.rows.counters, st.ctrOp, 0)'
    BY <1>3, <1>4, <2>4 DEF StateOk, OpIdsOk, Seen
  <2>6. SlotsOk(st.ctrOp, st.slots, st.rows.ops, st.rows.counters, 0)'
    BY <1>4 DEF SlotsOk
  <2>7. CountersOk(st.rows.counters, st.rows.ops)'
    BY <1>3, <1>4 DEF StateOk, CountersOk, CounterOk, SlotOk, PartOf, Seen
  <2> QED
    BY <1>4, <2>2, <2>3, <2>5, <2>6, <2>7 DEF StateOk
<1>10. Start' = st
  <2>1. st = [pend |-> st.pend, rows |-> st.rows, ctrOp |-> st.ctrOp, slots |-> st.slots]
    BY <1>4 DEF StateOk, RocStates
  <2> QED
    BY <1>3, <1>4, <2>1 DEF Start
<1>11. StateOk(Start, 0)'
  BY <1>9, <1>10 DEF StateOk
<1> QED
  BY <1>6, <1>8, <1>11 DEF RocInv

\* What a step of the application adds to the buffer.
Brings(recs) ==
    /\ \E S : buffer' \in Seq(S)
    /\ Len(recs) \in Nat /\ DOMAIN recs = 1 .. Len(recs)
    /\ Joins(buffer', buffer, Len(buffer), recs, Len(recs))

LEMMA BringsNothing == ASSUME BufferInv, buffer' = buffer PROVE Brings(<<>>)
<1>1. \E S : buffer' \in Seq(S)
  BY DEF BufferInv
<1>2. Len(buffer) \in Nat /\ DOMAIN buffer = 1 .. Len(buffer) /\ Len(buffer) + 0 = Len(buffer)
  BY LenProperties DEF BufferInv
<1>3. PICK none : none = <<>> /\ Len(none) = 0 /\ DOMAIN none = {} /\ 1 .. 0 = {}
  OBVIOUS
<1>4. Brings(none)
  BY <1>1, <1>2, <1>3 DEF Brings, Joins
<1> QED
  BY <1>3, <1>4

LEMMA ToSeq == ASSUME NEW s, NEW U, Len(s) \in Nat, s \in [1 .. Len(s) -> U] PROVE s \in Seq(U)
BY SeqDef, Zenon

LEMMA EmplaceAll ==
    ASSUME BufferInv, NEW S, NEW recs \in Seq(S), buffer' = buffer \o recs
    PROVE  Brings(recs)
<1>1. PICK R : buffer \in Seq(R)
  BY DEF BufferInv
<1>2. PICK U : U = R \cup S
  OBVIOUS
<1>3. buffer \in Seq(U) /\ recs \in Seq(U)
  <2>1. \A i \in 1 .. Len(buffer) : buffer[i] \in U
    BY <1>1, <1>2, ElementOfSeq
  <2>2. \A i \in 1 .. Len(recs) : recs[i] \in U
    BY <1>2, ElementOfSeq
  <2>3. buffer \in [1 .. Len(buffer) -> R] /\ Len(buffer) \in Nat
    BY <1>1, LenProperties
  <2>4. recs \in [1 .. Len(recs) -> S] /\ Len(recs) \in Nat
    BY LenProperties
  <2>5. buffer \in [1 .. Len(buffer) -> U]
    BY <2>1, <2>3
  <2>6. recs \in [1 .. Len(recs) -> U]
    BY <2>2, <2>4
  <2>7. buffer \in Seq(U)
    BY <2>3, <2>5, ToSeq
  <2>8. recs \in Seq(U)
    BY <2>4, <2>6, ToSeq
  <2> QED
    BY <2>7, <2>8
<1>4. buffer' \in Seq(U) /\ Joins(buffer', buffer, Len(buffer), recs, Len(recs))
  BY <1>3, JoinedIs
<1>5. Len(recs) \in Nat /\ DOMAIN recs = 1 .. Len(recs)
  BY LenProperties
<1> QED
  BY <1>4, <1>5 DEF Brings

\* The records of the sdk are single ones, but those of counters.
LEMMA EmplaceOne ==
    ASSUME BufferInv, NEW r, NEW traced, Roc!Emplace(traced, <<r>>)
    PROVE  \E recs : Brings(recs) /\ \A j \in DOMAIN recs : traced /\ j = 1 /\ recs[1] = r /\ 1 \in DOMAIN recs
<1>1. CASE traced
  <2>1. PICK recs : recs = <<r>>
    OBVIOUS
  <2>0. recs \in Seq({r}) /\ recs[1] = r /\ DOMAIN recs = {1}
    <3>1. recs[1] = r /\ Len(recs) = 1 /\ DOMAIN recs = 1 .. 1
      BY <2>1
    <3>2. \A k \in 1 .. 1 : k = 1
      OBVIOUS
    <3>3. recs \in Seq({r})
      BY <2>1
    <3> QED
      BY <3>1, <3>2, <3>3
  <2>2. Brings(recs)
    BY <1>1, <2>0, <2>1, EmplaceAll DEF Roc!Emplace
  <2> QED
    BY <1>1, <2>0, <2>2
<1>2. CASE ~traced
  <2>1. DOMAIN <<>> = {}
    OBVIOUS
  <2> QED
    BY <1>2, <2>1, BringsNothing DEF Roc!Emplace
<1> QED
  BY <1>1, <1>2

CallsGrow(recs) ==
    \A c \in DOMAIN calls :
        /\ c \in DOMAIN calls' /\ calls'[c].api = calls[c].api
        /\ calls'[c].retired => calls[c].retired \/ \E j \in DOMAIN recs : recs[j] = Retirement(c)
DispatchesGrow(recs) ==
    \A d : Seen(d) =>
        /\ Seen(d)' /\ dispatches'[d].set = dispatches[d].set
        /\ dispatches[d].counted => dispatches'[d].counted
        /\ (\E j \in DOMAIN recs : recs[j].kind = "header" /\ recs[j].disp = d) =>
               dispatches[d].set # 0 /\ ~dispatches[d].counted
RecordsOk(recs) ==
    \A j \in DOMAIN recs :
        /\ RecordOk(recs[j])'
        /\ recs[j].kind = "api" => ~calls'[recs[j].corr].retired
        /\ recs[j].kind = "value" => j > 1 /\ Follows(recs[j - 1], recs[j])

LEMMA RocGrows ==
    ASSUME RocInv, NEW recs, Brings(recs), CallsGrow(recs), DispatchesGrow(recs), RecordsOk(recs),
           UNCHANGED <<pending, tables, storageNow>>
    PROVE  BufferInv' /\ StateOk(Start, 0)'
<1>1. BufferInv
  BY DEF RocInv
<1>2. PICK n, m : n = Len(buffer) /\ m = Len(recs)
  OBVIOUS
<1>3. n \in Nat /\ DOMAIN buffer = 1 .. n /\ m \in Nat /\ DOMAIN recs = 1 .. m
  BY <1>1, <1>2, LenProperties DEF BufferInv, Brings
<1>4. /\ \A i \in DOMAIN buffer : i \in DOMAIN buffer' /\ buffer'[i] = buffer[i]
      /\ \A i \in DOMAIN recs : n + i \in DOMAIN buffer' /\ buffer'[n + i] = recs[i]
      /\ \A j \in DOMAIN buffer' : j \in DOMAIN buffer \/ \E k \in DOMAIN recs : j = n + k
  BY <1>2, <1>3 DEF Brings, Joins
<1>5. ASSUME NEW r, RecordOk(r) PROVE RecordOk(r)'
  BY <1>5 DEF RecordOk, CallsGrow, DispatchesGrow, PartOf, Seen
<1>6. ASSUME NEW c \in DOMAIN calls, NEW i \in Nat, i < n + 1, RetireComes(c, i)
      PROVE  RetireComes(c, i)'
  <2> SUFFICES ASSUME calls'[c].retired
               PROVE  \E j \in DOMAIN buffer' : i < j /\ buffer'[j] = Retirement(c)
    BY DEF RetireComes
  <2>1. CASE calls[c].retired
    BY <1>4, <1>6, <2>1 DEF RetireComes
  <2>2. ASSUME NEW j \in DOMAIN recs, recs[j] = Retirement(c)
        PROVE  \E k \in DOMAIN buffer' : i < k /\ buffer'[k] = Retirement(c)
    <3>1. i < n + j
      BY <1>3, <1>6
    <3> QED
      BY <1>4, <2>2, <3>1
  <2> QED
    BY <2>1, <2>2 DEF CallsGrow
<1>7. BufferInv'
  <2>1. \A i \in DOMAIN buffer' : RecordOk(buffer[i])'
    <3> TAKE i \in DOMAIN buffer'
    <3>1. CASE i \in DOMAIN buffer
      <4>1. PICK r : r = buffer[i] /\ RecordOk(r) /\ r = buffer'[i]
        BY <1>1, <1>4, <3>1 DEF BufferInv
      <4>2. RecordOk(r)'
        BY <1>5, <4>1
      <4> QED
        BY <4>1, <4>2
    <3>2. ASSUME NEW k \in DOMAIN recs, i = n + k PROVE RecordOk(buffer[i])'
      <4>1. PICK r : r = recs[k] /\ RecordOk(r)' /\ r = buffer'[i]
        BY <1>4, <3>2 DEF RecordsOk
      <4> QED
        BY <4>1
    <3> QED
      BY <1>4, <3>1, <3>2
  <2>2. ASSUME NEW i \in DOMAIN buffer', buffer'[i].kind = "api", calls'[buffer'[i].corr].retired
        PROVE  \E j \in DOMAIN buffer' : i < j /\ buffer'[j] = Retirement(buffer'[i].corr)
    <3>1. i \in DOMAIN buffer
      BY <1>4, <2>2 DEF RecordsOk
    <3>2. buffer'[i] = buffer[i] /\ i \in Nat /\ i < n + 1
      BY <1>3, <1>4, <3>1
    <3>3. buffer[i].corr \in DOMAIN calls
      BY <1>1, <2>2, <3>1, <3>2 DEF BufferInv, RecordOk
    <3>4. RetireComes(buffer[i].corr, i)
      BY <1>1, <2>2, <3>1, <3>2 DEF BufferInv, RetireComes
    <3>5. PICK c : c = buffer[i].corr
      OBVIOUS
    <3>6. RetireComes(c, i)'
      BY <1>6, <3>2, <3>3, <3>4, <3>5
    <3> QED
      BY <2>2, <3>2, <3>5, <3>6 DEF RetireComes
  <2>3. ASSUME NEW i \in DOMAIN buffer', buffer'[i].kind = "value", i > 1
        PROVE  Follows(buffer'[i - 1], buffer'[i])
    <3>1. CASE i \in DOMAIN buffer
      <4>1. i - 1 \in DOMAIN buffer
        BY <1>3, <2>3, <3>1
      <4> QED
        BY <1>1, <1>4, <2>3, <3>1, <4>1 DEF BufferInv
    <3>2. ASSUME NEW k \in DOMAIN recs, i = n + k PROVE Follows(buffer'[i - 1], buffer'[i])
      <4>1. k > 1 /\ Follows(recs[k - 1], recs[k])
        BY <1>4, <2>3, <3>2 DEF RecordsOk
      <4>2. k - 1 \in DOMAIN recs /\ i - 1 = n + (k - 1)
        BY <1>3, <3>2, <4>1
      <4> QED
        BY <1>4, <3>2, <4>1, <4>2
    <3> QED
      BY <1>4, <3>1, <3>2
  <2>4. \E S : buffer' \in Seq(S)
    BY DEF Brings
  <2> QED
    BY <2>1, <2>2, <2>3, <2>4 DEF BufferInv
<1>8. PICK st : st = Start
  OBVIOUS
<1>9. st = Start' /\ StateOk(st, 0) /\ st.ctrOp = 0 /\ st.slots = <<>>
  BY <1>8 DEF RocInv, Start
<1>10. StateOk(st, 0)'
  <2>1. \A c \in DOMAIN calls : RetireComes(c, 0) => RetireComes(c, 0)'
    BY <1>3, <1>6
  <2>2. PendOk(st.pend.kernels, st.pend.copies, 0)'
    BY <1>9, <2>1 DEF StateOk, PendOk, CallsGrow
  <2>3. RowsOk(st.rows.ops, st.rows.kernels, st.rows.copies)'
    BY <1>9 DEF StateOk, RowsOk, CallsGrow
  <2>4. ASSUME NEW d, Seen(d), Unread(d, 0)' PROVE Unread(d, 0)
    <3>1. CASE dispatches'[d].set # 0 /\ ~dispatches'[d].counted
      BY <2>4, <3>1 DEF DispatchesGrow, Unread
    <3>2. ASSUME NEW j \in DOMAIN buffer', buffer'[j].kind = "header", buffer'[j].disp = d, 0 < j
          PROVE  Unread(d, 0)
      <4>1. CASE j \in DOMAIN buffer
        BY <1>4, <3>2, <4>1 DEF Unread
      <4>2. ASSUME NEW k \in DOMAIN recs, j = n + k PROVE Unread(d, 0)
        BY <1>4, <2>4, <3>2, <4>2 DEF DispatchesGrow, Unread
      <4> QED
        BY <1>4, <4>1, <4>2
    <3> QED
      BY <2>4, <3>1, <3>2 DEF Unread
  <2>5. OpIdsOk(st.pend.opIds, st.rows.ops, st.rows.counters, st.ctrOp, 0)'
    BY <1>9, <2>4 DEF StateOk, OpIdsOk, DispatchesGrow
  <2>6. SlotsOk(st.ctrOp, st.slots, st.rows.ops, st.rows.counters, 0)'
    BY <1>9 DEF SlotsOk
  <2>7. CountersOk(st.rows.counters, st.rows.ops)'
    <3>1. ASSUME NEW row \in st.rows.counters PROVE CounterOk(row, st.rows.ops)'
      <4>1. PICK ops, d : ops = st.rows.ops /\ d = ops[row.op].disp /\ CounterOk(row, ops)
        BY <1>9 DEF StateOk, CountersOk
      <4>2. row.op \in DOMAIN ops /\ row.storage = ops[row.op].storage /\ SlotOk(row, d)
        BY <4>1 DEF CounterOk
      <4>3. CASE row.parts = {}
        BY <4>1, <4>2, <4>3 DEF CounterOk, SlotOk
      <4>4. CASE row.parts # {}
        <5>1. Seen(d)
          BY <4>1, <4>4 DEF CounterOk
        <5>2. Seen(d)' /\ dispatches'[d].set = dispatches[d].set
          BY <5>1 DEF DispatchesGrow
        <5>3. SlotOk(row, d)'
          BY <4>2, <5>2 DEF SlotOk, PartOf
        <5> QED
          BY <4>1, <4>2, <5>2, <5>3 DEF CounterOk
      <4> QED
        BY <4>3, <4>4
    <3> QED
      BY <1>9, <3>1 DEF StateOk, CountersOk
  <2> QED
    BY <1>9, <2>2, <2>3, <2>5, <2>6, <2>7 DEF StateOk
<1> QED
  BY <1>7, <1>9, <1>10 DEF StateOk

LEMMA RocElements ==
    ASSUME RocInv
    PROVE  /\ Len(calls) \in Nat /\ DOMAIN calls = 1 .. Len(calls)
           /\ Len(dispatches) \in Nat /\ DOMAIN dispatches = 1 .. Len(dispatches)
           /\ \A c \in DOMAIN calls : calls[c] \in RocCalls
           /\ \A d \in DOMAIN dispatches : dispatches[d] \in RocDispatches
<1>1. calls \in Seq(RocCalls) /\ dispatches \in Seq(RocDispatches)
  BY DEF RocInv, RocCallInv, DispatchInv
<1>2. /\ Len(calls) \in Nat /\ DOMAIN calls = 1 .. Len(calls)
      /\ Len(dispatches) \in Nat /\ DOMAIN dispatches = 1 .. Len(dispatches)
  BY <1>1, LenProperties
<1> QED
  BY <1>1, <1>2, ElementOfSeq

LEMMA RocKept ==
    ASSUME RocInv, NEW recs, Brings(recs), CallsGrow(recs), DispatchesGrow(recs), RecordsOk(recs),
           UNCHANGED <<pending, tables, idsFrom, storageNow>>,
           RocCallInv', DispatchInv', ConfigInv', TurnInv'
    PROVE  RocInv'
<1>1. BufferInv' /\ StateOk(Start, 0)'
  BY RocGrows
<1>2. IdsInv'
  BY DEF RocInv, IdsInv
<1> QED
  BY <1>1, <1>2 DEF RocInv

LEMMA ConfigKept == ASSUME ConfigInv, UNCHANGED <<counterConfigs, dispatchCount>> PROVE ConfigInv'
BY DEF ConfigInv

LEMMA CallsSame == ASSUME UNCHANGED calls, NEW recs PROVE CallsGrow(recs)
BY DEF CallsGrow

LEMMA DispatchesSame ==
    ASSUME UNCHANGED dispatches, NEW recs, \A j \in DOMAIN recs : recs[j].kind # "header"
    PROVE  DispatchesGrow(recs)
BY DEF DispatchesGrow, Seen

LEMMA OneOk ==
    ASSUME NEW recs, NEW r, \A j \in DOMAIN recs : recs[j] = r,
           RecordOk(r)', r.kind = "api" => ~calls'[r.corr].retired, r.kind # "value"
    PROVE  RecordsOk(recs)
BY DEF RecordsOk

LEMMA NoneOk == RecordsOk(<<>>)
<1>1. DOMAIN <<>> = {}
  OBVIOUS
<1> QED
  BY <1>1 DEF RecordsOk

\* More calls, or the same ones with other flags.
LEMMA DispatchesStay ==
    ASSUME DispatchInv, UNCHANGED dispatches, DOMAIN calls \subseteq DOMAIN calls'
    PROVE  DispatchInv'
BY DEF DispatchInv, IsSetOf

LEMMA CallMoves ==
    ASSUME RocCallInv, NEW c \in DOMAIN calls, NEW call \in RocCalls,
           call.retired => call.exited, calls' = [calls EXCEPT ![c] = call]
    PROVE  /\ RocCallInv' /\ DOMAIN calls' = DOMAIN calls /\ calls'[c] = call
           /\ \A e \in DOMAIN calls : e # c => calls'[e] = calls[e]
<1>1. calls \in Seq(RocCalls) /\ DOMAIN calls = 1 .. Len(calls)
  BY LenProperties DEF RocCallInv
<1>2. /\ calls' \in Seq(RocCalls) /\ Len(calls') = Len(calls)
      /\ \A e \in 1 .. Len(calls) : calls'[e] = IF e = c THEN call ELSE calls[e]
  BY <1>1, ExceptSeq
<1>3. DOMAIN calls' = DOMAIN calls
  BY <1>1, <1>2, LenProperties
<1> QED
  BY <1>1, <1>2, <1>3 DEF RocCallInv

\* Nothing that matters changes.
LEMMA RocStill ==
    ASSUME RocInv, UNCHANGED <<calls, dispatches, counterConfigs, dispatchCount, buffer, pending,
                               tables, idsFrom, storageNow>>
    PROVE  RocInv'
<1>1. Brings(<<>>)
  BY BringsNothing DEF RocInv
<1>2. CallsGrow(<<>>)
  BY CallsSame
<1>3. DispatchesGrow(<<>>)
  <2>1. DOMAIN <<>> = {}
    OBVIOUS
  <2> QED
    BY <2>1, DispatchesSame
<1>4. RocCallInv' /\ DispatchInv' /\ ConfigInv' /\ TurnInv'
  <2>1. RocCallInv'
    BY DEF RocInv, RocCallInv
  <2>2. DispatchInv'
    BY DispatchesStay DEF RocInv
  <2>3. ConfigInv'
    BY ConfigKept DEF RocInv
  <2>4. TurnInv'
    BY TurnKept DEF RocInv
  <2> QED
    BY <2>1, <2>2, <2>3, <2>4
<1> QED
  BY <1>1, <1>2, <1>3, <1>4, NoneOk, RocKept

LEMMA RocApiEnter ==
    ASSUME RocInv, NEW t \in RocprofThreads, NEW api \in RocprofApis, Roc!ApiEnter(t, api)
    PROVE  RocInv'
<1>1. PICK traced, copying : traced = (context = "started") /\ copying = Roc!isCopyApi(api)
  OBVIOUS
<1>2. PICK call : call = [thread |-> t, api |-> api, exited |-> FALSE, traced |-> traced,
                          copying |-> copying, retired |-> FALSE]
  OBVIOUS
<1>3. /\ calls' = Append(calls, call)
      /\ UNCHANGED <<dispatches, counterConfigs, dispatchCount, buffer, pending, tables, idsFrom, storageNow>>
  BY <1>1, <1>2 DEF Roc!ApiEnter, Roc!configVars, Roc!rowVars
<1>4. call \in RocCalls /\ ~call.retired
  <2>1. traced \in BOOLEAN /\ copying \in BOOLEAN
    BY <1>1 DEF Roc!isCopyApi
  <2> QED
    BY <1>2, <2>1 DEF RocCalls
<1>5. /\ calls' \in Seq(RocCalls) /\ DOMAIN calls' = DOMAIN calls \cup {Len(calls) + 1}
      /\ calls'[Len(calls) + 1] = call /\ \A c \in DOMAIN calls : calls'[c] = calls[c]
  BY <1>3, <1>4, Appended DEF RocInv, RocCallInv
<1>6. Brings(<<>>)
  BY <1>3, BringsNothing DEF RocInv
<1>7. CallsGrow(<<>>)
  BY <1>5 DEF CallsGrow
<1>8. DispatchesGrow(<<>>)
  <2>1. DOMAIN <<>> = {}
    OBVIOUS
  <2> QED
    BY <1>3, <2>1, DispatchesSame
<1>9. RocCallInv'
  BY <1>4, <1>5 DEF RocInv, RocCallInv
<1>10. DispatchInv'
  BY <1>3, <1>5, DispatchesStay DEF RocInv
<1>11. ConfigInv' /\ TurnInv'
  BY <1>3, ConfigKept, TurnKept DEF RocInv
<1> QED
  BY <1>3, <1>6, <1>7, <1>8, <1>9, <1>10, <1>11, NoneOk, RocKept

LEMMA RocCallOf ==
    ASSUME NEW t, Roc!InCall(t)
    PROVE  Roc!CallOf(t) \in DOMAIN calls /\ calls[Roc!CallOf(t)].thread = t /\ ~calls[Roc!CallOf(t)].exited
BY DEF Roc!InCall, Roc!CallOf

\* What a call does but return and be retired.
LEMMA RocCopy ==
    ASSUME RocInv, NEW c \in DOMAIN calls, Roc!CompleteCopy(c)
    PROVE  RocInv'
<1>1. PICK call, r : call = [calls[c] EXCEPT !.copying = FALSE] /\ r = [kind |-> "copy", corr |-> c]
  OBVIOUS
<1>2. /\ calls' = [calls EXCEPT ![c] = call] /\ Roc!Emplace(calls[c].traced, <<r>>)
      /\ UNCHANGED <<dispatches, counterConfigs, dispatchCount, pending, tables, idsFrom, storageNow>>
  BY <1>1 DEF Roc!CompleteCopy, Roc!configVars, Roc!rowVars
<1>3. calls[c] \in RocCalls /\ RocCallInv
  BY RocElements DEF RocInv
<1>4. call \in RocCalls /\ call.api = calls[c].api /\ call.retired = calls[c].retired /\ call.exited = calls[c].exited
  BY <1>1, <1>3 DEF RocCalls
<1>5. /\ RocCallInv' /\ DOMAIN calls' = DOMAIN calls /\ calls'[c] = call
      /\ \A e \in DOMAIN calls : e # c => calls'[e] = calls[e]
  <2>1. call.retired => call.exited
    BY <1>3, <1>4 DEF RocCallInv
  <2> QED
    BY <1>2, <1>3, <1>4, <2>1, CallMoves
<1>6. PICK recs : Brings(recs) /\ \A j \in DOMAIN recs : recs[j] = r
  <2>1. BufferInv
    BY DEF RocInv
  <2>2. \E recs : Brings(recs) /\ \A j \in DOMAIN recs :
            calls[c].traced /\ j = 1 /\ recs[1] = r /\ 1 \in DOMAIN recs
    BY <1>2, <2>1, EmplaceOne
  <2> QED
    BY <2>2
<1>7. r.kind = "copy" /\ r.corr = c
  BY <1>1
<1>8. RecordsOk(recs)
  <2>1. RecordOk(r)'
    BY <1>5, <1>7 DEF RecordOk
  <2> QED
    BY <1>6, <1>7, <2>1, OneOk
<1>9. CallsGrow(recs)
  BY <1>4, <1>5 DEF CallsGrow
<1>10. DispatchesGrow(recs)
  BY <1>2, <1>6, <1>7, DispatchesSame
<1>11. DispatchInv' /\ ConfigInv' /\ TurnInv'
  BY <1>2, <1>5, DispatchesStay, ConfigKept, TurnKept DEF RocInv
<1> QED
  BY <1>2, <1>5, <1>6, <1>8, <1>9, <1>10, <1>11, RocKept

LEMMA RocApiExit ==
    ASSUME RocInv, NEW t, Roc!ApiExit(t)
    PROVE  RocInv'
<1>1. PICK c : c = Roc!CallOf(t) /\ c \in DOMAIN calls /\ ~calls[c].exited
  BY RocCallOf DEF Roc!ApiExit
<1>2. PICK call, traced, r :
          /\ call = [calls[c] EXCEPT !.exited = TRUE]
          /\ traced = (calls[c].traced /\ calls[c].api \in Roc!allEnabled)
          /\ r = [kind |-> "api", corr |-> c, api |-> calls[c].api]
  OBVIOUS
<1>3. /\ calls' = [calls EXCEPT ![c] = call] /\ Roc!Emplace(traced, <<r>>)
      /\ UNCHANGED <<dispatches, counterConfigs, dispatchCount, pending, tables, idsFrom, storageNow>>
  BY <1>1, <1>2 DEF Roc!ApiExit, Roc!configVars, Roc!rowVars
<1>4. calls[c] \in RocCalls /\ RocCallInv
  BY <1>1, RocElements DEF RocInv
<1>5. call \in RocCalls /\ call.api = calls[c].api /\ call.exited /\ ~call.retired
  <2>1. ~calls[c].retired
    BY <1>1, <1>4 DEF RocCallInv
  <2> QED
    BY <1>2, <1>4, <2>1 DEF RocCalls
<1>6. /\ RocCallInv' /\ DOMAIN calls' = DOMAIN calls /\ calls'[c] = call
      /\ \A e \in DOMAIN calls : e # c => calls'[e] = calls[e]
  BY <1>1, <1>3, <1>4, <1>5, CallMoves
<1>7. PICK recs : Brings(recs) /\ \A j \in DOMAIN recs : recs[j] = r
  <2>1. BufferInv
    BY DEF RocInv
  <2>2. \E recs : Brings(recs) /\ \A j \in DOMAIN recs :
            traced /\ j = 1 /\ recs[1] = r /\ 1 \in DOMAIN recs
    BY <1>3, <2>1, EmplaceOne
  <2> QED
    BY <2>2
<1>8. r.kind = "api" /\ r.corr = c /\ r.api = calls[c].api
  BY <1>2
<1>9. RecordsOk(recs)
  <2>1. RecordOk(r)' /\ ~calls'[r.corr].retired
    BY <1>1, <1>5, <1>6, <1>8 DEF RecordOk
  <2> QED
    BY <1>7, <1>8, <2>1, OneOk
<1>10. CallsGrow(recs)
  BY <1>5, <1>6 DEF CallsGrow
<1>11. DispatchesGrow(recs)
  BY <1>3, <1>7, <1>8, DispatchesSame
<1>12. DispatchInv' /\ ConfigInv' /\ TurnInv'
  BY <1>3, <1>6, DispatchesStay, ConfigKept, TurnKept DEF RocInv
<1> QED
  BY <1>3, <1>6, <1>7, <1>9, <1>10, <1>11, <1>12, RocKept

LEMMA RocRetire ==
    ASSUME RocInv, NEW c \in DOMAIN calls, Roc!Retire(c)
    PROVE  RocInv'
<1>1. PICK call, r : call = [calls[c] EXCEPT !.retired = TRUE] /\ r = Retirement(c)
  OBVIOUS
<1>2. /\ calls' = [calls EXCEPT ![c] = call] /\ buffer' = buffer \o <<r>> /\ calls[c].exited
      /\ UNCHANGED <<dispatches, counterConfigs, dispatchCount, pending, tables, idsFrom, storageNow>>
  BY <1>1 DEF Roc!Retire, Roc!Emplace, Roc!configVars, Roc!rowVars, Retirement
<1>3. calls[c] \in RocCalls /\ RocCallInv
  BY RocElements DEF RocInv
<1>4. call \in RocCalls /\ call.api = calls[c].api /\ call.exited
  BY <1>1, <1>2, <1>3 DEF RocCalls
<1>5. /\ RocCallInv' /\ DOMAIN calls' = DOMAIN calls /\ calls'[c] = call
      /\ \A e \in DOMAIN calls : e # c => calls'[e] = calls[e]
  BY <1>2, <1>3, <1>4, CallMoves
<1>6. PICK recs : Brings(recs) /\ 1 \in DOMAIN recs /\ \A j \in DOMAIN recs : recs[j] = r
  <2>1. PICK recs : recs = <<r>>
    OBVIOUS
  <2>2. recs \in Seq({r}) /\ recs[1] = r /\ DOMAIN recs = {1}
    <3>1. recs[1] = r /\ Len(recs) = 1 /\ DOMAIN recs = 1 .. 1
      BY <2>1
    <3>2. \A k \in 1 .. 1 : k = 1
      OBVIOUS
    <3>3. recs \in Seq({r})
      BY <2>1
    <3> QED
      BY <3>1, <3>2, <3>3
  <2>3. BufferInv
    BY DEF RocInv
  <2>4. Brings(recs)
    BY <1>2, <2>1, <2>2, <2>3, EmplaceAll
  <2> QED
    BY <2>2, <2>4
<1>7. r.kind = "retire" /\ r.corr = c
  BY <1>1 DEF Retirement
<1>8. RecordsOk(recs)
  <2>1. RecordOk(r)'
    BY <1>5, <1>7 DEF RecordOk
  <2> QED
    BY <1>6, <1>7, <2>1, OneOk
<1>9. CallsGrow(recs)
  <2>1. \E j \in DOMAIN recs : recs[j] = Retirement(c)
    BY <1>1, <1>6
  <2> QED
    BY <1>4, <1>5, <2>1 DEF CallsGrow
<1>10. DispatchesGrow(recs)
  BY <1>2, <1>6, <1>7, DispatchesSame
<1>11. DispatchInv' /\ ConfigInv' /\ TurnInv'
  BY <1>2, <1>5, DispatchesStay, ConfigKept, TurnKept DEF RocInv
<1> QED
  BY <1>2, <1>5, <1>6, <1>8, <1>9, <1>10, <1>11, RocKept

LEMMA RocOther ==
    ASSUME RocInv, NEW kind \in {"scratch", "kfd"}, Roc!OtherRecord(kind)
    PROVE  RocInv'
<1>0. PICK r : r = [kind |-> kind]
  OBVIOUS
<1>1. r.kind = kind /\ (r.kind = "scratch" \/ r.kind = "kfd")
  BY <1>0
<1>2. /\ Roc!Emplace(TRUE, <<r>>)
      /\ UNCHANGED <<calls, dispatches, counterConfigs, dispatchCount, pending, tables, idsFrom, storageNow>>
  BY <1>0 DEF Roc!OtherRecord, Roc!configVars, Roc!rowVars
<1>3. PICK recs : Brings(recs) /\ \A j \in DOMAIN recs : recs[j] = r
  <2>1. BufferInv
    BY DEF RocInv
  <2>2. \E recs : Brings(recs) /\ \A j \in DOMAIN recs : TRUE /\ j = 1 /\ recs[1] = r /\ 1 \in DOMAIN recs
    BY <1>2, <2>1, EmplaceOne
  <2> QED
    BY <2>2
<1>4. RecordsOk(recs)
  <2>1. RecordOk(r)'
    BY <1>1 DEF RecordOk
  <2> QED
    BY <1>1, <1>3, <2>1, OneOk
<1>5. CallsGrow(recs)
  BY <1>2, CallsSame
<1>6. DispatchesGrow(recs)
  BY <1>1, <1>2, <1>3, DispatchesSame
<1>7. DispatchInv' /\ ConfigInv' /\ TurnInv'
  BY <1>2, DispatchesStay, ConfigKept, TurnKept DEF RocInv
<1>8. RocCallInv'
  BY <1>2 DEF RocInv, RocCallInv
<1> QED
  BY <1>2, <1>3, <1>4, <1>5, <1>6, <1>7, <1>8, RocKept

LEMMA RocEnqueue ==
    ASSUME RocInv, NEW t, NEW k \in Roc!Kernels, NEW a \in Agents, Roc!Enqueue(t, k, a)
    PROVE  RocInv'
<1>1. PICK c : c = Roc!CallOf(t) /\ c \in DOMAIN calls
  BY RocCallOf DEF Roc!Enqueue
<1>2. PICK state : state = (IF CollectCounters /\ calls[c].traced THEN "new" ELSE "queued")
  OBVIOUS
<1>3. PICK e : e = [corr |-> c, kernel |-> k, agent |-> a, set |-> 0, counted |-> FALSE, at |-> state]
  OBVIOUS
<1>4. /\ dispatches' = Append(dispatches, e)
      /\ UNCHANGED <<calls, counterConfigs, dispatchCount, buffer, pending, tables, idsFrom, storageNow>>
  BY <1>1, <1>2, <1>3 DEF Roc!Enqueue, Roc!configVars, Roc!rowVars
<1>5. e \in RocDispatches /\ e.set = 0 /\ ~e.counted /\ e.corr = c
  <2>1. c \in Nat
    BY <1>1, RocElements
  <2>2. state \in {"new", "queued", "done"}
    BY <1>2
  <2> QED
    BY <1>3, <2>1, <2>2 DEF RocDispatches
<1>6. PICK n : n = Len(dispatches) + 1
  OBVIOUS
<1>7. /\ dispatches' \in Seq(RocDispatches) /\ DOMAIN dispatches' = DOMAIN dispatches \cup {n}
      /\ n \notin DOMAIN dispatches
      /\ dispatches'[n] = e /\ \A d \in DOMAIN dispatches : dispatches'[d] = dispatches[d]
  BY <1>4, <1>5, <1>6, Appended DEF RocInv, DispatchInv
<1>8. DOMAIN <<>> = {}
  OBVIOUS
<1>9. Brings(<<>>)
  BY <1>4, BringsNothing DEF RocInv
<1>10. CallsGrow(<<>>)
  BY <1>4, CallsSame
<1>11. DispatchesGrow(<<>>)
  BY <1>7, <1>8 DEF DispatchesGrow, Seen
<1>12. RocCallInv'
  BY <1>4 DEF RocInv, RocCallInv
<1>13. DispatchInv'
  <2>1. DispatchInv
    BY DEF RocInv
  <2> QED
    BY <1>1, <1>4, <1>5, <1>7, <2>1 DEF DispatchInv, IsSetOf
<1>14. ConfigInv'
  BY <1>4, ConfigKept DEF RocInv
<1>15. TurnInv'
  <2> SUFFICES ASSUME NEW name \in DOMAIN dispatchCount, NEW b \in Agents, OnAgent(name, b)',
                      NEW i \in DOMAIN SetsOf[b]
               PROVE  Cardinality(UsedBy(name, SetsOf[b][i]))' = Turns(dispatchCount[name], i, Len(SetsOf[b]))
    BY <1>4 DEF TurnInv, Turns
  <2>1. OnAgent(name, b)
    BY <1>7 DEF OnAgent
  <2>2. SetsOf[b][i] # 0
    BY SetsAssumption, ElementOfSeq, LenProperties
  <2>3. UsedBy(name, SetsOf[b][i])' = UsedBy(name, SetsOf[b][i])
    BY <1>5, <1>7, <2>2 DEF UsedBy
  <2>4. Cardinality(UsedBy(name, SetsOf[b][i])) = Turns(dispatchCount[name], i, Len(SetsOf[b]))
    BY <2>1 DEF RocInv, TurnInv
  <2> QED
    BY <2>3, <2>4
<1> QED
  BY <1>4, <1>9, <1>10, <1>11, <1>12, <1>13, <1>14, <1>15, NoneOk, RocKept

\* A dispatch gets on; its counters are read at most once.
LEMMA DispatchMoves ==
    ASSUME RocInv, NEW d \in DOMAIN dispatches, NEW e \in RocDispatches,
           dispatches' = [dispatches EXCEPT ![d] = e]
    PROVE  /\ dispatches' \in Seq(RocDispatches) /\ DOMAIN dispatches' = DOMAIN dispatches
           /\ dispatches'[d] = e /\ \A f \in DOMAIN dispatches : f # d => dispatches'[f] = dispatches[f]
<1>1. dispatches \in Seq(RocDispatches) /\ DOMAIN dispatches = 1 .. Len(dispatches)
  BY LenProperties DEF RocInv, DispatchInv
<1>2. /\ dispatches' \in Seq(RocDispatches) /\ Len(dispatches') = Len(dispatches)
      /\ \A f \in 1 .. Len(dispatches) : dispatches'[f] = IF f = d THEN e ELSE dispatches[f]
  BY <1>1, ExceptSeq
<1>3. DOMAIN dispatches' = DOMAIN dispatches
  BY <1>1, <1>2, LenProperties
<1> QED
  BY <1>1, <1>2, <1>3

LEMMA TurnSame ==
    ASSUME TurnInv, DOMAIN dispatches' = DOMAIN dispatches, UNCHANGED dispatchCount,
           \A d \in DOMAIN dispatches : /\ dispatches'[d].kernel = dispatches[d].kernel
                                        /\ dispatches'[d].agent = dispatches[d].agent
                                        /\ dispatches'[d].set = dispatches[d].set
    PROVE  TurnInv'
<1>1. ASSUME NEW name, NEW a, OnAgent(name, a)' PROVE OnAgent(name, a)
  BY <1>1 DEF OnAgent
<1>2. \A name, s : UsedBy(name, s)' = UsedBy(name, s)
  BY DEF UsedBy
<1> QED
  BY <1>1, <1>2 DEF TurnInv, Turns

LEMMA RocComplete ==
    ASSUME RocInv, NEW d \in DOMAIN dispatches, Roc!Complete(d)
    PROVE  RocInv'
<1>1. PICK e, r : /\ e = [dispatches[d] EXCEPT !.at = "done"]
                  /\ r = [kind |-> "dispatch", corr |-> dispatches[d].corr, disp |-> d]
  OBVIOUS
<1>2. PICK traced : traced = calls[dispatches[d].corr].traced
  OBVIOUS
<1>3. /\ dispatches' = [dispatches EXCEPT ![d] = e] /\ dispatches[d].at = "queued"
      /\ Roc!Emplace(traced, <<r>>)
      /\ UNCHANGED <<calls, counterConfigs, dispatchCount, pending, tables, idsFrom, storageNow>>
  BY <1>1, <1>2 DEF Roc!Complete, Roc!configVars, Roc!rowVars
<1>4. dispatches[d] \in RocDispatches /\ DispatchInv
  BY RocElements DEF RocInv
<1>5. /\ e \in RocDispatches /\ e.corr = dispatches[d].corr /\ e.kernel = dispatches[d].kernel
      /\ e.agent = dispatches[d].agent /\ e.set = dispatches[d].set /\ e.counted = dispatches[d].counted
      /\ e.at = "done"
  BY <1>1, <1>4 DEF RocDispatches
<1>6. /\ dispatches' \in Seq(RocDispatches) /\ DOMAIN dispatches' = DOMAIN dispatches
      /\ dispatches'[d] = e /\ \A f \in DOMAIN dispatches : f # d => dispatches'[f] = dispatches[f]
  BY <1>3, <1>5, DispatchMoves
<1>7. PICK recs : Brings(recs) /\ \A j \in DOMAIN recs : recs[j] = r
  <2>1. BufferInv
    BY DEF RocInv
  <2>2. \E recs : Brings(recs) /\ \A j \in DOMAIN recs :
            traced /\ j = 1 /\ recs[1] = r /\ 1 \in DOMAIN recs
    BY <1>3, <2>1, EmplaceOne
  <2> QED
    BY <2>2
<1>8. r.kind = "dispatch" /\ r.corr = dispatches[d].corr /\ r.disp = d
  BY <1>1
<1>9. RecordsOk(recs)
  <2>1. r.corr \in DOMAIN calls' /\ Seen(r.disp)'
    BY <1>3, <1>4, <1>5, <1>6, <1>8 DEF DispatchInv, Seen
  <2>2. RecordOk(r)'
    BY <1>8, <2>1 DEF RecordOk
  <2> QED
    BY <1>7, <1>8, <2>2, OneOk
<1>10. CallsGrow(recs)
  BY <1>3, CallsSame
<1>11. DispatchesGrow(recs)
  BY <1>5, <1>6, <1>7, <1>8 DEF DispatchesGrow, Seen
<1>12. RocCallInv'
  BY <1>3 DEF RocInv, RocCallInv
<1>13. DispatchInv'
  BY <1>3, <1>4, <1>5, <1>6 DEF DispatchInv, IsSetOf
<1>14. ConfigInv'
  BY <1>3, ConfigKept DEF RocInv
<1>15. TurnInv'
  BY <1>3, <1>5, <1>6, TurnSame DEF RocInv
<1> QED
  BY <1>3, <1>7, <1>9, <1>10, <1>11, <1>12, <1>13, <1>14, <1>15, RocKept

ValuesOf(d, recs) ==
    /\ 1 \in DOMAIN recs /\ recs[1].kind = "header" /\ recs[1].disp = d
    /\ \A j \in DOMAIN recs :
           j > 1 => /\ recs[j].kind = "value" /\ recs[j].disp = d /\ recs[j].part \in Nat
                    /\ PartOf(d, recs[j].part, recs[j].counter)

LEMMA ValuesAre ==
    ASSUME NEW d, Len(CountersOf[dispatches[d].set]) \in Nat,
           DOMAIN CountersOf[dispatches[d].set] = 1 .. Len(CountersOf[dispatches[d].set]),
           NEW recs, recs = <<[kind |-> "header", disp |-> d]>> \o Roc!Values(d)
    PROVE  (\E S : recs \in Seq(S)) /\ ValuesOf(d, recs)
<1>1. PICK n, cs : n = Len(CountersOf[dispatches[d].set]) /\ cs = CountersOf[dispatches[d].set]
  OBVIOUS
<1>2. n \in Nat /\ DOMAIN cs = 1 .. n
  BY <1>1
<1>3. PICK vs : vs = [i \in 1 .. n |-> [kind |-> "value", disp |-> d, counter |-> cs[i], part |-> i]]
  OBVIOUS
<1>4. Roc!Values(d) = vs
  BY <1>1, <1>2, <1>3 DEF Roc!Values
<1>5. PICK h, V : h = [kind |-> "header", disp |-> d] /\ V = {vs[i] : i \in 1 .. n} \cup {h}
  OBVIOUS
<1>6. vs \in [1 .. n -> V]
  BY <1>3, <1>5
<1>7. vs \in Seq(V) /\ Len(vs) = n
  BY <1>2, <1>6, SeqDef, LenProperties
<1>14. PICK hs : hs = <<h>>
  OBVIOUS
<1>8. hs \in Seq(V) /\ Len(hs) = 1 /\ hs[1] = h
  <2>1. h \in V
    BY <1>5
  <2> QED
    BY <1>14, <2>1
<1>9. recs = hs \o vs
  BY <1>4, <1>5, <1>14
<1>10. /\ recs \in Seq(V) /\ Len(recs) = 1 + n /\ recs[1] = h
       /\ \A j \in 1 .. 1 + n : j > 1 => recs[j] = vs[j - 1]
  <2>1. /\ hs \o vs \in Seq(V) /\ Len(hs \o vs) = 1 + n
        /\ \A i \in 1 .. 1 + n : (hs \o vs)[i] = IF i <= 1 THEN hs[i] ELSE vs[i - 1]
    <3>1. /\ hs \o vs \in Seq(V) /\ Len(hs \o vs) = Len(hs) + Len(vs)
          /\ \A i \in 1 .. Len(hs) + Len(vs) :
                 (hs \o vs)[i] = IF i <= Len(hs) THEN hs[i] ELSE vs[i - Len(hs)]
      BY <1>7, <1>8, ConcatProperties
    <3> QED
      BY <1>7, <1>8, <3>1
  <2>2. 1 \in 1 .. 1 + n
    BY <1>2
  <2>3. hs \o vs \in Seq(V) /\ Len(hs \o vs) = 1 + n /\ (hs \o vs)[1] = h
    BY <1>8, <2>1, <2>2
  <2>4. \A j \in 1 .. 1 + n : j > 1 => (hs \o vs)[j] = vs[j - 1]
    BY <1>2, <2>1
  <2> QED
    BY <1>9, <2>3, <2>4, Zenon
<1>11. DOMAIN recs = 1 .. 1 + n /\ 1 \in 1 .. 1 + n
  BY <1>2, <1>10, LenProperties
<1>12. ASSUME NEW j \in DOMAIN recs, j > 1
       PROVE  /\ recs[j].kind = "value" /\ recs[j].disp = d /\ recs[j].part \in Nat
              /\ PartOf(d, recs[j].part, recs[j].counter)
  <2>1. j - 1 \in 1 .. n /\ recs[j] = vs[j - 1]
    BY <1>2, <1>10, <1>11, <1>12
  <2>2. recs[j] = [kind |-> "value", disp |-> d, counter |-> cs[j - 1], part |-> j - 1]
    BY <1>3, <2>1
  <2> QED
    BY <1>1, <2>1, <2>2 DEF PartOf
<1>13. recs[1].kind = "header" /\ recs[1].disp = d
  BY <1>5, <1>10
<1> QED
  BY <1>10, <1>11, <1>12, <1>13 DEF ValuesOf
LEMMA RocRead ==
    ASSUME RocInv, NEW d \in DOMAIN dispatches, Roc!ReadCounters(d)
    PROVE  RocInv'
<1>1. PICK e, recs : /\ e = [dispatches[d] EXCEPT !.counted = TRUE]
                     /\ recs = <<[kind |-> "header", disp |-> d]>> \o Roc!Values(d)
  OBVIOUS
<1>2. /\ dispatches' = [dispatches EXCEPT ![d] = e] /\ buffer' = buffer \o recs
      /\ dispatches[d].at \in {"queued", "done"} /\ dispatches[d].set # 0 /\ ~dispatches[d].counted
      /\ UNCHANGED <<calls, counterConfigs, dispatchCount, pending, tables, idsFrom, storageNow>>
  BY <1>1 DEF Roc!ReadCounters, Roc!Emplace, Roc!configVars, Roc!rowVars
<1>3. dispatches[d] \in RocDispatches /\ DispatchInv /\ BufferInv
  BY RocElements DEF RocInv
<1>4. /\ e \in RocDispatches /\ e.corr = dispatches[d].corr /\ e.kernel = dispatches[d].kernel
      /\ e.agent = dispatches[d].agent /\ e.set = dispatches[d].set /\ e.at = dispatches[d].at
      /\ e.counted
  BY <1>1, <1>3 DEF RocDispatches
<1>5. /\ dispatches' \in Seq(RocDispatches) /\ DOMAIN dispatches' = DOMAIN dispatches
      /\ dispatches'[d] = e /\ \A f \in DOMAIN dispatches : f # d => dispatches'[f] = dispatches[f]
  BY <1>2, <1>4, DispatchMoves
<1>6. (\E S : recs \in Seq(S)) /\ ValuesOf(d, recs)
  <2>1. PICK cs : cs = CountersOf[dispatches[d].set] /\ Len(cs) \in Nat /\ DOMAIN cs = 1 .. Len(cs)
    <3>1. PICK a, i : a \in Agents /\ i \in DOMAIN SetsOf[a] /\ SetsOf[a][i] = dispatches[d].set
      <4>1. PICK a : a = dispatches[d].agent /\ a \in Agents
        BY <1>3 DEF RocDispatches
      <4>2. IsSetOf(dispatches[d].set, a)
        BY <1>2, <1>3, <4>1 DEF DispatchInv
      <4> QED
        BY <4>1, <4>2 DEF IsSetOf
    <3>2. i \in 1 .. Len(SetsOf[a])
      BY <3>1, SetsAssumption, LenProperties
    <3> QED
      BY <3>1, <3>2, SetsAssumption
  <2> QED
    BY <1>1, <2>1, ValuesAre
<1>7. Brings(recs)
  BY <1>2, <1>3, <1>6, EmplaceAll
<1>8. Len(recs) \in Nat /\ DOMAIN recs = 1 .. Len(recs)
  BY <1>7 DEF Brings
<1>9. Seen(d)'
  BY <1>2, <1>4, <1>5 DEF Seen
<1>10. RecordsOk(recs)
  <2>1. ASSUME NEW j \in DOMAIN recs, j = 1 PROVE RecordOk(recs[j])'
    BY <1>4, <1>5, <1>6, <1>9, <2>1 DEF ValuesOf, RecordOk
  <2>2. ASSUME NEW j \in DOMAIN recs, j > 1 PROVE RecordOk(recs[j])' /\ Follows(recs[j - 1], recs[j])
    <3>1. recs[j].kind = "value" /\ recs[j].disp = d /\ recs[j].part \in Nat /\ PartOf(d, recs[j].part, recs[j].counter)
      BY <1>6, <2>2 DEF ValuesOf
    <3>2. PartOf(d, recs[j].part, recs[j].counter)'
      BY <1>4, <1>5, <3>1 DEF PartOf
    <3>3. RecordOk(recs[j])'
      BY <1>9, <3>1, <3>2 DEF RecordOk
    <3>4. recs[j - 1].kind \in {"header", "value"} /\ recs[j - 1].disp = d
      <4>1. j - 1 \in DOMAIN recs /\ (j - 1 = 1 \/ j - 1 > 1)
        BY <1>8, <2>2
      <4> QED
        BY <1>6, <4>1 DEF ValuesOf
    <3> QED
      BY <3>1, <3>3, <3>4 DEF Follows
  <2>3. ASSUME NEW j \in DOMAIN recs PROVE (j = 1 \/ j > 1) /\ recs[j].kind # "api"
    <3>1. j = 1 \/ j > 1
      BY <1>8
    <3> QED
      BY <1>6, <3>1 DEF ValuesOf
  <2>4. ASSUME NEW j \in DOMAIN recs, recs[j].kind = "value" PROVE j > 1
    BY <1>6, <2>3, <2>4 DEF ValuesOf
  <2> QED
    BY <2>1, <2>2, <2>3, <2>4 DEF RecordsOk
<1>11. CallsGrow(recs)
  BY <1>2, CallsSame
<1>12. DispatchesGrow(recs)
  <2>1. ASSUME NEW j \in DOMAIN recs PROVE recs[j].disp = d
    <3>1. j = 1 \/ j > 1
      BY <1>8
    <3> QED
      BY <1>6, <3>1 DEF ValuesOf
  <2> QED
    BY <1>2, <1>4, <1>5, <2>1 DEF DispatchesGrow, Seen
<1>13. RocCallInv'
  BY <1>2 DEF RocInv, RocCallInv
<1>14. DispatchInv'
  <2>1. ASSUME NEW f \in DOMAIN dispatches
        PROVE  /\ dispatches'[f].corr \in DOMAIN calls'
               /\ dispatches'[f].set # 0 => IsSetOf(dispatches'[f].set, dispatches'[f].agent)
               /\ dispatches'[f].at = "new" => dispatches'[f].set = 0 /\ ~dispatches'[f].counted
    <3>1. CASE f = d
      BY <1>2, <1>3, <1>4, <1>5, <3>1 DEF DispatchInv
    <3>2. CASE f # d
      BY <1>2, <1>3, <1>5, <3>2 DEF DispatchInv
    <3> QED
      BY <3>1, <3>2
  <2> QED
    BY <1>5, <2>1 DEF DispatchInv, IsSetOf
<1>15. ConfigInv'
  BY <1>2, ConfigKept DEF RocInv
<1>16. TurnInv'
  BY <1>2, <1>4, <1>5, TurnSame DEF RocInv
<1> QED
  BY <1>2, <1>7, <1>10, <1>11, <1>12, <1>13, <1>14, <1>15, <1>16, RocKept

LEMMA RocReset ==
    ASSUME RocInv, Roc!reset
    PROVE  RocInv'
<1>1. /\ storageNow' = 2 /\ idsFrom' = 0 /\ buffer = <<>>
      /\ \A d \in DOMAIN dispatches : dispatches[d].set # 0 => dispatches[d].counted
      /\ UNCHANGED <<calls, dispatches, counterConfigs, dispatchCount, buffer, pending, tables>>
  BY DEF Roc!reset, Roc!Quiet, Roc!IdsAfterReset, Roc!contextVars, Roc!appVars, Roc!configVars
<1>2. RocCallInv' /\ DispatchInv' /\ ConfigInv' /\ TurnInv'
  <2>1. RocCallInv'
    BY <1>1 DEF RocInv, RocCallInv
  <2>2. DispatchInv'
    BY <1>1, DispatchesStay DEF RocInv
  <2> QED
    BY <1>1, <2>1, <2>2, ConfigKept, TurnKept DEF RocInv
<1>3. IdsInv'
  BY <1>1 DEF IdsInv
<1>4. BufferInv'
  <2>1. BufferInv
    BY DEF RocInv
  <2>2. \A r : RecordOk(r) => RecordOk(r)'
    BY <1>1 DEF RecordOk, PartOf, Seen
  <2> QED
    BY <1>1, <2>1, <2>2 DEF BufferInv, RecordOk, PartOf, Seen
<1>5. StateOk(Start, 0)'
  <2>1. PICK st : st = Start
    OBVIOUS
  <2>2. st = Start' /\ StateOk(st, 0) /\ st.ctrOp = 0 /\ st.slots = <<>>
    BY <1>1, <2>1 DEF RocInv, Start
  <2>3. DOMAIN buffer = {}
    BY <1>1
  <2>4. PendOk(st.pend.kernels, st.pend.copies, 0)'
    BY <1>1, <2>2 DEF StateOk, PendOk, RetireComes
  <2>5. RowsOk(st.rows.ops, st.rows.kernels, st.rows.copies)'
    BY <1>1, <2>2 DEF StateOk, RowsOk
  <2>6. OpIdsOk(st.pend.opIds, st.rows.ops, st.rows.counters, st.ctrOp, 0)'
    <3>1. ASSUME NEW d, Seen(d) PROVE ~Unread(d, 0)'
      BY <1>1, <2>3, <3>1 DEF Unread, Seen
    <3>2. \A d : Seen(d)' = Seen(d)
      BY <1>1 DEF Seen
    <3> QED
      BY <2>2, <3>1, <3>2 DEF StateOk, OpIdsOk
  <2>7. SlotsOk(st.ctrOp, st.slots, st.rows.ops, st.rows.counters, 0)'
    BY <2>2 DEF SlotsOk
  <2>8. CountersOk(st.rows.counters, st.rows.ops)'
    BY <1>1, <2>2 DEF StateOk, CountersOk, CounterOk, SlotOk, PartOf, Seen
  <2>9. StateOk(st, 0)'
    BY <2>2, <2>4, <2>5, <2>6, <2>7, <2>8 DEF StateOk
  <2> QED
    BY <2>2, <2>9 DEF StateOk
<1> QED
  BY <1>2, <1>3, <1>4, <1>5 DEF RocInv

LEMMA TurnMoves ==
    ASSUME NEW m \in Nat, m > 0, NEW n \in Nat, NEW i \in 1 .. m
    PROVE  Turns(n + 1, i, m) = IF i = (n % m) + 1 THEN Turns(n, i, m) + 1 ELSE Turns(n, i, m)
BY DEF Turns

LEMMA TurnsClose ==
    ASSUME NEW m \in Nat, m > 0, NEW n \in Nat, NEW i \in 1 .. m, NEW j \in 1 .. m
    PROVE  Turns(n, i, m) - Turns(n, j, m) <= 1
BY DEF Turns

LEMMA UsedFinite == ASSUME RocInv, NEW name, NEW s PROVE IsFiniteSet(UsedBy(name, s))
<1>1. PICK D : D = 1 .. Len(dispatches) /\ IsFiniteSet(D)
  BY RocElements, FS_Interval
<1>2. UsedBy(name, s) \subseteq D
  BY <1>1, RocElements DEF UsedBy
<1> QED
  BY <1>1, <1>2, FS_Subset

\* A dispatch gets a set: its own agent's next one, or none.
LEMMA TurnTaken ==
    ASSUME RocInv, NEW d \in DOMAIN dispatches, NEW key, key = NameOf[dispatches[d].kernel],
           NEW a \in Agents, a = dispatches[d].agent, NEW set,
           NEW counted, NEW n, n = dispatchCount[key],
           dispatches[d].set = 0, dispatches[d].kernel \in Roc!Kernels,
           DOMAIN dispatches' = DOMAIN dispatches,
           \A e \in DOMAIN dispatches : /\ dispatches'[e].kernel = dispatches[e].kernel
                                        /\ dispatches'[e].agent = dispatches[e].agent
                                        /\ e # d => dispatches'[e].set = dispatches[e].set,
           dispatches'[d].set = set,
           counted => /\ SetsOf[a] # <<>> /\ set = SetsOf[a][(n % Len(SetsOf[a])) + 1]
                      /\ dispatchCount' = [dispatchCount EXCEPT ![key] = n + 1],
           ~counted => set = 0 /\ dispatchCount' = dispatchCount
    PROVE  TurnInv'
<1>1. ConfigInv /\ TurnInv
  BY DEF RocInv
<1>2. key \in DOMAIN dispatchCount /\ n \in Nat /\ DOMAIN dispatchCount' = DOMAIN dispatchCount
  BY <1>1 DEF ConfigInv
<1> SUFFICES ASSUME NEW name \in DOMAIN dispatchCount, NEW b \in Agents, OnAgent(name, b)',
                    NEW i \in DOMAIN SetsOf[b]
             PROVE  Cardinality(UsedBy(name, SetsOf[b][i]))' = Turns(dispatchCount'[name], i, Len(SetsOf[b]))
  BY <1>2 DEF TurnInv, Turns
<1>3. OnAgent(name, b)
  BY DEF OnAgent
<1>4. Cardinality(UsedBy(name, SetsOf[b][i])) = Turns(dispatchCount[name], i, Len(SetsOf[b]))
  BY <1>1, <1>3 DEF TurnInv
<1>5. PICK m, s : m = Len(SetsOf[b]) /\ s = SetsOf[b][i]
  OBVIOUS
<1>6. m \in Nat /\ i \in 1 .. m /\ m > 0 /\ s # 0
  BY <1>5, SetsAssumption, LenProperties, ElementOfSeq
<1>7. CASE ~counted \/ name # key
  <2>1. dispatchCount'[name] = dispatchCount[name]
    BY <1>2, <1>7
  <2>2. UsedBy(name, s)' = UsedBy(name, s)
    BY <1>6, <1>7 DEF UsedBy
  <2> QED
    BY <1>4, <1>5, <2>1, <2>2
<1>8. CASE counted /\ name = key
  <2>1. b = a
    BY <1>8 DEF OnAgent
  <2>2. dispatchCount'[name] = n + 1 /\ dispatchCount[name] = n
    BY <1>1, <1>2, <1>8 DEF ConfigInv
  <2>3. PICK turn : turn = (n % m) + 1 /\ turn \in 1 .. m /\ set = SetsOf[b][turn]
    <3>1. (n % m) + 1 \in 1 .. m
      BY <1>2, <1>6
    <3>2. set = SetsOf[b][(n % m) + 1]
      BY <1>5, <1>8, <2>1
    <3> QED
      BY <3>1, <3>2
  <2>4. Turns(n + 1, i, m) = IF i = turn THEN Turns(n, i, m) + 1 ELSE Turns(n, i, m)
    BY <1>2, <1>6, <2>3, TurnMoves
  <2>5. CASE i = turn
    <3>1. UsedBy(name, s)' = UsedBy(name, s) \cup {d} /\ d \notin UsedBy(name, s)
      <4>1. set = s /\ NameOf[dispatches'[d].kernel] = name /\ dispatches[d].set # s
        BY <1>5, <1>6, <1>8, <2>3, <2>5
      <4>2. d \in UsedBy(name, s)' /\ d \notin UsedBy(name, s)
        BY <4>1 DEF UsedBy
      <4>3. \A e : e # d => (e \in UsedBy(name, s)' <=> e \in UsedBy(name, s))
        BY DEF UsedBy
      <4> QED
        BY <4>2, <4>3
    <3>2. Cardinality(UsedBy(name, s) \cup {d}) = Cardinality(UsedBy(name, s)) + 1
      BY <3>1, UsedFinite, FS_AddElement
    <3>3. Cardinality(UsedBy(name, s)) = Turns(n, i, m)
      BY <1>4, <1>5, <2>2
    <3>4. Cardinality(UsedBy(name, s))' = Turns(n, i, m) + 1
      BY <3>1, <3>2, <3>3
    <3> QED
      BY <1>5, <2>2, <2>4, <2>5, <3>4
  <2>6. CASE i # turn
    <3>1. s # set
      <4>1. s = SetsOf[b][i] /\ set = SetsOf[b][turn] /\ i \in 1 .. Len(SetsOf[b]) /\ turn \in 1 .. Len(SetsOf[b])
        BY <1>5, <1>6, <2>3
      <4>2. \A k, l \in 1 .. Len(SetsOf[b]) : SetsOf[b][k] = SetsOf[b][l] => k = l
        BY SetsAssumption
      <4> QED
        BY <2>6, <4>1, <4>2
    <3>2. UsedBy(name, s)' = UsedBy(name, s)
      BY <1>6, <3>1 DEF UsedBy
    <3> QED
      BY <1>4, <1>5, <2>2, <2>4, <2>6, <3>2
  <2> QED
    BY <2>5, <2>6
<1> QED
  BY <1>7, <1>8

LEMMA RocConfigure ==
    ASSUME RocInv, NEW d \in DOMAIN dispatches, Roc!counter_dispatch_callback(d)
    PROVE  RocInv'
<1>1. PICK a, key : a = dispatches[d].agent /\ key = NameOf[dispatches[d].kernel]
  OBVIOUS
<1>2. PICK all : all = Roc!buildCounterConfigs(a)
  OBVIOUS
<1>3. PICK configs, n : configs = all[a] /\ n = dispatchCount[key]
  OBVIOUS
<1>4. PICK counted : counted = (configs # <<>> /\ dispatches[d].kernel \in registered)
  OBVIOUS
<1>5. PICK set : set = (IF counted THEN configs[(n % Len(configs)) + 1] ELSE 0)
  OBVIOUS
<1>6. /\ dispatches[d].at = "new" /\ counterConfigs' = all
      /\ dispatches' = [dispatches EXCEPT ![d].at = "queued", ![d].set = set]
      /\ dispatchCount' = IF counted THEN [dispatchCount EXCEPT ![key] = n + 1] ELSE dispatchCount
      /\ UNCHANGED <<calls, buffer, pending, tables, idsFrom, storageNow>>
  BY <1>1, <1>2, <1>3, <1>4, <1>5
     DEF Roc!counter_dispatch_callback, Roc!CountKey, Roc!CountAfter, Roc!rowVars
<1>7. dispatches[d] \in RocDispatches /\ DispatchInv /\ ConfigInv
  BY RocElements DEF RocInv
<1>8. a \in Agents /\ dispatches[d].kernel \in Roc!Kernels /\ dispatches[d].set = 0 /\ ~dispatches[d].counted
  BY <1>1, <1>6, <1>7 DEF RocDispatches, DispatchInv
<1>9. configs = SetsOf[a] /\ \A b \in DOMAIN all : all[b] = SetsOf[b]
  BY <1>1, <1>2, <1>3, <1>7 DEF ConfigInv, Roc!buildCounterConfigs, Roc!With
<1>10. key \in DOMAIN dispatchCount /\ n \in Nat
  BY <1>1, <1>3, <1>7, <1>8 DEF ConfigInv
<1>11. ASSUME counted PROVE \E i \in DOMAIN SetsOf[a] : SetsOf[a][i] = set
  <2>1. PICK m : m = Len(configs) /\ m \in Nat /\ m # 0 /\ DOMAIN configs = 1 .. m
    <3>1. configs \in Seq(Nat \ {0}) /\ configs # <<>>
      BY <1>4, <1>8, <1>9, <1>11, SetsAssumption
    <3> QED
      BY <3>1, LenProperties, EmptySeq
  <2>2. (n % m) + 1 \in 1 .. m
    BY <1>10, <2>1
  <2> QED
    BY <1>5, <1>9, <1>11, <2>1, <2>2
<1>12. set \in Nat
  BY <1>5, <1>8, <1>11, SetsAssumption, ElementOfSeq, LenProperties
<1>13. PICK e : e = [dispatches[d] EXCEPT !.at = "queued", !.set = set]
  OBVIOUS
<1>14. /\ e \in RocDispatches /\ e.corr = dispatches[d].corr /\ e.kernel = dispatches[d].kernel
       /\ e.agent = a /\ e.set = set /\ ~e.counted /\ e.at = "queued"
  BY <1>1, <1>7, <1>8, <1>12, <1>13 DEF RocDispatches
<1>15. dispatches' = [dispatches EXCEPT ![d] = e]
  BY <1>6, <1>13
<1>16. /\ dispatches' \in Seq(RocDispatches) /\ DOMAIN dispatches' = DOMAIN dispatches
       /\ dispatches'[d] = e /\ \A f \in DOMAIN dispatches : f # d => dispatches'[f] = dispatches[f]
  BY <1>14, <1>15, DispatchMoves
<1>17. DOMAIN <<>> = {}
  OBVIOUS
<1>18. Brings(<<>>)
  BY <1>6, BringsNothing DEF RocInv
<1>19. CallsGrow(<<>>)
  BY <1>6, CallsSame
<1>20. DispatchesGrow(<<>>)
  BY <1>6, <1>16, <1>17 DEF DispatchesGrow, Seen
<1>21. RocCallInv'
  BY <1>6 DEF RocInv, RocCallInv
<1>22. DispatchInv'
  <2>1. ASSUME NEW f \in DOMAIN dispatches
        PROVE  /\ dispatches'[f].corr \in DOMAIN calls'
               /\ dispatches'[f].set # 0 => IsSetOf(dispatches'[f].set, dispatches'[f].agent)
               /\ dispatches'[f].at = "new" => dispatches'[f].set = 0 /\ ~dispatches'[f].counted
    <3>1. CASE f = d
      <4>1. set # 0 => IsSetOf(set, a)
        BY <1>5, <1>11 DEF IsSetOf
      <4> QED
        BY <1>6, <1>7, <1>14, <1>16, <3>1, <4>1 DEF DispatchInv
    <3>2. CASE f # d
      BY <1>6, <1>7, <1>16, <3>2 DEF DispatchInv
    <3> QED
      BY <3>1, <3>2
  <2> QED
    BY <1>16, <2>1 DEF DispatchInv, IsSetOf
<1>23. ConfigInv'
  <2>1. dispatchCount' \in [{NameOf[k] : k \in Roc!Kernels} -> Nat]
    BY <1>6, <1>7, <1>10 DEF ConfigInv
  <2> QED
    BY <1>6, <1>9, <2>1 DEF ConfigInv
<1>24. TurnInv'
  <2>1. \A f \in DOMAIN dispatches : /\ dispatches'[f].kernel = dispatches[f].kernel
                                     /\ dispatches'[f].agent = dispatches[f].agent
                                     /\ f # d => dispatches'[f].set = dispatches[f].set
    BY <1>1, <1>14, <1>16
  <2>2. dispatches'[d].set = set /\ DOMAIN dispatches' = DOMAIN dispatches
    BY <1>14, <1>16
  <2>3. counted => /\ SetsOf[a] # <<>> /\ set = SetsOf[a][(n % Len(SetsOf[a])) + 1]
                   /\ dispatchCount' = [dispatchCount EXCEPT ![key] = n + 1]
    BY <1>4, <1>5, <1>6, <1>9
  <2>4. ~counted => set = 0 /\ dispatchCount' = dispatchCount
    BY <1>5, <1>6
  <2> QED
    BY <1>1, <1>3, <1>8, <2>1, <2>2, <2>3, <2>4, TurnTaken
<1> QED
  BY <1>6, <1>18, <1>19, <1>20, <1>21, <1>22, <1>23, <1>24, NoneOk, RocKept

LEMMA RocStep ==
    RocInv /\ [Roc!Next]_<<lifeVars, rowVars, callVars, rocVars>> => RocInv'
<1> SUFFICES ASSUME RocInv, [Roc!Next]_<<lifeVars, rowVars, callVars, rocVars>> PROVE RocInv'
  OBVIOUS
<1>1. CASE Roc!Application
  <2>1. ASSUME NEW t \in RocprofThreads, NEW api \in RocprofApis, Roc!ApiEnter(t, api) PROVE RocInv'
    BY <2>1, RocApiEnter
  <2>2. ASSUME NEW t \in RocprofThreads, NEW k \in Roc!Kernels, NEW a \in Agents, Roc!Enqueue(t, k, a)
        PROVE  RocInv'
    BY <2>2, RocEnqueue
  <2>3. ASSUME NEW t \in RocprofThreads, Roc!ApiExit(t) PROVE RocInv'
    BY <2>3, RocApiExit
  <2>4. ASSUME NEW d \in DOMAIN dispatches, Roc!counter_dispatch_callback(d) PROVE RocInv'
    BY <2>4, RocConfigure
  <2>5. ASSUME NEW d \in DOMAIN dispatches, Roc!Complete(d) PROVE RocInv'
    BY <2>5, RocComplete
  <2>6. ASSUME NEW d \in DOMAIN dispatches, Roc!ReadCounters(d) PROVE RocInv'
    BY <2>6, RocRead
  <2>7. ASSUME NEW c \in DOMAIN calls, Roc!CompleteCopy(c) PROVE RocInv'
    BY <2>7, RocCopy
  <2>8. ASSUME NEW c \in DOMAIN calls, Roc!Retire(c) PROVE RocInv'
    BY <2>8, RocRetire
  <2>9. ASSUME NEW k \in Roc!Kernels, Roc!RegisterKernel(k) PROVE RocInv'
    BY <2>9, RocStill DEF Roc!RegisterKernel, Roc!contextVars, Roc!configVars, Roc!rowVars
  <2>10. ASSUME NEW kind \in {"scratch", "kfd"}, Roc!OtherRecord(kind) PROVE RocInv'
    BY <2>10, RocOther
  <2> QED
    BY <1>1, <2>1, <2>2, <2>3, <2>4, <2>5, <2>6, <2>7, <2>8, <2>9, <2>10, Zenon DEF Roc!Application
<1>2. CASE Roc!LifeCycle
  <2>1. CASE Roc!toolInit
    BY <2>1, RocStill DEF Roc!toolInit, Roc!appVars, Roc!configVars, Roc!rowVars
  <2>2. CASE Roc!startTracing
    BY <2>2, RocStill DEF Roc!startTracing, Roc!appVars, Roc!configVars, Roc!rowVars
  <2>3. CASE Roc!stopTracing
    BY <2>3, RocStill DEF Roc!stopTracing, Roc!appVars, Roc!configVars, Roc!rowVars
  <2>4. CASE Roc!flush
    BY <2>4, RocCallback DEF Roc!flush
  <2>5. CASE Roc!end
    BY <2>5, RocStill DEF Roc!end, Roc!appVars, Roc!configVars, Roc!rowVars
  <2>6. CASE Roc!reset
    BY <2>6, RocReset
  <2> QED
    BY <1>2, <2>1, <2>2, <2>3, <2>4, <2>5, <2>6 DEF Roc!LifeCycle
<1>3. ASSUME NEW n, Roc!buffer_callback(n) PROVE RocInv'
  BY <1>3, RocCallback
<1>4. CASE UNCHANGED <<lifeVars, rowVars, callVars, rocVars>>
  BY <1>4, RocStill DEF lifeVars, rowVars, callVars, rocVars
<1> QED
  BY <1>1, <1>2, <1>3, <1>4 DEF Roc!Next

LEMMA RocRows == RocInv => Roc!RowsOfOwnCall
<1> SUFFICES ASSUME RocInv PROVE Roc!RowsOfOwnCall
  OBVIOUS
<1>1. PICK st : st = Start /\ StateOk(st, 0)
  BY DEF RocInv
<1>2. st.pend = pending /\ st.rows = tables
  BY <1>1 DEF Start
<1>3. PendOk(pending.kernels, pending.copies, 0) /\ RowsOk(tables.ops, tables.kernels, tables.copies)
  BY <1>1, <1>2 DEF StateOk
<1>4. ASSUME NEW c, RetireComes(c, 0), calls[c].retired
      PROVE  \E i \in DOMAIN buffer : buffer[i] = [kind |-> "retire", corr |-> c]
  BY <1>4 DEF RetireComes, Retirement
<1> QED
  BY <1>3, <1>4 DEF PendOk, RowsOk, Roc!RowsOfOwnCall

LEMMA RocCounted == RocInv => Roc!CountersOfOneDispatch
<1> SUFFICES ASSUME RocInv PROVE Roc!CountersOfOneDispatch
  OBVIOUS
<1>1. PICK st : st = Start /\ StateOk(st, 0)
  BY DEF RocInv
<1>2. CountersOk(tables.counters, tables.ops)
  BY <1>1 DEF StateOk, Start
<1>3. ASSUME NEW row \in tables.counters, NEW op, op = tables.ops[row.op]
      PROVE  /\ \A part \in row.parts :
                    part[1] = op.disp /\ CountersOf[dispatches[op.disp].set][part[2]] = row.counter
             /\ row.storage = op.storage
  BY <1>2, <1>3 DEF CountersOk, CounterOk, SlotOk, PartOf
<1>4. \A row, other \in tables.counters : other.op = row.op /\ other.counter = row.counter => other = row
  BY <1>2 DEF CountersOk
<1> QED
  <2> SUFFICES ASSUME NEW row \in tables.counters
               PROVE  LET op == tables.ops[row.op] IN
                      /\ \A part \in row.parts :
                             part[1] = op.disp /\ CountersOf[dispatches[op.disp].set][part[2]] = row.counter
                      /\ row.storage = op.storage
                      /\ \A other \in tables.counters :
                             other.op = row.op /\ other.counter = row.counter => other = row
    BY Zenon DEF Roc!CountersOfOneDispatch
  <2> QED
    BY <1>3, <1>4

LEMMA RocTurns == RocInv => Roc!SetsTakeTurns
<1> SUFFICES ASSUME RocInv, NEW name \in DOMAIN dispatchCount, NEW a \in Agents,
                    \A d \in DOMAIN dispatches :
                        NameOf[dispatches[d].kernel] = name => dispatches[d].agent = a,
                    NEW s1 \in Roc!Range(SetsOf[a]), NEW s2 \in Roc!Range(SetsOf[a])
             PROVE  Roc!Uses(name, s1) - Roc!Uses(name, s2) <= 1
  BY Zenon DEF Roc!SetsTakeTurns
<1>1. PICK i \in DOMAIN SetsOf[a] : SetsOf[a][i] = s1
  BY DEF Roc!Range
<1>2. PICK j \in DOMAIN SetsOf[a] : SetsOf[a][j] = s2
  BY DEF Roc!Range
<1>3. PICK m, n : m = Len(SetsOf[a]) /\ n = dispatchCount[name]
  OBVIOUS
<1>4. m \in Nat /\ i \in 1 .. m /\ j \in 1 .. m /\ m > 0 /\ n \in Nat
  <2>1. m \in Nat /\ DOMAIN SetsOf[a] = 1 .. m
    BY <1>3, SetsAssumption, LenProperties
  <2>2. n \in Nat
    BY <1>3 DEF RocInv, ConfigInv
  <2> QED
    BY <2>1, <2>2
<1>5. OnAgent(name, a)
  BY DEF OnAgent
<1>6. ASSUME NEW k \in DOMAIN SetsOf[a] PROVE Roc!Uses(name, SetsOf[a][k]) = Turns(n, k, m)
  <2>1. Cardinality(UsedBy(name, SetsOf[a][k])) = Turns(n, k, m)
    BY <1>3, <1>5 DEF RocInv, TurnInv
  <2>2. Roc!Uses(name, SetsOf[a][k]) = Cardinality(UsedBy(name, SetsOf[a][k]))
    <3>1. \A S : Roc!Cardinality(S) = Cardinality(S)
      BY DEF Roc!Cardinality, Cardinality
    <3> QED
      BY <3>1 DEF Roc!Uses, UsedBy
  <2> QED
    BY <2>1, <2>2
<1> QED
  BY <1>1, <1>2, <1>4, <1>6, TurnsClose

-----------------------------------------------------------------------------
(* The theorems                                                              *)

\* A step of the composition is one of its component.
LEMMA StepOf ==
    [SourcesNext]_vars =>
        /\ subject' = subject
        /\ subject = "rocprof" => [Roc!Next]_<<lifeVars, rowVars, callVars, rocVars>>
        /\ subject = "roctracer" => [Rtr!Next]_<<lifeVars, rowVars, callVars, opVars>>
        /\ subject = "cupti" => [Cup!Next]_<<lifeVars, rowVars, callVars, opVars, cuptiCrashHack>>
        /\ subject = "clr" => [Clr!Next]_<<lifeVars, rowVars, chunkVars>>
BY DEF SourcesNext, Rocprof, Roctracer, Cupti, ClrNext, AmdSmi, Clock, Probes, Filter, Sender,
       CallStacks, vars

ProfilerInv ==
    /\ subject = "rocprof" => RocInv
    /\ subject = "roctracer" => RtrInv
    /\ subject = "cupti" => CupInv
    /\ subject = "clr" => ClrInv

\* What holds of the sources on a profiler in every state: their inductive invariants.
THEOREM ProfilerInvariant == SourcesSpec => []ProfilerInv
<1>1. SourcesInit => ProfilerInv
  BY RocInit, RtrInit, CupInit, ClrInit DEF ProfilerInv
<1>2. ProfilerInv /\ [SourcesNext]_vars => ProfilerInv'
  <2> SUFFICES ASSUME ProfilerInv, [SourcesNext]_vars PROVE ProfilerInv'
    OBVIOUS
  <2>1. subject' = subject
    BY StepOf
  <2>2. CASE subject = "rocprof"
    BY <2>1, <2>2, StepOf, RocStep DEF ProfilerInv
  <2>3. CASE subject = "roctracer"
    BY <2>1, <2>3, StepOf, RtrStep DEF ProfilerInv
  <2>4. CASE subject = "cupti"
    BY <2>1, <2>4, StepOf, CupStep DEF ProfilerInv
  <2>5. CASE subject = "clr"
    BY <2>1, <2>5, StepOf, ClrStep DEF ProfilerInv
  <2> QED
    BY <2>1, <2>2, <2>3, <2>4, <2>5 DEF ProfilerInv
<1> QED
  BY <1>1, <1>2, PTL DEF SourcesSpec

\* RoctracerDataSource and CuptiDataSource: a device operation that is no barrier
\* has one row once its batch was handed over and none before, at its time on the reference
\* clock; once its call returned, and if that was reported, the call's row is there to join.
THEOREM EachOperationOnce == SourcesSpec => []OperationsOnce
<1>1. ProfilerInv => OperationsOnce
  BY RtrOnce, CupOnce DEF ProfilerInv, OperationsOnce
<1> QED
  BY <1>1, ProfilerInvariant, PTL

\* ClrDataSource: however stop, flush, slabs and storages interleave, a traced record
\* has one row once it was consumed, and what a flush has still to visit while it holds the
\* lock is in no slab that was handed over.
THEOREM RuntimeRecordsOnce == SourcesSpec => []EachRecordOnce
<1>1. ProfilerInv => EachRecordOnce
  BY ClrOnce DEF ProfilerInv, EachRecordOnce
<1> QED
  BY <1>1, ProfilerInvariant, PTL

\* All three on calls: the arguments, times and string ids of a row are those of its own
\* call and storage, and no argument is kept behind the last record of its call.
THEOREM RowsAreOwn == SourcesSpec => []RowsOfOwnCall
<1>1. RtrInv => Rtr!CallRowsAreOwn
  BY DEF RtrInv
<1>2. ProfilerInv => RowsOfOwnCall
  BY <1>1, RocRows, CupRows DEF ProfilerInv, RowsOfOwnCall
<1> QED
  BY <1>2, ProfilerInvariant, PTL

\* RocprofDataSource: wherever batches end, a row of a counter adds up values of the one
\* dispatch its operation stands for, in that operation's storage.
THEOREM CountersStayApart == SourcesSpec => []CountersOfOneDispatch
<1>1. ProfilerInv => CountersOfOneDispatch
  BY RocCounted DEF ProfilerInv, CountersOfOneDispatch
<1> QED
  BY <1>1, ProfilerInvariant, PTL

\* RocprofDataSource: whatever threads launch a kernel, and from however many code
\* objects, the counter sets of its agent were used equally often, up to one.
THEOREM SetsRotate == SourcesSpec => []SetsTakeTurns
<1>1. ProfilerInv => SetsTakeTurns
  BY RocTurns DEF ProfilerInv, SetsTakeTurns
<1> QED
  BY <1>1, ProfilerInvariant, PTL
=============================================================================
