----------------------- MODULE ServerResourcesProofs -----------------------
(***************************************************************************)
(* Proofs about the resource table, for any bases, limits, clients and     *)
(* workloads, stand-alone or integrated: the table stays whole, no base is *)
(* given away while something of its last holder is left, and a client that*)
(* leaves a stand-alone server leaves no trace.                            *)
(*                                                                         *)
(* The argument has three layers.  A table that is Whole stays so under    *)
(* every operation of the table (Harmless when all resources stay in their *)
(* places, Becomes when some come or go), and Evolves says what a change   *)
(* may do to the resources of others.  The inductive invariant TableInv    *)
(* adds what the deferred operations rely on between the moment they are   *)
(* queued and the moment they commit: Queued, Held and Based.  Every       *)
(* request is shown to be within the bounds of Requests, and RequestKeeps  *)
(* does the rest.                                                          *)
(***************************************************************************)
EXTENDS ServerResources, SequenceTheorems, FiniteSetTheorems, WellFoundedInduction, TLAPS

-----------------------------------------------------------------------------
(* Numbers, sums and lists *)

\* Induction over the numbers, for the members of a set.
LEMMA SetInduction ==
    ASSUME NEW S, 0 \in S, \A n \in Nat : n \in S => n + 1 \in S
    PROVE  \A n \in Nat : n \in S
  <1> DEFINE T == Nat \ S
             R == {p \in Nat \X Nat : p[1] < p[2]}
  <1>1. IsWellFoundedOn(R, Nat)
    BY NatLessThanWellFounded DEF OpToRel
  <1>2. SUFFICES ASSUME T # {} PROVE FALSE
    OBVIOUS
  <1>3. T \subseteq Nat
    OBVIOUS
  <1> HIDE DEF R
  <1>4. PICK x \in T : \A y \in T : ~ (<<y, x>> \in R)
    BY <1>1, <1>2, <1>3, WFMin
  <1>5. x \in Nat /\ x # 0 /\ x - 1 \in Nat /\ x - 1 < x /\ (x - 1) + 1 = x
    OBVIOUS
  <1>6. x - 1 \in T
    <2>1. x - 1 \in S => (x - 1) + 1 \in S
      BY <1>5
    <2> QED
      BY <2>1, <1>5
  <1>7. <<x - 1, x>> \in R
    BY <1>5 DEF R
  <1> QED
    BY <1>4, <1>6, <1>7

\* A set of numbers that is not empty has a least one.
LEMMA LeastNumber ==
    ASSUME NEW S, S \subseteq Nat, S # {}
    PROVE  \E x \in S : \A y \in S : x <= y
  <1> DEFINE R == {p \in Nat \X Nat : p[1] < p[2]}
  <1>1. IsWellFoundedOn(R, Nat)
    BY NatLessThanWellFounded DEF OpToRel
  <1> HIDE DEF R
  <1>2. PICK x \in S : \A y \in S : ~ (<<y, x>> \in R)
    BY <1>1, WFMin
  <1>3. \A y \in S : ~ (y < x)
    BY <1>2 DEF R
  <1> QED
    BY <1>3

\* What a function makes of a finite set is finite, and not more.
LEMMA ImageIsFinite ==
    ASSUME NEW D, IsFiniteSet(D), NEW f, DOMAIN f = D, f = [x \in D |-> f[x]]
    PROVE  /\ IsFiniteSet({f[x] : x \in D})
           /\ Cardinality({f[x] : x \in D}) <= Cardinality(D)
  <1> DEFINE T == {f[x] : x \in D}
  <1>1. f \in Surjection(D, T)
    BY DEF Surjection
  <1> QED
    BY <1>1, FS_Surjection

\* Two finite sets with nothing in common have as many members together as apart.
LEMMA DisjointUnion ==
    ASSUME NEW A, IsFiniteSet(A), NEW B, IsFiniteSet(B), A \cap B = {}
    PROVE  Cardinality(A \cup B) = Cardinality(A) + Cardinality(B)
  <1>1. Cardinality(A \cup B) = Cardinality(A) + Cardinality(B) - Cardinality(A \cap B)
    BY FS_Union
  <1>2. Cardinality(A \cap B) = 0
    BY FS_EmptySet
  <1>3. Cardinality(A) \in Nat /\ Cardinality(B) \in Nat
    BY FS_CardinalityType
  <1> QED
    BY <1>1, <1>2, <1>3

\* The pairs that SumOf counts.
Counted(f, S) == UNION {{x} \X (1..f[x]) : x \in S}

\* The pairs that a finite sum counts are finitely many.
LEMMA CountedIsFinite ==
    ASSUME NEW S, IsFiniteSet(S), NEW f, \A x \in S : f[x] \in Nat
    PROVE  IsFiniteSet(Counted(f, S)) /\ Cardinality(Counted(f, S)) \in Nat
  <1> DEFINE g == [x \in S |-> {x} \X (1..f[x])]
             T == {g[x] : x \in S}
  <1>1. IsFiniteSet(T)
    <2>1. DOMAIN g = S /\ g = [x \in S |-> g[x]]
      OBVIOUS
    <2> HIDE DEF g
    <2> QED
      BY <2>1, ImageIsFinite
  <1>2. ASSUME NEW x \in S  PROVE IsFiniteSet(g[x])
    <2>1. IsFiniteSet({x}) /\ IsFiniteSet(1..f[x])
      <3>1. 1 \in Int /\ f[x] \in Int
        OBVIOUS
      <3> QED
        BY <3>1, FS_Singleton, FS_Interval
    <2>2. g[x] = {x} \X (1..f[x])
      OBVIOUS
    <2> HIDE DEF g
    <2> QED
      BY <2>1, <2>2, FS_Product
  <1>3. Counted(f, S) = UNION T
    BY DEF Counted
  <1>4. IsFiniteSet(UNION T)
    <2> HIDE DEF g
    <2> QED
      BY <1>1, <1>2, FS_UNION
  <1> QED
    BY <1>3, <1>4, FS_CardinalityType

\* A sum over two disjoint sets is the sum of the two sums.
LEMMA CountedSplits ==
    ASSUME NEW S, IsFiniteSet(S), NEW f, \A x \in S : f[x] \in Nat, NEW T \in SUBSET S
    PROVE  Cardinality(Counted(f, S))
             = Cardinality(Counted(f, T)) + Cardinality(Counted(f, S \ T))
  <1> DEFINE A == Counted(f, T)
             B == Counted(f, S \ T)
  <1>1. IsFiniteSet(T) /\ IsFiniteSet(S \ T)
    BY FS_Subset
  <1>2. /\ IsFiniteSet(A) /\ IsFiniteSet(B)
        /\ Cardinality(A) \in Nat /\ Cardinality(B) \in Nat
    BY <1>1, CountedIsFinite
  <1>3. Counted(f, S) = A \cup B
    BY DEF Counted
  <1>4. A \cap B = {}
    BY DEF Counted
  <1>5. Cardinality(A \cup B) = Cardinality(A) + Cardinality(B)
    <2> HIDE DEF A, B
    <2> QED
      BY <1>2, <1>4, DisjointUnion
  <1> QED
    BY <1>3, <1>5

\* A sum over one element.
LEMMA CountedOne ==
    ASSUME NEW x, NEW f, f[x] \in Nat
    PROVE  Cardinality(Counted(f, {x})) = f[x]
  <1>1. Counted(f, {x}) = {x} \X (1..f[x])
    BY DEF Counted
  <1>2. IsFiniteSet({x}) /\ Cardinality({x}) = 1
    BY FS_Singleton
  <1>3. IsFiniteSet(1..f[x]) /\ Cardinality(1..f[x]) = f[x]
    <2>1. 1 \in Int /\ f[x] \in Int
      OBVIOUS
    <2>2. Cardinality(1..f[x]) = IF 1 > f[x] THEN 0 ELSE f[x] - 1 + 1
      BY <2>1, FS_Interval
    <2>3. IsFiniteSet(1..f[x])
      BY <2>1, FS_Interval
    <2> QED
      BY <2>2, <2>3
  <1> DEFINE N == 1..f[x]
  <1>4. IsFiniteSet(N) /\ Cardinality(N) = f[x]
    BY <1>3
  <1> HIDE DEF N
  <1>5. Cardinality({x} \X N) = Cardinality({x}) * Cardinality(N)
    BY <1>2, <1>4, FS_Product, Zenon
  <1>6. 1 * f[x] = f[x]
    OBVIOUS
  <1> QED
    BY <1>1, <1>2, <1>4, <1>5, <1>6, Zenon DEF N

\* Two functions that agree on a set have the same sum over it.
LEMMA CountedSame ==
    ASSUME NEW S, NEW f, NEW g, \A x \in S : f[x] = g[x]
    PROVE  Counted(f, S) = Counted(g, S)
  BY DEF Counted

\* The recursive definition of Kept has a solution, so that it is one.
LEMMA KeptDefinition ==
    ASSUME NEW X, NEW s \in Seq(X), NEW gone
    PROVE  /\ Kept(s, gone)[0] = <<>>
           /\ \A n \in 1..Len(s) :
                Kept(s, gone)[n] = IF s[n] \in gone THEN Kept(s, gone)[n - 1]
                                   ELSE Append(Kept(s, gone)[n - 1], s[n])
  <1> DEFINE Solves(f, n) ==
               f = [i \in 0..n |-> IF i = 0 THEN <<>>
                                   ELSE IF s[i] \in gone THEN f[i - 1]
                                        ELSE Append(f[i - 1], s[i])]
             S == {n \in Nat : \E f : Solves(f, n)}
  <1>1. 0 \in S
    <2> DEFINE f == [i \in 0..0 |-> <<>>]
    <2>1. Solves(f, 0)
      OBVIOUS
    <2> QED
      BY <2>1
  <1>2. ASSUME NEW n \in Nat, n \in S  PROVE n + 1 \in S
    <2>1. PICK f : Solves(f, n)
      BY <1>2
    <2> DEFINE last == IF s[n + 1] \in gone THEN f[n] ELSE Append(f[n], s[n + 1])
               g == [i \in 0..n + 1 |-> IF i = n + 1 THEN last ELSE f[i]]
               h == [i \in 0..n + 1 |-> IF i = 0 THEN <<>>
                                        ELSE IF s[i] \in gone THEN g[i - 1]
                                             ELSE Append(g[i - 1], s[i])]
    <2>2. ASSUME NEW i \in 0..n + 1  PROVE g[i] = h[i]
      <3>1. CASE i = n + 1
        <4>1. g[i] = last /\ g[i - 1] = f[n] /\ i # 0
          BY <3>1
        <4> QED
          BY <4>1, <3>1
      <3>2. CASE i \in 0..n /\ i = 0
        BY <2>1, <3>2
      <3>3. CASE i \in 0..n /\ i # 0
        <4>1. g[i] = f[i] /\ g[i - 1] = f[i - 1]
          BY <3>3
        <4>2. f[i] = IF s[i] \in gone THEN f[i - 1] ELSE Append(f[i - 1], s[i])
          BY <2>1, <3>3
        <4> QED
          BY <3>3, <4>1, <4>2
      <3> QED
        BY <3>1, <3>2, <3>3
    <2>3. Solves(g, n + 1)
      <3>1. g = h
        BY <2>2
      <3> QED
        BY <3>1
    <2>4. n + 1 \in Nat
      OBVIOUS
    <2> HIDE DEF g, Solves
    <2> QED
      BY <2>3, <2>4
  <1>3. Len(s) \in S
    <2> HIDE DEF S
    <2>1. Len(s) \in Nat
      BY LenProperties
    <2> QED
      BY <1>1, <1>2, <2>1, SetInduction
  <1>4. Solves(Kept(s, gone), Len(s))
    <2>1. \E f : Solves(f, Len(s))
      BY <1>3
    <2> QED
      BY <2>1, Zenon DEF Kept
  <1> DEFINE k == Kept(s, gone)
             N == Len(s)
  <1>5. N \in Nat
    BY LenProperties
  <1>6. Solves(k, N)
    BY <1>4
  <1> HIDE DEF k, N
  <1>7. k[0] = <<>>
    BY <1>5, <1>6
  <1>8. ASSUME NEW n \in 1..N
        PROVE  k[n] = IF s[n] \in gone THEN k[n - 1] ELSE Append(k[n - 1], s[n])
    <2>1. n \in 0..N /\ n # 0
      BY <1>5
    <2> QED
      BY <1>6, <2>1
  <1> QED
    BY <1>7, <1>8 DEF k, N

\* No element of s occurs twice.
Distinct(s) == \A i, j \in DOMAIN s : s[i] = s[j] => i = j

\* Appending to a list: what it has, and whether it has it once.
LEMMA AppendFacts ==
    ASSUME NEW X, NEW s \in Seq(X), NEW x \in X
    PROVE  /\ Append(s, x) \in Seq(X)
           /\ Range(Append(s, x)) = Range(s) \cup {x}
           /\ Distinct(s) /\ x \notin Range(s) => Distinct(Append(s, x))
  <1> DEFINE a == Append(s, x)
             n == Len(s)
  <1>1. /\ n \in Nat /\ DOMAIN s = 1..n
        /\ a \in Seq(X) /\ DOMAIN a = 1..n + 1 /\ a[n + 1] = x
        /\ \A i \in 1..n : a[i] = s[i]
    <2>1. n \in Nat /\ DOMAIN s = 1..n
      BY LenProperties
    <2>2. a \in Seq(X) /\ Len(a) = n + 1 /\ a[n + 1] = x /\ \A i \in 1..n : a[i] = s[i]
      BY AppendProperties
    <2>3. DOMAIN a = 1..Len(a)
      BY <2>2, LenProperties
    <2> QED
      BY <2>1, <2>2, <2>3
  <1> HIDE DEF a, n
  <1>2. Range(a) = Range(s) \cup {x}
    <2>1. \A i \in 1..n + 1 : i \in 1..n \/ i = n + 1
      BY <1>1
    <2>2. n + 1 \in 1..n + 1 /\ \A i \in 1..n : i \in 1..n + 1
      BY <1>1
    <2> QED
      BY <1>1, <2>1, <2>2 DEF Range
  <1>3. ASSUME Distinct(s), x \notin Range(s), NEW i \in 1..n + 1, NEW j \in 1..n + 1,
               a[i] = a[j]
        PROVE  i = j
    <2>1. \A k \in 1..n : s[k] # x
      BY <1>1, <1>3 DEF Range
    <2>2. CASE i \in 1..n /\ j \in 1..n
      BY <1>1, <1>3, <2>2 DEF Distinct
    <2>3. CASE i = n + 1 \/ j = n + 1
      <3>1. i \in 1..n \/ i = n + 1
        BY <1>1
      <3>2. j \in 1..n \/ j = n + 1
        BY <1>1
      <3> QED
        BY <1>1, <1>3, <2>1, <2>3, <3>1, <3>2
    <2> QED
      BY <1>1, <2>2, <2>3
  <1> QED
    BY <1>1, <1>2, <1>3 DEF Distinct, a

\* What Without leaves, and that it leaves no element twice.
LEMMA WithoutFacts ==
    ASSUME NEW X, NEW s \in Seq(X), NEW gone
    PROVE  /\ Without(s, gone) \in Seq(X)
           /\ Range(Without(s, gone)) = Range(s) \ gone
           /\ Distinct(s) => Distinct(Without(s, gone))
  <1> DEFINE k == Kept(s, gone)
             N == Len(s)
             upto(n) == {s[i] : i \in 1..n}
             Fine(n) == /\ k[n] \in Seq(X)
                        /\ Range(k[n]) = upto(n) \ gone
                        /\ Distinct(s) => Distinct(k[n])
             S == {n \in Nat : n <= N => Fine(n)}
  <1>1. N \in Nat /\ DOMAIN s = 1..N /\ \A i \in 1..N : s[i] \in X
    BY LenProperties, ElementOfSeq
  <1>2. 0 \in S
    <2>1. k[0] = <<>>
      BY KeptDefinition
    <2>2. <<>> \in Seq(X) /\ DOMAIN <<>> = {}
      OBVIOUS
    <2>3. upto(0) = {}
      OBVIOUS
    <2> HIDE DEF k, upto
    <2>4. Range(<<>>) = {} /\ Distinct(<<>>)
      BY <2>2 DEF Range, Distinct
    <2>5. Fine(0)
      BY <2>1, <2>2, <2>3, <2>4
    <2> QED
      BY <2>5
  <1>3. ASSUME NEW n \in Nat, n \in S  PROVE n + 1 \in S
    <2> SUFFICES ASSUME n + 1 <= N  PROVE Fine(n + 1)
      OBVIOUS
    <2>1. Fine(n) /\ n + 1 \in 1..N /\ (n + 1) - 1 = n
      BY <1>1, <1>3
    <2>2. k[n + 1] = IF s[n + 1] \in gone THEN k[n] ELSE Append(k[n], s[n + 1])
      BY <2>1, KeptDefinition
    <2>3. upto(n + 1) = upto(n) \cup {s[n + 1]}
      <3>1. \A i \in 1..n + 1 : i \in 1..n \/ i = n + 1
        OBVIOUS
      <3>2. n + 1 \in 1..n + 1 /\ \A i \in 1..n : i \in 1..n + 1
        OBVIOUS
      <3> QED
        BY <3>1, <3>2
    <2>4. s[n + 1] \in X
      BY <1>1, <2>1
    <2>5. Distinct(s) => s[n + 1] \notin upto(n)
      BY <1>1, <2>1 DEF Distinct
    <2> HIDE DEF k, upto
    <2>6. CASE s[n + 1] \in gone
      BY <2>1, <2>2, <2>3, <2>6
    <2>7. CASE s[n + 1] \notin gone
      <3>1. k[n + 1] = Append(k[n], s[n + 1])
        BY <2>2, <2>7
      <3>2. /\ k[n + 1] \in Seq(X)
            /\ Range(k[n + 1]) = Range(k[n]) \cup {s[n + 1]}
            /\ Distinct(k[n]) /\ s[n + 1] \notin Range(k[n]) => Distinct(k[n + 1])
        BY <2>1, <2>4, <3>1, AppendFacts
      <3> QED
        BY <2>1, <2>3, <2>5, <2>7, <3>2
    <2> QED
      BY <2>6, <2>7
  <1>4. Fine(N)
    <2> HIDE DEF Fine
    <2>1. N \in S
      <3> HIDE DEF S
      <3> QED
        BY <1>1, <1>2, <1>3, SetInduction
    <2> QED
      BY <1>1, <2>1
  <1>5. upto(N) = Range(s)
    BY <1>1 DEF Range
  <1> QED
    BY <1>4, <1>5 DEF Without

-----------------------------------------------------------------------------
(* Window trees *)

\* Every window but the root has a parent, and the root is above it.
Rooted(t) ==
    /\ Root \in Windows(t)
    /\ \A w \in Windows(t) \ {Root} : /\ t[w].parent \in Windows(t)
                                      /\ Root \in Ancestors(t, w)

\* What Ancestors quantifies over.
Upward(t, x, S) ==
    /\ S \in SUBSET Windows(t)
    /\ x # Root => t[x].parent \in S
    /\ \A y \in S \ {Root} : t[y].parent \in S

\* A window is above x when every upward set of x has it.
LEMMA AncestorsDefinition ==
    ASSUME NEW t, NEW x, NEW y
    PROVE  y \in Ancestors(t, x) <=> y \in Windows(t) /\ \A S : Upward(t, x, S) => y \in S
  BY DEF Ancestors, Upward

\* What is above something above x is above x.
LEMMA AncestorsTransitive ==
    ASSUME NEW t, NEW x, NEW y \in Ancestors(t, x)
    PROVE  Ancestors(t, y) \subseteq Ancestors(t, x)
  <1> SUFFICES ASSUME NEW z \in Ancestors(t, y), NEW S, Upward(t, x, S)
               PROVE  z \in S
    BY AncestorsDefinition
  <1>1. y \in S
    BY AncestorsDefinition
  <1>2. Upward(t, y, S)
    BY <1>1 DEF Upward
  <1> QED
    BY <1>2, AncestorsDefinition

\* Nothing is above the root; above another window is its parent and what is
\* above that one.
LEMMA AncestorsStep ==
    ASSUME NEW t, Rooted(t)
    PROVE  /\ Ancestors(t, Root) = {}
           /\ \A x \in Windows(t) \ {Root} :
                Ancestors(t, x) = {t[x].parent} \cup Ancestors(t, t[x].parent)
  <1>1. Upward(t, Root, {})
    BY DEF Upward
  <1>2. Ancestors(t, Root) = {}
    BY <1>1, AncestorsDefinition
  <1>3. ASSUME NEW x \in Windows(t) \ {Root}
        PROVE  Ancestors(t, x) = {t[x].parent} \cup Ancestors(t, t[x].parent)
    <2> DEFINE p == t[x].parent
               A == {p} \cup Ancestors(t, p)
    <2>1. p \in Windows(t)
      BY DEF Rooted
    <2>2. p \in Ancestors(t, x)
      BY <2>1, AncestorsDefinition DEF Upward
    <2>3. A \subseteq Ancestors(t, x)
      BY <2>2, AncestorsTransitive
    <2>4. Upward(t, x, A)
      <3>1. A \subseteq Windows(t)
        BY <2>1, AncestorsDefinition
      <3>2. ASSUME NEW y \in A, y # Root  PROVE t[y].parent \in A
        <4>1. t[y].parent \in Windows(t)
          BY <3>1, <3>2 DEF Rooted
        <4>2. CASE y = p
          <5>1. \A S : Upward(t, p, S) => t[p].parent \in S
            BY <3>2, <4>2 DEF Upward
          <5> QED
            BY <4>1, <4>2, <5>1, AncestorsDefinition
        <4>3. CASE y \in Ancestors(t, p)
          <5>1. \A S : Upward(t, p, S) => y \in S
            BY <4>3, AncestorsDefinition
          <5>2. \A S : Upward(t, p, S) => t[y].parent \in S
            BY <3>2, <5>1 DEF Upward
          <5> QED
            BY <4>1, <5>2, AncestorsDefinition
        <4> QED
          BY <4>2, <4>3
      <3> QED
        BY <3>1, <3>2 DEF Upward
    <2> QED
      BY <2>3, <2>4, AncestorsDefinition
  <1> QED
    BY <1>2, <1>3

\* Induction over a tree: what the root has, and a window has when its parent
\* has it, all windows have.
LEMMA TreeInduction ==
    ASSUME NEW t, Rooted(t), NEW S, Root \in S,
           \A w \in Windows(t) \ {Root} : t[w].parent \in S => w \in S
    PROVE  Windows(t) \subseteq S
  <1> SUFFICES ASSUME NEW w \in Windows(t), w \notin S  PROVE FALSE
    OBVIOUS
  <1> DEFINE T == Windows(t) \ S
  <1>1. Upward(t, w, T)
    BY DEF Upward, Rooted
  <1>2. Root \in Ancestors(t, w)
    BY DEF Rooted
  <1> QED
    BY <1>1, <1>2, AncestorsDefinition

\* Two tables that agree on the parents of W, which are in W, agree on what is
\* above the windows of W.
LEMMA SameAncestorsOneWay ==
    ASSUME NEW t, NEW u, NEW W, W \subseteq Windows(t), W \subseteq Windows(u),
           \A y \in W \ {Root} : t[y].parent = u[y].parent /\ t[y].parent \in W,
           NEW x \in W
    PROVE  Ancestors(t, x) \subseteq Ancestors(u, x) /\ Ancestors(t, x) \subseteq W
  <1>1. Upward(t, x, W)
    BY DEF Upward
  <1>2. Ancestors(t, x) \subseteq W
    BY <1>1, AncestorsDefinition
  <1>3. ASSUME NEW z \in Ancestors(t, x), NEW S, Upward(u, x, S)
        PROVE  z \in S
    <2>1. Upward(t, x, S \cap W)
      BY <1>3 DEF Upward
    <2> QED
      BY <2>1, AncestorsDefinition
  <1> QED
    BY <1>2, <1>3, AncestorsDefinition

\* Two tables that agree on the parents of W agree on what is above its windows.
LEMMA SameAncestors ==
    ASSUME NEW t, NEW u, NEW W, W \subseteq Windows(t), W \subseteq Windows(u),
           \A y \in W \ {Root} : t[y].parent = u[y].parent /\ t[y].parent \in W,
           NEW x \in W
    PROVE  Ancestors(t, x) = Ancestors(u, x) /\ Ancestors(t, x) \subseteq W
  BY SameAncestorsOneWay

\* The windows of a tree are the root and what is below it; what is below x is
\* x, and a window whose parent is below x.
LEMMA SubtreeFacts ==
    ASSUME NEW t, Rooted(t), NEW x
    PROVE  /\ Subtree(t, x) \subseteq Windows(t)
           /\ x \in Windows(t) => x \in Subtree(t, x)
           /\ \A w \in Windows(t) \ {Root} :
                w \in Subtree(t, x) <=> w = x \/ t[w].parent \in Subtree(t, x)
           /\ Root \in Subtree(t, x) => x = Root
           /\ Subtree(t, Root) = Windows(t)
  <1>1. Subtree(t, x) \subseteq Windows(t) /\ (x \in Windows(t) => x \in Subtree(t, x))
    BY DEF Subtree
  <1>2. ASSUME NEW w \in Windows(t) \ {Root}
        PROVE  w \in Subtree(t, x) <=> w = x \/ t[w].parent \in Subtree(t, x)
    <2>1. Ancestors(t, w) = {t[w].parent} \cup Ancestors(t, t[w].parent)
      BY AncestorsStep
    <2>2. t[w].parent \in Windows(t)
      BY DEF Rooted
    <2> QED
      BY <2>1, <2>2 DEF Subtree
  <1>3. Root \in Subtree(t, x) => x = Root
    BY AncestorsStep DEF Subtree
  <1>4. Subtree(t, Root) = Windows(t)
    BY DEF Subtree, Rooted
  <1> QED
    BY <1>1, <1>2, <1>3, <1>4

\* A set of windows that has, with a window, those below it.
Cut(t, gone) ==
    /\ gone \subseteq Windows(t) \ {Root}
    /\ \A w \in Windows(t) \ {Root} : t[w].parent \in gone => w \in gone

\* The tree below a window other than the root is a cut.
LEMMA SubtreeIsCut ==
    ASSUME NEW t, Rooted(t), NEW x, x # Root
    PROVE  Cut(t, Subtree(t, x))
  BY SubtreeFacts DEF Cut

\* So are the trees of several windows.
LEMMA TreesAreCut ==
    ASSUME NEW t, Rooted(t), NEW roots, Root \notin roots
    PROVE  Cut(t, Trees(t, roots))
  <1>1. \A x \in roots : Cut(t, Subtree(t, x))
    BY SubtreeIsCut
  <1>2. \A y \in Trees(t, roots) : \E x \in roots : y \in Subtree(t, x)
    BY DEF Trees
  <1>3. Trees(t, roots) \subseteq Windows(t) \ {Root}
    BY <1>1, <1>2 DEF Cut
  <1>4. ASSUME NEW w \in Windows(t) \ {Root}, t[w].parent \in Trees(t, roots)
        PROVE  w \in Trees(t, roots)
    <2>1. PICK x \in roots \cap Windows(t) : t[w].parent \in Subtree(t, x)
      BY <1>4 DEF Trees
    <2>2. w \in Subtree(t, x)
      BY <2>1, SubtreeFacts
    <2> QED
      BY <2>1, <2>2 DEF Trees
  <1> QED
    BY <1>3, <1>4 DEF Cut

\* A tree stays one when it loses a cut, and the rest keeps what is above it.
LEMMA CutTree ==
    ASSUME NEW t, Rooted(t), NEW gone, Cut(t, gone), NEW u,
           Windows(u) = Windows(t) \ gone,
           \A w \in Windows(u) : u[w].parent = t[w].parent
    PROVE  /\ Rooted(u)
           /\ \A w \in Windows(u) : Ancestors(u, w) = Ancestors(t, w)
  <1>1. \A w \in Windows(u) \ {Root} : t[w].parent = u[w].parent /\ t[w].parent \in Windows(u)
    BY DEF Cut, Rooted
  <1>2. \A w \in Windows(u) : Ancestors(t, w) = Ancestors(u, w)
    BY <1>1, SameAncestors
  <1>3. Root \in Windows(u)
    BY DEF Cut, Rooted
  <1> QED
    BY <1>1, <1>2, <1>3 DEF Rooted

\* It stays one when it gets a leaf.
LEMMA GrownTree ==
    ASSUME NEW t, Rooted(t), NEW x, x \notin Windows(t), NEW u,
           Windows(u) = Windows(t) \cup {x},
           \A w \in Windows(t) : u[w].parent = t[w].parent,
           u[x].parent \in Windows(t)
    PROVE  /\ Rooted(u)
           /\ \A w \in Windows(t) : Ancestors(u, w) = Ancestors(t, w)
           /\ Ancestors(u, x) = {u[x].parent} \cup Ancestors(t, u[x].parent)
  <1>0. x # Root
    BY DEF Rooted
  <1>1. \A w \in Windows(t) \ {Root} : t[w].parent = u[w].parent /\ t[w].parent \in Windows(t)
    BY DEF Rooted
  <1>2. \A w \in Windows(t) : Ancestors(t, w) = Ancestors(u, w)
    BY <1>1, SameAncestors
  <1> DEFINE p == u[x].parent
  <1>3. Root \in {p} \cup Ancestors(u, p)
    BY <1>2 DEF Rooted
  <1>4. p \in Ancestors(u, x)
    BY <1>0, AncestorsDefinition DEF Upward
  <1>5. Root \in Ancestors(u, x)
    BY <1>3, <1>4, AncestorsTransitive
  <1>6. Rooted(u)
    BY <1>1, <1>2, <1>5 DEF Rooted
  <1>7. Ancestors(u, x) = {p} \cup Ancestors(u, p)
    BY <1>0, <1>6, AncestorsStep
  <1> QED
    BY <1>2, <1>6, <1>7

-----------------------------------------------------------------------------
(* Map states *)

Asks(t, w) ==
    /\ t[w].mapRequested
    /\ IsPolicyCandidate(t, w) => t[w].policyVisible

\* What MapStatesAreDerived says of one window, and of all.
DerivedState(t, w) ==
    IF ~Asks(t, w) THEN "Unmapped"
    ELSE IF \A a \in Ancestors(t, w) \ {Root} : Asks(t, a)
         THEN "Viewable" ELSE "Unviewable"

Expected(t, w) == IF w = Root THEN "Viewable" ELSE DerivedState(t, w)

Derived(t) == \A w \in Windows(t) : t[w].mapState = Expected(t, w)

\* What is expected of a window follows from what is expected of its parent.
LEMMA ExpectedStep ==
    ASSUME NEW t, Rooted(t), NEW w \in Windows(t) \ {Root},
           NEW viewable \in BOOLEAN, viewable = (Expected(t, t[w].parent) = "Viewable")
    PROVE  Expected(t, w) = MapStateOf(t, w, viewable)
  <1> DEFINE p == t[w].parent
  <1>1. Ancestors(t, w) = {p} \cup Ancestors(t, p) /\ Ancestors(t, Root) = {}
    BY AncestorsStep
  <1>2. viewable <=> \A a \in Ancestors(t, w) \ {Root} : Asks(t, a)
    <2>1. CASE p = Root
      BY <1>1, <2>1 DEF Expected
    <2>2. CASE p # Root
      <3>1. Expected(t, p) = DerivedState(t, p)
        BY <2>2 DEF Expected
      <3>2. viewable <=> Asks(t, p) /\ \A a \in Ancestors(t, p) \ {Root} : Asks(t, a)
        BY <3>1 DEF DerivedState
      <3> QED
        BY <1>1, <2>2, <3>2
    <2> QED
      BY <2>1, <2>2
  <1>3. Expected(t, w) = IF ~Asks(t, w) THEN "Unmapped"
                         ELSE IF viewable THEN "Viewable" ELSE "Unviewable"
    BY <1>2 DEF Expected, DerivedState
  <1>4. CASE ~t[w].mapRequested
    BY <1>3, <1>4 DEF MapStateOf, Asks
  <1>5. CASE t[w].mapRequested /\ IsPolicyCandidate(t, w) /\ ~t[w].policyVisible
    BY <1>3, <1>5 DEF MapStateOf, Asks
  <1>6. CASE t[w].mapRequested /\ ~(IsPolicyCandidate(t, w) /\ ~t[w].policyVisible)
    <2>1. Asks(t, w)
      BY <1>6 DEF Asks
    <2>2. MapStateOf(t, w, viewable) = IF viewable THEN "Viewable" ELSE "Unviewable"
      BY <1>6 DEF MapStateOf
    <2> QED
      BY <1>3, <2>1, <2>2
  <1> QED
    BY <1>4, <1>5, <1>6

\* The recursive definition of MapStates computes what is expected.
LEMMA MapStatesFacts ==
    ASSUME NEW t, Rooted(t), NEW x \in Windows(t),
           x # Root => t[t[x].parent].mapState = Expected(t, t[x].parent)
    PROVE  MapStates(t, x) = [w \in Subtree(t, x) |-> Expected(t, w)]
  <1> DEFINE T == Subtree(t, x)
             F == [w \in T |-> Expected(t, w)]
             Above(f, w) == IF w = x THEN t[t[w].parent].mapState = "Viewable"
                                     ELSE f[t[w].parent] = "Viewable"
             Solves(f) ==
               f = [w \in Subtree(t, x) |->
                      IF w = Root THEN "Viewable"
                      ELSE MapStateOf(t, w, IF w = x
                                      THEN t[t[w].parent].mapState = "Viewable"
                                      ELSE f[t[w].parent] = "Viewable")]
  <1>1. ASSUME NEW w \in T, w # Root, w # x  PROVE t[w].parent \in T
    BY <1>1, SubtreeFacts
  <1>2. T \subseteq Windows(t)
    BY SubtreeFacts
  <1>3. ASSUME NEW w \in T, w # Root,
               NEW f, w # x => f[t[w].parent] = Expected(t, t[w].parent)
        PROVE  MapStateOf(t, w, IF w = x THEN t[t[w].parent].mapState = "Viewable"
                                ELSE f[t[w].parent] = "Viewable") = Expected(t, w)
    <2> DEFINE v == IF w = x THEN t[t[w].parent].mapState = "Viewable"
                             ELSE f[t[w].parent] = "Viewable"
    <2>1. v \in BOOLEAN /\ v = (Expected(t, t[w].parent) = "Viewable")
      BY <1>3
    <2> HIDE DEF v
    <2>2. Expected(t, w) = MapStateOf(t, w, v)
      BY <1>2, <1>3, <2>1, ExpectedStep
    <2> QED
      BY <2>2 DEF v
  <1>4. Solves(F)
    <2>1. ASSUME NEW w \in T, w # Root
          PROVE  MapStateOf(t, w, IF w = x THEN t[t[w].parent].mapState = "Viewable"
                                  ELSE F[t[w].parent] = "Viewable") = Expected(t, w)
      <3>1. w # x => F[t[w].parent] = Expected(t, t[w].parent)
        BY <1>1, <2>1
      <3> HIDE DEF F
      <3> QED
        BY <1>3, <2>1, <3>1
    <2>2. ASSUME NEW w \in T, w = Root  PROVE Expected(t, w) = "Viewable"
      BY <2>2 DEF Expected
    <2> DEFINE G == [w \in T |->
                      IF w = Root THEN "Viewable"
                      ELSE MapStateOf(t, w, IF w = x
                                      THEN t[t[w].parent].mapState = "Viewable"
                                      ELSE F[t[w].parent] = "Viewable")]
    <2>3. \A w \in T : G[w] = Expected(t, w)
      BY <2>1, <2>2
    <2>4. G = F
      <3> HIDE DEF T
      <3>1. G = [w \in T |-> G[w]]
        OBVIOUS
      <3> HIDE DEF G
      <3> QED
        BY <2>3, <3>1
    <2> QED
      BY <2>4
  <1> DEFINE M == MapStates(t, x)
  <1>5. Solves(M)
    <2>1. \E f : Solves(f)
      BY <1>4
    <2> QED
      BY <2>1, Zenon DEF MapStates
  <1> HIDE DEF M
  <1>6. Windows(t) \subseteq {w \in Windows(t) : w \in T => M[w] = Expected(t, w)}
    <2> DEFINE S == {w \in Windows(t) : w \in T => M[w] = Expected(t, w)}
    <2>1. Root \in S
      BY <1>5 DEF Rooted, Expected
    <2>2. ASSUME NEW w \in Windows(t) \ {Root}, t[w].parent \in S  PROVE w \in S
      <3> SUFFICES ASSUME w \in T  PROVE M[w] = Expected(t, w)
        OBVIOUS
      <3>1. w # x => M[t[w].parent] = Expected(t, t[w].parent)
        BY <1>1, <2>2
      <3>2. M[w] = MapStateOf(t, w, IF w = x THEN t[t[w].parent].mapState = "Viewable"
                                    ELSE M[t[w].parent] = "Viewable")
        BY <1>5, Zenon
      <3> HIDE DEF T
      <3> QED
        BY <1>3, <3>1, <3>2
    <2> HIDE DEF S
    <2>3. Windows(t) \subseteq S
      BY <2>1, <2>2, TreeInduction
    <2> QED
      BY <2>3 DEF S
  <1>7. \A w \in T : M[w] = Expected(t, w)
    BY <1>2, <1>6
  <1>8. M = [w \in T |-> M[w]]
    BY <1>5
  <1>9. M = F
    <2> HIDE DEF T
    <2> QED
      BY <1>7, <1>8
  <1> QED
    BY <1>9 DEF M

\* What RecomputeMapStates makes of a table.
LEMMA RecomputeFacts ==
    ASSUME NEW t, Rooted(t), NEW x \in Windows(t),
           x # Root => t[t[x].parent].mapState = Expected(t, t[x].parent)
    PROVE  RecomputeMapStates(t, x) =
             [y \in DOMAIN t |-> IF y \in Subtree(t, x)
                                 THEN [t[y] EXCEPT !.mapState = Expected(t, y)] ELSE t[y]]
  <1> DEFINE M == MapStates(t, x)
             T == Subtree(t, x)
             F == [y \in DOMAIN t |-> IF y \in DOMAIN M
                                      THEN [t[y] EXCEPT !.mapState = M[y]] ELSE t[y]]
             G == [y \in DOMAIN t |-> IF y \in T
                                 THEN [t[y] EXCEPT !.mapState = Expected(t, y)] ELSE t[y]]
  <1>1. M = [w \in T |-> Expected(t, w)]
    BY MapStatesFacts
  <1>2. RecomputeMapStates(t, x) = F
    BY DEF RecomputeMapStates
  <1>3. F = G
    <2> HIDE DEF M, T
    <2>1. DOMAIN M = T /\ \A w \in T : M[w] = Expected(t, w)
      BY <1>1
    <2> QED
      BY <2>1
  <1> QED
    BY <1>2, <1>3

-----------------------------------------------------------------------------
(* The types of the table *)

Storages == Nat \X {1}
Stores == UNION {[A -> Nat] : A \in SUBSET Atoms}
MapStatesOfWindows == {"Unmapped", "Viewable", "Unviewable"}

WindowRecord ==
    [type : {"Window"}, owner : Clients \union {0}, parent : Xids \union {Root, None},
     children : Seq(Xids), class : {"InputOutput", "InputOnly"}, mapRequested : BOOLEAN,
     policyVisible : BOOLEAN, mapState : MapStatesOfWindows,
     storage : Storages \union {NoStorage},
     inherit : BOOLEAN, cursor : Xids \union {None}, image : Nat,
     properties : Stores, events : SUBSET Clients, cleanupPending : BOOLEAN]
PixmapRecord == [type : {"Pixmap"}, owner : Clients, storage : Storages]
PlainTypes == {"GraphicsContext", "Font", "Colormap", "ShmSegment"}
PlainRecord == [type : PlainTypes, owner : Clients]
CursorRecord == [type : {"Cursor"}, owner : Clients, image : Nat]
RegionRecord == [type : {"Region"}, owner : Clients, region : SUBSET Cells]
DamageRecord == [type : {"Damage"}, owner : Clients, drawable : Xids \union {Root},
                 region : SUBSET Cells]
PictureRecord == [type : {"Picture"}, owner : Clients, drawable : Xids \union {Root, None}]

Resource == UNION {WindowRecord, PixmapRecord, PlainRecord, CursorRecord, RegionRecord,
                   DamageRecord, PictureRecord}

Places == Xids \union {Root}
Tables == UNION {[D -> Resource] : D \in SUBSET Places}
ResourceTables == [table : Tables, owned : [Clients -> Seq(Xids)], propertyBytes : Nat,
                   drawableBytes : Nat, cursorBytes : Nat]

\* The root window is there and stays what it is; it alone has no owner.
RootStands(t) ==
    /\ Root \in DOMAIN t
    /\ t[Root].type = "Window" /\ t[Root].owner = 0 /\ t[Root].parent = None
    /\ t[Root].class = "InputOutput"
    /\ \A x \in DOMAIN t \ {Root} : t[x].owner \in Clients

TypedTable(t) == t \in Tables /\ IsFiniteSet(DOMAIN t) /\ RootStands(t)
Typed(r) == r \in ResourceTables /\ TypedTable(r.table)

\* The identifiers of the root and of nothing are no client's.
LEMMA XidFacts ==
    /\ Root \notin Xids /\ None \notin Xids /\ None # Root
    /\ \A x \in Xids : x[1] \in Bases /\ x[1] # 0
    /\ 0 \notin Clients
  <1>1. 0 \notin Bases
    BY ResourcesAssumption
  <1>2. \A x \in Xids : x[1] \in Bases
    BY DEF Xids
  <1>3. Root[1] = 0 /\ None[1] = 0 /\ Root[2] = 0 /\ None[2] = 1
    BY DEF Root, None
  <1>4. 0 \notin Clients
    BY ResourcesAssumption DEF Clients
  <1> QED
    BY <1>1, <1>2, <1>3, <1>4

\* A table is a function from identifiers to resources.
LEMMA TableFacts ==
    ASSUME NEW t \in Tables
    PROVE  /\ t = [x \in DOMAIN t |-> t[x]]
           /\ DOMAIN t \subseteq Places
           /\ \A x \in DOMAIN t : t[x] \in Resource
  BY DEF Tables

\* Such a function is a table.
LEMMA TablesHave ==
    ASSUME NEW D, D \subseteq Places, NEW t, t = [x \in D |-> t[x]],
           \A x \in D : t[x] \in Resource
    PROVE  t \in Tables /\ DOMAIN t = D
  <1>1. t \in [D -> Resource]
    OBVIOUS
  <1> QED
    BY <1>1 DEF Tables

\* The type field of a resource says which kind of record it is.
LEMMA ResourceKinds ==
    ASSUME NEW a \in Resource
    PROVE  /\ a.type = "Window" => a \in WindowRecord
           /\ a.type = "Pixmap" => a \in PixmapRecord
           /\ a.type \in PlainTypes => a \in PlainRecord
           /\ a.type = "Cursor" => a \in CursorRecord
           /\ a.type = "Region" => a \in RegionRecord
           /\ a.type = "Damage" => a \in DamageRecord
           /\ a.type = "Picture" => a \in PictureRecord
           /\ a.type \in {"Window", "Pixmap", "Cursor", "Region", "Damage", "Picture"}
                           \union PlainTypes
  BY DEF Resource, WindowRecord, PixmapRecord, PlainRecord, PlainTypes, CursorRecord,
         RegionRecord, DamageRecord, PictureRecord

\* A window of a table has the record of a window.
LEMMA WindowsAre ==
    ASSUME NEW t \in Tables, NEW w \in Windows(t)
    PROVE  w \in DOMAIN t /\ t[w] \in WindowRecord /\ t[w].type = "Window"
  BY TableFacts, ResourceKinds DEF Windows, OfType

\* A table has finitely many resources of each type.
LEMMA WindowsAreFinite ==
    ASSUME NEW t, IsFiniteSet(DOMAIN t), NEW type
    PROVE  /\ IsFiniteSet(OfType(t, type)) /\ Cardinality(OfType(t, type)) \in Nat
           /\ IsFiniteSet(Windows(t))
  <1>1. OfType(t, type) \subseteq DOMAIN t /\ Windows(t) \subseteq DOMAIN t
    BY DEF OfType, Windows
  <1>2. IsFiniteSet(OfType(t, type)) /\ IsFiniteSet(Windows(t))
    BY <1>1, FS_Subset
  <1> QED
    BY <1>2, FS_CardinalityType

-----------------------------------------------------------------------------
(* A table that is whole *)

\* OwnersAreExact, of a table r.
Owned(r) ==
    \A c \in Clients :
        /\ Distinct(r.owned[c])
        /\ Range(r.owned[c]) = {x \in DOMAIN r.table \ {Root} : r.table[x].owner = c}

\* TreeIsConsistent, of a table t.
Branching(t) ==
    /\ Rooted(t)
    /\ \A w \in Windows(t) :
         Range(t[w].children) = {x \in Windows(t) : x # Root /\ t[x].parent = w}
    /\ \A w \in Windows(t) \ {Root} :
         t[w].class = "InputOutput" => t[t[w].parent].class = "InputOutput"

\* NothingDangles, of a table t.
Hanging(t) == OfType(t, "Damage") \union OfType(t, "Picture")
Pinned(t) == \A x \in Hanging(t) : t[x].drawable = None \/ IsDrawable(t, t[x].drawable)

\* TotalsAreExact, of a table r.
Totalled(r) ==
    /\ r.propertyBytes = BytesOf(r.table, Windows(r.table))
    /\ r.drawableBytes = PixmapBytes(r.table)
    /\ r.cursorBytes = Cardinality(OfType(r.table, "Cursor"))
    /\ r.propertyBytes <= Limits.totalProperty
    /\ r.drawableBytes <= Limits.drawableBytes
    /\ r.cursorBytes <= Limits.cursorBytes

\* All but the map states, and all.
Sound(r) == Typed(r) /\ Owned(r) /\ Branching(r.table) /\ Pinned(r.table) /\ Totalled(r)
Whole(r) == Sound(r) /\ Derived(r.table)

\* Two tables with the same resources in the same places of the same tree.
SameShape(t, u) ==
    /\ DOMAIN u = DOMAIN t
    /\ \A x \in DOMAIN t : u[x].type = t[x].type /\ u[x].owner = t[x].owner
    /\ \A w \in Windows(t) : /\ u[w].parent = t[w].parent /\ u[w].class = t[w].class
                             /\ Range(u[w].children) = Range(t[w].children)
    /\ \A x \in Hanging(t) : u[x].drawable = t[x].drawable
    /\ \A x \in OfType(t, "Pixmap") : u[x].storage = t[x].storage

SameProperties(t, u) == \A w \in Windows(t) : u[w].properties = t[w].properties
SameMaps(t, u) ==
    \A w \in Windows(t) : /\ u[w].mapRequested = t[w].mapRequested
                          /\ u[w].policyVisible = t[w].policyVisible
                          /\ u[w].mapState = t[w].mapState

\* Tables of one shape have the same windows, drawables and storage.
LEMMA ShapeFacts ==
    ASSUME NEW t, NEW u, SameShape(t, u)
    PROVE  /\ Windows(u) = Windows(t)
           /\ \A type : OfType(u, type) = OfType(t, type)
           /\ Hanging(u) = Hanging(t)
           /\ \A x : IsDrawable(u, x) <=> IsDrawable(t, x)
           /\ \A x : IsPolicyCandidate(u, x) <=> IsPolicyCandidate(t, x)
           /\ PixmapBytes(u) = PixmapBytes(t)
  <1>1. \A type : OfType(u, type) = OfType(t, type)
    BY DEF SameShape, OfType
  <1>2. Windows(u) = Windows(t) /\ Hanging(u) = Hanging(t)
    BY <1>1 DEF Windows, Hanging
  <1>3. \A x : IsDrawable(u, x) <=> IsDrawable(t, x)
    BY DEF SameShape, IsDrawable
  <1>4. \A x : IsPolicyCandidate(u, x) <=> IsPolicyCandidate(t, x)
    BY <1>2 DEF SameShape, IsPolicyCandidate
  <1>5. {u[x].storage : x \in OfType(u, "Pixmap")} = {t[x].storage : x \in OfType(t, "Pixmap")}
    BY <1>1 DEF SameShape
  <1>6. PixmapBytes(u) = PixmapBytes(t)
    BY <1>5 DEF PixmapBytes
  <1> QED
    BY <1>1, <1>2, <1>3, <1>4, <1>6

\* Tables of one shape have the same tree.
LEMMA ShapeTree ==
    ASSUME NEW t, NEW u, SameShape(t, u), Rooted(t)
    PROVE  /\ Rooted(u)
           /\ \A w \in Windows(t) : Ancestors(u, w) = Ancestors(t, w)
           /\ \A x \in Windows(t) : Subtree(u, x) = Subtree(t, x)
  <1>1. Windows(u) = Windows(t)
    BY ShapeFacts
  <1>2. Cut(t, {})
    BY DEF Cut
  <1>3. \A w \in Windows(u) : u[w].parent = t[w].parent
    BY <1>1 DEF SameShape
  <1>4. Rooted(u) /\ \A w \in Windows(u) : Ancestors(u, w) = Ancestors(t, w)
    BY <1>1, <1>2, <1>3, CutTree
  <1> QED
    BY <1>1, <1>4 DEF Subtree

\* What depends on the shape alone is kept with it.
LEMMA ShapeKeeps ==
    ASSUME NEW t, NEW u, SameShape(t, u)
    PROVE  /\ Branching(t) => Branching(u)
           /\ Pinned(t) => Pinned(u)
           /\ RootStands(t) => RootStands(u)
  <1>1. Windows(u) = Windows(t)
    BY ShapeFacts
  <1>2. Branching(t) => Branching(u)
    <2> SUFFICES ASSUME Branching(t)  PROVE Branching(u)
      OBVIOUS
    <2>1. Rooted(t) /\ Rooted(u)
      BY ShapeTree DEF Branching
    <2>2. \A w \in Windows(u) :
            Range(u[w].children) = {x \in Windows(u) : x # Root /\ u[x].parent = w}
      BY <1>1 DEF Branching, SameShape
    <2>3. \A w \in Windows(u) \ {Root} :
            u[w].class = "InputOutput" => u[u[w].parent].class = "InputOutput"
      <3>1. \A w \in Windows(t) \ {Root} : t[w].parent \in Windows(t)
        BY <2>1 DEF Rooted
      <3> QED
        BY <1>1, <3>1 DEF Branching, SameShape
    <2> QED
      BY <2>1, <2>2, <2>3 DEF Branching
  <1>3. Pinned(t) => Pinned(u)
    BY ShapeFacts DEF Pinned, SameShape
  <1>4. RootStands(t) => RootStands(u)
    <2>1. RootStands(t) => Root \in Windows(t)
      BY DEF RootStands, Windows, OfType
    <2> QED
      BY <2>1 DEF RootStands, SameShape
  <1> QED
    BY <1>2, <1>3, <1>4

\* Map states that are derived stay so when nothing they depend on changes.
LEMMA MapsKeep ==
    ASSUME NEW t, NEW u, SameShape(t, u), SameMaps(t, u), Rooted(t), Derived(t)
    PROVE  Derived(u)
  <1>1. /\ Windows(u) = Windows(t)
        /\ \A x : IsPolicyCandidate(u, x) <=> IsPolicyCandidate(t, x)
    BY ShapeFacts
  <1>2. \A w \in Windows(t) : Ancestors(u, w) = Ancestors(t, w) /\ Ancestors(t, w) \subseteq Windows(t)
    BY ShapeTree, AncestorsDefinition
  <1>3. \A w \in Windows(t) : Asks(u, w) <=> Asks(t, w)
    BY <1>1 DEF Asks, SameMaps
  <1>4. \A w \in Windows(t) : Expected(u, w) = Expected(t, w)
    BY <1>2, <1>3 DEF Expected, DerivedState
  <1> QED
    BY <1>1, <1>4 DEF Derived, SameMaps

\* Windows whose properties are the same have the same bytes.
LEMMA PropertiesKeep ==
    ASSUME NEW t, NEW u, NEW S, \A w \in S : u[w].properties = t[w].properties
    PROVE  BytesOf(u, S) = BytesOf(t, S)
  <1>1. \A w \in S : PropertyBytes(u[w]) = PropertyBytes(t[w])
    BY DEF PropertyBytes
  <1>2. [w \in S |-> PropertyBytes(u[w])] = [w \in S |-> PropertyBytes(t[w])]
    BY <1>1
  <1> QED
    BY <1>2 DEF BytesOf

-----------------------------------------------------------------------------
(* Changes that leave every resource where it is *)

\* r with another table.
Retabled(r, t) == [r EXCEPT !.table = t]
Rewritten(r, x, b) == Retabled(r, [r.table EXCEPT ![x] = b])

\* The record a may become b, whose events are its own and those of cs.
Touched(a, b, cs) ==
    /\ b \in Resource /\ b.type = a.type /\ b.owner = a.owner
    /\ a.type = "Window" =>
         /\ b.parent = a.parent /\ b.class = a.class
         /\ Range(b.children) = Range(a.children)
         /\ b.properties = a.properties
         /\ b.events \subseteq a.events \union cs
    /\ a.type \in {"Damage", "Picture"} => b.drawable = a.drawable
    /\ a.type = "Pixmap" => b.storage = a.storage

\* Its map state, and what this depends on, are the same.
SameMap(a, b) ==
    a.type = "Window" => /\ b.mapRequested = a.mapRequested
                         /\ b.policyVisible = a.policyVisible
                         /\ b.mapState = a.mapState

\* From t to u resources may go, those of news may come for a client of cs, and
\* the others stay what they are; the events of windows are their own and those of cs.
Evolves(t, u, news, cs) ==
    /\ DOMAIN u \subseteq DOMAIN t \union news
    /\ news \cap DOMAIN t = {}
    /\ \A x \in DOMAIN u \cap news : u[x].owner \in cs
    /\ \A x \in DOMAIN u \ news : u[x].type = t[x].type /\ u[x].owner = t[x].owner
    /\ \A w \in Windows(u) \ news :
         /\ u[w].parent = t[w].parent
         /\ u[w].events \subseteq t[w].events \union cs
    /\ \A w \in Windows(u) \cap news : u[w].events \subseteq cs

\* Two changes after one another are one.
LEMMA EvolvesTwice ==
    ASSUME NEW t, NEW u, NEW v, NEW news, NEW cs,
           \/ Evolves(t, u, news, cs) /\ Evolves(u, v, {}, cs)
           \/ Evolves(t, u, {}, cs) /\ DOMAIN u = DOMAIN t /\ Evolves(u, v, news, cs)
    PROVE  Evolves(t, v, news, cs)
  <1>1. CASE Evolves(t, u, news, cs) /\ Evolves(u, v, {}, cs)
    <2>1. Windows(v) \subseteq Windows(u) /\ DOMAIN v \subseteq DOMAIN u
      BY <1>1 DEF Evolves, Windows, OfType
    <2>2. /\ DOMAIN v \subseteq DOMAIN t \union news
          /\ news \cap DOMAIN t = {}
          /\ \A x \in DOMAIN v \cap news : v[x].owner \in cs
          /\ \A x \in DOMAIN v \ news : v[x].type = t[x].type /\ v[x].owner = t[x].owner
      BY <1>1, <2>1 DEF Evolves
    <2>3. \A w \in Windows(v) \ news : /\ v[w].parent = t[w].parent
                                       /\ v[w].events \subseteq t[w].events \union cs
      BY <1>1, <2>1 DEF Evolves
    <2>4. \A w \in Windows(v) \cap news : v[w].events \subseteq cs
      BY <1>1, <2>1 DEF Evolves
    <2> QED
      BY <2>2, <2>3, <2>4 DEF Evolves
  <1>2. CASE Evolves(t, u, {}, cs) /\ DOMAIN u = DOMAIN t /\ Evolves(u, v, news, cs)
    <2>1. \A w \in Windows(v) \ news : w \in Windows(u)
      BY <1>2 DEF Evolves, Windows, OfType
    <2>2. /\ DOMAIN v \subseteq DOMAIN t \union news
          /\ news \cap DOMAIN t = {}
          /\ \A x \in DOMAIN v \cap news : v[x].owner \in cs
          /\ \A x \in DOMAIN v \ news : v[x].type = t[x].type /\ v[x].owner = t[x].owner
      BY <1>2 DEF Evolves
    <2>3. \A w \in Windows(v) \ news : /\ v[w].parent = t[w].parent
                                       /\ v[w].events \subseteq t[w].events \union cs
      BY <1>2, <2>1 DEF Evolves
    <2>4. \A w \in Windows(v) \cap news : v[w].events \subseteq cs
      BY <1>2 DEF Evolves
    <2> QED
      BY <2>2, <2>3, <2>4 DEF Evolves
  <1> QED
    BY <1>1, <1>2

\* A table whose shape and properties are the same is as sound as before.
LEMMA ShapeSound ==
    ASSUME NEW r, Sound(r), NEW T \in Tables, SameShape(r.table, T),
           SameProperties(r.table, T), NEW u, u = Retabled(r, T)
    PROVE  /\ Sound(u) /\ u.table = T
           /\ SameMaps(r.table, T) /\ Derived(r.table) => Derived(u.table)
  <1> DEFINE t == r.table
  <1>1. /\ r \in ResourceTables /\ IsFiniteSet(DOMAIN t) /\ RootStands(t)
        /\ Branching(t) /\ Rooted(t) /\ Pinned(t)
    BY DEF Sound, Typed, TypedTable, Branching
  <1>2. /\ u \in ResourceTables /\ u.table = T /\ u.owned = r.owned
        /\ u.propertyBytes = r.propertyBytes /\ u.drawableBytes = r.drawableBytes
        /\ u.cursorBytes = r.cursorBytes
    BY <1>1 DEF ResourceTables, Retabled
  <1>3. DOMAIN T = DOMAIN t
    BY DEF SameShape
  <1>4. Branching(T) /\ Pinned(T) /\ RootStands(T)
    BY <1>1, ShapeKeeps
  <1>5. Typed(u)
    BY <1>1, <1>2, <1>3, <1>4 DEF Typed, TypedTable
  <1>6. Owned(u)
    <2>1. \A c \in Clients : {x \in DOMAIN T \ {Root} : T[x].owner = c}
                               = {x \in DOMAIN t \ {Root} : t[x].owner = c}
      BY <1>3 DEF SameShape
    <2> QED
      BY <1>2, <2>1 DEF Owned, Sound
  <1>7. Totalled(u)
    <2>1. /\ Windows(T) = Windows(t) /\ OfType(T, "Cursor") = OfType(t, "Cursor")
          /\ PixmapBytes(T) = PixmapBytes(t)
      BY ShapeFacts
    <2>2. BytesOf(T, Windows(t)) = BytesOf(t, Windows(t))
      BY PropertiesKeep DEF SameProperties
    <2> QED
      BY <1>2, <2>1, <2>2 DEF Totalled, Sound
  <1>8. Sound(u)
    BY <1>2, <1>4, <1>5, <1>6, <1>7 DEF Sound
  <1> QED
    BY <1>1, <1>2, <1>8, MapsKeep

\* A table whose records are all touched at most.
AllTouched(t, T, cs) ==
    /\ T = [x \in DOMAIN t |-> T[x]]
    /\ \A x \in DOMAIN t : Touched(t[x], T[x], cs)

\* Records that are touched at most keep the shape of their table.
LEMMA TouchedShape ==
    ASSUME NEW t \in Tables, NEW T, NEW cs, AllTouched(t, T, cs)
    PROVE  /\ T \in Tables /\ DOMAIN T = DOMAIN t
           /\ SameShape(t, T) /\ SameProperties(t, T)
           /\ Evolves(t, T, {}, cs)
           /\ (\A x \in DOMAIN t : SameMap(t[x], T[x])) => SameMaps(t, T)
  <1>1. DOMAIN T = DOMAIN t /\ T \in Tables
    <2>1. DOMAIN t \subseteq Places
      BY TableFacts
    <2>2. \A x \in DOMAIN t : T[x] \in Resource
      BY DEF AllTouched, Touched
    <2>3. T = [x \in DOMAIN t |-> T[x]]
      BY DEF AllTouched
    <2> QED
      BY <2>1, <2>2, <2>3, TablesHave
  <1>2. SameShape(t, T)
    BY <1>1 DEF SameShape, AllTouched, Touched, Windows, OfType, Hanging
  <1>3. SameProperties(t, T)
    BY DEF SameProperties, AllTouched, Touched, Windows, OfType
  <1>4. Evolves(t, T, {}, cs)
    BY <1>1 DEF Evolves, AllTouched, Touched, Windows, OfType
  <1>5. (\A x \in DOMAIN t : SameMap(t[x], T[x])) => SameMaps(t, T)
    BY DEF SameMap, SameMaps, Windows, OfType
  <1> QED
    BY <1>1, <1>2, <1>3, <1>4, <1>5

\* u has of r all but the table; what became of that is known.
LEMMA TouchedSound ==
    ASSUME NEW r, Sound(r), NEW T, NEW cs, AllTouched(r.table, T, cs),
           NEW u, u = Retabled(r, T)
    PROVE  /\ Sound(u) /\ u.table = T /\ DOMAIN T = DOMAIN r.table
           /\ SameShape(r.table, T) /\ SameProperties(r.table, T)
           /\ Evolves(r.table, T, {}, cs)
           /\ u.owned = r.owned /\ u.drawableBytes = r.drawableBytes
           /\ (\A x \in DOMAIN r.table : SameMap(r.table[x], T[x])) /\ Derived(r.table)
                => Derived(T)
  <1>1. r.table \in Tables /\ r \in ResourceTables
    BY DEF Sound, Typed, TypedTable
  <1>2. u.owned = r.owned /\ u.drawableBytes = r.drawableBytes
    BY <1>1 DEF ResourceTables, Retabled
  <1>3. /\ T \in Tables /\ DOMAIN T = DOMAIN r.table
        /\ SameShape(r.table, T) /\ SameProperties(r.table, T)
        /\ Evolves(r.table, T, {}, cs)
        /\ (\A x \in DOMAIN r.table : SameMap(r.table[x], T[x])) => SameMaps(r.table, T)
    BY <1>1, TouchedShape
  <1>4. /\ Sound(u) /\ u.table = T
        /\ SameMaps(r.table, T) /\ Derived(r.table) => Derived(T)
    BY <1>3, ShapeSound
  <1> QED
    BY <1>2, <1>3, <1>4

\* A record is touched at most by nothing at all.
LEMMA TouchedItself ==
    ASSUME NEW a \in Resource, NEW cs
    PROVE  Touched(a, a, cs) /\ SameMap(a, a)
  <1>1. a.events \subseteq a.events \union cs
    OBVIOUS
  <1> QED
    BY <1>1 DEF Touched, SameMap

\* What can be written into a window without moving it.
LEMMA TouchedWindow ==
    ASSUME NEW a \in WindowRecord, NEW cs
    PROVE  /\ a.type = "Window" /\ a \in Resource
           /\ \A s \in Storages \union {NoStorage} :
                /\ Touched(a, [a EXCEPT !.storage = s], cs)
                /\ SameMap(a, [a EXCEPT !.storage = s])
           /\ \A n \in Nat : /\ Touched(a, [a EXCEPT !.image = n], cs)
                             /\ SameMap(a, [a EXCEPT !.image = n])
           /\ /\ Touched(a, [a EXCEPT !.cursor = None], cs)
              /\ SameMap(a, [a EXCEPT !.cursor = None])
           /\ \A i \in BOOLEAN, x \in Xids \union {None}, n \in Nat :
                LET b == [a EXCEPT !.inherit = i, !.cursor = x, !.image = n]
                IN  Touched(a, b, cs) /\ SameMap(a, b)
           /\ \A e \in SUBSET Clients :
                e \subseteq a.events \union cs =>
                  /\ Touched(a, [a EXCEPT !.events = e], cs)
                  /\ SameMap(a, [a EXCEPT !.events = e])
           /\ \A q \in Seq(Xids) :
                Range(q) = Range(a.children) =>
                  /\ Touched(a, [a EXCEPT !.children = q], cs)
                  /\ SameMap(a, [a EXCEPT !.children = q])
  <1>1. a.type = "Window" /\ a \in Resource
    BY DEF WindowRecord, Resource
  <1>2. \A b \in WindowRecord : b \in Resource
    BY DEF Resource
  <1>3. ASSUME NEW s \in Storages \union {NoStorage}
        PROVE  Touched(a, [a EXCEPT !.storage = s], cs) /\ SameMap(a, [a EXCEPT !.storage = s])
    <2> DEFINE b == [a EXCEPT !.storage = s]
    <2>1. b \in WindowRecord /\ b.owner = a.owner /\ b.parent = a.parent /\ b.class = a.class
          /\ b.children = a.children /\ b.properties = a.properties /\ b.events = a.events
          /\ b.type = "Window"
      BY DEF WindowRecord
    <2>2. SameMap(a, b)
      BY DEF WindowRecord, SameMap
    <2> HIDE DEF b
    <2>3. Touched(a, b, cs)
      BY <1>1, <1>2, <2>1 DEF Touched
    <2> QED
      BY <2>2, <2>3 DEF b
  <1>4. ASSUME NEW s \in Nat
        PROVE  Touched(a, [a EXCEPT !.image = s], cs) /\ SameMap(a, [a EXCEPT !.image = s])
    <2> DEFINE b == [a EXCEPT !.image = s]
    <2>1. b \in WindowRecord /\ b.owner = a.owner /\ b.parent = a.parent /\ b.class = a.class
          /\ b.children = a.children /\ b.properties = a.properties /\ b.events = a.events
          /\ b.type = "Window"
      BY DEF WindowRecord
    <2>2. SameMap(a, b)
      BY DEF WindowRecord, SameMap
    <2> HIDE DEF b
    <2>3. Touched(a, b, cs)
      BY <1>1, <1>2, <2>1 DEF Touched
    <2> QED
      BY <2>2, <2>3 DEF b
  <1>5. Touched(a, [a EXCEPT !.cursor = None], cs) /\ SameMap(a, [a EXCEPT !.cursor = None])
    <2> DEFINE b == [a EXCEPT !.cursor = None]
    <2>1. b \in WindowRecord /\ b.owner = a.owner /\ b.parent = a.parent /\ b.class = a.class
          /\ b.children = a.children /\ b.properties = a.properties /\ b.events = a.events
          /\ b.type = "Window"
      BY DEF WindowRecord
    <2>2. SameMap(a, b)
      BY DEF WindowRecord, SameMap
    <2> HIDE DEF b
    <2>3. Touched(a, b, cs)
      BY <1>1, <1>2, <2>1 DEF Touched
    <2> QED
      BY <2>2, <2>3 DEF b
  <1>6. ASSUME NEW i \in BOOLEAN, NEW x \in Xids \union {None}, NEW n \in Nat
        PROVE  LET b == [a EXCEPT !.inherit = i, !.cursor = x, !.image = n]
               IN  Touched(a, b, cs) /\ SameMap(a, b)
    <2> DEFINE b == [a EXCEPT !.inherit = i, !.cursor = x, !.image = n]
    <2>1. b \in WindowRecord /\ b.owner = a.owner /\ b.parent = a.parent /\ b.class = a.class
          /\ b.children = a.children /\ b.properties = a.properties /\ b.events = a.events
          /\ b.type = "Window"
      BY DEF WindowRecord
    <2>2. SameMap(a, b)
      BY DEF WindowRecord, SameMap
    <2> HIDE DEF b
    <2>3. Touched(a, b, cs)
      BY <1>1, <1>2, <2>1 DEF Touched
    <2> QED
      BY <2>2, <2>3 DEF b
  <1>7. ASSUME NEW e \in SUBSET Clients, e \subseteq a.events \union cs
        PROVE  Touched(a, [a EXCEPT !.events = e], cs) /\ SameMap(a, [a EXCEPT !.events = e])
    <2> DEFINE b == [a EXCEPT !.events = e]
    <2>1. b \in WindowRecord /\ b.owner = a.owner /\ b.parent = a.parent /\ b.class = a.class
          /\ b.children = a.children /\ b.properties = a.properties /\ b.events = e
          /\ b.type = "Window"
      BY DEF WindowRecord
    <2>2. SameMap(a, b)
      BY DEF WindowRecord, SameMap
    <2> HIDE DEF b
    <2>3. Touched(a, b, cs)
      BY <1>1, <1>2, <1>7, <2>1 DEF Touched
    <2> QED
      BY <2>2, <2>3 DEF b
  <1>8. ASSUME NEW q \in Seq(Xids), Range(q) = Range(a.children)
        PROVE  /\ Touched(a, [a EXCEPT !.children = q], cs)
               /\ SameMap(a, [a EXCEPT !.children = q])
    <2> DEFINE b == [a EXCEPT !.children = q]
    <2>1. b \in WindowRecord /\ b.owner = a.owner /\ b.parent = a.parent /\ b.class = a.class
          /\ b.children = q /\ b.properties = a.properties /\ b.events = a.events
          /\ b.type = "Window"
      BY DEF WindowRecord
    <2>2. SameMap(a, b)
      BY DEF WindowRecord, SameMap
    <2> HIDE DEF b
    <2>3. Touched(a, b, cs)
      BY <1>1, <1>2, <1>8, <2>1 DEF Touched
    <2> QED
      BY <2>2, <2>3 DEF b
  <1> QED
    BY <1>1, <1>3, <1>4, <1>5, <1>6, <1>7, <1>8

\* u is whole, and all of r is still in its place.
Harmless(r, u, cs) ==
    /\ Whole(u)
    /\ SameShape(r.table, u.table) /\ SameProperties(r.table, u.table)
    /\ Evolves(r.table, u.table, {}, cs)
    /\ u.owned = r.owned /\ u.drawableBytes = r.drawableBytes

\* What a whole table is, part by part.
LEMMA WholeFacts ==
    ASSUME NEW r, Whole(r)
    PROVE  /\ r \in ResourceTables /\ r.table \in Tables
           /\ IsFiniteSet(DOMAIN r.table) /\ RootStands(r.table)
           /\ Root \in Windows(r.table)
           /\ DOMAIN r.table \subseteq Places
           /\ \A x \in DOMAIN r.table : r.table[x] \in Resource
           /\ Sound(r) /\ Derived(r.table) /\ Rooted(r.table) /\ Branching(r.table)
  <1>1. /\ r \in ResourceTables /\ r.table \in Tables
        /\ IsFiniteSet(DOMAIN r.table) /\ RootStands(r.table)
        /\ Sound(r) /\ Derived(r.table) /\ Branching(r.table)
    BY DEF Whole, Sound, Typed, TypedTable
  <1> QED
    BY <1>1, TableFacts DEF Branching, Rooted

\* The shape that is kept twice is kept.
LEMMA ShapeTwice ==
    ASSUME NEW t, NEW u, NEW v, SameShape(t, u), SameShape(u, v)
    PROVE  SameShape(t, v)
  <1>1. Windows(u) = Windows(t) /\ Hanging(u) = Hanging(t)
        /\ OfType(u, "Pixmap") = OfType(t, "Pixmap")
    BY ShapeFacts
  <1> QED
    BY <1>1 DEF SameShape

\* Two harmless changes after one another are one.
LEMMA HarmlessTwice ==
    ASSUME NEW r, NEW s, NEW u, NEW cs, Harmless(r, s, cs), Harmless(s, u, cs)
    PROVE  Harmless(r, u, cs)
  <1>1. SameShape(r.table, u.table)
    BY ShapeTwice DEF Harmless
  <1>2. Evolves(r.table, u.table, {}, cs)
    BY EvolvesTwice DEF Harmless
  <1>3. Windows(s.table) = Windows(r.table)
    BY ShapeFacts DEF Harmless
  <1> QED
    BY <1>1, <1>2, <1>3 DEF Harmless, SameProperties

\* Touching records without changing map states is harmless.
LEMMA TouchedHarmless ==
    ASSUME NEW r, Whole(r), NEW T, NEW cs, AllTouched(r.table, T, cs),
           \A x \in DOMAIN r.table : SameMap(r.table[x], T[x]),
           NEW u, u = Retabled(r, T)
    PROVE  Harmless(r, u, cs)
  <1>1. Sound(r) /\ Derived(r.table)
    BY DEF Whole
  <1>2. /\ Sound(u) /\ u.table = T
        /\ SameShape(r.table, T) /\ SameProperties(r.table, T)
        /\ Evolves(r.table, T, {}, cs)
        /\ u.owned = r.owned /\ u.drawableBytes = r.drawableBytes /\ Derived(T)
    BY <1>1, TouchedSound
  <1> QED
    BY <1>2 DEF Whole, Harmless

\* One record is changed.
LEMMA OneTouched ==
    ASSUME NEW r, Whole(r), NEW x \in DOMAIN r.table, NEW b, NEW cs,
           Touched(r.table[x], b, cs), SameMap(r.table[x], b),
           NEW u, u = Rewritten(r, x, b)
    PROVE  Harmless(r, u, cs)
  <1> DEFINE T == [r.table EXCEPT ![x] = b]
  <1>1. r.table = [y \in DOMAIN r.table |-> r.table[y]]
    BY WholeFacts, TableFacts
  <1>2. T = [y \in DOMAIN r.table |-> T[y]]
    BY <1>1
  <1>3. T[x] = b /\ \A y \in DOMAIN r.table : y # x => T[y] = r.table[y]
    BY <1>1
  <1>4. \A y \in DOMAIN r.table : r.table[y] \in Resource
    BY WholeFacts
  <1> HIDE DEF T
  <1>5. \A y \in DOMAIN r.table : Touched(r.table[y], T[y], cs) /\ SameMap(r.table[y], T[y])
    BY <1>3, <1>4, TouchedItself
  <1>6. AllTouched(r.table, T, cs)
    BY <1>2, <1>5 DEF AllTouched
  <1> QED
    BY <1>5, <1>6, TouchedHarmless DEF T, Rewritten

\* So is changing nothing.
LEMMA NothingHarmless ==
    ASSUME NEW r, Whole(r), NEW cs
    PROVE  Harmless(r, r, cs)
  <1>1. SameShape(r.table, r.table) /\ SameProperties(r.table, r.table)
    BY DEF SameShape, SameProperties
  <1>2. Evolves(r.table, r.table, {}, cs)
    BY DEF Evolves, Windows, OfType
  <1> QED
    BY <1>1, <1>2 DEF Harmless

-----------------------------------------------------------------------------
(* Damage, regions, storage, images *)

\* Damage that accumulates is harmless (add_damage).
LEMMA AddDamageHarmless ==
    ASSUME NEW r, Whole(r), NEW d, NEW cells \in SUBSET Cells, NEW cs
    PROVE  Harmless(r, AddDamage(r, d, cells), cs)
  <1> DEFINE t == r.table
             T == [x \in DOMAIN r.table |->
                     IF r.table[x].type = "Damage" /\ r.table[x].drawable = d
                     THEN [r.table[x] EXCEPT !.region = r.table[x].region \union cells]
                     ELSE r.table[x]]
  <1>1. AddDamage(r, d, cells) = Retabled(r, T)
    BY DEF AddDamage, Retabled
  <1>2. ASSUME NEW x \in DOMAIN t  PROVE Touched(t[x], T[x], cs) /\ SameMap(t[x], T[x])
    <2>1. t[x] \in Resource
      BY WholeFacts
    <2>2. CASE t[x].type = "Damage" /\ t[x].drawable = d
      <3> DEFINE b == [t[x] EXCEPT !.region = t[x].region \union cells]
      <3>1. t[x] \in DamageRecord
        BY <2>1, <2>2, ResourceKinds
      <3>2. b \in DamageRecord /\ b.type = t[x].type /\ b.owner = t[x].owner
            /\ b.drawable = t[x].drawable
        BY <3>1 DEF DamageRecord
      <3>3. b \in Resource
        BY <3>2 DEF Resource
      <3>4. T[x] = b
        BY <2>2
      <3> HIDE DEF b, T
      <3> QED
        BY <2>2, <3>2, <3>3, <3>4 DEF Touched, SameMap
    <2>3. CASE ~(t[x].type = "Damage" /\ t[x].drawable = d)
      <3>1. T[x] = t[x]
        BY <2>3
      <3> QED
        BY <2>1, <3>1, TouchedItself
    <2> QED
      BY <2>2, <2>3
  <1>3. T = [x \in DOMAIN t |-> T[x]]
    OBVIOUS
  <1> HIDE DEF T
  <1>4. AllTouched(t, T, cs)
    BY <1>2, <1>3 DEF AllTouched
  <1> QED
    BY <1>1, <1>2, <1>4, TouchedHarmless

\* Regions and damage objects are given another region.
LEMMA RegionHarmless ==
    ASSUME NEW r, Whole(r), NEW x \in OfType(r.table, "Region") \union OfType(r.table, "Damage"),
           NEW cells \in SUBSET Cells, NEW cs
    PROVE  Harmless(r, [r EXCEPT !.table[x].region = cells], cs)
  <1> DEFINE a == r.table[x]
             b == [a EXCEPT !.region = cells]
  <1>1. x \in DOMAIN r.table /\ a \in Resource /\ a.type \in {"Region", "Damage"}
    BY WholeFacts DEF OfType
  <1>2. /\ b \in Resource /\ b.type = a.type /\ b.owner = a.owner
        /\ a.type = "Damage" => b.drawable = a.drawable
    <2>1. CASE a.type = "Region"
      <3>1. a \in RegionRecord
        BY <1>1, <2>1, ResourceKinds
      <3>2. b \in RegionRecord /\ b.type = a.type /\ b.owner = a.owner
        BY <3>1 DEF RegionRecord
      <3> QED
        BY <2>1, <3>2 DEF Resource
    <2>2. CASE a.type = "Damage"
      <3>1. a \in DamageRecord
        BY <1>1, <2>2, ResourceKinds
      <3>2. b \in DamageRecord /\ b.type = a.type /\ b.owner = a.owner
            /\ b.drawable = a.drawable
        BY <3>1 DEF DamageRecord
      <3> QED
        BY <3>2 DEF Resource
    <2> QED
      BY <1>1, <2>1, <2>2
  <1>3. Touched(a, b, cs) /\ SameMap(a, b)
    <2> HIDE DEF a, b
    <2> QED
      BY <1>1, <1>2 DEF Touched, SameMap
  <1>4. [r EXCEPT !.table[x].region = cells] = Rewritten(r, x, b)
    BY DEF Retabled, Rewritten
  <1> HIDE DEF b
  <1> QED
    BY <1>1, <1>3, <1>4, OneTouched

\* The region of a region or of a damage object is a set of cells.
LEMMA RegionsAre ==
    ASSUME NEW r, Whole(r), NEW x \in OfType(r.table, "Region") \union OfType(r.table, "Damage")
    PROVE  r.table[x].region \in SUBSET Cells
  <1>1. x \in DOMAIN r.table /\ r.table[x] \in Resource
        /\ r.table[x].type \in {"Region", "Damage"}
    BY WholeFacts DEF OfType
  <1>2. r.table[x] \in RegionRecord \union DamageRecord
    BY <1>1, ResourceKinds
  <1> QED
    BY <1>2 DEF RegionRecord, DamageRecord

\* So is damage that is subtracted (subtract_damage).
LEMMA SubtractDamageHarmless ==
    ASSUME NEW r, Whole(r), NEW x \in OfType(r.table, "Damage"),
           NEW repair \in OfType(r.table, "Region") \union {None},
           NEW parts \in OfType(r.table, "Region") \union {None}, NEW cs
    PROVE  Harmless(r, SubtractDamage(r, x, repair, parts), cs)
  <1> DEFINE all == r.table[x].region
             fixed == IF repair = None THEN all ELSE all \intersect r.table[repair].region
             rest == [r EXCEPT !.table[x].region = all \ fixed]
  <1>1. all \in SUBSET Cells
    BY RegionsAre
  <1>2. fixed \in SUBSET Cells /\ all \ fixed \in SUBSET Cells
    BY <1>1
  <1>3. Harmless(r, rest, cs)
    <2> HIDE DEF all, fixed
    <2> QED
      BY <1>2, RegionHarmless
  <1>4. SubtractDamage(r, x, repair, parts)
          = IF parts = None THEN rest ELSE [rest EXCEPT !.table[parts].region = fixed]
    BY DEF SubtractDamage
  <1>5. CASE parts = None
    BY <1>3, <1>4, <1>5
  <1>6. CASE parts # None
    <2> HIDE DEF rest, fixed
    <2>1. Whole(rest) /\ parts \in OfType(rest.table, "Region")
      BY <1>3, <1>6, ShapeFacts DEF Harmless
    <2>2. Harmless(rest, [rest EXCEPT !.table[parts].region = fixed], cs)
      BY <1>2, <2>1, RegionHarmless
    <2> QED
      BY <1>3, <1>4, <1>6, <2>2, HarmlessTwice
  <1> QED
    BY <1>5, <1>6

\* One more than there are: a number that is not used.
LEMMA FreshNumber ==
    ASSUME NEW used, IsFiniteSet(used)
    PROVE  \E n \in 1..(Cardinality(used) + 1) : n \notin used
  <1> DEFINE k == Cardinality(used)
             N == 1..(k + 1)
  <1>1. k \in Nat
    BY FS_CardinalityType
  <1>2. Cardinality(N) = k + 1
    <2>1. 1 \in Int /\ k + 1 \in Int /\ ~(1 > k + 1) /\ k + 1 - 1 + 1 = k + 1
      BY <1>1
    <2> QED
      BY <2>1, FS_Interval
  <1>3. SUFFICES ASSUME N \subseteq used  PROVE FALSE
    OBVIOUS
  <1> HIDE DEF N
  <1>4. Cardinality(N) <= k
    BY <1>3, FS_Subset
  <1> HIDE DEF k
  <1> QED
    BY <1>1, <1>2, <1>4

\* Fresh storage is storage.
LEMMA FreshStorageFacts ==
    ASSUME NEW t, IsFiniteSet(DOMAIN t)
    PROVE  FreshStorage(t, 1) \in Storages
  <1> DEFINE D == Windows(t) \union OfType(t, "Pixmap")
             f == [x \in D |-> t[x].storage[1]]
             used == {t[x].storage[1] : x \in D}
  <1>1. IsFiniteSet(D)
    BY FS_Subset DEF Windows, OfType
  <1>2. IsFiniteSet(used)
    <2>1. DOMAIN f = D /\ f = [x \in D |-> f[x]] /\ used = {f[x] : x \in D}
      OBVIOUS
    <2> HIDE DEF f, D, used
    <2> QED
      BY <1>1, <2>1, ImageIsFinite
  <1>3. Cardinality(used) \in Nat
    BY <1>2, FS_CardinalityType
  <1> DEFINE n == CHOOSE n \in 1..(Cardinality(used) + 1) : n \notin used
  <1>4. FreshStorage(t, 1) = <<n, 1>>
    BY DEF FreshStorage
  <1>5. n \in 1..(Cardinality(used) + 1)
    <2> HIDE DEF used
    <2> QED
      BY <1>2, FreshNumber
  <1>6. n \in Nat
    <2> HIDE DEF n, used
    <2> QED
      BY <1>3, <1>5
  <1> HIDE DEF n
  <1> QED
    BY <1>4, <1>6 DEF Storages

\* A fresh image is an image.
LEMMA FreshImageFacts ==
    ASSUME NEW t, IsFiniteSet(DOMAIN t)
    PROVE  FreshImage(t) \in Nat
  <1> DEFINE D == Windows(t) \union OfType(t, "Cursor")
             f == [x \in D |-> t[x].image]
             used == {t[x].image : x \in D}
  <1>1. IsFiniteSet(D)
    BY FS_Subset DEF Windows, OfType
  <1>2. IsFiniteSet(used)
    <2>1. DOMAIN f = D /\ f = [x \in D |-> f[x]] /\ used = {f[x] : x \in D}
      OBVIOUS
    <2> HIDE DEF f, D, used
    <2> QED
      BY <1>1, <2>1, ImageIsFinite
  <1>3. Cardinality(used) \in Nat
    BY <1>2, FS_CardinalityType
  <1> DEFINE n == CHOOSE n \in 1..(Cardinality(used) + 1) : n \notin used
  <1>4. FreshImage(t) = n
    BY DEF FreshImage
  <1>5. n \in 1..(Cardinality(used) + 1)
    <2> HIDE DEF used
    <2> QED
      BY <1>2, FreshNumber
  <1> HIDE DEF n, used
  <1> QED
    BY <1>3, <1>4, <1>5

\* A window is given something that neither moves it nor maps it.
LEMMA WindowsTouched ==
    ASSUME NEW r, Whole(r), NEW w \in Windows(r.table), NEW cs
    PROVE  /\ w \in DOMAIN r.table /\ r.table[w] \in WindowRecord
           /\ \A b : /\ Touched(r.table[w], b, cs) /\ SameMap(r.table[w], b)
                     => Harmless(r, Rewritten(r, w, b), cs)
  <1>1. w \in DOMAIN r.table /\ r.table[w] \in WindowRecord
    BY WholeFacts, WindowsAre
  <1> QED
    BY <1>1, OneTouched

\* A window may be given other storage.
LEMMA StorageHarmless ==
    ASSUME NEW r, Whole(r), NEW w \in Windows(r.table), NEW s \in Storages \union {NoStorage},
           NEW cs
    PROVE  Harmless(r, [r EXCEPT !.table[w].storage = s], cs)
  <1> DEFINE b == [r.table[w] EXCEPT !.storage = s]
  <1>1. Touched(r.table[w], b, cs) /\ SameMap(r.table[w], b)
    BY WindowsTouched, TouchedWindow
  <1>2. [r EXCEPT !.table[w].storage = s] = Rewritten(r, w, b)
    BY DEF Retabled, Rewritten
  <1> HIDE DEF b
  <1> QED
    BY <1>1, <1>2, WindowsTouched

\* mutable_storage, of a drawable.
LEMMA WithStorageHarmless ==
    ASSUME NEW r, Whole(r), NEW d, IsDrawable(r.table, d), NEW cs
    PROVE  Harmless(r, WithStorage(r, d), cs)
  <1>1. CASE r.table[d].storage # NoStorage
    BY <1>1, NothingHarmless DEF WithStorage
  <1>2. CASE r.table[d].storage = NoStorage
    <2>1. r.table[d].type # "Pixmap"
      <3>1. r.table[d].type = "Pixmap" => r.table[d] \in PixmapRecord
        BY WholeFacts, ResourceKinds DEF IsDrawable
      <3>2. NoStorage \notin Storages
        BY DEF NoStorage, Storages
      <3> QED
        BY <1>2, <3>1, <3>2 DEF PixmapRecord
    <2>2. d \in Windows(r.table)
      BY <2>1 DEF IsDrawable, Windows, OfType
    <2>3. FreshStorage(r.table, 1) \in Storages
      BY WholeFacts, FreshStorageFacts
    <2> DEFINE s == FreshStorage(r.table, 1)
    <2>4. WithStorage(r, d) = [r EXCEPT !.table[d].storage = s]
      BY <1>2 DEF WithStorage
    <2> HIDE DEF s
    <2> QED
      BY <2>2, <2>3, <2>4, StorageHarmless DEF s
  <1> QED
    BY <1>1, <1>2

\* Painting: storage, then damage.
LEMMA PaintsHarmless ==
    ASSUME NEW r, Whole(r), NEW d, IsDrawable(r.table, d), NEW cells \in SUBSET Cells, NEW cs
    PROVE  Harmless(r, AddDamage(WithStorage(r, d), d, cells), cs)
  <1> DEFINE s == WithStorage(r, d)
  <1>1. Harmless(r, s, cs)
    BY WithStorageHarmless
  <1> HIDE DEF s
  <1>2. Harmless(s, AddDamage(s, d, cells), cs)
    BY <1>1, AddDamageHarmless DEF Harmless
  <1> QED
    BY <1>1, <1>2, HarmlessTwice DEF s

\* A window may be given another cursor (change_attributes).
LEMMA AttributesHarmless ==
    ASSUME NEW r, Whole(r), NEW w \in Windows(r.table), NEW i \in BOOLEAN,
           NEW x \in Xids \union {None}, NEW n \in Nat, NEW cs
    PROVE  Harmless(r, [r EXCEPT !.table[w].inherit = i, !.table[w].cursor = x,
                                 !.table[w].image = n], cs)
  <1> DEFINE b == [r.table[w] EXCEPT !.inherit = i, !.cursor = x, !.image = n]
  <1>1. Touched(r.table[w], b, cs) /\ SameMap(r.table[w], b)
    BY WindowsTouched, TouchedWindow
  <1>2. [r EXCEPT !.table[w].inherit = i, !.table[w].cursor = x, !.table[w].image = n]
          = Rewritten(r, w, b)
    <2>1. w \in DOMAIN r.table
      BY WindowsTouched
    <2> QED
      BY <2>1, WholeFacts DEF Retabled, Rewritten, ResourceTables
  <1> HIDE DEF b
  <1> QED
    BY <1>1, <1>2, WindowsTouched

\* A window may be given other event selections of the requester.
LEMMA EventsHarmless ==
    ASSUME NEW r, Whole(r), NEW w \in Windows(r.table), NEW cs,
           NEW e \in SUBSET Clients, e \subseteq r.table[w].events \union cs
    PROVE  Harmless(r, [r EXCEPT !.table[w].events = e], cs)
  <1> DEFINE b == [r.table[w] EXCEPT !.events = e]
  <1>1. Touched(r.table[w], b, cs) /\ SameMap(r.table[w], b)
    BY WindowsTouched, TouchedWindow
  <1>2. [r EXCEPT !.table[w].events = e] = Rewritten(r, w, b)
    BY DEF Retabled, Rewritten
  <1> HIDE DEF b
  <1> QED
    BY <1>1, <1>2, WindowsTouched

\* The children of a window may be put in another order.
LEMMA ChildrenHarmless ==
    ASSUME NEW r, Whole(r), NEW w \in Windows(r.table), NEW cs,
           NEW q \in Seq(Xids), Range(q) = Range(r.table[w].children)
    PROVE  Harmless(r, [r EXCEPT !.table[w].children = q], cs)
  <1> DEFINE b == [r.table[w] EXCEPT !.children = q]
  <1>1. Touched(r.table[w], b, cs) /\ SameMap(r.table[w], b)
    BY WindowsTouched, TouchedWindow
  <1>2. [r EXCEPT !.table[w].children = q] = Rewritten(r, w, b)
    BY DEF Retabled, Rewritten
  <1> HIDE DEF b
  <1> QED
    BY <1>1, <1>2, WindowsTouched

\* recolor_cursor
LEMMA RecolouredHarmless ==
    ASSUME NEW r, Whole(r), NEW x \in OfType(r.table, "Cursor"), NEW n \in Nat, NEW cs
    PROVE  Harmless(r, Recoloured(r, x, n), cs)
  <1> DEFINE t == r.table
             T == [y \in DOMAIN r.table |->
                     IF y = x \/ Names(r.table[y], x)
                     THEN [r.table[y] EXCEPT !.image = n] ELSE r.table[y]]
  <1>1. Recoloured(r, x, n) = Retabled(r, T)
    BY DEF Recoloured, Retabled
  <1>2. ASSUME NEW y \in DOMAIN t  PROVE Touched(t[y], T[y], cs) /\ SameMap(t[y], T[y])
    <2>1. t[y] \in Resource
      BY WholeFacts
    <2> DEFINE b == [t[y] EXCEPT !.image = n]
    <2>2. CASE y = x
      <3>1. t[y] \in CursorRecord /\ t[y].type = "Cursor"
        BY <2>1, <2>2, ResourceKinds DEF OfType
      <3>2. b \in CursorRecord /\ b.type = t[y].type /\ b.owner = t[y].owner
        BY <3>1 DEF CursorRecord
      <3>3. b \in Resource
        BY <3>2 DEF Resource
      <3>4. T[y] = b
        BY <2>2
      <3> HIDE DEF b, T
      <3> QED
        BY <3>1, <3>2, <3>3, <3>4 DEF Touched, SameMap
    <2>3. CASE y # x /\ Names(t[y], x)
      <3>1. t[y] \in WindowRecord
        BY <2>1, <2>3, ResourceKinds DEF Names
      <3>2. T[y] = b
        BY <2>3
      <3>3. Touched(t[y], b, cs) /\ SameMap(t[y], b)
        BY <3>1, TouchedWindow
      <3> QED
        BY <3>2, <3>3
    <2>4. CASE ~(y = x \/ Names(t[y], x))
      <3>1. T[y] = t[y]
        BY <2>4
      <3> QED
        BY <2>1, <3>1, TouchedItself
    <2> QED
      BY <2>2, <2>3, <2>4
  <1>3. T = [y \in DOMAIN t |-> T[y]]
    OBVIOUS
  <1> HIDE DEF T
  <1>4. AllTouched(t, T, cs)
    BY <1>2, <1>3 DEF AllTouched
  <1> QED
    BY <1>1, <1>2, <1>4, TouchedHarmless

\* prepare_client_cleanup: the leaver hears nothing any more.
LEMMA PrepareHarmless ==
    ASSUME NEW r, Whole(r), NEW c
    PROVE  /\ Harmless(r, PrepareCleanup(r, c), {})
           /\ \A w \in Windows(PrepareCleanup(r, c).table) :
                c \notin PrepareCleanup(r, c).table[w].events
  <1> DEFINE t == r.table
             doomed == CleanupWindows(r, c)
             new(x) == [r.table[x] EXCEPT !.events = r.table[x].events \ {c},
                           !.cleanupPending = r.table[x].cleanupPending \/ x \in doomed]
             T == [x \in DOMAIN r.table |->
                     IF r.table[x].type # "Window" THEN r.table[x] ELSE new(x)]
  <1>1. PrepareCleanup(r, c) = Retabled(r, T)
    BY DEF PrepareCleanup, Retabled
  <1>2. ASSUME NEW x \in DOMAIN t
        PROVE  /\ Touched(t[x], T[x], {}) /\ SameMap(t[x], T[x])
               /\ t[x].type = "Window" => c \notin T[x].events
    <2>1. t[x] \in Resource
      BY WholeFacts
    <2>2. CASE t[x].type # "Window"
      <3>1. T[x] = t[x]
        BY <2>2
      <3> QED
        BY <2>1, <2>2, <3>1, TouchedItself
    <2>3. CASE t[x].type = "Window"
      <3> DEFINE a == t[x]
                 d == x \in doomed
                 b == [a EXCEPT !.events = a.events \ {c}, !.cleanupPending = a.cleanupPending \/ d]
      <3>1. a \in WindowRecord /\ T[x] = b
        BY <2>1, <2>3, ResourceKinds
      <3> HIDE DEF a, T, d
      <3>2. /\ b \in WindowRecord /\ b.type = "Window" /\ b.owner = a.owner
            /\ b.parent = a.parent /\ b.class = a.class /\ b.children = a.children
            /\ b.properties = a.properties /\ b.events = a.events \ {c}
            /\ b.mapRequested = a.mapRequested /\ b.policyVisible = a.policyVisible
            /\ b.mapState = a.mapState
        BY <3>1 DEF WindowRecord
      <3>3. b \in Resource /\ a.type = "Window"
        BY <3>1, <3>2 DEF Resource, WindowRecord
      <3> HIDE DEF b
      <3>4. Touched(a, b, {}) /\ SameMap(a, b) /\ c \notin b.events
        BY <3>2, <3>3 DEF Touched, SameMap
      <3> QED
        BY <3>1, <3>4 DEF a
    <2> QED
      BY <2>2, <2>3
  <1>3. T = [x \in DOMAIN t |-> T[x]]
    OBVIOUS
  <1> HIDE DEF T
  <1>4. AllTouched(t, T, {})
    BY <1>2, <1>3 DEF AllTouched
  <1>5. Harmless(r, Retabled(r, T), {})
    BY <1>2, <1>4, TouchedHarmless
  <1>6. Retabled(r, T).table = T
    BY WholeFacts DEF Retabled, ResourceTables
  <1>7. \A w \in Windows(T) : w \in DOMAIN t /\ t[w].type = "Window"
    BY <1>5, <1>6, ShapeFacts DEF Harmless, Windows, OfType
  <1> QED
    BY <1>1, <1>2, <1>5, <1>6, <1>7

\* Joining two lists joins what they have.
LEMMA ConcatRange ==
    ASSUME NEW X, NEW u \in Seq(X), NEW v \in Seq(X)
    PROVE  u \o v \in Seq(X) /\ Range(u \o v) = Range(u) \cup Range(v)
  <1> DEFINE m == Len(u)
             n == Len(v)
             s == u \o v
  <1>1. /\ m \in Nat /\ n \in Nat /\ DOMAIN u = 1..m /\ DOMAIN v = 1..n
        /\ s \in Seq(X) /\ DOMAIN s = 1..m + n
        /\ \A i \in 1..m + n : s[i] = IF i <= m THEN u[i] ELSE v[i - m]
    <2>1. s \in Seq(X) /\ Len(s) = m + n
          /\ \A i \in 1..m + n : s[i] = IF i <= m THEN u[i] ELSE v[i - m]
      BY ConcatProperties
    <2>2. m \in Nat /\ n \in Nat /\ DOMAIN u = 1..m /\ DOMAIN v = 1..n /\ DOMAIN s = 1..Len(s)
      BY <2>1, LenProperties
    <2> QED
      BY <2>1, <2>2
  <1> HIDE DEF m, n, s
  <1>2. Range(s) \subseteq Range(u) \cup Range(v)
    <2> SUFFICES ASSUME NEW i \in 1..m + n  PROVE s[i] \in Range(u) \cup Range(v)
      BY <1>1 DEF Range
    <2>1. CASE i <= m
      <3>1. i \in 1..m /\ s[i] = u[i]
        BY <1>1, <2>1
      <3> QED
        BY <1>1, <3>1 DEF Range
    <2>2. CASE ~(i <= m)
      <3>1. i - m \in 1..n /\ s[i] = v[i - m]
        BY <1>1, <2>2
      <3> QED
        BY <1>1, <3>1 DEF Range
    <2> QED
      BY <2>1, <2>2
  <1>3. ASSUME NEW i \in 1..m  PROVE u[i] \in Range(s)
    <2>1. i \in 1..m + n /\ s[i] = u[i]
      BY <1>1
    <2> QED
      BY <1>1, <2>1 DEF Range
  <1>4. ASSUME NEW i \in 1..n  PROVE v[i] \in Range(s)
    <2>1. i + m \in 1..m + n /\ ~(i + m <= m) /\ (i + m) - m = i
      BY <1>1
    <2>2. s[i + m] = v[i]
      BY <1>1, <2>1
    <2> QED
      BY <1>1, <2>1, <2>2 DEF Range
  <1>5. Range(u) \cup Range(v) \subseteq Range(s)
    BY <1>1, <1>3, <1>4 DEF Range
  <1> QED
    BY <1>1, <1>2, <1>5 DEF s

\* The list of one element has this element.
LEMMA SingleRange ==
    ASSUME NEW X, NEW x \in X
    PROVE  <<x>> \in Seq(X) /\ Range(<<x>>) = {x}
  <1>1. DOMAIN <<x>> = {1} /\ <<x>>[1] = x
    OBVIOUS
  <1>2. <<x>> \in Seq(X)
    OBVIOUS
  <1> QED
    BY <1>1, <1>2 DEF Range

\* The children of a window, and its parent.
LEMMA FamilyFacts ==
    ASSUME NEW r, Whole(r), NEW w \in Windows(r.table)
    PROVE  /\ r.table[w].children \in Seq(Xids)
           /\ Range(r.table[w].children)
                = {x \in Windows(r.table) : x # Root /\ r.table[x].parent = w}
           /\ w # Root => /\ w \in Xids /\ r.table[w].parent \in Windows(r.table)
                          /\ w \in Range(r.table[r.table[w].parent].children)
  <1>1. r.table[w] \in WindowRecord /\ w \in Places
    BY WindowsTouched, WholeFacts
  <1>2. /\ Branching(r.table) /\ Rooted(r.table)
    BY WholeFacts
  <1>3. w # Root => r.table[w].parent \in Windows(r.table)
    BY <1>2 DEF Rooted
  <1>4. w # Root => w \in Range(r.table[r.table[w].parent].children)
    BY <1>2, <1>3 DEF Branching
  <1> QED
    BY <1>1, <1>2, <1>3, <1>4 DEF Branching, WindowRecord, Places

\* configure_local
LEMMA ConfiguredHarmless ==
    ASSUME NEW r, Whole(r), NEW w \in Windows(r.table) \ {Root}, NEW resize \in BOOLEAN,
           NEW stack, NEW cs
    PROVE  Harmless(r, Configured(r, w, resize, stack), cs)
  <1> DEFINE t == r.table
             p == t[w].parent
             others == Without(t[p].children, {w})
             s == IF resize /\ t[w].storage # NoStorage THEN FreshStorage(t, 1)
                  ELSE t[w].storage
             q == CASE stack = "Above" -> Append(others, w)
                    [] stack = "Below" -> <<w>> \o others
                    [] OTHER -> t[p].children
             r1 == [r EXCEPT !.table[w].storage = s]
  <1>1. s \in Storages \union {NoStorage}
    <2>1. FreshStorage(t, 1) \in Storages
      BY WholeFacts, FreshStorageFacts
    <2>2. t[w].storage \in Storages \union {NoStorage}
      BY WindowsTouched DEF WindowRecord
    <2> QED
      BY <2>1, <2>2
  <1>2. Harmless(r, r1, cs)
    <2> HIDE DEF s
    <2> QED
      BY <1>1, StorageHarmless
  <1>3. /\ p \in Windows(t) /\ w \in Xids /\ t[p].children \in Seq(Xids)
        /\ w \in Range(t[p].children)
    <2>1. p \in Windows(t) /\ w \in Xids /\ w \in Range(t[p].children)
      BY FamilyFacts
    <2> HIDE DEF p
    <2> QED
      BY <2>1, FamilyFacts
  <1>4. others \in Seq(Xids) /\ Range(others) = Range(t[p].children) \ {w}
    <2> HIDE DEF p
    <2> QED
      BY <1>3, WithoutFacts
  <1>5. q \in Seq(Xids) /\ Range(q) = Range(t[p].children)
    <2>1. CASE stack = "Above"
      <3>1. Append(others, w) \in Seq(Xids) /\ Range(Append(others, w)) = Range(others) \cup {w}
        <4> HIDE DEF others
        <4> QED
          BY <1>3, <1>4, AppendFacts
      <3>2. q = Append(others, w)
        BY <2>1
      <3> HIDE DEF others, q, p
      <3> QED
        BY <1>3, <1>4, <3>1, <3>2
    <2>2. CASE stack = "Below"
      <3>1. /\ <<w>> \o others \in Seq(Xids)
            /\ Range(<<w>> \o others) = {w} \cup Range(others)
        <4> DEFINE h == <<w>>
        <4>1. h \in Seq(Xids) /\ Range(h) = {w}
          BY <1>3, SingleRange
        <4> HIDE DEF others, h
        <4>2. h \o others \in Seq(Xids) /\ Range(h \o others) = Range(h) \cup Range(others)
          BY <1>4, <4>1, ConcatRange
        <4>3. h \o others \in Seq(Xids) /\ Range(h \o others) = {w} \cup Range(others)
          BY <4>1, <4>2
        <4> QED
          BY <4>3 DEF h
      <3>2. q = <<w>> \o others
        BY <2>2
      <3> HIDE DEF others, q, p
      <3> QED
        BY <1>3, <1>4, <3>1, <3>2
    <2>3. CASE stack # "Above" /\ stack # "Below"
      <3>1. q = t[p].children
        BY <2>3
      <3> HIDE DEF others, q, p
      <3> QED
        BY <1>3, <3>1
    <2> QED
      BY <2>1, <2>2, <2>3
  <1>6. r1.table[p].children = t[p].children
    <2>1. r \in ResourceTables /\ t = [x \in DOMAIN t |-> t[x]] /\ w \in DOMAIN t
          /\ p \in DOMAIN t /\ t[w] \in WindowRecord /\ t[p] \in WindowRecord
      BY <1>3, WholeFacts, TableFacts, WindowsTouched
    <2>2. r1.table = [t EXCEPT ![w] = [t[w] EXCEPT !.storage = s]]
      BY <2>1 DEF ResourceTables
    <2> HIDE DEF s, r1, t, p
    <2> QED
      BY <2>1, <2>2 DEF WindowRecord
  <1>7. Configured(r, w, resize, stack) = [r1 EXCEPT !.table[p].children = q]
    BY DEF Configured
  <1>8. Whole(r1) /\ p \in Windows(r1.table)
    <2> HIDE DEF r1, p
    <2> QED
      BY <1>2, <1>3, ShapeFacts DEF Harmless
  <1>9. Harmless(r1, [r1 EXCEPT !.table[p].children = q], cs)
    <2> HIDE DEF r1, p, q
    <2> QED
      BY <1>5, <1>6, <1>8, ChildrenHarmless
  <1> HIDE DEF r1, q, p
  <1> QED
    BY <1>2, <1>7, <1>9, HarmlessTwice

-----------------------------------------------------------------------------
(* Sums *)

\* SumOf counts the pairs of its function.
LEMMA SumIsCounted ==
    ASSUME NEW f
    PROVE  SumOf(f) = Cardinality(Counted(f, DOMAIN f))
  BY DEF SumOf, Counted

\* One value of a sum, and the others.
LEMMA SumSplits ==
    ASSUME NEW S, IsFiniteSet(S), NEW f, \A x \in S : f[x] \in Nat, NEW a \in S
    PROVE  /\ Cardinality(Counted(f, S)) \in Nat /\ Cardinality(Counted(f, S \ {a})) \in Nat
           /\ Cardinality(Counted(f, S)) = f[a] + Cardinality(Counted(f, S \ {a}))
  <1>1. IsFiniteSet(S \ {a}) /\ {a} \in SUBSET S
    BY FS_Subset
  <1>2. Cardinality(Counted(f, S)) \in Nat /\ Cardinality(Counted(f, S \ {a})) \in Nat
    BY <1>1, CountedIsFinite
  <1>3. Cardinality(Counted(f, S))
          = Cardinality(Counted(f, {a})) + Cardinality(Counted(f, S \ {a}))
    BY <1>1, CountedSplits
  <1>4. Cardinality(Counted(f, {a})) = f[a]
    BY CountedOne
  <1> QED
    BY <1>2, <1>3, <1>4

\* A sum in which one value is another, and a sum over fewer.
LEMMA SumChanges ==
    ASSUME NEW S, IsFiniteSet(S), NEW f, \A x \in S : f[x] \in Nat, NEW a \in S,
           NEW g, \A x \in S \ {a} : g[x] = f[x], g[a] \in Nat
    PROVE  Cardinality(Counted(g, S)) = Cardinality(Counted(f, S)) - f[a] + g[a]
  <1>1. \A x \in S : g[x] \in Nat
    OBVIOUS
  <1> DEFINE n == Cardinality(Counted(f, S))
             k == Cardinality(Counted(f, S \ {a}))
             m == Cardinality(Counted(g, S))
             j == Cardinality(Counted(g, S \ {a}))
  <1>2. n \in Nat /\ k \in Nat /\ n = f[a] + k
    BY SumSplits
  <1>3. m \in Nat /\ j \in Nat /\ m = g[a] + j
    BY <1>1, SumSplits
  <1>4. j = k
    BY CountedSame
  <1>5. f[a] \in Nat
    OBVIOUS
  <1> DEFINE x == f[a]
             y == g[a]
  <1>6. n \in Nat /\ k \in Nat /\ n = x + k /\ m = y + k /\ x \in Nat /\ y \in Nat
    BY <1>2, <1>3, <1>4, <1>5
  <1> HIDE DEF n, k, m, j, x, y
  <1>7. m = n - x + y
    BY <1>6
  <1> QED
    BY <1>7 DEF n, m, x, y

\* The properties of a window are finitely many, with sizes that are numbers.
LEMMA StoresFacts ==
    ASSUME NEW p \in Stores
    PROVE  /\ p = [x \in DOMAIN p |-> p[x]] /\ DOMAIN p \subseteq Atoms
           /\ \A x \in DOMAIN p : p[x] \in Nat
           /\ IsFiniteSet(DOMAIN p)
           /\ SumOf(p) \in Nat /\ SumOf(p) = Cardinality(Counted(p, DOMAIN p))
  <1>1. /\ p = [x \in DOMAIN p |-> p[x]] /\ DOMAIN p \subseteq Atoms
        /\ \A x \in DOMAIN p : p[x] \in Nat
    BY DEF Stores
  <1>2. IsFiniteSet(Atoms)
    <2>1. Atoms = {"NAME"} \cup {"STATE"}
      BY DEF Atoms
    <2>2. IsFiniteSet({"NAME"}) /\ IsFiniteSet({"STATE"})
      BY FS_Singleton
    <2> QED
      BY <2>1, <2>2, FS_Union
  <1>3. IsFiniteSet(DOMAIN p)
    BY <1>1, <1>2, FS_Subset
  <1>4. SumOf(p) = Cardinality(Counted(p, DOMAIN p))
    BY SumIsCounted
  <1>5. Cardinality(Counted(p, DOMAIN p)) \in Nat
    BY <1>1, <1>3, CountedIsFinite
  <1> QED
    BY <1>1, <1>3, <1>4, <1>5

Old(p, a) == IF a \in DOMAIN p THEN p[a] ELSE 0

\* What a function has when a value is put into it.
LEMMA WithFacts ==
    ASSUME NEW f, NEW x, NEW v
    PROVE  /\ With(f, x, v) = [y \in DOMAIN f \cup {x} |-> With(f, x, v)[y]]
           /\ DOMAIN With(f, x, v) = DOMAIN f \cup {x}
           /\ With(f, x, v)[x] = v
           /\ \A y \in DOMAIN f : y # x => With(f, x, v)[y] = f[y]
  BY DEF With

\* The bytes of a window's properties when one is set, and when one goes.
LEMMA PropertySet ==
    ASSUME NEW p \in Stores, NEW a \in Atoms, NEW n \in Nat
    PROVE  /\ With(p, a, n) \in Stores
           /\ Old(p, a) \in Nat /\ SumOf(p) \in Nat /\ SumOf(With(p, a, n)) \in Nat
           /\ Old(p, a) <= SumOf(p)
           /\ SumOf(With(p, a, n)) = SumOf(p) - Old(p, a) + n
  <1> DEFINE q == With(p, a, n)
             D == DOMAIN p
             E == DOMAIN p \cup {a}
  <1>1. /\ q = [y \in E |-> q[y]] /\ DOMAIN q = E /\ q[a] = n
        /\ \A y \in D : y # a => q[y] = p[y]
    BY DEF With
  <1>2. /\ D \subseteq Atoms /\ IsFiniteSet(D) /\ (\A x \in D : p[x] \in Nat)
        /\ SumOf(p) \in Nat /\ SumOf(p) = Cardinality(Counted(p, D))
    BY StoresFacts
  <1> HIDE DEF q, D, E
  <1>3. E \subseteq Atoms /\ \A x \in E : q[x] \in Nat
    BY <1>1, <1>2 DEF E, D
  <1>4. q \in Stores
    <2>1. q \in [E -> Nat]
      BY <1>1, <1>3
    <2> QED
      BY <1>3, <2>1 DEF Stores
  <1>5. /\ IsFiniteSet(E) /\ a \in E /\ SumOf(q) \in Nat
        /\ SumOf(q) = Cardinality(Counted(q, E))
    <2>1. a \in E
      BY DEF E
    <2>2. IsFiniteSet(E) /\ SumOf(q) \in Nat /\ SumOf(q) = Cardinality(Counted(q, E))
      BY <1>1, <1>4, StoresFacts
    <2> QED
      BY <2>1, <2>2
  <1>6. /\ Cardinality(Counted(q, E \ {a})) \in Nat
        /\ SumOf(q) = n + Cardinality(Counted(q, E \ {a}))
    BY <1>1, <1>3, <1>5, SumSplits
  <1>7. E \ {a} = D \ {a}
    BY DEF E, D
  <1>8. Counted(q, E \ {a}) = Counted(p, D \ {a})
    BY <1>1, <1>7, CountedSame
  <1> DEFINE k == Cardinality(Counted(p, D \ {a}))
             x == SumOf(p)
             y == SumOf(q)
             o == Old(p, a)
  <1>9. k \in Nat /\ x \in Nat /\ y \in Nat /\ y = n + k
    BY <1>2, <1>5, <1>6, <1>8
  <1>10. o \in Nat /\ x = o + k
    <2>1. CASE a \in D
      <3>1. o = p[a]
        BY <2>1 DEF Old, D
      <3>2. Cardinality(Counted(p, D)) = p[a] + Cardinality(Counted(p, D \ {a}))
        BY <1>2, <2>1, SumSplits
      <3> QED
        BY <1>2, <2>1, <3>1, <3>2
    <2>2. CASE a \notin D
      <3>1. o = 0 /\ D \ {a} = D
        BY <2>2 DEF Old, D
      <3>2. x = k
        BY <1>2, <3>1, Zenon
      <3> HIDE DEF x, k, o
      <3> QED
        BY <1>9, <3>1, <3>2
    <2> QED
      BY <2>1, <2>2
  <1> HIDE DEF k, x, y, o
  <1>11. o <= x /\ y = x - o + n
    BY <1>9, <1>10
  <1> QED
    BY <1>4, <1>9, <1>10, <1>11 DEF x, y, o, q

\* The bytes of a window's properties when one goes.
LEMMA PropertyGone ==
    ASSUME NEW p \in Stores, NEW a \in Atoms
    PROVE  /\ Restrict(p, DOMAIN p \ {a}) \in Stores
           /\ SumOf(Restrict(p, DOMAIN p \ {a})) \in Nat
           /\ SumOf(Restrict(p, DOMAIN p \ {a})) = SumOf(p) - Old(p, a)
  <1> DEFINE D == DOMAIN p
             E == DOMAIN p \ {a}
             q == Restrict(p, E)
  <1>1. /\ q = [y \in E |-> q[y]] /\ DOMAIN q = E
        /\ \A y \in E : q[y] = p[y]
    BY DEF Restrict
  <1>2. /\ D \subseteq Atoms /\ IsFiniteSet(D) /\ (\A x \in D : p[x] \in Nat)
        /\ SumOf(p) \in Nat /\ SumOf(p) = Cardinality(Counted(p, D))
    BY StoresFacts
  <1>3. E \subseteq D /\ E = D \ {a}
    OBVIOUS
  <1> HIDE DEF q, D, E
  <1>4. q \in Stores
    <2>1. q \in [E -> Nat]
      BY <1>1, <1>2, <1>3
    <2> QED
      BY <1>2, <1>3, <2>1 DEF Stores
  <1>5. SumOf(q) \in Nat /\ SumOf(q) = Cardinality(Counted(q, E))
    BY <1>1, <1>4, StoresFacts
  <1>6. Counted(q, E) = Counted(p, E)
    BY <1>1, CountedSame
  <1> DEFINE k == Cardinality(Counted(p, E))
             x == SumOf(p)
             y == SumOf(q)
             o == Old(p, a)
  <1>7. x \in Nat /\ y \in Nat /\ y = k
    BY <1>2, <1>5, <1>6
  <1>8. o \in Nat /\ x = o + k
    <2>1. CASE a \in D
      <3>1. o = p[a]
        BY <2>1 DEF Old, D
      <3>2. Cardinality(Counted(p, D)) = p[a] + Cardinality(Counted(p, D \ {a}))
        BY <1>2, <2>1, SumSplits
      <3> QED
        BY <1>2, <1>3, <2>1, <3>1, <3>2
    <2>2. CASE a \notin D
      <3>1. o = 0 /\ E = D
        BY <1>3, <2>2 DEF Old, D
      <3>2. x = k
        BY <1>2, <3>1, Zenon
      <3> HIDE DEF x, k, o, y
      <3> QED
        BY <1>7, <3>1, <3>2
    <2> QED
      BY <2>1, <2>2
  <1> HIDE DEF k, x, y, o
  <1>9. y = x - o
    BY <1>7, <1>8
  <1> QED
    BY <1>4, <1>7, <1>9 DEF x, y, o, q, E

\* u is whole, and what it has came from r, or is of news and of cs.
Becomes(r, u, news, cs) == Whole(u) /\ Evolves(r.table, u.table, news, cs)

\* A harmless change brings nothing new.
LEMMA HarmlessBecomes ==
    ASSUME NEW r, NEW u, NEW cs, Harmless(r, u, cs)
    PROVE  Becomes(r, u, {}, cs)
  BY DEF Harmless, Becomes

\* The bytes of the properties of windows.
LEMMA BytesFacts ==
    ASSUME NEW t \in Tables, IsFiniteSet(DOMAIN t), NEW W, W \subseteq Windows(t)
    PROVE  /\ IsFiniteSet(W)
           /\ \A w \in W : PropertyBytes(t[w]) \in Nat
           /\ BytesOf(t, W) \in Nat
           /\ BytesOf(t, W) = Cardinality(Counted([w \in W |-> PropertyBytes(t[w])], W))
  <1>1. IsFiniteSet(Windows(t)) /\ IsFiniteSet(W)
    BY WindowsAreFinite, FS_Subset
  <1>2. ASSUME NEW w \in W  PROVE PropertyBytes(t[w]) \in Nat
    <2>1. t[w].properties \in Stores
      BY WindowsAre DEF WindowRecord
    <2> QED
      BY <2>1, StoresFacts DEF PropertyBytes
  <1> DEFINE f == [w \in W |-> PropertyBytes(t[w])]
  <1>3. DOMAIN f = W /\ \A w \in W : f[w] = PropertyBytes(t[w])
    OBVIOUS
  <1>4. BytesOf(t, W) = SumOf(f)
    BY DEF BytesOf
  <1> HIDE DEF f
  <1>5. SumOf(f) = Cardinality(Counted(f, W))
    BY <1>3, SumIsCounted
  <1>6. \A w \in W : f[w] \in Nat
    BY <1>2, <1>3
  <1>7. Cardinality(Counted(f, W)) \in Nat
    BY <1>1, <1>6, CountedIsFinite
  <1> QED
    BY <1>1, <1>2, <1>4, <1>5, <1>7 DEF f

\* One window's bytes are others, or some windows are taken away.
LEMMA BytesChange ==
    ASSUME NEW t \in Tables, IsFiniteSet(DOMAIN t), NEW W, W \subseteq Windows(t),
           NEW w \in W, NEW T \in Tables, DOMAIN T = DOMAIN t, W \subseteq Windows(T),
           \A x \in W : x # w => T[x].properties = t[x].properties
    PROVE  BytesOf(T, W) = BytesOf(t, W) - PropertyBytes(t[w]) + PropertyBytes(T[w])
  <1> DEFINE f == [x \in W |-> PropertyBytes(t[x])]
             g == [x \in W |-> PropertyBytes(T[x])]
  <1>1. /\ \A x \in W : f[x] = PropertyBytes(t[x]) /\ g[x] = PropertyBytes(T[x])
        /\ \A x \in W \ {w} : PropertyBytes(T[x]) = PropertyBytes(t[x])
    BY DEF PropertyBytes
  <1>2. BytesOf(t, W) = Cardinality(Counted(f, W)) /\ IsFiniteSet(W)
        /\ \A x \in W : PropertyBytes(t[x]) \in Nat
    BY BytesFacts
  <1>3. BytesOf(T, W) = Cardinality(Counted(g, W)) /\ \A x \in W : PropertyBytes(T[x]) \in Nat
    BY BytesFacts
  <1> HIDE DEF f, g
  <1>4. /\ \A x \in W : f[x] \in Nat
        /\ \A x \in W \ {w} : g[x] = f[x]
        /\ g[w] \in Nat
    BY <1>1, <1>2, <1>3
  <1>5. Cardinality(Counted(g, W)) = Cardinality(Counted(f, W)) - f[w] + g[w]
    BY <1>2, <1>4, SumChanges
  <1> QED
    BY <1>1, <1>2, <1>3, <1>5

\* The property bytes of some windows and of the others are those of all.
LEMMA BytesSplit ==
    ASSUME NEW t \in Tables, IsFiniteSet(DOMAIN t), NEW W, W \subseteq Windows(t),
           NEW V, V \subseteq W
    PROVE  /\ BytesOf(t, W) = BytesOf(t, V) + BytesOf(t, W \ V)
           /\ BytesOf(t, V) \in Nat /\ BytesOf(t, W \ V) \in Nat
  <1> DEFINE U == W \ V
             f == [x \in W |-> PropertyBytes(t[x])]
             g == [x \in V |-> PropertyBytes(t[x])]
             h == [x \in U |-> PropertyBytes(t[x])]
  <1>1. /\ \A x \in W : f[x] = PropertyBytes(t[x])
        /\ \A x \in V : g[x] = f[x]
        /\ \A x \in U : h[x] = f[x]
    OBVIOUS
  <1>2. V \subseteq Windows(t) /\ U \subseteq Windows(t) /\ U = W \ V
    OBVIOUS
  <1>3. BytesOf(t, W) = Cardinality(Counted(f, W)) /\ IsFiniteSet(W)
        /\ \A x \in W : PropertyBytes(t[x]) \in Nat
    BY BytesFacts
  <1>4. BytesOf(t, V) = Cardinality(Counted(g, V)) /\ BytesOf(t, V) \in Nat
    BY <1>2, BytesFacts
  <1>5. BytesOf(t, U) = Cardinality(Counted(h, U)) /\ BytesOf(t, U) \in Nat
    <2> HIDE DEF U
    <2> QED
      BY <1>2, BytesFacts
  <1> HIDE DEF f, g, h, U
  <1>6. Counted(g, V) = Counted(f, V) /\ Counted(h, U) = Counted(f, U)
    BY <1>1, CountedSame
  <1>7. \A x \in W : f[x] \in Nat
    BY <1>1, <1>3
  <1>8. Cardinality(Counted(f, W)) = Cardinality(Counted(f, V)) + Cardinality(Counted(f, U))
    BY <1>2, <1>3, <1>7, CountedSplits
  <1> QED
    BY <1>2, <1>3, <1>4, <1>5, <1>6, <1>8

-----------------------------------------------------------------------------
(* Properties *)

Propertied(r, w, q, n) == [r EXCEPT !.table[w].properties = q, !.propertyBytes = n]

\* The properties of a window are others, and the total follows.
LEMMA PropertiesWritten ==
    ASSUME NEW r, Whole(r), NEW w \in Windows(r.table), NEW q \in Stores, NEW n \in Nat,
           n = r.propertyBytes - SumOf(r.table[w].properties) + SumOf(q),
           n <= Limits.totalProperty, NEW cs
    PROVE  Becomes(r, Propertied(r, w, q, n), {}, cs)
  <1> DEFINE t == r.table
             b == [t[w] EXCEPT !.properties = q]
             T == [t EXCEPT ![w] = b]
             u == Propertied(r, w, q, n)
  <1>1. /\ r \in ResourceTables /\ t \in Tables /\ IsFiniteSet(DOMAIN t)
        /\ RootStands(t) /\ Sound(r) /\ Derived(t) /\ Rooted(t) /\ Branching(t)
        /\ DOMAIN t \subseteq Places
        /\ (\A x \in DOMAIN t : t[x] \in Resource) /\ t = [x \in DOMAIN t |-> t[x]]
    BY WholeFacts, TableFacts
  <1>2. w \in DOMAIN t /\ t[w] \in WindowRecord /\ t[w].type = "Window"
    BY <1>1, WindowsAre
  <1>3. /\ u.table = T /\ u.owned = r.owned /\ u.propertyBytes = n
        /\ u.drawableBytes = r.drawableBytes /\ u.cursorBytes = r.cursorBytes
    <2>1. u = [[r EXCEPT !.table = T] EXCEPT !.propertyBytes = n]
      BY DEF Propertied
    <2> HIDE DEF T, u
    <2> QED
      BY <1>1, <2>1 DEF ResourceTables
  <1>4. /\ b \in WindowRecord /\ b.type = "Window" /\ b.owner = t[w].owner
        /\ b.parent = t[w].parent /\ b.class = t[w].class /\ b.children = t[w].children
        /\ b.properties = q /\ b.events = t[w].events
        /\ b.mapRequested = t[w].mapRequested /\ b.policyVisible = t[w].policyVisible
        /\ b.mapState = t[w].mapState
    BY <1>2 DEF WindowRecord
  <1>5. /\ T = [x \in DOMAIN t |-> T[x]] /\ T[w] = b
        /\ \A x \in DOMAIN t : x # w => T[x] = t[x]
    BY <1>1, <1>2
  <1>6. T \in Tables /\ DOMAIN T = DOMAIN t
    <2>1. \A x \in DOMAIN t : T[x] \in Resource
      BY <1>1, <1>4, <1>5 DEF Resource
    <2> HIDE DEF T
    <2> QED
      BY <1>1, <1>5, <2>1, TablesHave
  <1>7. u \in ResourceTables
    <2>1. u = [[r EXCEPT !.table = T] EXCEPT !.propertyBytes = n]
      BY DEF Propertied
    <2> HIDE DEF T, u
    <2> QED
      BY <1>1, <1>6, <2>1 DEF ResourceTables
  <1> HIDE DEF T, b, u
  <1>8. SameShape(t, T)
    BY <1>2, <1>4, <1>5, <1>6 DEF SameShape, Windows, OfType, Hanging
  <1>9. SameMaps(t, T)
    BY <1>2, <1>4, <1>5, <1>6 DEF SameMaps, Windows, OfType
  <1>10. Evolves(t, T, {}, cs)
    BY <1>2, <1>4, <1>5, <1>6 DEF Evolves, Windows, OfType
  <1>11. Derived(T) /\ Branching(T) /\ Pinned(T) /\ RootStands(T)
    BY <1>1, <1>8, <1>9, ShapeKeeps, MapsKeep DEF Sound
  <1>12. Typed(u)
    BY <1>1, <1>3, <1>6, <1>7, <1>11 DEF Typed, TypedTable
  <1>13. Owned(u)
    <2>1. \A c \in Clients : {x \in DOMAIN T \ {Root} : T[x].owner = c}
                               = {x \in DOMAIN t \ {Root} : t[x].owner = c}
      BY <1>6, <1>8 DEF SameShape
    <2> QED
      BY <1>1, <1>3, <2>1 DEF Owned, Sound
  <1>14. Totalled(u)
    <2>1. /\ Windows(T) = Windows(t) /\ OfType(T, "Cursor") = OfType(t, "Cursor")
          /\ PixmapBytes(T) = PixmapBytes(t)
      BY <1>8, ShapeFacts
    <2>2. \A x \in Windows(t) : x # w => T[x].properties = t[x].properties
      BY <1>5 DEF Windows, OfType
    <2> DEFINE W == Windows(t)
    <2>7. w \in W
      OBVIOUS
    <2>3. BytesOf(T, W) = BytesOf(t, W) - PropertyBytes(t[w]) + PropertyBytes(T[w])
      <3> HIDE DEF t
      <3> QED
        BY <1>1, <1>6, <2>1, <2>2, <2>7, BytesChange
    <2>4. PropertyBytes(t[w]) = SumOf(t[w].properties) /\ PropertyBytes(T[w]) = SumOf(q)
      BY <1>4, <1>5 DEF PropertyBytes
    <2>5. r.propertyBytes = BytesOf(t, W) /\ Totalled(r)
      BY <1>1 DEF Sound, Totalled
    <2>6. BytesOf(T, W) = n
      BY <2>3, <2>4, <2>5
    <2> QED
      BY <1>3, <2>1, <2>5, <2>6 DEF Totalled
  <1>15. Whole(u)
    BY <1>3, <1>11, <1>12, <1>13, <1>14 DEF Whole, Sound
  <1> QED
    BY <1>3, <1>10, <1>15 DEF Becomes, u

\* The bytes of one window's properties are among those of all.
LEMMA PropertiesCounted ==
    ASSUME NEW r, Whole(r), NEW w \in Windows(r.table)
    PROVE  /\ SumOf(r.table[w].properties) <= r.propertyBytes /\ r.propertyBytes \in Nat
           /\ r.propertyBytes <= Limits.totalProperty
  <1> DEFINE t == r.table
             W == Windows(r.table)
  <1>1. t \in Tables /\ IsFiniteSet(DOMAIN t) /\ r.propertyBytes = BytesOf(t, W)
        /\ r.propertyBytes <= Limits.totalProperty
        /\ r \in ResourceTables
    BY WholeFacts DEF Sound, Totalled
  <1>5. W \subseteq Windows(t) /\ {w} \subseteq W
    OBVIOUS
  <1>2. /\ BytesOf(t, W) = BytesOf(t, {w}) + BytesOf(t, W \ {w})
        /\ BytesOf(t, {w}) \in Nat /\ BytesOf(t, W \ {w}) \in Nat
    <2> HIDE DEF t
    <2> QED
      BY <1>1, <1>5, BytesSplit
  <1>3. BytesOf(t, {w}) = PropertyBytes(t[w])
    <2> DEFINE f == [x \in {w} |-> PropertyBytes(t[x])]
    <2>1. f[w] = PropertyBytes(t[w])
      OBVIOUS
    <2>2. BytesOf(t, {w}) = Cardinality(Counted(f, {w})) /\ PropertyBytes(t[w]) \in Nat
      BY <1>1, BytesFacts
    <2> HIDE DEF f
    <2>3. Cardinality(Counted(f, {w})) = f[w]
      BY <2>1, <2>2, CountedOne
    <2> QED
      BY <2>1, <2>2, <2>3
  <1>4. PropertyBytes(t[w]) = SumOf(r.table[w].properties)
    BY DEF PropertyBytes
  <1> QED
    BY <1>1, <1>2, <1>3, <1>4 DEF ResourceTables

\* change_property, when the limits allow it.
LEMMA WithPropertyBecomes ==
    ASSUME NEW r, Whole(r), NEW w \in Windows(r.table), NEW a \in Atoms, NEW n \in Nat,
           PropertyFits(r, w, a, n), NEW cs
    PROVE  Becomes(r, WithProperty(r, w, a, n), {}, cs)
  <1> DEFINE p == r.table[w].properties
             q == With(p, a, n)
             m == r.propertyBytes - OldSize(r, w, a) + n
  <1>1. p \in Stores
    BY WindowsTouched DEF WindowRecord
  <1>2. OldSize(r, w, a) = Old(p, a)
    BY DEF OldSize, Old
  <1>3. /\ q \in Stores /\ Old(p, a) \in Nat /\ SumOf(p) \in Nat /\ SumOf(q) \in Nat
        /\ Old(p, a) <= SumOf(p) /\ SumOf(q) = SumOf(p) - Old(p, a) + n
    BY <1>1, PropertySet
  <1>4. SumOf(p) <= r.propertyBytes /\ r.propertyBytes \in Nat
    BY PropertiesCounted
  <1>5. n <= Limits.totalProperty - (r.propertyBytes - OldSize(r, w, a))
        /\ Limits.totalProperty \in Nat
    BY ResourcesAssumption DEF PropertyFits
  <1> DEFINE k == r.propertyBytes
             o == Old(p, a)
             x == SumOf(p)
             y == SumOf(q)
             l == Limits.totalProperty
  <1>6. /\ k \in Nat /\ o \in Nat /\ x \in Nat /\ y \in Nat /\ l \in Nat
        /\ o <= x /\ y = x - o + n /\ x <= k /\ n <= l - (k - o) /\ m = k - o + n
    BY <1>2, <1>3, <1>4, <1>5
  <1>7. WithProperty(r, w, a, n) = Propertied(r, w, q, m)
    BY DEF WithProperty, Propertied
  <1> HIDE DEF k, o, x, y, l, m, p, q
  <1>8. m \in Nat /\ m = k - x + y /\ m <= l
    BY <1>6
  <1>9. m = r.propertyBytes - SumOf(r.table[w].properties) + SumOf(q)
        /\ m <= Limits.totalProperty
    BY <1>8 DEF k, x, y, l, p
  <1> QED
    BY <1>3, <1>7, <1>8, <1>9, PropertiesWritten

\* delete_property
LEMMA WithoutPropertyBecomes ==
    ASSUME NEW r, Whole(r), NEW w \in Windows(r.table), NEW a \in Atoms, NEW cs
    PROVE  Becomes(r, WithoutProperty(r, w, a), {}, cs)
  <1> DEFINE p == r.table[w].properties
             q == Restrict(p, DOMAIN p \ {a})
             m == r.propertyBytes - OldSize(r, w, a)
  <1>1. p \in Stores
    BY WindowsTouched DEF WindowRecord
  <1>2. OldSize(r, w, a) = Old(p, a)
    BY DEF OldSize, Old
  <1>3. /\ q \in Stores /\ SumOf(q) \in Nat /\ SumOf(q) = SumOf(p) - Old(p, a)
        /\ SumOf(p) \in Nat /\ Old(p, a) \in Nat /\ Old(p, a) <= SumOf(p)
    <2>1. 0 \in Nat
      OBVIOUS
    <2> QED
      BY <1>1, <2>1, PropertyGone, PropertySet
  <1>4. /\ SumOf(p) <= r.propertyBytes /\ r.propertyBytes \in Nat
        /\ r.propertyBytes <= Limits.totalProperty
    BY PropertiesCounted
  <1>5. Limits.totalProperty \in Nat
    BY ResourcesAssumption
  <1> DEFINE k == r.propertyBytes
             o == Old(p, a)
             x == SumOf(p)
             y == SumOf(q)
             l == Limits.totalProperty
  <1>6. /\ k \in Nat /\ o \in Nat /\ x \in Nat /\ y \in Nat /\ l \in Nat
        /\ o <= x /\ y = x - o /\ x <= k /\ k <= l /\ m = k - o
    BY <1>2, <1>3, <1>4, <1>5
  <1>7. WithoutProperty(r, w, a) = Propertied(r, w, q, m)
    BY DEF WithoutProperty, Propertied
  <1> HIDE DEF k, o, x, y, l, m, p, q
  <1>8. m \in Nat /\ m = k - x + y /\ m <= l
    BY <1>6
  <1>9. m = r.propertyBytes - SumOf(r.table[w].properties) + SumOf(q)
        /\ m <= Limits.totalProperty
    BY <1>8 DEF k, x, y, l, p
  <1> QED
    BY <1>3, <1>7, <1>8, <1>9, PropertiesWritten

-----------------------------------------------------------------------------
(* Resources that are no windows come *)

OwnerLists == [Clients -> Seq(Xids)]

\* The five parts of a table r.
Parts(r, T, o, p, m, n) ==
    /\ r.table = T /\ r.owned = o
    /\ r.propertyBytes = p /\ r.drawableBytes = m /\ r.cursorBytes = n
    /\ /\ T \in Tables /\ o \in OwnerLists /\ p \in Nat /\ m \in Nat /\ n \in Nat
       => r \in ResourceTables

\* What a record of five parts is when one or two of them are replaced.
LEMMA PartsChange ==
    ASSUME NEW r \in ResourceTables, NEW T, NEW o, NEW p, NEW m, NEW n
    PROVE  /\ Parts([r EXCEPT !.table = T], T, r.owned, r.propertyBytes, r.drawableBytes,
                    r.cursorBytes)
           /\ Parts([r EXCEPT !.table = T, !.owned = o], T, o, r.propertyBytes,
                    r.drawableBytes, r.cursorBytes)
           /\ Parts([r EXCEPT !.propertyBytes = p], r.table, r.owned, p, r.drawableBytes,
                    r.cursorBytes)
           /\ Parts([r EXCEPT !.drawableBytes = m], r.table, r.owned, r.propertyBytes, m,
                    r.cursorBytes)
           /\ Parts([r EXCEPT !.cursorBytes = n], r.table, r.owned, r.propertyBytes,
                    r.drawableBytes, n)
  BY DEF Parts, ResourceTables, OwnerLists

Appended(o, c, x) == [o EXCEPT ![c] = Append(o[c], x)]

\* A table is made of its five parts.
LEMMA PartsFacts ==
    ASSUME NEW r, Whole(r)
    PROVE  /\ r.owned = [c \in Clients |-> r.owned[c]]
           /\ \A c \in Clients : r.owned[c] \in Seq(Xids)
           /\ r.propertyBytes \in Nat /\ r.drawableBytes \in Nat /\ r.cursorBytes \in Nat
           /\ r.drawableBytes = PixmapBytes(r.table)
           /\ r.cursorBytes = Cardinality(OfType(r.table, "Cursor"))
           /\ r.propertyBytes = BytesOf(r.table, Windows(r.table))
           /\ r.propertyBytes <= Limits.totalProperty
           /\ r.drawableBytes <= Limits.drawableBytes
           /\ r.cursorBytes <= Limits.cursorBytes
           /\ Limits.totalProperty \in Nat /\ Limits.drawableBytes \in Nat
           /\ Limits.cursorBytes \in Nat
  <1>1. r \in ResourceTables /\ Totalled(r)
    BY WholeFacts DEF Sound
  <1> QED
    BY <1>1, ResourcesAssumption DEF ResourceTables, Totalled

\* Two tables with the same windows.
LEMMA WindowsKeep ==
    ASSUME NEW t, NEW T, Windows(T) = Windows(t), \A w \in Windows(t) : T[w] = t[w],
           Branching(t), Derived(t)
    PROVE  /\ Branching(T) /\ Derived(T)
           /\ BytesOf(T, Windows(T)) = BytesOf(t, Windows(t))
  <1>1. Rooted(t)
    BY DEF Branching
  <1>2. Rooted(T) /\ \A w \in Windows(T) : Ancestors(T, w) = Ancestors(t, w)
    <2>1. Cut(t, {})
      BY DEF Cut
    <2>2. Windows(T) = Windows(t) \ {} /\ \A w \in Windows(T) : T[w].parent = t[w].parent
      OBVIOUS
    <2> QED
      BY <1>1, <2>1, <2>2, CutTree
  <1>3. Branching(T)
    <2>1. \A w \in Windows(T) :
            Range(T[w].children) = {x \in Windows(T) : x # Root /\ T[x].parent = w}
      BY DEF Branching
    <2>2. \A w \in Windows(T) \ {Root} :
            T[w].class = "InputOutput" => T[T[w].parent].class = "InputOutput"
      BY <1>1 DEF Branching, Rooted
    <2> QED
      BY <1>2, <2>1, <2>2 DEF Branching
  <1>4. Derived(T)
    <2>1. \A w \in Windows(T) : Asks(T, w) <=> Asks(t, w)
      BY DEF Asks, IsPolicyCandidate
    <2>2. \A w \in Windows(T) : Ancestors(t, w) \subseteq Windows(T)
      BY AncestorsDefinition
    <2>3. \A w \in Windows(T) : Expected(T, w) = Expected(t, w)
      BY <1>2, <2>1, <2>2 DEF Expected, DerivedState
    <2> QED
      BY <2>3 DEF Derived
  <1>5. BytesOf(T, Windows(T)) = BytesOf(t, Windows(t))
    BY PropertiesKeep
  <1> QED
    BY <1>3, <1>4, <1>5

\* What a resource a at x changes that is no window.
Installs(r, u, x, a, c) ==
    /\ Typed(u) /\ Owned(u) /\ Branching(u.table) /\ Pinned(u.table)
    /\ Derived(u.table) /\ Evolves(r.table, u.table, {x}, {c})
    /\ u.propertyBytes = BytesOf(u.table, Windows(u.table))
    /\ u.propertyBytes <= Limits.totalProperty
    /\ DOMAIN u.table = DOMAIN r.table \cup {x} /\ u.table[x] = a
    /\ \A y \in DOMAIN r.table : u.table[y] = r.table[y]
    /\ \A type : OfType(u.table, type) = IF type = a.type
                                         THEN OfType(r.table, type) \cup {x}
                                         ELSE OfType(r.table, type)

\* A new resource that is no window leaves all but the totals whole.
LEMMA InstallFacts ==
    ASSUME NEW r, Whole(r), NEW c \in Clients, NEW x \in Xids, x \notin DOMAIN r.table,
           NEW a \in Resource, a.owner = c, a.type # "Window",
           a.type \in {"Damage", "Picture"} =>
               a.drawable = None \/ IsDrawable(r.table, a.drawable),
           NEW m \in Nat, NEW n \in Nat, NEW u,
           Parts(u, With(r.table, x, a), Appended(r.owned, c, x), r.propertyBytes, m, n)
    PROVE  Installs(r, u, x, a, c)
  <1> DEFINE t == r.table
             T == With(t, x, a)
             o == Appended(r.owned, c, x)
  <1>1. /\ t \in Tables /\ IsFiniteSet(DOMAIN t) /\ RootStands(t) /\ Sound(r) /\ Derived(t)
        /\ Branching(t) /\ DOMAIN t \subseteq Places /\ \A y \in DOMAIN t : t[y] \in Resource
    BY WholeFacts
  <1>2. /\ DOMAIN T = DOMAIN t \cup {x} /\ T[x] = a /\ T = [y \in DOMAIN t \cup {x} |-> T[y]]
        /\ \A y \in DOMAIN t : T[y] = t[y]
    BY DEF With
  <1>3. o = [d \in Clients |-> o[d]] /\ o[c] = Append(r.owned[c], x)
        /\ \A d \in Clients : d # c => o[d] = r.owned[d]
    BY PartsFacts DEF Appended
  <1> HIDE DEF T, o
  <1>4. T \in Tables
    <2> DEFINE D == DOMAIN t \cup {x}
    <2>1. D \subseteq Places /\ \A y \in D : T[y] \in Resource
      BY <1>1, <1>2 DEF Places
    <2>2. T = [y \in D |-> T[y]]
      BY <1>2
    <2> HIDE DEF D
    <2> QED
      BY <2>1, <2>2, TablesHave
  <1>5. /\ r.owned[c] \in Seq(Xids) /\ o[c] \in Seq(Xids)
        /\ Range(o[c]) = Range(r.owned[c]) \cup {x}
        /\ Distinct(r.owned[c]) /\ x \notin Range(r.owned[c]) => Distinct(o[c])
    <2>1. r.owned[c] \in Seq(Xids)
      BY PartsFacts
    <2> DEFINE s == r.owned[c]
    <2>2. s \in Seq(Xids)
      BY <2>1
    <2> HIDE DEF s
    <2>3. /\ Append(s, x) \in Seq(Xids) /\ Range(Append(s, x)) = Range(s) \cup {x}
          /\ Distinct(s) /\ x \notin Range(s) => Distinct(Append(s, x))
      BY <2>2, AppendFacts
    <2>4. o[c] = Append(s, x)
      BY <1>3 DEF s
    <2> QED
      BY <2>2, <2>3, <2>4 DEF s
  <1>6. o \in OwnerLists
    <2>1. \A d \in Clients : o[d] \in Seq(Xids)
      BY <1>3, <1>5, PartsFacts
    <2> QED
      BY <1>3, <2>1 DEF OwnerLists
  <1>7. /\ u.table = T /\ u.owned = o /\ u.propertyBytes = r.propertyBytes
        /\ u.drawableBytes = m /\ u.cursorBytes = n /\ u \in ResourceTables
    <2>1. Parts(u, T, o, r.propertyBytes, m, n) /\ r.propertyBytes \in Nat
      BY PartsFacts DEF T, o
    <2> QED
      BY <1>4, <1>6, <2>1 DEF Parts
  <1>8. \A type : OfType(T, type) = IF type = a.type THEN OfType(t, type) \cup {x}
                                    ELSE OfType(t, type)
    BY <1>2 DEF OfType
  <1>9. Windows(T) = Windows(t) /\ \A w \in Windows(t) : T[w] = t[w]
    BY <1>2, <1>8 DEF Windows, OfType
  <1>10. /\ Branching(T) /\ Derived(T)
         /\ BytesOf(T, Windows(T)) = BytesOf(t, Windows(t))
    BY <1>1, <1>9, WindowsKeep
  <1>11. x # Root /\ Root \in DOMAIN t
    BY <1>1, XidFacts DEF RootStands
  <1>12. Typed(u)
    <2>1. RootStands(T)
      BY <1>1, <1>2, <1>11 DEF RootStands
    <2>2. IsFiniteSet(DOMAIN T)
      BY <1>1, <1>2, FS_AddElement
    <2> QED
      BY <1>4, <1>7, <2>1, <2>2 DEF Typed, TypedTable
  <1>13. Owned(u)
    <2>1. \A d \in Clients :
            /\ Distinct(r.owned[d])
            /\ Range(r.owned[d]) = {y \in DOMAIN t \ {Root} : t[y].owner = d}
      BY <1>1 DEF Sound, Owned
    <2>2. \A d \in Clients : {y \in DOMAIN T \ {Root} : T[y].owner = d}
            = IF d = c THEN {y \in DOMAIN t \ {Root} : t[y].owner = d} \cup {x}
              ELSE {y \in DOMAIN t \ {Root} : t[y].owner = d}
      BY <1>2, <1>11
    <2>3. x \notin Range(r.owned[c])
      BY <2>1
    <2>4. \A d \in Clients : /\ Distinct(o[d])
                             /\ Range(o[d]) = {y \in DOMAIN T \ {Root} : T[y].owner = d}
      BY <1>3, <1>5, <2>1, <2>2, <2>3
    <2> QED
      BY <1>7, <2>4 DEF Owned
  <1>14. Pinned(T)
    <2>1. \A d : IsDrawable(t, d) => IsDrawable(T, d)
      BY <1>2 DEF IsDrawable
    <2>2. Pinned(t)
      BY <1>1 DEF Sound
    <2>3. \A y \in Hanging(T) : y \in Hanging(t) \/ (y = x /\ a.type \in {"Damage", "Picture"})
      BY <1>2 DEF Hanging, OfType
    <2>4. \A y \in Hanging(t) : y \in DOMAIN t
      BY DEF Hanging, OfType
    <2> QED
      BY <1>2, <2>1, <2>2, <2>3, <2>4 DEF Pinned
  <1>15. Evolves(t, T, {x}, {c})
    <2>1. \A w \in Windows(T) : w \in DOMAIN t
      BY <1>9 DEF Windows, OfType
    <2> QED
      BY <1>2, <2>1 DEF Evolves
  <1>16. u.propertyBytes = BytesOf(T, Windows(T)) /\ u.propertyBytes <= Limits.totalProperty
    BY <1>7, <1>10, PartsFacts
  <1> QED
    BY <1>2, <1>7, <1>8, <1>10, <1>12, <1>13, <1>14, <1>15, <1>16 DEF Installs

\* Install changes two of the five parts.
LEMMA InstallParts ==
    ASSUME NEW r, Whole(r), NEW c \in Clients, NEW x, NEW a
    PROVE  Parts(Install(r, c, x, a), With(r.table, x, a), Appended(r.owned, c, x),
                 r.propertyBytes, r.drawableBytes, r.cursorBytes)
  <1>1. r \in ResourceTables
    BY WholeFacts
  <1> DEFINE T == With(r.table, x, a)
             o == Appended(r.owned, c, x)
  <1>2. Install(r, c, x, a) = [r EXCEPT !.table = T, !.owned = o]
    BY DEF Install, Appended
  <1> HIDE DEF T, o
  <1>3. Parts(Install(r, c, x, a), T, o, r.propertyBytes, r.drawableBytes, r.cursorBytes)
    BY <1>1, <1>2, PartsChange
  <1> QED
    BY <1>3 DEF T, o

-----------------------------------------------------------------------------
(* Each kind of resource *)

PlainKinds == PlainTypes \union {"Region", "Damage", "Picture"}

\* A resource that counts in no total.
LEMMA InstallBecomes ==
    ASSUME NEW r, Whole(r), NEW c \in Clients, NEW x \in Xids, x \notin DOMAIN r.table,
           NEW a \in Resource, a.owner = c, a.type \in PlainKinds,
           a.type \in {"Damage", "Picture"} =>
               a.drawable = None \/ IsDrawable(r.table, a.drawable)
    PROVE  Becomes(r, Install(r, c, x, a), {x}, {c})
  <1> DEFINE u == Install(r, c, x, a)
             m == r.drawableBytes
             n == r.cursorBytes
  <1>1. m \in Nat /\ n \in Nat
    BY PartsFacts
  <1>2. a.type # "Window" /\ a.type # "Pixmap" /\ a.type # "Cursor"
    BY DEF PlainKinds, PlainTypes
  <1>3. Parts(u, With(r.table, x, a), Appended(r.owned, c, x), r.propertyBytes, m, n)
    BY InstallParts
  <1> HIDE DEF u, m, n
  <1>4. Installs(r, u, x, a, c) /\ u.drawableBytes = m /\ u.cursorBytes = n
    BY <1>1, <1>2, <1>3, InstallFacts DEF Parts
  <1>5. /\ OfType(u.table, "Pixmap") = OfType(r.table, "Pixmap")
        /\ OfType(u.table, "Cursor") = OfType(r.table, "Cursor")
    BY <1>2, <1>4 DEF Installs
  <1>6. PixmapBytes(u.table) = PixmapBytes(r.table)
    <2>1. {u.table[y].storage : y \in OfType(u.table, "Pixmap")}
            = {r.table[y].storage : y \in OfType(r.table, "Pixmap")}
      BY <1>4, <1>5 DEF Installs, OfType
    <2> QED
      BY <2>1 DEF PixmapBytes
  <1>7. Totalled(u)
    BY <1>4, <1>5, <1>6, PartsFacts DEF Installs, Totalled, m, n
  <1> QED
    BY <1>4, <1>7 DEF Installs, Becomes, Whole, Sound, u

\* The storage of the pixmaps, each counted once.
StoragesOf(t) == {t[x].storage : x \in OfType(t, "Pixmap")}
BytesIn(S) == SumOf([s \in S |-> s[2]])

\* The storage of pixmaps is finite, and its bytes are those of the pixmaps.
LEMMA StoragesOfFacts ==
    ASSUME NEW t \in Tables, IsFiniteSet(DOMAIN t)
    PROVE  /\ IsFiniteSet(StoragesOf(t)) /\ StoragesOf(t) \subseteq Storages
           /\ PixmapBytes(t) = BytesIn(StoragesOf(t))
  <1> DEFINE D == OfType(t, "Pixmap")
             f == [x \in D |-> t[x].storage]
  <1>1. IsFiniteSet(D)
    BY WindowsAreFinite
  <1>2. DOMAIN f = D /\ f = [x \in D |-> f[x]] /\ StoragesOf(t) = {f[x] : x \in D}
    BY DEF StoragesOf
  <1>3. IsFiniteSet(StoragesOf(t))
    <2> HIDE DEF f, D
    <2> QED
      BY <1>1, <1>2, ImageIsFinite
  <1>4. ASSUME NEW x \in OfType(t, "Pixmap")  PROVE t[x].storage \in Storages
    <2>1. t[x] \in PixmapRecord
      BY TableFacts, ResourceKinds DEF OfType
    <2> QED
      BY <2>1 DEF PixmapRecord
  <1>5. StoragesOf(t) \subseteq Storages
    BY <1>4 DEF StoragesOf
  <1> QED
    BY <1>3, <1>5 DEF PixmapBytes, BytesIn, StoragesOf

\* Less storage has fewer bytes.
LEMMA BytesInFacts ==
    ASSUME NEW S, IsFiniteSet(S), S \subseteq Storages, NEW R, R \subseteq S
    PROVE  BytesIn(S) \in Nat /\ BytesIn(R) \in Nat /\ BytesIn(R) <= BytesIn(S)
  <1> DEFINE f == [s \in S |-> s[2]]
             g == [s \in R |-> s[2]]
  <1>1. /\ DOMAIN f = S /\ DOMAIN g = R
        /\ \A s \in R : g[s] = f[s]
        /\ \A s \in S : f[s] \in Nat
    BY DEF Storages
  <1>2. BytesIn(S) = SumOf(f) /\ BytesIn(R) = SumOf(g)
    BY DEF BytesIn
  <1> HIDE DEF f, g
  <1>3. BytesIn(S) = Cardinality(Counted(f, S)) /\ BytesIn(R) = Cardinality(Counted(g, R))
    BY <1>1, <1>2, SumIsCounted
  <1>4. Counted(g, R) = Counted(f, R)
    BY <1>1, CountedSame
  <1>5. Cardinality(Counted(f, S)) = Cardinality(Counted(f, R)) + Cardinality(Counted(f, S \ R))
    BY <1>1, CountedSplits
  <1>6. IsFiniteSet(R) /\ IsFiniteSet(S \ R)
    BY FS_Subset
  <1>7. /\ Cardinality(Counted(f, S)) \in Nat /\ Cardinality(Counted(f, R)) \in Nat
        /\ Cardinality(Counted(f, S \ R)) \in Nat
    BY <1>1, <1>6, CountedIsFinite
  <1> QED
    BY <1>3, <1>4, <1>5, <1>7

\* One more storage is one more byte at most.
LEMMA BytesInGrows ==
    ASSUME NEW S, IsFiniteSet(S), S \subseteq Storages, NEW s \in Storages
    PROVE  BytesIn(S \cup {s}) \in Nat /\ BytesIn(S \cup {s}) <= BytesIn(S) + 1
  <1> DEFINE E == S \cup {s}
             f == [x \in E |-> x[2]]
             g == [x \in S |-> x[2]]
  <1>1. IsFiniteSet(E) /\ E \subseteq Storages /\ s \in E /\ S \subseteq E
    BY FS_AddElement
  <1>2. CASE s \in S
    <2>1. E = S
      BY <1>2
    <2>2. BytesIn(S) \in Nat
      BY BytesInFacts
    <2>3. BytesIn(E) = BytesIn(S)
      BY <2>1, Zenon
    <2> DEFINE y == BytesIn(E)
               z == BytesIn(S)
    <2>4. y = z /\ z \in Nat
      BY <2>2, <2>3
    <2> HIDE DEF y, z
    <2>5. y \in Nat /\ y <= z + 1
      BY <2>4
    <2> QED
      BY <2>5 DEF y, z
  <1>3. CASE s \notin S
    <2>1. /\ DOMAIN f = E /\ DOMAIN g = S
          /\ (\A x \in S : g[x] = f[x])
          /\ (\A x \in E : f[x] \in Nat) /\ f[s] = 1 /\ E \ {s} = S
      BY <1>1, <1>3 DEF Storages
    <2>2. BytesIn(E) = SumOf(f) /\ BytesIn(S) = SumOf(g)
      BY DEF BytesIn
    <2> HIDE DEF f, g, E
    <2>3. BytesIn(E) = Cardinality(Counted(f, E)) /\ BytesIn(S) = Cardinality(Counted(g, S))
      BY <2>1, <2>2, SumIsCounted
    <2>4. Counted(g, S) = Counted(f, S)
      BY <2>1, CountedSame
    <2>5. /\ Cardinality(Counted(f, E)) \in Nat /\ Cardinality(Counted(f, E \ {s})) \in Nat
          /\ Cardinality(Counted(f, E)) = f[s] + Cardinality(Counted(f, E \ {s}))
      BY <1>1, <2>1, SumSplits
    <2>6. BytesIn(E) = 1 + BytesIn(S) /\ BytesIn(E) \in Nat /\ BytesIn(S) \in Nat
      BY <2>1, <2>3, <2>4, <2>5
    <2>7. BytesIn(E) <= BytesIn(S) + 1
      BY <2>6
    <2> QED
      BY <2>6, <2>7 DEF E
  <1> QED
    BY <1>2, <1>3

\* A pixmap comes, with its own storage or with one that is counted.
LEMMA PixmapBecomes ==
    ASSUME NEW r, Whole(r), NEW c \in Clients, NEW x \in Xids, x \notin DOMAIN r.table,
           NEW s \in Storages,
           r.drawableBytes < Limits.drawableBytes \/ s \in StoragesOf(r.table)
    PROVE  Becomes(r, Accounted(Install(r, c, x,
                        [type |-> "Pixmap", owner |-> c, storage |-> s])), {x}, {c})
  <1> DEFINE a == [type |-> "Pixmap", owner |-> c, storage |-> s]
             i == Install(r, c, x, a)
             n == PixmapBytes(i.table)
             u == Accounted(i)
             T == With(r.table, x, a)
             o == Appended(r.owned, c, x)
             S == StoragesOf(r.table)
  <1>1. a \in Resource /\ a.type = "Pixmap" /\ a.owner = c /\ a.storage = s
    BY DEF Resource, PixmapRecord
  <1>2. Parts(i, T, o, r.propertyBytes, r.drawableBytes, r.cursorBytes)
    BY InstallParts
  <1> HIDE DEF a, T, o
  <1>3. r.drawableBytes \in Nat /\ r.cursorBytes \in Nat
    BY PartsFacts
  <1>4. Installs(r, i, x, a, c)
    <2> HIDE DEF i
    <2> QED
      BY <1>1, <1>2, <1>3, InstallFacts DEF T, o
  <1>5. i \in ResourceTables /\ i.table = T
    <2> HIDE DEF i
    <2> QED
      BY <1>2, <1>4 DEF Installs, Typed, Parts
  <1>6. Parts(u, i.table, i.owned, i.propertyBytes, n, i.cursorBytes)
    <2>1. u = [i EXCEPT !.drawableBytes = n]
      BY DEF Accounted
    <2> HIDE DEF u, n, i
    <2> QED
      BY <1>5, <2>1, PartsChange
  <1>7. Parts(u, T, o, r.propertyBytes, n, r.cursorBytes)
    <2> HIDE DEF u, n, i
    <2> QED
      BY <1>2, <1>5, <1>6 DEF Parts
  <1>8. StoragesOf(i.table) = S \cup {s}
    <2> HIDE DEF i
    <2>1. OfType(i.table, "Pixmap") = OfType(r.table, "Pixmap") \cup {x}
      BY <1>1, <1>4 DEF Installs
    <2>2. i.table[x].storage = s /\ \A y \in OfType(r.table, "Pixmap") : i.table[y] = r.table[y]
      BY <1>1, <1>4 DEF Installs, OfType
    <2> QED
      BY <2>1, <2>2 DEF StoragesOf
  <1>9. n \in Nat /\ n <= Limits.drawableBytes
    <2> HIDE DEF i
    <2>1. i.table \in Tables /\ IsFiniteSet(DOMAIN i.table)
      BY <1>4 DEF Installs, Typed, TypedTable
    <2>2. n = BytesIn(S \cup {s})
      BY <1>8, <2>1, StoragesOfFacts
    <2>3. /\ IsFiniteSet(S) /\ S \subseteq Storages /\ r.drawableBytes = BytesIn(S)
          /\ r.drawableBytes <= Limits.drawableBytes /\ Limits.drawableBytes \in Nat
      BY WholeFacts, StoragesOfFacts, PartsFacts
    <2>4. CASE s \in S
      <3>1. S \cup {s} = S
        BY <2>4
      <3> HIDE DEF S, n
      <3>2. n = r.drawableBytes
        BY <2>2, <2>3, <3>1
      <3> QED
        BY <1>3, <2>3, <3>2
    <2>5. CASE r.drawableBytes < Limits.drawableBytes
      <3> HIDE DEF S, n
      <3>1. BytesIn(S \cup {s}) \in Nat /\ BytesIn(S \cup {s}) <= BytesIn(S) + 1
        BY <2>3, BytesInGrows
      <3> DEFINE y == BytesIn(S \cup {s})
                 z == BytesIn(S)
                 l == Limits.drawableBytes
      <3>2. y \in Nat /\ y <= z + 1 /\ z < l /\ z \in Nat /\ l \in Nat /\ n = y
        BY <1>3, <2>2, <2>3, <2>5, <3>1
      <3> HIDE DEF y, z, l
      <3>3. n \in Nat /\ n <= l
        BY <3>2
      <3> QED
        BY <3>3 DEF l
    <2> QED
      BY <2>4, <2>5
  <1>10. Installs(r, u, x, a, c)
    <2> HIDE DEF u, n, i
    <2> QED
      BY <1>1, <1>3, <1>7, <1>9, InstallFacts DEF T, o
  <1>11. /\ u.drawableBytes = PixmapBytes(u.table) /\ u.drawableBytes <= Limits.drawableBytes
    <2>1. u.drawableBytes = n /\ u.table = T
      <3> HIDE DEF u, n
      <3> QED
        BY <1>7 DEF Parts
    <2>2. n = PixmapBytes(T)
      BY <1>5
    <2> HIDE DEF u, n
    <2> QED
      BY <1>9, <2>1, <2>2
  <1>12. Totalled(u)
    <2> HIDE DEF u, n
    <2>1. OfType(u.table, "Cursor") = OfType(r.table, "Cursor") /\ u.cursorBytes = r.cursorBytes
      BY <1>1, <1>7, <1>10 DEF Installs, Parts
    <2> QED
      BY <1>10, <1>11, <2>1, PartsFacts DEF Totalled, Installs
  <1>13. Becomes(r, u, {x}, {c})
    <2> HIDE DEF u
    <2> QED
      BY <1>10, <1>12 DEF Installs, Becomes, Whole, Sound
  <1> QED
    BY <1>13 DEF a

\* create_cursor: one more cursor, and its image.
LEMMA CursorBecomes ==
    ASSUME NEW r, Whole(r), NEW c \in Clients, NEW x \in Xids, x \notin DOMAIN r.table,
           r.cursorBytes < Limits.cursorBytes
    PROVE  Becomes(r, WithCursor(r, c, x), {x}, {c})
  <1> DEFINE a == [type |-> "Cursor", owner |-> c, image |-> FreshImage(r.table)]
             i == Install(r, c, x, a)
             u == WithCursor(r, c, x)
             n == r.cursorBytes + 1
             T == With(r.table, x, a)
             o == Appended(r.owned, c, x)
  <1>1. a \in Resource /\ a.type = "Cursor" /\ a.owner = c
    <2>1. FreshImage(r.table) \in Nat
      BY WholeFacts, FreshImageFacts
    <2> QED
      BY <2>1 DEF Resource, CursorRecord
  <1>2. Parts(i, T, o, r.propertyBytes, r.drawableBytes, r.cursorBytes)
    BY InstallParts
  <1>3. /\ r.drawableBytes \in Nat /\ r.cursorBytes \in Nat /\ Limits.cursorBytes \in Nat
        /\ r.cursorBytes = Cardinality(OfType(r.table, "Cursor"))
    BY PartsFacts
  <1>4. n \in Nat /\ n <= Limits.cursorBytes
    BY <1>3
  <1> HIDE DEF a, T, o
  <1>5. i \in ResourceTables
    <2> HIDE DEF i
    <2>1. Installs(r, i, x, a, c)
      BY <1>1, <1>2, <1>3, InstallFacts DEF T, o
    <2> QED
      BY <2>1 DEF Installs, Typed
  <1>6. Parts(u, T, o, r.propertyBytes, r.drawableBytes, n)
    <2>1. u = [i EXCEPT !.cursorBytes = i.cursorBytes + 1]
      BY DEF WithCursor, a
    <2> DEFINE k == i.cursorBytes + 1
    <2> HIDE DEF u, n, i, k
    <2>2. Parts(u, i.table, i.owned, i.propertyBytes, i.drawableBytes, k)
      BY <1>5, <2>1, PartsChange DEF k
    <2>3. k = n
      BY <1>2 DEF Parts, k, n
    <2> QED
      BY <1>2, <2>2, <2>3 DEF Parts
  <1> HIDE DEF u, i
  <1>7. Installs(r, u, x, a, c)
    <2> HIDE DEF n
    <2> QED
      BY <1>1, <1>3, <1>4, <1>6, InstallFacts DEF T, o
  <1>8. /\ OfType(u.table, "Cursor") = OfType(r.table, "Cursor") \cup {x}
        /\ OfType(u.table, "Pixmap") = OfType(r.table, "Pixmap")
        /\ u.cursorBytes = n /\ u.drawableBytes = r.drawableBytes
    BY <1>1, <1>6, <1>7 DEF Installs, Parts
  <1>9. Cardinality(OfType(u.table, "Cursor")) = n
    <2>1. IsFiniteSet(OfType(r.table, "Cursor"))
      BY WholeFacts, WindowsAreFinite
    <2>2. x \notin OfType(r.table, "Cursor")
      BY DEF OfType
    <2> QED
      BY <1>3, <1>8, <2>1, <2>2, FS_AddElement
  <1>10. PixmapBytes(u.table) = PixmapBytes(r.table)
    <2>1. {u.table[y].storage : y \in OfType(u.table, "Pixmap")}
            = {r.table[y].storage : y \in OfType(r.table, "Pixmap")}
      BY <1>7, <1>8 DEF Installs, OfType
    <2> QED
      BY <2>1 DEF PixmapBytes
  <1>11. Totalled(u)
    BY <1>4, <1>7, <1>8, <1>9, <1>10, PartsFacts DEF Totalled, Installs
  <1> QED
    BY <1>7, <1>11 DEF Installs, Becomes, Whole, Sound, u

-----------------------------------------------------------------------------
(* Windows come *)

\* What CreateWindow checks before it makes a window, or defers making it.
Creatable(t, spec) ==
    /\ spec.xid \in Xids \ DOMAIN t
    /\ spec.parent \in Windows(t)
    /\ spec.class \in {"InputOutput", "InputOnly"}
    /\ spec.class = "InputOutput" => t[spec.parent].class = "InputOutput"
    /\ spec.cursor \in Xids \union {None}
    /\ spec.image \in Nat
    /\ spec.events \in BOOLEAN

\* A window fresh from CreateWindow.
Created(c, spec) ==
    [NewWindow(c, spec.parent, spec.class) EXCEPT
        !.inherit = spec.cursor = None, !.cursor = spec.cursor, !.image = spec.image,
        !.events = IF spec.events THEN {c} ELSE {}]

IsNewborn(a, c, p) ==
    /\ a \in WindowRecord /\ a.type = "Window" /\ a.owner = c /\ a.parent = p
    /\ a.children = <<>> /\ ~a.mapRequested /\ a.mapState = "Unmapped"
    /\ a.properties = <<>> /\ a.events \subseteq {c}

\* No properties take no bytes.
LEMMA NothingStored == <<>> \in Stores /\ SumOf(<<>>) = 0
  <1>1. DOMAIN <<>> = {}
    OBVIOUS
  <1>2. <<>> \in [{} -> Nat]
    OBVIOUS
  <1>3. <<>> \in Stores
    BY <1>2 DEF Stores
  <1>4. UNION {{x} \X (1..(<<>>)[x]) : x \in DOMAIN <<>>} = {}
    BY <1>1
  <1>5. Cardinality({}) = 0
    BY FS_EmptySet
  <1> QED
    BY <1>3, <1>4, <1>5 DEF SumOf

\* What CreateWindow makes is a newborn window.
LEMMA CreatedFacts ==
    ASSUME NEW t \in Tables, RootStands(t), NEW c \in Clients, NEW spec, Creatable(t, spec)
    PROVE  IsNewborn(Created(c, spec), c, spec.parent) /\ Created(c, spec).class = spec.class
  <1>1. spec.parent \in Xids \union {Root, None}
    <2>1. spec.parent \in DOMAIN t
      BY WindowsAre DEF Creatable
    <2> QED
      BY <2>1, TableFacts DEF Places
  <1> DEFINE e == IF spec.events THEN {c} ELSE {}
             i == (spec.cursor = None)
             n == NewWindow(c, spec.parent, spec.class)
             a == [n EXCEPT !.inherit = i, !.cursor = spec.cursor, !.image = spec.image,
                            !.events = e]
             q == <<>>
  <1>2. Created(c, spec) = a
    BY DEF Created
  <1>3. e \in SUBSET Clients /\ e \subseteq {c} /\ i \in BOOLEAN
    OBVIOUS
  <1>4. /\ q \in Seq(Xids) /\ q \in Stores
        /\ spec.class \in {"InputOutput", "InputOnly"}
        /\ spec.cursor \in Xids \union {None} /\ spec.image \in Nat
    BY NothingStored DEF Creatable
  <1>5. n = [type |-> "Window", owner |-> c, parent |-> spec.parent, children |-> q,
             class |-> spec.class, mapRequested |-> FALSE, policyVisible |-> FALSE,
             mapState |-> "Unmapped", storage |-> NoStorage, inherit |-> TRUE,
             cursor |-> None, image |-> 0, properties |-> q, events |-> {},
             cleanupPending |-> FALSE]
    BY DEF NewWindow
  <1> HIDE DEF e, i, n, q
  <1>6. n \in WindowRecord
    BY <1>1, <1>4, <1>5 DEF WindowRecord, MapStatesOfWindows
  <1>7. /\ n.type = "Window" /\ n.owner = c /\ n.parent = spec.parent
        /\ n.children = q /\ n.mapRequested = FALSE /\ n.mapState = "Unmapped"
        /\ n.properties = q /\ n.class = spec.class
    BY <1>5
  <1>8. /\ a \in WindowRecord /\ a.type = "Window" /\ a.owner = c /\ a.parent = spec.parent
        /\ a.children = q /\ a.mapRequested = FALSE /\ a.mapState = "Unmapped"
        /\ a.properties = q /\ a.class = spec.class /\ a.events = e
    BY <1>3, <1>4, <1>6, <1>7 DEF WindowRecord
  <1> HIDE DEF a
  <1> QED
    BY <1>2, <1>3, <1>8 DEF IsNewborn, q

\* T is t with a newborn window a at x below p.
Grows(t, T, p, x, a) ==
    /\ T = [y \in DOMAIN t \union {x} |-> T[y]]
    /\ T[x] = a
    /\ T[p] = [t[p] EXCEPT !.children = Append(t[p].children, x)]
    /\ \A y \in DOMAIN t : y # p => T[y] = t[y]

\* A window's record b is a, but for its children, to which those of more came.
GrownAs(a, b, more) ==
    /\ b \in WindowRecord /\ b.type = "Window"
    /\ b.owner = a.owner /\ b.parent = a.parent
    /\ b.class = a.class /\ b.mapRequested = a.mapRequested
    /\ b.policyVisible = a.policyVisible
    /\ b.mapState = a.mapState /\ b.events = a.events
    /\ b.properties = a.properties
    /\ Range(b.children) = Range(a.children) \union more

Growing(t, c, p, x, a, T) ==
    /\ TypedTable(t) /\ Branching(t) /\ c \in Clients
    /\ p \in Windows(t) /\ x \in Xids /\ x \notin DOMAIN t
    /\ IsNewborn(a, c, p) /\ (a.class = "InputOutput" => t[p].class = "InputOutput")
    /\ Grows(t, T, p, x, a)

Grown(t, p, x, T) ==
    /\ T \in Tables /\ DOMAIN T = DOMAIN t \union {x}
    /\ Windows(T) = Windows(t) \union {x}
    /\ \A w \in Windows(t) : GrownAs(t[w], T[w], IF w = p THEN {x} ELSE {})
    /\ \A y \in DOMAIN t \ Windows(t) : T[y] = t[y]

\* A table that grows by a newborn window gets no other window.
LEMMA GrowsFacts ==
    ASSUME NEW t, NEW c, NEW p, NEW x, NEW a, NEW T, Growing(t, c, p, x, a, T)
    PROVE  Grown(t, p, x, T)
  <1>0. /\ TypedTable(t) /\ Branching(t) /\ c \in Clients /\ p \in Windows(t)
        /\ x \in Xids /\ x \notin DOMAIN t /\ IsNewborn(a, c, p) /\ Grows(t, T, p, x, a)
    BY DEF Growing
  <1>1. /\ t \in Tables /\ DOMAIN t \subseteq Places /\ \A y \in DOMAIN t : t[y] \in Resource
        /\ p \in DOMAIN t /\ t[p] \in WindowRecord /\ t[p].type = "Window"
    BY <1>0, TableFacts, WindowsAre DEF TypedTable
  <1> DEFINE s == t[p].children
             q == Append(t[p].children, x)
             b == [t[p] EXCEPT !.children = q]
  <1>2. q \in Seq(Xids) /\ Range(q) = Range(s) \union {x}
    <2>1. s \in Seq(Xids)
      BY <1>1 DEF WindowRecord
    <2> HIDE DEF s
    <2>2. Append(s, x) \in Seq(Xids) /\ Range(Append(s, x)) = Range(s) \union {x}
      BY <1>0, <2>1, AppendFacts
    <2> QED
      BY <2>2 DEF s
  <1>3. T[p] = b
    BY <1>0 DEF Grows
  <1> HIDE DEF q
  <1>4. /\ b \in WindowRecord /\ b.type = "Window" /\ b.owner = t[p].owner
        /\ b.parent = t[p].parent /\ b.class = t[p].class
        /\ b.mapRequested = t[p].mapRequested /\ b.policyVisible = t[p].policyVisible
        /\ b.mapState = t[p].mapState /\ b.events = t[p].events
        /\ b.properties = t[p].properties /\ b.children = q
    BY <1>1, <1>2 DEF WindowRecord
  <1> HIDE DEF b
  <1>5. /\ a \in Resource /\ b \in Resource /\ a.type = "Window"
    BY <1>0, <1>4 DEF Resource, IsNewborn
  <1> DEFINE D == DOMAIN t \union {x}
  <1>6. D \subseteq Places /\ (\A y \in D : T[y] \in Resource) /\ T = [y \in D |-> T[y]]
    BY <1>0, <1>1, <1>3, <1>5 DEF Grows, Places
  <1>7. T \in Tables /\ DOMAIN T = D
    <2> HIDE DEF D
    <2> QED
      BY <1>6, TablesHave
  <1>8. Windows(T) = Windows(t) \union {x}
    BY <1>0, <1>1, <1>3, <1>4, <1>5, <1>7 DEF Grows, Windows, OfType
  <1>9. \A w \in Windows(t) : w # p => T[w] = t[w] /\ w \in DOMAIN t /\ t[w] \in WindowRecord
                                       /\ t[w].type = "Window"
    BY <1>0, <1>1, WindowsAre DEF Grows
  <1>10. \A y \in DOMAIN t \ Windows(t) : T[y] = t[y]
    BY <1>0 DEF Grows
  <1>11. ASSUME NEW w \in Windows(t)
         PROVE  GrownAs(t[w], T[w], IF w = p THEN {x} ELSE {})
    <2>1. CASE w = p
      BY <1>2, <1>3, <1>4, <2>1 DEF GrownAs
    <2>2. CASE w # p
      BY <1>9, <2>2 DEF GrownAs
    <2> QED
      BY <2>1, <2>2
  <1> QED
    BY <1>7, <1>8, <1>10, <1>11 DEF Grown

\* All that makes T whole, and how it differs from t.
StillWhole(t, T, x, c) ==
    /\ TypedTable(T) /\ Branching(T) /\ Pinned(T) /\ Derived(T)
    /\ Evolves(t, T, {x}, {c})
    /\ BytesOf(T, Windows(T)) = BytesOf(t, Windows(t))
    /\ OfType(T, "Cursor") = OfType(t, "Cursor") /\ PixmapBytes(T) = PixmapBytes(t)
    /\ \A y \in DOMAIN t : T[y].owner = t[y].owner
    /\ T[x].owner = c

\* What a newborn window leaves as it was.
LEMMA GrowsKeeps ==
    ASSUME NEW t, NEW c, NEW p, NEW x, NEW a, NEW T, Growing(t, c, p, x, a, T),
           Pinned(t), Derived(t)
    PROVE  StillWhole(t, T, x, c)
  <1>17. /\ T \in Tables /\ DOMAIN T = DOMAIN t \union {x}
         /\ Windows(T) = Windows(t) \union {x}
         /\ \A w \in Windows(t) : GrownAs(t[w], T[w], IF w = p THEN {x} ELSE {})
         /\ \A y \in DOMAIN t \ Windows(t) : T[y] = t[y]
    <2>1. Grown(t, p, x, T)
      BY GrowsFacts
    <2> QED
      BY <2>1 DEF Grown
  <1>0. /\ TypedTable(t) /\ Branching(t) /\ c \in Clients /\ p \in Windows(t)
        /\ x \in Xids /\ x \notin DOMAIN t /\ IsNewborn(a, c, p)
        /\ (a.class = "InputOutput" => t[p].class = "InputOutput")
        /\ Grows(t, T, p, x, a)
    BY DEF Growing
  <1>19. T[x] = a
    BY <1>0 DEF Grows
  <1> DEFINE W == Windows(t)
  <1>1. /\ T \in Tables /\ DOMAIN T = DOMAIN t \union {x}
        /\ Windows(T) = W \union {x}
        /\ \A y \in DOMAIN t \ W : T[y] = t[y]
        /\ T[x] = a /\ p \in W
    BY <1>0, <1>17, <1>19
  <1>14. \A w \in Windows(t) : GrownAs(t[w], T[w], IF w = p THEN {x} ELSE {})
    BY <1>17
  <1>15. \A w \in Windows(t) : t[w].type = "Window" /\ w \in DOMAIN t
    BY DEF Windows, OfType
  <1> HIDE DEF W
  <1>2. \A w \in W :
          /\ T[w] \in WindowRecord /\ T[w].type = "Window"
          /\ T[w].owner = t[w].owner /\ T[w].parent = t[w].parent
          /\ T[w].class = t[w].class /\ T[w].mapRequested = t[w].mapRequested
          /\ T[w].policyVisible = t[w].policyVisible
          /\ T[w].mapState = t[w].mapState /\ T[w].events = t[w].events
          /\ T[w].properties = t[w].properties
          /\ t[w].type = "Window" /\ w \in DOMAIN t
    BY <1>14, <1>15 DEF W, GrownAs
  <1>16. \A w \in W : Range(T[w].children) = Range(t[w].children)
                                              \union (IF w = p THEN {x} ELSE {})
    BY <1>14 DEF W, GrownAs
  <1>3. /\ a.type = "Window" /\ a.owner = c /\ a.parent = p /\ a.children = <<>>
        /\ a.mapRequested = FALSE /\ a.mapState = "Unmapped" /\ a.properties = <<>>
        /\ a.events \subseteq {c}
    BY <1>0 DEF IsNewborn
  <1>4. /\ Rooted(t) /\ Root \in W /\ x \notin W /\ x # Root
    BY <1>0 DEF Branching, Rooted, Windows, OfType, W
  <1>5. /\ Rooted(T)
        /\ \A w \in W : Ancestors(T, w) = Ancestors(t, w)
        /\ Ancestors(T, x) = {p} \union Ancestors(t, p)
    <2>1. \A w \in W : T[w].parent = t[w].parent
      BY <1>2
    <2>2. T[x].parent \in W
      BY <1>1, <1>3
    <2> QED
      BY <1>1, <1>3, <1>4, <2>1, <2>2, GrownTree DEF W
  <1>6. TypedTable(T)
    <2>1. IsFiniteSet(DOMAIN T)
      BY <1>0, <1>1, FS_AddElement DEF TypedTable
    <2>2. RootStands(T)
      <3>1. \A y \in DOMAIN t \ {Root} : T[y].owner \in Clients
        BY <1>0, <1>1, <1>2 DEF TypedTable, RootStands
      <3> QED
        BY <1>0, <1>1, <1>2, <1>3, <1>4, <3>1 DEF TypedTable, RootStands
    <2> QED
      BY <1>1, <2>1, <2>2 DEF TypedTable
  <1>7. Branching(T)
    <2>1. \A w \in W : Range(t[w].children) = {y \in W : y # Root /\ t[y].parent = w}
      BY <1>0 DEF Branching, W
    <2>2. ASSUME NEW w \in W
          PROVE  Range(T[w].children) = {y \in Windows(T) : y # Root /\ T[y].parent = w}
      BY <1>1, <1>2, <1>16, <1>3, <1>4, <2>1
    <2>3. Range(T[x].children) = {y \in Windows(T) : y # Root /\ T[y].parent = x}
      <3>1. Range(T[x].children) = {}
        BY <1>1, <1>3 DEF Range
      <3>2. \A y \in W \ {Root} : T[y].parent # x
        <4>1. \A y \in W \ {Root} : t[y].parent \in W
          BY <1>4 DEF Rooted, W
        <4> QED
          BY <1>2, <1>4, <4>1
      <3>3. T[x].parent # x
        BY <1>1, <1>3, <1>4
      <3> QED
        BY <1>1, <3>1, <3>2, <3>3
    <2>4. \A w \in Windows(T) \ {Root} :
            T[w].class = "InputOutput" => T[T[w].parent].class = "InputOutput"
      <3>1. \A w \in W \ {Root} : t[w].parent \in W
                /\ (t[w].class = "InputOutput" => t[t[w].parent].class = "InputOutput")
        BY <1>0, <1>4 DEF Rooted, Branching, W
      <3> QED
        <4>1. ASSUME NEW w \in W \ {Root}, T[w].class = "InputOutput"
              PROVE  T[T[w].parent].class = "InputOutput"
          BY <1>2, <3>1, <4>1
        <4>2. T[x].class = "InputOutput" => T[T[x].parent].class = "InputOutput"
          BY <1>0, <1>1, <1>2, <1>3
        <4> QED
          BY <1>1, <4>1, <4>2
    <2> QED
      BY <1>1, <1>5, <2>2, <2>3, <2>4 DEF Branching
  <1>8. /\ \A type : type # "Window" => OfType(T, type) = OfType(t, type)
        /\ \A y \in DOMAIN t : T[y].owner = t[y].owner /\ T[y].type = t[y].type
    <2>1. \A y \in DOMAIN t : T[y].owner = t[y].owner /\ T[y].type = t[y].type
      BY <1>1, <1>2
    <2> QED
      BY <1>1, <1>3, <2>1 DEF OfType
  <1>9. Pinned(T)
    <2>1. Hanging(T) = Hanging(t) /\ Hanging(t) \subseteq DOMAIN t \ W
      BY <1>8 DEF Hanging, OfType, Windows, W
    <2>2. \A d : IsDrawable(t, d) => IsDrawable(T, d)
      BY <1>1, <1>8 DEF IsDrawable
    <2> QED
      BY <1>1, <2>1, <2>2 DEF Pinned
  <1>10. Derived(T)
    <2>1. \A w \in W : Asks(T, w) <=> Asks(t, w)
      BY <1>1, <1>2, <1>4 DEF Asks, IsPolicyCandidate, W
    <2>2. \A w \in W : Ancestors(t, w) \subseteq W
      BY AncestorsDefinition DEF W
    <2>3. \A w \in W : T[w].mapState = Expected(T, w)
      BY <1>2, <1>5, <2>1, <2>2 DEF Expected, DerivedState, Derived, W
    <2>4. T[x].mapState = Expected(T, x)
      BY <1>1, <1>3, <1>4 DEF Expected, DerivedState, Asks
    <2> QED
      BY <1>1, <2>3, <2>4 DEF Derived
  <1>11. Evolves(t, T, {x}, {c})
    BY <1>0, <1>1, <1>2, <1>3, <1>8 DEF Evolves
  <1>12. BytesOf(T, Windows(T)) = BytesOf(t, W)
    <2> DEFINE V == Windows(T)
    <2>1. T \in Tables /\ IsFiniteSet(DOMAIN T) /\ V \subseteq Windows(T) /\ W \subseteq V
      BY <1>1, <1>6 DEF TypedTable
    <2> HIDE DEF V
    <2>2. /\ BytesOf(T, V) = BytesOf(T, W) + BytesOf(T, V \ W)
          /\ BytesOf(T, W) \in Nat /\ BytesOf(T, V \ W) \in Nat
      BY <2>1, BytesSplit
    <2>3. V \ W = {x}
      BY <1>1, <1>4 DEF V
    <2>4. BytesOf(T, {x}) = 0
      <3>1. PropertyBytes(T[x]) = 0
        BY <1>1, <1>3, NothingStored DEF PropertyBytes
      <3> DEFINE f == [w \in {x} |-> PropertyBytes(T[w])]
      <3>2. {x} \subseteq Windows(T) /\ f[x] = 0
        BY <1>1, <3>1
      <3>3. BytesOf(T, {x}) = Cardinality(Counted(f, {x}))
        BY <2>1, <3>2, BytesFacts
      <3>4. Cardinality(Counted(f, {x})) = f[x]
        <4>1. f[x] \in Nat
          BY <3>2
        <4> HIDE DEF f
        <4> QED
          BY <4>1, CountedOne
      <3> QED
        BY <3>2, <3>3, <3>4
    <2>5. BytesOf(T, W) = BytesOf(t, W)
      <3>1. \A w \in W : T[w].properties = t[w].properties
        BY <1>2
      <3> QED
        BY <3>1, PropertiesKeep
    <2> DEFINE n == BytesOf(T, V)
               m == BytesOf(T, W)
    <2>6. m \in Nat /\ n = m + 0
      BY <2>2, <2>3, <2>4
    <2> HIDE DEF n, m
    <2>7. n = m
      BY <2>6
    <2> QED
      BY <2>5, <2>7 DEF V, n, m
  <1>13. PixmapBytes(T) = PixmapBytes(t)
    <2>1. \A y \in OfType(t, "Pixmap") : y \in DOMAIN t \ W
      BY DEF OfType, Windows, W
    <2>2. {T[y].storage : y \in OfType(T, "Pixmap")} = {t[y].storage : y \in OfType(t, "Pixmap")}
      BY <1>1, <1>8, <2>1
    <2> QED
      BY <2>2 DEF PixmapBytes
  <1> QED
    BY <1>1, <1>3, <1>6, <1>7, <1>8, <1>9, <1>10, <1>11, <1>12, <1>13 DEF W, StillWhole

\* The owner's list with the new resource.
LEMMA AppendedOwned ==
    ASSUME NEW r, Whole(r), NEW c \in Clients, NEW x \in Xids, x \notin DOMAIN r.table,
           NEW u, u.owned = Appended(r.owned, c, x),
           DOMAIN u.table = DOMAIN r.table \union {x}, u.table[x].owner = c,
           \A y \in DOMAIN r.table : u.table[y].owner = r.table[y].owner
    PROVE  Owned(u) /\ Appended(r.owned, c, x) \in OwnerLists
  <1> DEFINE t == r.table
             T == u.table
             o == Appended(r.owned, c, x)
             s == r.owned[c]
  <1>1. o = [d \in Clients |-> o[d]] /\ o[c] = Append(s, x)
        /\ \A d \in Clients : d # c => o[d] = r.owned[d]
    BY PartsFacts DEF Appended
  <1>2. s \in Seq(Xids)
    BY PartsFacts
  <1>3. u.owned = o
    OBVIOUS
  <1> HIDE DEF o
  <1>4. /\ o[c] \in Seq(Xids) /\ Range(o[c]) = Range(s) \union {x}
        /\ Distinct(s) /\ x \notin Range(s) => Distinct(o[c])
    <2> HIDE DEF s
    <2>1. /\ Append(s, x) \in Seq(Xids) /\ Range(Append(s, x)) = Range(s) \cup {x}
          /\ Distinct(s) /\ x \notin Range(s) => Distinct(Append(s, x))
      BY <1>2, AppendFacts
    <2> QED
      BY <1>1, <2>1
  <1>5. o \in OwnerLists
    <2>1. \A d \in Clients : o[d] \in Seq(Xids)
      BY <1>1, <1>4, PartsFacts
    <2> QED
      BY <1>1, <2>1 DEF OwnerLists
  <1>6. \A d \in Clients : /\ Distinct(r.owned[d])
                           /\ Range(r.owned[d]) = {y \in DOMAIN t \ {Root} : t[y].owner = d}
    BY WholeFacts DEF Sound, Owned
  <1>7. \A d \in Clients : {y \in DOMAIN T \ {Root} : T[y].owner = d}
          = IF d = c THEN {y \in DOMAIN t \ {Root} : t[y].owner = d} \cup {x}
            ELSE {y \in DOMAIN t \ {Root} : t[y].owner = d}
    <2>1. x # Root
      BY XidFacts
    <2> QED
      BY <2>1
  <1>8. x \notin Range(s)
    BY <1>6
  <1>9. \A d \in Clients : /\ Distinct(o[d])
                           /\ Range(o[d]) = {y \in DOMAIN T \ {Root} : T[y].owner = d}
    BY <1>1, <1>4, <1>6, <1>7, <1>8
  <1> QED
    BY <1>3, <1>5, <1>9 DEF Owned, o

\* create_window
LEMMA CreateWindowBecomes ==
    ASSUME NEW r, Whole(r), NEW c \in Clients, NEW spec, Creatable(r.table, spec)
    PROVE  Becomes(r, CreateWindowIn(r, c, spec), {spec.xid}, {c})
  <1> DEFINE t == r.table
             x == spec.xid
             p == spec.parent
             a == Created(c, spec)
             s == Install(r, c, x, a)
             S == With(t, x, a)
             q == Append(S[p].children, x)
             b == [S[p] EXCEPT !.children = q]
             T == [S EXCEPT ![p] = b]
             o == Appended(r.owned, c, x)
             u == CreateWindowIn(r, c, spec)
  <1>1. /\ TypedTable(t) /\ t \in Tables /\ RootStands(t) /\ Branching(t)
        /\ Pinned(t) /\ Derived(t) /\ Whole(r)
    BY WholeFacts DEF Sound, TypedTable
  <1>2. /\ x \in Xids /\ x \notin DOMAIN t /\ p \in Windows(t) /\ p \in DOMAIN t /\ x # p
        /\ (spec.class = "InputOutput" => t[p].class = "InputOutput")
    BY DEF Creatable, Windows, OfType
  <1>3. IsNewborn(a, c, p) /\ a.class = spec.class
    BY <1>1, CreatedFacts
  <1>4. Parts(s, S, o, r.propertyBytes, r.drawableBytes, r.cursorBytes)
    BY InstallParts
  <1>5. u = [s EXCEPT !.table = T]
    <2>1. u = [s EXCEPT !.table[p].children = Append(s.table[p].children, x)]
      BY DEF CreateWindowIn, Created
    <2>2. s.table = S
      BY <1>4 DEF Parts
    <2> HIDE DEF s, S, u
    <2> QED
      BY <2>1, <2>2
  <1>6. S[p] = t[p] /\ S[x] = a /\ DOMAIN S = DOMAIN t \union {x}
        /\ \A y \in DOMAIN t : S[y] = t[y]
    BY <1>2 DEF With
  <1>7. Grows(t, T, p, x, a)
    <2> HIDE DEF S, a
    <2>1. T = [y \in DOMAIN S |-> T[y]]
      OBVIOUS
    <2>2. T[x] = a
      BY <1>2, <1>6
    <2>3. T[p] = [t[p] EXCEPT !.children = Append(t[p].children, x)]
      BY <1>2, <1>6
    <2>4. \A y \in DOMAIN t : y # p => T[y] = t[y]
      BY <1>2, <1>6
    <2> HIDE DEF T
    <2> QED
      BY <1>6, <2>1, <2>2, <2>3, <2>4 DEF Grows
  <1> HIDE DEF T, S, a, u, o, s, t, x, p
  <1>8. Growing(t, c, p, x, a, T)
    BY <1>1, <1>2, <1>3, <1>7 DEF Growing
  <1>9. /\ TypedTable(T) /\ Branching(T) /\ Pinned(T) /\ Derived(T)
        /\ Evolves(t, T, {x}, {c})
        /\ BytesOf(T, Windows(T)) = BytesOf(t, Windows(t))
        /\ OfType(T, "Cursor") = OfType(t, "Cursor") /\ PixmapBytes(T) = PixmapBytes(t)
        /\ \A y \in DOMAIN t : T[y].owner = t[y].owner
        /\ T[x].owner = c
    <2>1. StillWhole(t, T, x, c)
      BY <1>1, <1>8, GrowsKeeps
    <2> QED
      BY <2>1 DEF StillWhole
  <1>10. DOMAIN T = DOMAIN t \union {x}
    <2>1. Grown(t, p, x, T)
      BY <1>8, GrowsFacts
    <2> QED
      BY <2>1 DEF Grown
  <1>11. o \in OwnerLists
    <2> DEFINE v == [table |-> T, owned |-> o]
    <2>1. v.table = T /\ v.owned = o
      OBVIOUS
    <2> HIDE DEF v
    <2> QED
      BY <1>1, <1>2, <1>9, <1>10, <2>1, AppendedOwned DEF t, o
  <1>12. S \in Tables
    <2> DEFINE D == DOMAIN t \union {x}
    <2>1. S = [y \in D |-> S[y]]
      BY DEF S, With
    <2>2. a \in Resource
      BY <1>3 DEF IsNewborn, Resource
    <2>3. D \subseteq Places /\ \A y \in D : S[y] \in Resource
      BY <1>1, <1>2, <1>6, <2>2, TableFacts DEF Places
    <2> HIDE DEF D
    <2> QED
      BY <2>1, <2>3, TablesHave
  <1>13. /\ r.propertyBytes \in Nat /\ r.drawableBytes \in Nat /\ r.cursorBytes \in Nat
    BY PartsFacts
  <1>14. s \in ResourceTables
    BY <1>4, <1>11, <1>12, <1>13 DEF Parts
  <1>15. Parts(u, T, s.owned, s.propertyBytes, s.drawableBytes, s.cursorBytes)
    BY <1>5, <1>14, PartsChange
  <1>16. /\ u.table = T /\ u.owned = o /\ u.propertyBytes = r.propertyBytes
         /\ u.drawableBytes = r.drawableBytes /\ u.cursorBytes = r.cursorBytes
         /\ u \in ResourceTables
    <2>1. T \in Tables
      BY <1>9 DEF TypedTable
    <2> QED
      BY <1>4, <1>11, <1>13, <1>15, <2>1 DEF Parts
  <1>17. Typed(u)
    BY <1>9, <1>16 DEF Typed
  <1>18. Owned(u)
    BY <1>1, <1>2, <1>9, <1>10, <1>16, AppendedOwned DEF t, o
  <1>19. Totalled(u)
    <2>1. /\ r.drawableBytes = PixmapBytes(t) /\ r.cursorBytes = Cardinality(OfType(t, "Cursor"))
          /\ r.propertyBytes = BytesOf(t, Windows(t))
          /\ r.propertyBytes <= Limits.totalProperty
          /\ r.drawableBytes <= Limits.drawableBytes /\ r.cursorBytes <= Limits.cursorBytes
      BY <1>1, PartsFacts DEF t
    <2> QED
      BY <1>9, <1>16, <2>1 DEF Totalled
  <1> QED
    BY <1>9, <1>16, <1>17, <1>18, <1>19 DEF Becomes, Whole, Sound, u, t, x

-----------------------------------------------------------------------------
(* Resources go *)

\* What may go together: with a window what is below it, with a drawable the
\* damage objects and pictures on it.
Closing(t, gone) ==
    /\ gone \subseteq DOMAIN t \ {Root}
    /\ Dependents(t, gone) \subseteq gone
    /\ Cut(t, gone \intersect Windows(t))

\* The record b is a, but for children of gone, cursors and images.
Left(a, b, gone) ==
    /\ b \in Resource /\ b.type = a.type /\ b.owner = a.owner
    /\ a.type = "Window" =>
         /\ b.parent = a.parent /\ b.class = a.class
         /\ b.mapRequested = a.mapRequested /\ b.policyVisible = a.policyVisible
         /\ b.mapState = a.mapState /\ b.events = a.events
         /\ b.properties = a.properties
         /\ Range(b.children) = Range(a.children) \ gone
    /\ a.type \in {"Damage", "Picture"} => b.drawable = a.drawable
    /\ a.type = "Pixmap" => b.storage = a.storage

Shrunk(t, T, gone) ==
    /\ T = [y \in DOMAIN t \ gone |-> T[y]]
    /\ \A y \in DOMAIN t \ gone : Left(t[y], T[y], gone)

\* All that makes T whole, and how it differs from t.
Smaller(t, T, gone) ==
    /\ TypedTable(T) /\ Branching(T) /\ Pinned(T) /\ Derived(T)
    /\ DOMAIN T = DOMAIN t \ gone
    /\ \A cs : Evolves(t, T, {}, cs)
    /\ BytesOf(T, Windows(T)) = BytesOf(t, Windows(t) \ gone)
    /\ \A type : OfType(T, type) = OfType(t, type) \ gone
    /\ StoragesOf(T) \subseteq StoragesOf(t)
    /\ OfType(t, "Pixmap") \intersect gone = {} => PixmapBytes(T) = PixmapBytes(t)
    /\ \A y \in DOMAIN T : T[y].owner = t[y].owner

\* A table without what may go together is as whole as before.
LEMMA ShrunkIsSmaller ==
    ASSUME NEW t, TypedTable(t), Branching(t), Pinned(t), Derived(t), NEW gone,
           Closing(t, gone), NEW T, Shrunk(t, T, gone)
    PROVE  Smaller(t, T, gone)
  <1> DEFINE D == DOMAIN t \ gone
             W == Windows(t)
  <1>1. /\ t \in Tables /\ DOMAIN t \subseteq Places /\ \A y \in DOMAIN t : t[y] \in Resource
    BY TableFacts DEF TypedTable
  <1>2. DOMAIN T = D /\ T \in Tables
    <2>1. D \subseteq Places
      BY <1>1
    <2>2. (\A y \in D : T[y] \in Resource) /\ T = [y \in D |-> T[y]]
      BY DEF Shrunk, Left
    <2> HIDE DEF D
    <2> QED
      BY <2>1, <2>2, TablesHave
  <1>3. \A y \in D : T[y].type = t[y].type /\ T[y].owner = t[y].owner
    BY DEF Shrunk, Left
  <1>4. ASSUME NEW w \in W \ gone
        PROVE  /\ T[w].parent = t[w].parent /\ T[w].class = t[w].class
               /\ T[w].mapRequested = t[w].mapRequested
               /\ T[w].policyVisible = t[w].policyVisible
               /\ T[w].mapState = t[w].mapState /\ T[w].events = t[w].events
               /\ T[w].properties = t[w].properties
               /\ Range(T[w].children) = Range(t[w].children) \ gone
    BY DEF Shrunk, Left, Windows, OfType
  <1>5. \A type : OfType(T, type) = OfType(t, type) \ gone
    BY <1>2, <1>3 DEF OfType
  <1>6. Windows(T) = W \ gone
    BY <1>5 DEF Windows
  <1>7. /\ Root \notin gone /\ Root \in W /\ Rooted(t)
    BY DEF Closing, Branching, Rooted
  <1>8. Cut(t, gone \intersect W) /\ Windows(T) = W \ (gone \intersect W)
    BY <1>6 DEF Closing
  <1>9. Rooted(T) /\ \A w \in Windows(T) : Ancestors(T, w) = Ancestors(t, w)
    <2>1. \A w \in Windows(T) : T[w].parent = t[w].parent
      BY <1>4, <1>6
    <2> HIDE DEF W
    <2>2. Windows(T) = Windows(t) \ (gone \intersect W)
      BY <1>8 DEF W
    <2> QED
      BY <1>7, <1>8, <2>1, <2>2, CutTree
  <1>10. \A w \in W \ gone : w # Root => t[w].parent \in W \ gone
    BY <1>7, <1>8 DEF Cut, Rooted
  <1>11. TypedTable(T)
    <2>1. IsFiniteSet(DOMAIN T)
      <3>1. DOMAIN T \subseteq DOMAIN t /\ IsFiniteSet(DOMAIN t)
        BY <1>2 DEF TypedTable
      <3> QED
        BY <3>1, FS_Subset
    <2>2. RootStands(T)
      <3>1. Root \in D
        BY <1>7 DEF Windows, OfType
      <3> QED
        BY <1>2, <1>3, <1>4, <1>7, <3>1 DEF TypedTable, RootStands
    <2> QED
      BY <1>2, <2>1, <2>2 DEF TypedTable
  <1>12. Branching(T)
    <2>1. \A w \in W : Range(t[w].children) = {x \in W : x # Root /\ t[x].parent = w}
      BY DEF Branching
    <2>2. ASSUME NEW w \in Windows(T)
          PROVE  Range(T[w].children) = {x \in Windows(T) : x # Root /\ T[x].parent = w}
      <3>1. Range(T[w].children) = {x \in W : x # Root /\ t[x].parent = w} \ gone
        BY <1>4, <1>6, <2>1
      <3>2. \A x \in Windows(T) : T[x].parent = t[x].parent
        BY <1>4, <1>6
      <3> QED
        BY <1>6, <3>1, <3>2
    <2>3. ASSUME NEW w \in Windows(T) \ {Root}, T[w].class = "InputOutput"
          PROVE  T[T[w].parent].class = "InputOutput"
      <3>1. t[w].class = "InputOutput" /\ t[t[w].parent].class = "InputOutput"
        BY <1>4, <1>6, <2>3 DEF Branching
      <3>2. T[w].parent = t[w].parent /\ t[w].parent \in W \ gone
        BY <1>4, <1>6, <1>10
      <3> QED
        BY <1>4, <3>1, <3>2
    <2> QED
      BY <1>9, <2>2, <2>3 DEF Branching
  <1>13. Pinned(T)
    <2> SUFFICES ASSUME NEW x \in Hanging(T), T[x].drawable # None
                 PROVE  IsDrawable(T, T[x].drawable)
      BY DEF Pinned
    <2>1. x \in Hanging(t) /\ x \notin gone /\ x \in D
      BY <1>5 DEF Hanging, OfType
    <2>2. T[x].drawable = t[x].drawable
      BY <2>1 DEF Shrunk, Left, Hanging, OfType
    <2>3. IsDrawable(t, t[x].drawable)
      BY <2>1, <2>2 DEF Pinned
    <2>4. t[x].drawable \notin gone
      BY <2>1 DEF Closing, Dependents, Hanging
    <2> QED
      BY <1>2, <1>3, <2>2, <2>3, <2>4 DEF IsDrawable
  <1>14. Derived(T)
    <2>1. \A w \in W \ gone : Asks(T, w) <=> Asks(t, w)
      BY <1>4, <1>6 DEF Asks, IsPolicyCandidate
    <2>2. \A w \in Windows(T) : Ancestors(t, w) \subseteq Windows(T)
      BY <1>9, AncestorsDefinition
    <2>3. ASSUME NEW w \in Windows(T)  PROVE T[w].mapState = Expected(T, w)
      <3>1. T[w].mapState = t[w].mapState /\ t[w].mapState = Expected(t, w)
        BY <1>4, <1>6 DEF Derived
      <3>2. Expected(T, w) = Expected(t, w)
        BY <1>6, <1>9, <2>1, <2>2 DEF Expected, DerivedState
      <3> QED
        BY <3>1, <3>2
    <2> QED
      BY <2>3 DEF Derived
  <1>15. ASSUME NEW cs  PROVE Evolves(t, T, {}, cs)
    BY <1>2, <1>3, <1>4, <1>6 DEF Evolves
  <1>16. BytesOf(T, Windows(T)) = BytesOf(t, W \ gone)
    <2>1. \A w \in W \ gone : T[w].properties = t[w].properties
      BY <1>4
    <2> DEFINE V == W \ gone
    <2>2. V = Windows(T) /\ \A w \in V : T[w].properties = t[w].properties
      BY <1>6, <2>1
    <2> HIDE DEF V
    <2>3. BytesOf(T, V) = BytesOf(t, V)
      BY <2>2, PropertiesKeep
    <2> QED
      BY <2>2, <2>3 DEF V
  <1>17. \A y \in OfType(T, "Pixmap") : y \in OfType(t, "Pixmap") /\ T[y].storage = t[y].storage
    BY <1>5 DEF Shrunk, Left, OfType
  <1>18. StoragesOf(T) \subseteq StoragesOf(t)
    BY <1>17 DEF StoragesOf
  <1>19. ASSUME OfType(t, "Pixmap") \intersect gone = {}  PROVE PixmapBytes(T) = PixmapBytes(t)
    <2>1. OfType(T, "Pixmap") = OfType(t, "Pixmap")
      BY <1>5, <1>19
    <2>2. {T[x].storage : x \in OfType(T, "Pixmap")} = {t[x].storage : x \in OfType(t, "Pixmap")}
      BY <1>17, <2>1
    <2> QED
      BY <2>2 DEF PixmapBytes
  <1> QED
    BY <1>2, <1>3, <1>5, <1>11, <1>12, <1>13, <1>14, <1>15, <1>16, <1>18, <1>19 DEF Smaller

\* The lists of owners without those of gone.
Disowned(r, gone) ==
    [c \in Clients |-> Without(r.owned[c], {x \in gone : r.table[x].owner = c})]

\* The lists of the owners without what went are exact.
LEMMA DisownedFacts ==
    ASSUME NEW r, Whole(r), NEW gone, NEW u, u.owned = Disowned(r, gone),
           DOMAIN u.table = DOMAIN r.table \ gone,
           \A y \in DOMAIN u.table : u.table[y].owner = r.table[y].owner
    PROVE  Owned(u) /\ Disowned(r, gone) \in OwnerLists
  <1> DEFINE t == r.table
             T == u.table
             o == Disowned(r, gone)
             lost(c) == {x \in gone : r.table[x].owner = c}
  <1>1. \A c \in Clients : /\ r.owned[c] \in Seq(Xids) /\ Distinct(r.owned[c])
                           /\ Range(r.owned[c]) = {y \in DOMAIN t \ {Root} : t[y].owner = c}
    <2>1. Owned(r)
      BY WholeFacts DEF Sound
    <2> QED
      BY <2>1, PartsFacts DEF Owned
  <1>2. o = [c \in Clients |-> o[c]] /\ \A c \in Clients : o[c] = Without(r.owned[c], lost(c))
    BY DEF Disowned
  <1>3. ASSUME NEW c \in Clients
        PROVE  /\ o[c] \in Seq(Xids) /\ Distinct(o[c])
               /\ Range(o[c]) = {y \in DOMAIN T \ {Root} : T[y].owner = c}
    <2> DEFINE s == r.owned[c]
               g == lost(c)
    <2>1. s \in Seq(Xids) /\ Distinct(s) /\ o[c] = Without(s, g)
          /\ Range(s) = {y \in DOMAIN t \ {Root} : t[y].owner = c}
      BY <1>1, <1>2
    <2> HIDE DEF s, o
    <2>2. o[c] \in Seq(Xids) /\ Distinct(o[c]) /\ Range(o[c]) = Range(s) \ g
      <3> HIDE DEF g
      <3> QED
        BY <2>1, WithoutFacts
    <2>3. Range(s) \ g = {y \in DOMAIN T \ {Root} : T[y].owner = c}
      BY <2>1
    <2> QED
      BY <2>2, <2>3
  <1> HIDE DEF o
  <1>4. o \in OwnerLists
    BY <1>2, <1>3 DEF OwnerLists
  <1>5. u.owned = o
    BY DEF o
  <1> QED
    BY <1>3, <1>4, <1>5 DEF Owned, o

\* A table without what may go is whole when its totals are those of what is left.
LEMMA SmallerIsWhole ==
    ASSUME NEW r, Whole(r), NEW gone, Closing(r.table, gone),
           NEW T, Shrunk(r.table, T, gone), NEW p \in Nat, NEW m \in Nat, NEW n \in Nat,
           NEW u, Parts(u, T, Disowned(r, gone), p, m, n),
           p = BytesOf(r.table, Windows(r.table) \ gone), p <= Limits.totalProperty,
           m = PixmapBytes(T), m <= Limits.drawableBytes,
           n = Cardinality(OfType(r.table, "Cursor") \ gone), n <= Limits.cursorBytes
    PROVE  \A cs : Becomes(r, u, {}, cs)
  <1> DEFINE t == r.table
  <1>1. TypedTable(t) /\ Branching(t) /\ Pinned(t) /\ Derived(t)
    BY WholeFacts DEF Sound, TypedTable
  <1>2. Smaller(t, T, gone)
    BY <1>1, ShrunkIsSmaller
  <1>3. /\ TypedTable(T) /\ Branching(T) /\ Pinned(T) /\ Derived(T)
        /\ DOMAIN T = DOMAIN t \ gone
        /\ \A cs : Evolves(t, T, {}, cs)
        /\ BytesOf(T, Windows(T)) = BytesOf(t, Windows(t) \ gone)
        /\ OfType(T, "Cursor") = OfType(t, "Cursor") \ gone
        /\ \A y \in DOMAIN T : T[y].owner = t[y].owner
    BY <1>2 DEF Smaller
  <1>4. /\ u.table = T /\ u.owned = Disowned(r, gone)
        /\ u.propertyBytes = p /\ u.drawableBytes = m /\ u.cursorBytes = n
    BY DEF Parts
  <1>5. Owned(u) /\ Disowned(r, gone) \in OwnerLists
    BY <1>3, <1>4, DisownedFacts
  <1>6. T \in Tables
    BY <1>3 DEF TypedTable
  <1>7. u \in ResourceTables
    BY <1>5, <1>6 DEF Parts
  <1>8. Typed(u)
    BY <1>3, <1>4, <1>7 DEF Typed
  <1>9. Totalled(u)
    BY <1>3, <1>4 DEF Totalled
  <1>10. Whole(u)
    BY <1>3, <1>4, <1>5, <1>8, <1>9 DEF Whole, Sound
  <1> QED
    BY <1>3, <1>4, <1>10 DEF Becomes

\* Erase changes two of the five parts.
LEMMA EraseParts ==
    ASSUME NEW r, Whole(r), NEW gone
    PROVE  Parts(Erase(r, gone), Restrict(r.table, DOMAIN r.table \ gone), Disowned(r, gone),
                 r.propertyBytes, r.drawableBytes, r.cursorBytes)
  <1>1. r \in ResourceTables
    BY WholeFacts
  <1> DEFINE T == Restrict(r.table, DOMAIN r.table \ gone)
             o == Disowned(r, gone)
  <1>2. Erase(r, gone) = [r EXCEPT !.table = T, !.owned = o]
    BY DEF Erase, Disowned
  <1> HIDE DEF T, o
  <1>3. Parts(Erase(r, gone), T, o, r.propertyBytes, r.drawableBytes, r.cursorBytes)
    BY <1>1, <1>2, PartsChange
  <1> QED
    BY <1>3 DEF T, o

-----------------------------------------------------------------------------
(* A resource that is no window is freed *)

\* What hangs on a resource hangs on a drawable.
LEMMA DependentsFacts ==
    ASSUME NEW r, Whole(r), NEW x \in DOMAIN r.table
    PROVE  /\ Dependents(r.table, {x}) \subseteq Hanging(r.table)
           /\ Hanging(r.table) \subseteq DOMAIN r.table \ Windows(r.table)
           /\ r.table[x].type \notin {"Window", "Pixmap"} => Dependents(r.table, {x}) = {}
           /\ \A y \in Hanging(r.table) : r.table[y].drawable \notin Hanging(r.table)
  <1> DEFINE t == r.table
  <1>1. None \notin DOMAIN t
    BY WholeFacts, XidFacts DEF Places
  <1>2. Pinned(t)
    BY WholeFacts DEF Sound
  <1>3. Hanging(t) \subseteq DOMAIN t \ Windows(t)
    BY DEF Hanging, OfType, Windows
  <1>4. Dependents(t, {x}) \subseteq Hanging(t)
    BY DEF Dependents, Hanging
  <1>5. ASSUME NEW y \in Hanging(t)
        PROVE  t[y].drawable \in DOMAIN t => t[t[y].drawable].type \in {"Window", "Pixmap"}
    BY <1>1, <1>2 DEF Pinned, IsDrawable
  <1>6. \A y \in Hanging(t) : t[y].drawable \notin Hanging(t)
    BY <1>5 DEF Hanging, OfType
  <1>7. t[x].type \notin {"Window", "Pixmap"} => Dependents(t, {x}) = {}
    BY <1>4, <1>5 DEF Dependents
  <1> QED
    BY <1>3, <1>4, <1>6, <1>7

Loosening(t, x, gone) ==
    /\ Closing(t, gone) /\ gone \intersect Windows(t) = {}
    /\ t[x].type # "Cursor" => OfType(t, "Cursor") \intersect gone = {}
    /\ t[x].type # "Pixmap" => OfType(t, "Pixmap") \intersect gone = {} /\ gone = {x}

\* A resource that is no window may go with what depends on it.
LEMMA ClosingFacts ==
    ASSUME NEW r, Whole(r), NEW x \in DOMAIN r.table, r.table[x].type # "Window",
           NEW gone, gone = {x} \union Dependents(r.table, {x})
    PROVE  Loosening(r.table, x, gone)
  <1> DEFINE t == r.table
  <1>1. /\ Dependents(t, {x}) \subseteq Hanging(t)
        /\ Hanging(t) \subseteq DOMAIN t \ Windows(t)
        /\ (t[x].type \notin {"Window", "Pixmap"} => Dependents(t, {x}) = {})
        /\ \A y \in Hanging(t) : t[y].drawable \notin Hanging(t)
    BY DependentsFacts
  <1>2. Root \in Windows(t)
    BY WholeFacts
  <1>3. gone \intersect Windows(t) = {}
    BY <1>1 DEF Windows, OfType
  <1>4. gone \subseteq DOMAIN t \ {Root}
    BY <1>1, <1>2, <1>3
  <1>5. Dependents(t, gone) \subseteq gone
    <2> SUFFICES ASSUME NEW y \in Dependents(t, gone)  PROVE y \in gone
      OBVIOUS
    <2>1. y \in Hanging(t) /\ t[y].drawable \in gone
      BY DEF Dependents, Hanging
    <2>2. t[y].drawable = x
      BY <1>1, <2>1
    <2> QED
      BY <2>1, <2>2 DEF Dependents, Hanging
  <1>6. Cut(t, gone \intersect Windows(t))
    BY <1>3 DEF Cut
  <1>7. /\ t[x].type # "Cursor" => OfType(t, "Cursor") \intersect gone = {}
        /\ t[x].type # "Pixmap" => OfType(t, "Pixmap") \intersect gone = {}
    BY <1>1 DEF OfType, Hanging
  <1> QED
    BY <1>1, <1>3, <1>4, <1>5, <1>6, <1>7 DEF Closing, Loosening

\* Without windows, what is left stays what it is, but for the cursors it names.
LEMMA ErasedIsShrunk ==
    ASSUME NEW r, Whole(r), NEW gone, Closing(r.table, gone),
           gone \intersect Windows(r.table) = {}, NEW T,
           T = [y \in DOMAIN r.table \ gone |-> T[y]],
           \A y \in DOMAIN r.table \ gone :
              \/ T[y] = r.table[y]
              \/ r.table[y].type = "Window" /\ T[y] = [r.table[y] EXCEPT !.cursor = None]
    PROVE  Shrunk(r.table, T, gone)
  <1> DEFINE t == r.table
  <1>1. \A y \in DOMAIN t : t[y] \in Resource
    BY WholeFacts
  <1>3. Branching(t)
    BY WholeFacts
  <1>2. ASSUME NEW y \in DOMAIN t \ gone  PROVE Left(t[y], T[y], gone)
    <2>1. ASSUME t[y].type = "Window"
          PROVE  Range(t[y].children) = Range(t[y].children) \ gone /\ t[y] \in WindowRecord
      <3>1. y \in Windows(t)
        BY <2>1 DEF Windows, OfType
      <3>2. Range(t[y].children) \subseteq Windows(t)
        BY <3>1, <1>3 DEF Branching
      <3> QED
        BY <1>1, <2>1, <3>2, ResourceKinds
    <2>2. CASE T[y] = t[y]
      BY <1>1, <2>1, <2>2 DEF Left
    <2>3. CASE t[y].type = "Window" /\ T[y] = [t[y] EXCEPT !.cursor = None]
      <3> DEFINE b == [t[y] EXCEPT !.cursor = None]
      <3>1. /\ b \in WindowRecord /\ b.type = "Window" /\ b.owner = t[y].owner
            /\ b.parent = t[y].parent /\ b.class = t[y].class
            /\ b.mapRequested = t[y].mapRequested /\ b.policyVisible = t[y].policyVisible
            /\ b.mapState = t[y].mapState /\ b.events = t[y].events
            /\ b.properties = t[y].properties /\ b.children = t[y].children
        BY <2>1, <2>3 DEF WindowRecord
      <3>2. b \in Resource
        BY <3>1 DEF Resource
      <3>3. T[y] = b
        BY <2>3
      <3> HIDE DEF b
      <3> QED
        BY <2>1, <2>3, <3>1, <3>2, <3>3 DEF Left
    <2> QED
      BY <2>2, <2>3
  <1> QED
    BY <1>2 DEF Shrunk

\* What a function has when it is restricted.
LEMMA RestrictFacts ==
    ASSUME NEW f, NEW D
    PROVE  /\ Restrict(f, D) = [x \in D |-> Restrict(f, D)[x]]
           /\ DOMAIN Restrict(f, D) = D
           /\ \A x \in D : Restrict(f, D)[x] = f[x]
  BY DEF Restrict

\* What is gone counted no property bytes unless it was a window.
LEMMA SameBytes ==
    ASSUME NEW r, Whole(r), NEW gone, gone \intersect Windows(r.table) = {}
    PROVE  r.propertyBytes = BytesOf(r.table, Windows(r.table) \ gone)
  <1>1. Windows(r.table) \ gone = Windows(r.table)
    OBVIOUS
  <1> QED
    BY <1>1, PartsFacts

\* A resource on which nothing depends and that is in no total.
LEMMA PlainErased ==
    ASSUME NEW r, Whole(r), NEW x \in DOMAIN r.table,
           r.table[x].type \notin {"Window", "Pixmap", "Cursor"}
    PROVE  /\ \A cs : Becomes(r, Erase(r, {x}), {}, cs)
           /\ DOMAIN Erase(r, {x}).table = DOMAIN r.table \ {x}
  <1> DEFINE gone == {x} \union Dependents(r.table, {x})
             T == Restrict(r.table, DOMAIN r.table \ gone)
             p == r.propertyBytes
             m == r.drawableBytes
             n == r.cursorBytes
             u == Erase(r, gone)
  <1>1. /\ Closing(r.table, gone) /\ gone \intersect Windows(r.table) = {}
        /\ OfType(r.table, "Cursor") \intersect gone = {}
        /\ OfType(r.table, "Pixmap") \intersect gone = {} /\ gone = {x}
    <2>1. /\ r.table[x].type # "Window" /\ r.table[x].type # "Pixmap"
          /\ r.table[x].type # "Cursor" /\ gone = {x} \union Dependents(r.table, {x})
      OBVIOUS
    <2> HIDE DEF gone
    <2>2. Loosening(r.table, x, gone)
      BY <2>1, ClosingFacts
    <2> QED
      BY <2>1, <2>2 DEF Loosening
  <1> HIDE DEF gone
  <1>2. Parts(u, T, Disowned(r, gone), p, m, n)
    BY EraseParts
  <1>3. /\ T = [y \in DOMAIN r.table \ gone |-> T[y]]
        /\ \A y \in DOMAIN r.table \ gone : T[y] = r.table[y]
    BY RestrictFacts
  <1>4. p \in Nat /\ m \in Nat /\ n \in Nat /\ p <= Limits.totalProperty
        /\ m <= Limits.drawableBytes /\ n <= Limits.cursorBytes
        /\ m = PixmapBytes(r.table) /\ n = Cardinality(OfType(r.table, "Cursor"))
    BY PartsFacts
  <1>5. p = BytesOf(r.table, Windows(r.table) \ gone)
    BY <1>1, SameBytes
  <1> HIDE DEF T, p, m, n, u
  <1>6. Shrunk(r.table, T, gone)
    BY <1>1, <1>3, ErasedIsShrunk
  <1>7. PixmapBytes(T) = PixmapBytes(r.table)
    <2>1. Smaller(r.table, T, gone)
      BY <1>1, <1>6, ShrunkIsSmaller, WholeFacts DEF Sound, TypedTable
    <2> QED
      BY <1>1, <2>1 DEF Smaller
  <1>8. OfType(r.table, "Cursor") \ gone = OfType(r.table, "Cursor")
    BY <1>1
  <1>9. \A cs : Becomes(r, u, {}, cs)
    BY <1>1, <1>2, <1>4, <1>5, <1>6, <1>7, <1>8, SmallerIsWhole
  <1>10. DOMAIN u.table = DOMAIN r.table \ gone
    <2>1. u.table = T /\ DOMAIN T = DOMAIN r.table \ gone
      BY <1>2, RestrictFacts DEF Parts, T
    <2> QED
      BY <2>1
  <1> QED
    BY <1>1, <1>9, <1>10 DEF u

\* What a record of five parts is when a total changes with the table.
LEMMA PartsChangeTwice ==
    ASSUME NEW r \in ResourceTables, NEW T, NEW p, NEW n
    PROVE  /\ Parts([r EXCEPT !.cursorBytes = n, !.table = T], T, r.owned, r.propertyBytes,
                    r.drawableBytes, n)
           /\ Parts([r EXCEPT !.table = T, !.propertyBytes = p], T, r.owned, p,
                    r.drawableBytes, r.cursorBytes)
  BY DEF Parts, ResourceTables, OwnerLists

\* Erase makes a table of the right type.
LEMMA EraseTyped ==
    ASSUME NEW r, Whole(r), NEW gone
    PROVE  Erase(r, gone) \in ResourceTables
  <1> DEFINE D == DOMAIN r.table \ gone
             T == Restrict(r.table, D)
             o == Disowned(r, gone)
             v == [table |-> T, owned |-> o]
  <1>1. Parts(Erase(r, gone), T, o, r.propertyBytes, r.drawableBytes, r.cursorBytes)
    BY EraseParts
  <1>2. /\ T = [x \in D |-> T[x]] /\ DOMAIN T = D /\ \A x \in D : T[x] = r.table[x]
    BY RestrictFacts
  <1>3. D \subseteq Places /\ \A x \in D : r.table[x] \in Resource
    BY WholeFacts
  <1>4. v.table = T /\ v.owned = o
    OBVIOUS
  <1>5. r.propertyBytes \in Nat /\ r.drawableBytes \in Nat /\ r.cursorBytes \in Nat
    BY PartsFacts
  <1> HIDE DEF T, v
  <1>6. T \in Tables
    <2>1. \A x \in D : T[x] \in Resource
      BY <1>2, <1>3
    <2> HIDE DEF D
    <2> QED
      BY <1>2, <1>3, <2>1, TablesHave
  <1>7. o \in OwnerLists
    <2>1. DOMAIN v.table = DOMAIN r.table \ gone /\ v.owned = Disowned(r, gone)
          /\ \A y \in DOMAIN v.table : v.table[y].owner = r.table[y].owner
      BY <1>2, <1>4
    <2> QED
      BY <2>1, DisownedFacts
  <1> HIDE DEF o
  <1> QED
    BY <1>1, <1>5, <1>6, <1>7 DEF Parts

\* free_pixmap
LEMMA FreePixmapBecomes ==
    ASSUME NEW r, Whole(r), NEW x \in OfType(r.table, "Pixmap")
    PROVE  /\ \A cs : Becomes(r, FreePixmap(r, x), {}, cs)
           /\ x \notin DOMAIN FreePixmap(r, x).table
  <1> DEFINE t == r.table
             gone == {x} \union Dependents(r.table, {x})
             T == Restrict(r.table, DOMAIN r.table \ gone)
             p == r.propertyBytes
             m == PixmapBytes(T)
             n == r.cursorBytes
             e == Erase(r, gone)
             u == FreePixmap(r, x)
             o == Disowned(r, gone)
  <1>1. /\ Closing(r.table, gone) /\ gone \intersect Windows(r.table) = {}
        /\ OfType(r.table, "Cursor") \intersect gone = {} /\ x \in gone
    <2>1. /\ x \in DOMAIN r.table /\ r.table[x].type # "Window"
          /\ r.table[x].type # "Cursor" /\ gone = {x} \union Dependents(r.table, {x})
      BY DEF OfType
    <2> HIDE DEF gone
    <2>2. Loosening(r.table, x, gone)
      BY <2>1, ClosingFacts
    <2> QED
      BY <2>1, <2>2 DEF Loosening
  <1>2. u = [e EXCEPT !.drawableBytes = PixmapBytes(e.table)]
    BY DEF FreePixmap, Accounted
  <1> HIDE DEF gone
  <1>3. Parts(e, T, o, p, r.drawableBytes, n) /\ e \in ResourceTables
    BY EraseParts, EraseTyped
  <1>4. /\ T = [y \in DOMAIN r.table \ gone |-> T[y]] /\ DOMAIN T = DOMAIN r.table \ gone
        /\ \A y \in DOMAIN r.table \ gone : T[y] = r.table[y]
    BY RestrictFacts
  <1>5. p \in Nat /\ n \in Nat /\ p <= Limits.totalProperty /\ n <= Limits.cursorBytes
        /\ n = Cardinality(OfType(r.table, "Cursor"))
    BY PartsFacts
  <1>6. p = BytesOf(r.table, Windows(r.table) \ gone)
    BY <1>1, SameBytes
  <1> HIDE DEF T, p, n, u, o, e
  <1>7. Shrunk(r.table, T, gone)
    BY <1>1, <1>4, ErasedIsShrunk
  <1>8. Smaller(r.table, T, gone)
    <2>1. TypedTable(r.table) /\ Branching(r.table) /\ Pinned(r.table) /\ Derived(r.table)
      BY WholeFacts DEF Sound, TypedTable
    <2> QED
      BY <1>1, <1>7, <2>1, ShrunkIsSmaller
  <1>9. m \in Nat /\ m <= Limits.drawableBytes
    <2>1. T \in Tables /\ IsFiniteSet(DOMAIN T) /\ StoragesOf(T) \subseteq StoragesOf(t)
      BY <1>8 DEF Smaller, TypedTable
    <2>2. IsFiniteSet(StoragesOf(t)) /\ StoragesOf(t) \subseteq Storages
          /\ PixmapBytes(t) = BytesIn(StoragesOf(t))
      BY WholeFacts, StoragesOfFacts
    <2>3. m = BytesIn(StoragesOf(T))
      BY <2>1, StoragesOfFacts
    <2>4. BytesIn(StoragesOf(T)) \in Nat /\ BytesIn(StoragesOf(T)) <= BytesIn(StoragesOf(t))
          /\ BytesIn(StoragesOf(t)) \in Nat
      BY <2>1, <2>2, BytesInFacts
    <2>5. PixmapBytes(t) <= Limits.drawableBytes /\ Limits.drawableBytes \in Nat
      BY PartsFacts
    <2> HIDE DEF m
    <2> DEFINE a == PixmapBytes(t)
               l == Limits.drawableBytes
    <2>6. m \in Nat /\ m <= a /\ a <= l /\ a \in Nat /\ l \in Nat
      BY <2>2, <2>3, <2>4, <2>5
    <2> HIDE DEF a, l
    <2>7. m \in Nat /\ m <= l
      BY <2>6
    <2> QED
      BY <2>7 DEF l
  <1>10. Parts(u, T, o, p, m, n)
    <2>1. e.table = T /\ e.owned = o /\ e.propertyBytes = p /\ e.cursorBytes = n
      BY <1>3 DEF Parts
    <2> HIDE DEF m
    <2>2. u = [e EXCEPT !.drawableBytes = m]
      BY <1>2, <2>1 DEF m
    <2> QED
      BY <1>3, <2>1, <2>2, PartsChange
  <1>11. OfType(r.table, "Cursor") \ gone = OfType(r.table, "Cursor")
    BY <1>1
  <1>12. \A cs : Becomes(r, u, {}, cs)
    <2>1. m = PixmapBytes(T) /\ Parts(u, T, Disowned(r, gone), p, m, n)
      BY <1>10 DEF o
    <2> HIDE DEF m
    <2> QED
      BY <1>1, <1>5, <1>6, <1>7, <1>9, <1>11, <2>1, SmallerIsWhole
  <1>13. x \notin DOMAIN u.table
    BY <1>1, <1>4, <1>10 DEF Parts
  <1> QED
    BY <1>12, <1>13 DEF u

\* free_cursor
LEMMA FreeCursorBecomes ==
    ASSUME NEW r, Whole(r), NEW x \in OfType(r.table, "Cursor")
    PROVE  /\ \A cs : Becomes(r, FreeCursor(r, x), {}, cs)
           /\ x \notin DOMAIN FreeCursor(r, x).table
  <1> DEFINE t == r.table
             gone == {x}
             S == Restrict(r.table, DOMAIN r.table \ gone)
             p == r.propertyBytes
             m == r.drawableBytes
             n == r.cursorBytes - 1
             e == Erase(r, gone)
             u == FreeCursor(r, x)
             o == Disowned(r, gone)
             T == [y \in DOMAIN S |-> IF Names(S[y], x)
                                      THEN [S[y] EXCEPT !.cursor = None] ELSE S[y]]
  <1>1. /\ Closing(r.table, gone) /\ gone \intersect Windows(r.table) = {}
        /\ OfType(r.table, "Pixmap") \intersect gone = {} /\ x \in gone
    <2>1. /\ x \in DOMAIN r.table /\ r.table[x].type = "Cursor"
      BY DEF OfType
    <2> DEFINE g == {x} \union Dependents(r.table, {x})
    <2>2. Loosening(r.table, x, g)
      <3>1. r.table[x].type # "Window" /\ g = {x} \union Dependents(r.table, {x})
        BY <2>1
      <3> HIDE DEF g
      <3> QED
        BY <2>1, <3>1, ClosingFacts
    <2> HIDE DEF g
    <2> QED
      BY <2>1, <2>2 DEF Loosening
  <1>2. u = [e EXCEPT !.cursorBytes = e.cursorBytes - 1,
                      !.table = [y \in DOMAIN e.table |->
                                   IF Names(e.table[y], x)
                                   THEN [e.table[y] EXCEPT !.cursor = None] ELSE e.table[y]]]
    BY DEF FreeCursor
  <1> HIDE DEF gone
  <1>3. Parts(e, S, o, p, m, r.cursorBytes) /\ e \in ResourceTables
    BY EraseParts, EraseTyped
  <1>4. /\ DOMAIN S = DOMAIN r.table \ gone
        /\ \A y \in DOMAIN r.table \ gone : S[y] = r.table[y]
    BY RestrictFacts
  <1>5. p \in Nat /\ m \in Nat /\ p <= Limits.totalProperty /\ m <= Limits.drawableBytes
        /\ m = PixmapBytes(r.table)
    BY PartsFacts
  <1>6. p = BytesOf(r.table, Windows(r.table) \ gone)
    BY <1>1, SameBytes
  <1>7. n \in Nat /\ n <= Limits.cursorBytes /\ n = Cardinality(OfType(r.table, "Cursor") \ gone)
    <2>1. /\ r.cursorBytes = Cardinality(OfType(r.table, "Cursor")) /\ r.cursorBytes \in Nat
          /\ r.cursorBytes <= Limits.cursorBytes /\ Limits.cursorBytes \in Nat
      BY PartsFacts
    <2>2. IsFiniteSet(OfType(r.table, "Cursor"))
      BY WholeFacts, WindowsAreFinite
    <2>3. /\ Cardinality(OfType(r.table, "Cursor") \ {x}) = Cardinality(OfType(r.table, "Cursor")) - 1
          /\ Cardinality(OfType(r.table, "Cursor") \ {x}) \in Nat
      BY <2>2, FS_RemoveElement, FS_CardinalityType
    <2> DEFINE a == Cardinality(OfType(r.table, "Cursor") \ gone)
               b == r.cursorBytes
               l == Limits.cursorBytes
    <2>4. a = b - 1 /\ a \in Nat /\ b \in Nat /\ l \in Nat /\ b <= l /\ n = b - 1
      BY <2>1, <2>3 DEF gone
    <2> HIDE DEF a, b, l, n
    <2>5. n \in Nat /\ n <= l /\ n = a
      BY <2>4
    <2> QED
      BY <2>5 DEF a, l
  <1>8. /\ T = [y \in DOMAIN r.table \ gone |-> T[y]] /\ DOMAIN T = DOMAIN r.table \ gone
        /\ \A y \in DOMAIN r.table \ gone :
              \/ T[y] = r.table[y]
              \/ r.table[y].type = "Window" /\ T[y] = [r.table[y] EXCEPT !.cursor = None]
    <2> HIDE DEF S
    <2>1. DOMAIN T = DOMAIN r.table \ gone /\ T = [y \in DOMAIN T |-> T[y]]
      BY <1>4
    <2>2. ASSUME NEW y \in DOMAIN r.table \ gone
          PROVE  \/ T[y] = r.table[y]
                 \/ r.table[y].type = "Window" /\ T[y] = [r.table[y] EXCEPT !.cursor = None]
      BY <1>4, <2>2 DEF Names
    <2> HIDE DEF T
    <2> QED
      BY <2>1, <2>2
  <1>9. Parts(u, T, o, p, m, n)
    <2>1. e.table = S /\ e.owned = o /\ e.propertyBytes = p /\ e.cursorBytes = r.cursorBytes
          /\ e.drawableBytes = m
      BY <1>3 DEF Parts
    <2> HIDE DEF S, e, u
    <2>2. u = [e EXCEPT !.cursorBytes = n, !.table = T]
      BY <1>2, <2>1
    <2> HIDE DEF T, n
    <2>3. Parts(u, T, e.owned, e.propertyBytes, e.drawableBytes, n)
      BY <1>3, <2>2, PartsChangeTwice
    <2> QED
      BY <2>1, <2>3
  <1> HIDE DEF T, S, p, n, u, o, e, m
  <1>10. Shrunk(r.table, T, gone)
    BY <1>1, <1>8, ErasedIsShrunk
  <1>11. PixmapBytes(T) = m
    <2>1. TypedTable(r.table) /\ Branching(r.table) /\ Pinned(r.table) /\ Derived(r.table)
      BY WholeFacts DEF Sound, TypedTable
    <2>2. Smaller(r.table, T, gone)
      BY <1>1, <1>10, <2>1, ShrunkIsSmaller
    <2> QED
      BY <1>1, <1>5, <2>2 DEF Smaller
  <1>12. \A cs : Becomes(r, u, {}, cs)
    BY <1>1, <1>5, <1>6, <1>7, <1>9, <1>10, <1>11, SmallerIsWhole DEF o
  <1>13. x \notin DOMAIN u.table
    BY <1>1, <1>8, <1>9 DEF Parts
  <1> QED
    BY <1>12, <1>13 DEF u

\* FreePixmap, FreeCursor and the seven requests that only erase.
LEMMA FreeResourceBecomes ==
    ASSUME NEW r, Whole(r), NEW x \in DOMAIN r.table, r.table[x].type # "Window"
    PROVE  /\ \A cs : Becomes(r, FreeResource(r, x), {}, cs)
           /\ x \notin DOMAIN FreeResource(r, x).table
  <1> DEFINE type == r.table[x].type
  <1>1. type \in {"Pixmap", "GraphicsContext", "Font", "Cursor", "Colormap", "ShmSegment",
                  "Region", "Damage", "Picture"}
    <2>1. r.table[x] \in Resource
      BY WholeFacts
    <2> QED
      BY <2>1, ResourceKinds DEF PlainTypes
  <1>2. CASE type = "Pixmap"
    <2>1. FreeResource(r, x) = FreePixmap(r, x) /\ x \in OfType(r.table, "Pixmap")
      BY <1>2 DEF FreeResource, OfType
    <2> QED
      BY <2>1, FreePixmapBecomes
  <1>3. CASE type = "Cursor"
    <2>1. FreeResource(r, x) = FreeCursor(r, x) /\ x \in OfType(r.table, "Cursor")
      BY <1>3 DEF FreeResource, OfType
    <2> QED
      BY <2>1, FreeCursorBecomes
  <1>4. CASE type \notin {"Pixmap", "Cursor"}
    <2>1. FreeResource(r, x) = Erase(r, {x})
      BY <1>1, <1>4 DEF FreeResource, FreeGC, CloseFont, FreeColormap, DetachShmSegment,
                        DestroyRegion, DestroyDamage, FreePicture
    <2>2. r.table[x].type \notin {"Window", "Pixmap", "Cursor"}
      BY <1>4
    <2>3. /\ \A cs : Becomes(r, Erase(r, {x}), {}, cs)
          /\ DOMAIN Erase(r, {x}).table = DOMAIN r.table \ {x}
      BY <2>2, PlainErased
    <2>4. x \notin DOMAIN Erase(r, {x}).table
      BY <2>3
    <2> QED
      BY <2>1, <2>3, <2>4
  <1> QED
    BY <1>2, <1>3, <1>4

-----------------------------------------------------------------------------
(* Windows are destroyed *)

\* The record of a window, or another, when the windows of gone go.
Orphaned(a, gone) ==
    IF a.type # "Window" THEN a ELSE [a EXCEPT !.children = Without(a.children, gone)]

\* What goes with the windows of a cut.
LEMMA CutIsClosing ==
    ASSUME NEW r, Whole(r), NEW gone, Cut(r.table, gone),
           NEW all, all = gone \union Dependents(r.table, gone)
    PROVE  /\ Closing(r.table, all) /\ all \intersect Windows(r.table) = gone
           /\ OfType(r.table, "Cursor") \intersect all = {}
           /\ OfType(r.table, "Pixmap") \intersect all = {}
  <1> DEFINE t == r.table
             D == Dependents(t, gone)
  <1>1. gone \subseteq Windows(t) \ {Root}
    BY DEF Cut
  <1>2. /\ Windows(t) \subseteq DOMAIN t /\ Hanging(t) \subseteq DOMAIN t \ Windows(t)
        /\ D \subseteq Hanging(t)
    BY DEF Hanging, OfType, Windows, Dependents
  <1>3. Root \in Windows(t)
    BY WholeFacts
  <1>4. all \intersect Windows(t) = gone /\ all \subseteq DOMAIN t \ {Root}
    BY <1>1, <1>2, <1>3
  <1>5. Dependents(t, all) \subseteq all
    <2> SUFFICES ASSUME NEW y \in Dependents(t, all)  PROVE y \in all
      OBVIOUS
    <2>1. y \in Hanging(t) /\ t[y].drawable \in all
      BY DEF Dependents, Hanging
    <2>2. \A z \in Hanging(t) : t[z].drawable \notin Hanging(t)
      BY DependentsFacts, <1>3, <1>2
    <2>3. t[y].drawable \in gone
      BY <1>2, <2>1, <2>2
    <2> QED
      BY <2>1, <2>3 DEF Dependents, Hanging
  <1>6. Cut(t, all \intersect Windows(t))
    BY <1>4
  <1>7. OfType(t, "Cursor") \intersect all = {} /\ OfType(t, "Pixmap") \intersect all = {}
    BY <1>1, <1>2 DEF OfType, Windows, Hanging
  <1> QED
    BY <1>4, <1>5, <1>6, <1>7 DEF Closing

\* A record that loses children is otherwise what it was.
LEMMA OrphanedIsLeft ==
    ASSUME NEW r, Whole(r), NEW gone, NEW all, all \intersect Windows(r.table) = gone,
           NEW y \in DOMAIN r.table
    PROVE  Left(r.table[y], Orphaned(r.table[y], gone), all)
  <1> DEFINE a == r.table[y]
             q == Without(a.children, gone)
             b == [a EXCEPT !.children = q]
  <1>1. a \in Resource /\ Branching(r.table) /\ r.table \in Tables
    BY WholeFacts
  <1>2. CASE a.type # "Window"
    BY <1>1, <1>2 DEF Left, Orphaned
  <1>3. CASE a.type = "Window"
    <2>1. a \in WindowRecord /\ y \in Windows(r.table)
      BY <1>1, <1>3, ResourceKinds DEF Windows, OfType
    <2>2. Range(a.children) \subseteq Windows(r.table)
      BY <1>1, <2>1 DEF Branching
    <2>3. a.children \in Seq(Xids)
      BY <2>1 DEF WindowRecord
    <2>4. q \in Seq(Xids) /\ Range(q) = Range(a.children) \ gone
      <3> DEFINE s == a.children
      <3>1. s \in Seq(Xids)
        BY <2>3
      <3> HIDE DEF s
      <3>2. Without(s, gone) \in Seq(Xids) /\ Range(Without(s, gone)) = Range(s) \ gone
        BY <3>1, WithoutFacts
      <3> QED
        BY <3>2 DEF s
    <2>5. Range(q) = Range(a.children) \ all
      BY <2>2, <2>4
    <2>6. Orphaned(a, gone) = b
      BY <1>3 DEF Orphaned
    <2> HIDE DEF q
    <2>7. /\ b \in WindowRecord /\ b.type = "Window" /\ b.owner = a.owner
          /\ b.parent = a.parent /\ b.class = a.class
          /\ b.mapRequested = a.mapRequested /\ b.policyVisible = a.policyVisible
          /\ b.mapState = a.mapState /\ b.events = a.events
          /\ b.properties = a.properties /\ b.children = q
      BY <2>1, <2>4 DEF WindowRecord
    <2>8. b \in Resource
      BY <2>7 DEF Resource
    <2> HIDE DEF b
    <2> QED
      BY <1>3, <2>5, <2>6, <2>7, <2>8 DEF Left
  <1> QED
    BY <1>2, <1>3

\* destroy_leaf of all of a cut.
LEMMA DestroyWindowsBecomes ==
    ASSUME NEW r, Whole(r), NEW gone, Cut(r.table, gone)
    PROVE  /\ \A cs : Becomes(r, DestroyWindows(r, gone), {}, cs)
           /\ Windows(DestroyWindows(r, gone).table) = Windows(r.table) \ gone
  <1> DEFINE t == r.table
             all == gone \union Dependents(t, gone)
             S == Restrict(t, DOMAIN t \ all)
             p == r.propertyBytes - BytesOf(t, gone)
             m == r.drawableBytes
             n == r.cursorBytes
             e == Erase(r, all)
             u == DestroyWindows(r, gone)
             o == Disowned(r, all)
             T == [y \in DOMAIN S |-> Orphaned(S[y], gone)]
  <1>1. /\ Closing(t, all) /\ all \intersect Windows(t) = gone
        /\ OfType(t, "Cursor") \intersect all = {} /\ OfType(t, "Pixmap") \intersect all = {}
    <2>1. all = gone \union Dependents(t, gone)
      OBVIOUS
    <2> HIDE DEF all
    <2> QED
      BY <2>1, CutIsClosing
  <1>2. u = [e EXCEPT !.table = [y \in DOMAIN e.table |-> Orphaned(e.table[y], gone)],
                      !.propertyBytes = e.propertyBytes - BytesOf(t, gone)]
    BY DEF DestroyWindows, Orphaned
  <1> HIDE DEF all
  <1>3. Parts(e, S, o, r.propertyBytes, m, n) /\ e \in ResourceTables
    BY EraseParts, EraseTyped
  <1>4. /\ DOMAIN S = DOMAIN t \ all /\ \A y \in DOMAIN t \ all : S[y] = t[y]
    BY RestrictFacts
  <1>5. m \in Nat /\ n \in Nat /\ n <= Limits.cursorBytes /\ m <= Limits.drawableBytes
        /\ m = PixmapBytes(t) /\ n = Cardinality(OfType(t, "Cursor"))
    BY PartsFacts
  <1>6. p \in Nat /\ p <= Limits.totalProperty /\ p = BytesOf(t, Windows(t) \ all)
    <2> DEFINE W == Windows(t)
    <2>1. W \ all = W \ gone /\ gone \subseteq W /\ W \subseteq Windows(t)
      BY <1>1
    <2>2. t \in Tables /\ IsFiniteSet(DOMAIN t)
      BY WholeFacts
    <2>3. /\ r.propertyBytes = BytesOf(t, W) /\ r.propertyBytes <= Limits.totalProperty
          /\ Limits.totalProperty \in Nat
      BY PartsFacts
    <2> HIDE DEF W, t
    <2>4. /\ BytesOf(t, W) = BytesOf(t, gone) + BytesOf(t, W \ gone)
          /\ BytesOf(t, gone) \in Nat /\ BytesOf(t, W \ gone) \in Nat
      BY <2>1, <2>2, BytesSplit
    <2> DEFINE a == BytesOf(t, W)
               b == BytesOf(t, gone)
               d == BytesOf(t, W \ gone)
               l == Limits.totalProperty
    <2>5. a = b + d /\ b \in Nat /\ d \in Nat /\ a <= l /\ l \in Nat /\ p = a - b
      BY <2>3, <2>4 DEF t
    <2> HIDE DEF a, b, d, l, p
    <2>6. p \in Nat /\ p <= l /\ p = d
      BY <2>5
    <2> QED
      BY <2>1, <2>6 DEF l, d, W, t
  <1>7. Shrunk(t, T, all)
    <2> HIDE DEF S
    <2>1. DOMAIN T = DOMAIN t \ all /\ T = [y \in DOMAIN T |-> T[y]]
      BY <1>4
    <2>2. \A y \in DOMAIN t \ all : T[y] = Orphaned(t[y], gone)
      BY <1>4
    <2> HIDE DEF T
    <2>3. \A y \in DOMAIN t \ all : Left(t[y], T[y], all)
      <3>1. \A y \in DOMAIN t : Left(t[y], Orphaned(t[y], gone), all)
        BY <1>1, OrphanedIsLeft
      <3> QED
        BY <2>2, <3>1
    <2> QED
      BY <2>1, <2>3 DEF Shrunk
  <1>8. Parts(u, T, o, p, m, n)
    <2>1. e.table = S /\ e.owned = o /\ e.propertyBytes = r.propertyBytes /\ e.cursorBytes = n
          /\ e.drawableBytes = m
      BY <1>3 DEF Parts
    <2> HIDE DEF S, e, u
    <2>2. u = [e EXCEPT !.table = T, !.propertyBytes = p]
      BY <1>2, <2>1
    <2> HIDE DEF T, p
    <2>3. Parts(u, T, e.owned, p, e.drawableBytes, e.cursorBytes)
      BY <1>3, <2>2, PartsChangeTwice
    <2> QED
      BY <2>1, <2>3
  <1> HIDE DEF T, S, p, n, u, o, e, m
  <1>9. Smaller(t, T, all)
    <2>1. TypedTable(t) /\ Branching(t) /\ Pinned(t) /\ Derived(t)
      BY WholeFacts DEF Sound, TypedTable
    <2> QED
      BY <1>1, <1>7, <2>1, ShrunkIsSmaller
  <1>10. PixmapBytes(T) = m /\ OfType(t, "Cursor") \ all = OfType(t, "Cursor")
    BY <1>1, <1>5, <1>9 DEF Smaller
  <1>11. \A cs : Becomes(r, u, {}, cs)
    BY <1>1, <1>5, <1>6, <1>7, <1>8, <1>10, SmallerIsWhole DEF o
  <1>12. Windows(u.table) = Windows(t) \ gone
    <2>1. Windows(T) = Windows(t) \ all
      BY <1>9 DEF Smaller, Windows
    <2> QED
      BY <1>1, <1>8, <2>1 DEF Parts
  <1> QED
    BY <1>11, <1>12 DEF u

-----------------------------------------------------------------------------
(* What a client leaves is cleaned up *)

\* The recursive definition of Freed has a solution, so that it is one.
LEMMA FreedDefinition ==
    ASSUME NEW r, NEW list \in Seq(Xids)
    PROVE  /\ Freed(r, list)[0] = r
           /\ \A n \in 1..Len(list) :
                Freed(r, list)[n] = FreeLeft(Freed(r, list)[n - 1], list[n])
  <1> DEFINE Solves(f, n) ==
               f = [i \in 0..n |-> IF i = 0 THEN r ELSE FreeLeft(f[i - 1], list[i])]
             S == {n \in Nat : \E f : Solves(f, n)}
  <1>1. 0 \in S
    <2> DEFINE f == [i \in 0..0 |-> r]
    <2>1. Solves(f, 0)
      OBVIOUS
    <2> QED
      BY <2>1
  <1>2. ASSUME NEW n \in Nat, n \in S  PROVE n + 1 \in S
    <2>1. PICK f : Solves(f, n)
      BY <1>2
    <2> DEFINE last == FreeLeft(f[n], list[n + 1])
               g == [i \in 0..n + 1 |-> IF i = n + 1 THEN last ELSE f[i]]
               h == [i \in 0..n + 1 |-> IF i = 0 THEN r ELSE FreeLeft(g[i - 1], list[i])]
    <2>2. ASSUME NEW i \in 0..n + 1  PROVE g[i] = h[i]
      <3>1. CASE i = n + 1
        <4>1. g[i] = last /\ g[i - 1] = f[n] /\ i # 0
          BY <3>1
        <4> QED
          BY <4>1, <3>1
      <3>2. CASE i \in 0..n /\ i = 0
        BY <2>1, <3>2
      <3>3. CASE i \in 0..n /\ i # 0
        <4>1. g[i] = f[i] /\ g[i - 1] = f[i - 1]
          BY <3>3
        <4>2. f[i] = FreeLeft(f[i - 1], list[i])
          BY <2>1, <3>3
        <4> QED
          BY <3>3, <4>1, <4>2
      <3> QED
        BY <3>1, <3>2, <3>3
    <2>3. Solves(g, n + 1)
      <3>1. g = h
        BY <2>2
      <3> QED
        BY <3>1
    <2>4. n + 1 \in Nat
      OBVIOUS
    <2> HIDE DEF g, Solves
    <2> QED
      BY <2>3, <2>4
  <1>3. Len(list) \in S
    <2> HIDE DEF S
    <2>1. Len(list) \in Nat
      BY LenProperties
    <2> QED
      BY <1>1, <1>2, <2>1, SetInduction
  <1>4. Solves(Freed(r, list), Len(list))
    <2>1. \E f : Solves(f, Len(list))
      BY <1>3
    <2> QED
      BY <2>1, Zenon DEF Freed
  <1> DEFINE k == Freed(r, list)
             N == Len(list)
  <1>5. N \in Nat
    BY LenProperties
  <1>6. Solves(k, N)
    BY <1>4
  <1> HIDE DEF k, N
  <1>7. k[0] = r
    BY <1>5, <1>6
  <1>8. ASSUME NEW n \in 1..N  PROVE k[n] = FreeLeft(k[n - 1], list[n])
    <2>1. n \in 0..N /\ n # 0
      BY <1>5
    <2> QED
      BY <1>6, <2>1
  <1> QED
    BY <1>7, <1>8 DEF k, N

\* u is r without some resources, among them those of gone.
Spared(r, u, gone) ==
    /\ \A cs : Becomes(r, u, {}, cs)
    /\ gone \intersect DOMAIN u.table = {}

\* Freeing one more resource leaves a whole table without it.
LEMMA FreeLeftSpares ==
    ASSUME NEW r, NEW u, NEW gone, Spared(r, u, gone), NEW x,
           x \in DOMAIN r.table => r.table[x].type # "Window"
    PROVE  Spared(r, FreeLeft(u, x), gone \union {x})
  <1> DEFINE v == FreeLeft(u, x)
  <1>1. /\ \A cs : Whole(u) /\ Evolves(r.table, u.table, {}, cs)
        /\ gone \intersect DOMAIN u.table = {}
    BY DEF Spared, Becomes
  <1>2. /\ Whole(u) /\ DOMAIN u.table \subseteq DOMAIN r.table
        /\ \A y \in DOMAIN u.table : u.table[y].type = r.table[y].type
    BY <1>1 DEF Evolves
  <1>3. CASE x \notin DOMAIN u.table
    <2>1. v = u
      BY <1>3 DEF FreeLeft
    <2> HIDE DEF v
    <2>2. Spared(r, v, gone \union {x})
      BY <1>1, <1>3, <2>1 DEF Spared, Becomes
    <2> QED
      BY <2>2 DEF v
  <1>4. CASE x \in DOMAIN u.table
    <2>1. v = FreeResource(u, x) /\ u.table[x].type # "Window"
      BY <1>2, <1>4 DEF FreeLeft
    <2>2. /\ \A cs : Becomes(u, FreeResource(u, x), {}, cs)
          /\ x \notin DOMAIN FreeResource(u, x).table
      BY <1>2, <1>4, <2>1, FreeResourceBecomes
    <2> HIDE DEF v
    <2>3. \A cs : Whole(v) /\ Evolves(u.table, v.table, {}, cs)
      BY <2>1, <2>2 DEF Becomes
    <2>4. \A cs : Evolves(r.table, v.table, {}, cs)
      BY <1>1, <2>3, EvolvesTwice
    <2>5. DOMAIN v.table \subseteq DOMAIN u.table
      BY <2>3 DEF Evolves
    <2>6. Spared(r, v, gone \union {x})
      BY <1>1, <2>1, <2>2, <2>3, <2>4, <2>5 DEF Spared, Becomes
    <2> QED
      BY <2>6 DEF v
  <1> QED
    BY <1>3, <1>4

\* All of a list that are no windows are freed.
LEMMA FreedFacts ==
    ASSUME NEW r, Whole(r), NEW list \in Seq(Xids),
           \A x \in Range(list) \intersect DOMAIN r.table : r.table[x].type # "Window"
    PROVE  Spared(r, Freed(r, list)[Len(list)], Range(list))
  <1> DEFINE k == Freed(r, list)
             N == Len(list)
             upto(n) == {list[i] : i \in 1..n}
             S == {n \in Nat : n <= N => Spared(r, k[n], upto(n))}
  <1>1. /\ k[0] = r /\ \A n \in 1..Len(list) : k[n] = FreeLeft(k[n - 1], list[n])
    BY FreedDefinition
  <1>2. N \in Nat /\ DOMAIN list = 1..N
    BY LenProperties
  <1> HIDE DEF k
  <1>3. 0 \in S
    <2>1. upto(0) = {}
      OBVIOUS
    <2>2. \A cs : Becomes(r, r, {}, cs)
      BY NothingHarmless, HarmlessBecomes
    <2>3. Spared(r, r, {})
      BY <2>2 DEF Spared
    <2> QED
      BY <1>1, <2>1, <2>3
  <1>4. ASSUME NEW n \in Nat, n \in S  PROVE n + 1 \in S
    <2> SUFFICES ASSUME n + 1 <= N  PROVE Spared(r, k[n + 1], upto(n + 1))
      OBVIOUS
    <2>1. Spared(r, k[n], upto(n)) /\ n + 1 \in 1..N
      BY <1>2, <1>4
    <2>2. k[n + 1] = FreeLeft(k[n], list[n + 1])
      BY <1>1, <2>1
    <2>3. list[n + 1] \in Range(list)
      BY <1>2, <2>1 DEF Range
    <2>4. upto(n + 1) = upto(n) \union {list[n + 1]}
      <3>1. 1..n + 1 = 1..n \union {n + 1}
        OBVIOUS
      <3> QED
        BY <3>1
    <2> DEFINE x == list[n + 1]
               g == upto(n)
               v == k[n]
    <2>5. x \in DOMAIN r.table => r.table[x].type # "Window"
      BY <2>3
    <2>6. Spared(r, v, g)
      BY <2>1
    <2> HIDE DEF x, g, v
    <2>7. Spared(r, FreeLeft(v, x), g \union {x})
      BY <2>5, <2>6, FreeLeftSpares
    <2> QED
      BY <2>2, <2>4, <2>7 DEF x, g, v
  <1>5. N \in S
    <2> HIDE DEF S, N
    <2> QED
      BY <1>2, <1>3, <1>4, SetInduction
  <1>6. upto(N) = Range(list)
    BY <1>2 DEF Range
  <1>7. Spared(r, k[N], upto(N))
    BY <1>2, <1>5
  <1> QED
    BY <1>6, <1>7 DEF k

\* commit_client_cleanup leaves a whole table, and nothing of the client if its
\* windows are all in the trees of the roots.
LEMMA CommitCleanupBecomes ==
    ASSUME NEW r, Whole(r), NEW c \in Clients, NEW roots, Root \notin roots,
           \A w \in Windows(r.table) : r.table[w].owner = c => w \in Trees(r.table, roots)
    PROVE  /\ \A cs : Becomes(r, CommitCleanup(r, c, roots), {}, cs)
           /\ \A x \in DOMAIN CommitCleanup(r, c, roots).table :
                CommitCleanup(r, c, roots).table[x].owner # c
  <1> DEFINE t == r.table
             gone == Trees(t, roots)
             bare == DestroyWindows(r, gone)
             list == bare.owned[c]
             u == Freed(bare, list)[Len(list)]
  <1>1. Cut(t, gone)
    BY TreesAreCut, WholeFacts
  <1>2. u = CommitCleanup(r, c, roots)
    BY DEF CommitCleanup
  <1> HIDE DEF gone
  <1>3. /\ \A cs : Becomes(r, bare, {}, cs)
        /\ Windows(bare.table) = Windows(t) \ gone
    BY <1>1, DestroyWindowsBecomes
  <1> HIDE DEF bare
  <1>4. Whole(bare) /\ \A cs : Evolves(t, bare.table, {}, cs)
    BY <1>3 DEF Becomes
  <1>5. list \in Seq(Xids)
        /\ Range(list) = {x \in DOMAIN bare.table \ {Root} : bare.table[x].owner = c}
    <2>1. Owned(bare)
      BY <1>4, WholeFacts DEF Sound
    <2> QED
      BY <1>4, <2>1, PartsFacts DEF Owned
  <1>6. \A x \in Range(list) \intersect DOMAIN bare.table : bare.table[x].type # "Window"
    <2> SUFFICES ASSUME NEW x \in DOMAIN bare.table, bare.table[x].owner = c,
                        bare.table[x].type = "Window"
                 PROVE  FALSE
      BY <1>5
    <2>1. x \in Windows(bare.table)
      BY DEF Windows, OfType
    <2>2. t[x].owner = c
      BY <1>4 DEF Evolves
    <2>3. x \in gone
      BY <1>3, <2>1, <2>2 DEF gone
    <2> QED
      BY <1>3, <2>1, <2>3
  <1> HIDE DEF list
  <1>7. Spared(bare, u, Range(list))
    BY <1>4, <1>5, <1>6, FreedFacts
  <1> HIDE DEF u
  <1>8. \A cs : Whole(u) /\ Evolves(bare.table, u.table, {}, cs)
    BY <1>7 DEF Spared, Becomes
  <1>9. \A cs : Evolves(t, u.table, {}, cs)
    BY <1>4, <1>8, EvolvesTwice
  <1>10. ASSUME NEW x \in DOMAIN u.table, u.table[x].owner = c  PROVE FALSE
    <2>1. x \in DOMAIN bare.table /\ bare.table[x].owner = c
      BY <1>8, <1>10 DEF Evolves
    <2>2. x # Root
      <3>1. RootStands(bare.table)
        BY <1>4, WholeFacts
      <3> QED
        BY <2>1, <3>1, XidFacts DEF RootStands
    <2>3. x \in Range(list)
      BY <1>5, <2>1, <2>2
    <2> QED
      BY <1>7, <1>10, <2>3 DEF Spared
  <1>11. \A cs : Becomes(r, u, {}, cs)
    BY <1>8, <1>9 DEF Becomes
  <1> QED
    BY <1>2, <1>10, <1>11

-----------------------------------------------------------------------------
(* Windows are mapped *)

\* No window is above itself.
LEMMA Acyclic ==
    ASSUME NEW t, Rooted(t), NEW w \in Windows(t)
    PROVE  w \notin Ancestors(t, w)
  <1> DEFINE S == {x \in Windows(t) : x \notin Ancestors(t, x)}
  <1>1. Root \in S
    BY AncestorsStep DEF Rooted
  <1>2. ASSUME NEW x \in Windows(t) \ {Root}, t[x].parent \in S  PROVE x \in S
    <2> DEFINE p == t[x].parent
    <2>1. Ancestors(t, x) = {p} \cup Ancestors(t, p)
      BY AncestorsStep
    <2>2. p \notin Ancestors(t, p)
      BY <1>2
    <2>3. ASSUME x \in Ancestors(t, p)  PROVE FALSE
      <3>1. Ancestors(t, x) \subseteq Ancestors(t, p)
        BY <2>3, AncestorsTransitive
      <3> QED
        BY <2>1, <2>2, <3>1
    <2>4. x # p
      BY <2>1, <2>2
    <2> QED
      BY <2>1, <2>3, <2>4
  <1> HIDE DEF S
  <1>3. Windows(t) \subseteq S
    BY <1>1, <1>2, TreeInduction
  <1> QED
    BY <1>3 DEF S

\* The parent of x is not below x.
LEMMA ParentIsOutside ==
    ASSUME NEW t, Rooted(t), NEW x \in Windows(t) \ {Root}
    PROVE  t[x].parent \in Windows(t) \ Subtree(t, x)
  <1>1. t[x].parent \in Windows(t) /\ Ancestors(t, x) = {t[x].parent} \cup Ancestors(t, t[x].parent)
    BY AncestorsStep DEF Rooted
  <1>2. x \notin Ancestors(t, x)
    BY Acyclic
  <1>3. x \notin Ancestors(t, t[x].parent) /\ x # t[x].parent
    BY <1>1, <1>2
  <1> QED
    BY <1>1, <1>3 DEF Subtree

\* The record of a window with another map state.
Mapped(a, s) == [a EXCEPT !.mapState = s]

\* What b is with the map states below x as they must be.
Remapped(t, x) == [y \in DOMAIN t |-> IF y \in Subtree(t, x) THEN Mapped(t[y], Expected(t, y))
                                      ELSE t[y]]

\* Another map state is a touch.
LEMMA MappedTouches ==
    ASSUME NEW a \in WindowRecord, NEW s \in MapStatesOfWindows, NEW cs
    PROVE  /\ Touched(a, Mapped(a, s), cs) /\ Mapped(a, s).mapState = s
           /\ Mapped(a, s).mapRequested = a.mapRequested
           /\ Mapped(a, s).policyVisible = a.policyVisible
  <1> DEFINE b == [a EXCEPT !.mapState = s]
  <1>1. b \in WindowRecord /\ b.owner = a.owner /\ b.parent = a.parent /\ b.class = a.class
        /\ b.children = a.children /\ b.properties = a.properties /\ b.events = a.events
        /\ b.type = "Window" /\ b.mapState = s /\ b.mapRequested = a.mapRequested
        /\ b.policyVisible = a.policyVisible /\ a.type = "Window"
    BY DEF WindowRecord
  <1>2. b \in Resource
    BY <1>1 DEF Resource
  <1>3. Mapped(a, s) = b
    BY DEF Mapped
  <1> HIDE DEF b
  <1> QED
    BY <1>1, <1>2, <1>3 DEF Touched

\* What is expected of a window is a map state.
LEMMA ExpectedTyped ==
    ASSUME NEW t, NEW w
    PROVE  Expected(t, w) \in MapStatesOfWindows
  BY DEF Expected, DerivedState, MapStatesOfWindows

\* Recomputing below x makes the map states what they must be, when those
\* elsewhere are.
LEMMA RemappedIsDerived ==
    ASSUME NEW t \in Tables, Rooted(t), NEW x \in Windows(t),
           \A w \in Windows(t) \ Subtree(t, x) : t[w].mapState = Expected(t, w)
    PROVE  /\ RecomputeMapStates(t, x) = Remapped(t, x)
           /\ \A cs : AllTouched(t, Remapped(t, x), cs)
           /\ Derived(Remapped(t, x))
  <1> DEFINE T == Remapped(t, x)
             B == Subtree(t, x)
  <1>1. x # Root => t[t[x].parent].mapState = Expected(t, t[x].parent)
    BY ParentIsOutside
  <1>2. RecomputeMapStates(t, x) = T
    <2>1. RecomputeMapStates(t, x) =
             [y \in DOMAIN t |-> IF y \in Subtree(t, x)
                                 THEN [t[y] EXCEPT !.mapState = Expected(t, y)] ELSE t[y]]
      BY <1>1, RecomputeFacts
    <2> QED
      BY <2>1 DEF Remapped, Mapped
  <1>3. /\ DOMAIN T = DOMAIN t /\ T = [y \in DOMAIN t |-> T[y]]
        /\ \A y \in DOMAIN t : T[y] = IF y \in B THEN Mapped(t[y], Expected(t, y)) ELSE t[y]
    BY DEF Remapped
  <1>4. B \subseteq Windows(t)
    BY SubtreeFacts
  <1> HIDE DEF T, B
  <1>5. ASSUME NEW w \in Windows(t)
        PROVE  /\ T[w].mapState = Expected(t, w)
               /\ T[w].mapRequested = t[w].mapRequested
               /\ T[w].policyVisible = t[w].policyVisible
               /\ w \in DOMAIN t
    <2>1. t[w] \in WindowRecord /\ w \in DOMAIN t
      BY WindowsAre
    <2>2. CASE w \in B
      <3>1. T[w] = Mapped(t[w], Expected(t, w))
        BY <1>3, <2>1, <2>2
      <3> QED
        BY <2>1, <3>1, MappedTouches, ExpectedTyped
    <2>3. CASE w \notin B
      BY <1>3, <2>1, <2>3 DEF B
    <2> QED
      BY <2>2, <2>3
  <1>6. ASSUME NEW cs  PROVE AllTouched(t, T, cs)
    <2>1. ASSUME NEW y \in DOMAIN t  PROVE Touched(t[y], T[y], cs)
      <3>1. t[y] \in Resource
        BY TableFacts
      <3>2. CASE y \in B
        <4>1. t[y] \in WindowRecord
          BY <1>4, <3>2, WindowsAre
        <4>2. T[y] = Mapped(t[y], Expected(t, y))
          BY <1>3, <3>2
        <4> QED
          BY <4>1, <4>2, MappedTouches, ExpectedTyped
      <3>3. CASE y \notin B
        BY <1>3, <3>1, <3>3, TouchedItself
      <3> QED
        BY <3>2, <3>3
    <2> QED
      BY <1>3, <2>1 DEF AllTouched
  <1>7. Derived(T)
    <2>1. SameShape(t, T)
      BY <1>6, TouchedShape
    <2>2. /\ Windows(T) = Windows(t)
          /\ \A y : IsPolicyCandidate(T, y) <=> IsPolicyCandidate(t, y)
      BY <2>1, ShapeFacts
    <2>3. \A w \in Windows(t) : Ancestors(T, w) = Ancestors(t, w)
      BY <2>1, ShapeTree
    <2>4. \A w \in Windows(t) : Ancestors(t, w) \subseteq Windows(t)
      BY AncestorsDefinition
    <2>5. \A w \in Windows(t) : Asks(T, w) <=> Asks(t, w)
      BY <1>5, <2>2 DEF Asks
    <2>6. \A w \in Windows(t) : Expected(T, w) = Expected(t, w)
      BY <2>3, <2>4, <2>5 DEF Expected, DerivedState
    <2> QED
      BY <1>5, <2>2, <2>6 DEF Derived
  <1> QED
    BY <1>2, <1>6, <1>7 DEF T

\* So it makes a sound table whole.
LEMMA RecomputedIsWhole ==
    ASSUME NEW r, Sound(r), NEW x \in Windows(r.table),
           \A w \in Windows(r.table) \ Subtree(r.table, x) :
              r.table[w].mapState = Expected(r.table, w),
           NEW u, u = Retabled(r, RecomputeMapStates(r.table, x))
    PROVE  \A cs : Harmless(r, u, cs)
  <1> DEFINE T == Remapped(r.table, x)
  <1>1. r.table \in Tables /\ Rooted(r.table)
    BY DEF Sound, Typed, TypedTable, Branching
  <1>2. /\ RecomputeMapStates(r.table, x) = T
        /\ \A cs : AllTouched(r.table, T, cs)
        /\ Derived(T)
    BY <1>1, RemappedIsDerived
  <1> HIDE DEF T
  <1>3. u = Retabled(r, T)
    BY <1>2
  <1>4. ASSUME NEW cs  PROVE Harmless(r, u, cs)
    <2>1. /\ Sound(u) /\ u.table = T
          /\ SameShape(r.table, T) /\ SameProperties(r.table, T)
          /\ Evolves(r.table, T, {}, cs)
          /\ u.owned = r.owned /\ u.drawableBytes = r.drawableBytes
      BY <1>2, <1>3, TouchedSound
    <2> QED
      BY <1>2, <2>1 DEF Harmless, Whole
  <1> QED
    BY <1>4

\* What is written into a window's own record leaves what is expected of the
\* windows that are not below it.
LEMMA ExpectedElsewhere ==
    ASSUME NEW t, NEW u, SameShape(t, u), Rooted(t), NEW x \in Windows(t),
           \A w \in Windows(t) \ {x} : /\ u[w].mapRequested = t[w].mapRequested
                                       /\ u[w].policyVisible = t[w].policyVisible
    PROVE  \A w \in Windows(u) \ Subtree(u, x) : Expected(u, w) = Expected(t, w)
  <1>1. /\ Windows(u) = Windows(t)
        /\ \A y : IsPolicyCandidate(u, y) <=> IsPolicyCandidate(t, y)
    BY ShapeFacts
  <1>2. /\ \A w \in Windows(t) : Ancestors(u, w) = Ancestors(t, w)
        /\ Subtree(u, x) = Subtree(t, x)
    BY ShapeTree
  <1>3. \A w \in Windows(t) \ {x} : Asks(u, w) <=> Asks(t, w)
    BY <1>1 DEF Asks
  <1>4. \A w \in Windows(t) : Ancestors(t, w) \subseteq Windows(t)
    BY AncestorsDefinition
  <1>5. ASSUME NEW w \in Windows(t) \ Subtree(t, x)  PROVE Expected(u, w) = Expected(t, w)
    <2>1. w # x /\ x \notin Ancestors(t, w)
      BY DEF Subtree
    <2> QED
      BY <1>2, <1>3, <1>4, <2>1 DEF Expected, DerivedState
  <1> QED
    BY <1>1, <1>2, <1>5

\* The record of a window that asks to be mapped, or no longer does.
Asking(a, m) == [a EXCEPT !.mapRequested = m]

\* So is asking to be mapped.
LEMMA AskingTouches ==
    ASSUME NEW a \in WindowRecord, NEW m \in BOOLEAN, NEW cs
    PROVE  Touched(a, Asking(a, m), cs) /\ Asking(a, m).mapState = a.mapState
  <1> DEFINE b == [a EXCEPT !.mapRequested = m]
  <1>1. b \in WindowRecord /\ b.owner = a.owner /\ b.parent = a.parent /\ b.class = a.class
        /\ b.children = a.children /\ b.properties = a.properties /\ b.events = a.events
        /\ b.type = "Window" /\ b.mapState = a.mapState /\ a.type = "Window"
    BY DEF WindowRecord
  <1>2. b \in Resource
    BY <1>1 DEF Resource
  <1>3. Asking(a, m) = b
    BY DEF Asking
  <1> HIDE DEF b
  <1> QED
    BY <1>1, <1>2, <1>3 DEF Touched

\* Whether a window asks to be mapped changes, and the map states follow.
MapIntent(r, w, m) == Rewritten(r, w, Asking(r.table[w], m))

\* A window that asks to be mapped leaves all sound but the map states.
LEMMA MapIntentSound ==
    ASSUME NEW r, Sound(r), NEW w \in Windows(r.table), NEW m \in BOOLEAN, NEW cs
    PROVE  LET s == MapIntent(r, w, m)
           IN  /\ Sound(s) /\ SameShape(r.table, s.table) /\ SameProperties(r.table, s.table)
               /\ Evolves(r.table, s.table, {}, cs)
               /\ s.owned = r.owned /\ s.drawableBytes = r.drawableBytes
               /\ \A x \in Windows(r.table) \ {w} : s.table[x] = r.table[x]
  <1> DEFINE t == r.table
             T == [t EXCEPT ![w] = Asking(t[w], m)]
  <1>1. t \in Tables /\ \A y \in DOMAIN t : t[y] \in Resource
    BY TableFacts DEF Sound, Typed, TypedTable
  <1>2. w \in DOMAIN t /\ t[w] \in WindowRecord
    BY <1>1, WindowsAre
  <1>3. t = [y \in DOMAIN t |-> t[y]]
    BY <1>1, TableFacts
  <1>4. T = [y \in DOMAIN t |-> T[y]]
    BY <1>3
  <1>5. T[w] = Asking(t[w], m) /\ \A y \in DOMAIN t : y # w => T[y] = t[y]
    BY <1>2, <1>3
  <1>6. MapIntent(r, w, m) = Retabled(r, T)
    BY DEF MapIntent, Rewritten
  <1> HIDE DEF T
  <1>7. \A y \in DOMAIN t : Touched(t[y], T[y], cs)
    BY <1>1, <1>2, <1>5, TouchedItself, AskingTouches
  <1>8. AllTouched(t, T, cs)
    BY <1>4, <1>7 DEF AllTouched
  <1> DEFINE s == MapIntent(r, w, m)
  <1>9. s = Retabled(r, T)
    BY <1>6
  <1> HIDE DEF s, t
  <1>10. /\ Sound(s) /\ s.table = T
         /\ SameShape(r.table, T) /\ SameProperties(r.table, T)
         /\ Evolves(r.table, T, {}, cs)
         /\ s.owned = r.owned /\ s.drawableBytes = r.drawableBytes
    BY <1>8, <1>9, TouchedSound DEF t
  <1>11. \A x \in Windows(r.table) \ {w} : s.table[x] = r.table[x]
    BY <1>5, <1>10 DEF t, Windows, OfType
  <1> QED
    BY <1>10, <1>11 DEF s

\* A step that keeps the shape, then a harmless one.
LEMMA SoundThenHarmless ==
    ASSUME NEW r, NEW s, NEW u, NEW cs,
           SameShape(r.table, s.table), SameProperties(r.table, s.table),
           Evolves(r.table, s.table, {}, cs),
           s.owned = r.owned, s.drawableBytes = r.drawableBytes,
           Harmless(s, u, cs)
    PROVE  Harmless(r, u, cs)
  <1>1. SameShape(r.table, u.table)
    BY ShapeTwice DEF Harmless
  <1>2. Evolves(r.table, u.table, {}, cs)
    BY EvolvesTwice DEF Harmless
  <1>3. Windows(s.table) = Windows(r.table)
    BY ShapeFacts
  <1> QED
    BY <1>1, <1>2, <1>3 DEF Harmless, SameProperties

\* set_local_map_intent, without the damage.
MappedAnew(r, w, m) ==
    Retabled(MapIntent(r, w, m), RecomputeMapStates(MapIntent(r, w, m).table, w))

\* With the map states recomputed below it, it is harmless.
LEMMA MappedAnewHarmless ==
    ASSUME NEW r, Whole(r), NEW w \in Windows(r.table), NEW m \in BOOLEAN, NEW cs
    PROVE  Harmless(r, MappedAnew(r, w, m), cs)
  <1> DEFINE s == MapIntent(r, w, m)
  <1>0. Sound(r)
    BY DEF Whole
  <1>1. /\ Sound(s) /\ SameShape(r.table, s.table) /\ SameProperties(r.table, s.table)
        /\ Evolves(r.table, s.table, {}, cs)
        /\ s.owned = r.owned /\ s.drawableBytes = r.drawableBytes
        /\ \A x \in Windows(r.table) \ {w} : s.table[x] = r.table[x]
    BY <1>0, MapIntentSound
  <1> HIDE DEF s
  <1>2. \A x \in Windows(s.table) \ Subtree(s.table, w) :
           Expected(s.table, x) = Expected(r.table, x)
    BY <1>1, WholeFacts, ExpectedElsewhere
  <1>3. Windows(s.table) = Windows(r.table)
    BY <1>1, ShapeFacts
  <1>4. w \in Subtree(s.table, w)
    BY <1>3 DEF Subtree
  <1>5. \A x \in Windows(s.table) \ Subtree(s.table, w) :
           s.table[x].mapState = Expected(s.table, x)
    <2>1. \A x \in Windows(r.table) : r.table[x].mapState = Expected(r.table, x)
      BY WholeFacts DEF Derived
    <2> QED
      BY <1>1, <1>2, <1>3, <1>4, <2>1
  <1>6. Harmless(s, Retabled(s, RecomputeMapStates(s.table, w)), cs)
    BY <1>1, <1>3, <1>5, RecomputedIsWhole
  <1>7. Harmless(r, Retabled(s, RecomputeMapStates(s.table, w)), cs)
    BY <1>1, <1>6, SoundThenHarmless
  <1> QED
    BY <1>7 DEF s, MappedAnew

\* Mapping or unmapping a window is harmless (set_local_map_intent).
LEMMA LocalMapHarmless ==
    ASSUME NEW r, Whole(r), NEW w \in Windows(r.table), NEW m \in BOOLEAN, NEW cs
    PROVE  Harmless(r, LocalMap(r, w, m), cs)
  <1> DEFINE s == MappedAnew(r, w, m)
  <1>1. [r EXCEPT !.table = RecomputeMapStates([@ EXCEPT ![w].mapRequested = m], w)] = s
    <2>1. r = [table |-> r.table, owned |-> r.owned, propertyBytes |-> r.propertyBytes,
               drawableBytes |-> r.drawableBytes, cursorBytes |-> r.cursorBytes]
      BY WholeFacts DEF ResourceTables
    <2> DEFINE T == [r.table EXCEPT ![w].mapRequested = m]
    <2>2. MapIntent(r, w, m) = [r EXCEPT !.table = T]
      BY DEF MapIntent, Rewritten, Retabled, Asking
    <2> HIDE DEF T
    <2>3. MapIntent(r, w, m).table = T
      BY <2>1, <2>2
    <2>4. s = [r EXCEPT !.table = RecomputeMapStates(T, w)]
      BY <2>1, <2>2, <2>3 DEF MappedAnew, Retabled
    <2> QED
      BY <2>4 DEF T
  <1>2. LocalMap(r, w, m) \in {s, AddDamage(s, w, Cells), AddDamage(s, s.table[w].parent, Cells)}
    <2> HIDE DEF s
    <2> QED
      BY <1>1 DEF LocalMap
  <1>3. Harmless(r, s, cs)
    BY MappedAnewHarmless
  <1> HIDE DEF s
  <1>4. Whole(s)
    BY <1>3 DEF Harmless
  <1>5. \A d : Harmless(s, AddDamage(s, d, Cells), cs)
    BY <1>4, AddDamageHarmless
  <1>6. \A d : Harmless(r, AddDamage(s, d, Cells), cs)
    BY <1>3, <1>5, HarmlessTwice
  <1> QED
    BY <1>2, <1>3, <1>6

\* The recursive definition of LocalMaps has a solution, so that it is one.
LEMMA LocalMapsDefinition ==
    ASSUME NEW r, NEW list \in Seq(Xids), NEW m
    PROVE  /\ LocalMaps(r, list, m)[0] = r
           /\ \A n \in 1..Len(list) :
                LocalMaps(r, list, m)[n] = LocalMap(LocalMaps(r, list, m)[n - 1], list[n], m)
  <1> DEFINE Solves(f, n) ==
               f = [i \in 0..n |-> IF i = 0 THEN r ELSE LocalMap(f[i - 1], list[i], m)]
             S == {n \in Nat : \E f : Solves(f, n)}
  <1>1. 0 \in S
    <2> DEFINE f == [i \in 0..0 |-> r]
    <2>1. Solves(f, 0)
      OBVIOUS
    <2> QED
      BY <2>1
  <1>2. ASSUME NEW n \in Nat, n \in S  PROVE n + 1 \in S
    <2>1. PICK f : Solves(f, n)
      BY <1>2
    <2> DEFINE last == LocalMap(f[n], list[n + 1], m)
               g == [i \in 0..n + 1 |-> IF i = n + 1 THEN last ELSE f[i]]
               h == [i \in 0..n + 1 |-> IF i = 0 THEN r ELSE LocalMap(g[i - 1], list[i], m)]
    <2>2. ASSUME NEW i \in 0..n + 1  PROVE g[i] = h[i]
      <3>1. CASE i = n + 1
        <4>1. g[i] = last /\ g[i - 1] = f[n] /\ i # 0
          BY <3>1
        <4> QED
          BY <4>1, <3>1
      <3>2. CASE i \in 0..n /\ i = 0
        BY <2>1, <3>2
      <3>3. CASE i \in 0..n /\ i # 0
        <4>1. g[i] = f[i] /\ g[i - 1] = f[i - 1]
          BY <3>3
        <4>2. f[i] = LocalMap(f[i - 1], list[i], m)
          BY <2>1, <3>3
        <4> QED
          BY <3>3, <4>1, <4>2
      <3> QED
        BY <3>1, <3>2, <3>3
    <2>3. Solves(g, n + 1)
      <3>1. g = h
        BY <2>2
      <3> QED
        BY <3>1
    <2>4. n + 1 \in Nat
      OBVIOUS
    <2> HIDE DEF g, Solves
    <2> QED
      BY <2>3, <2>4
  <1>3. Len(list) \in S
    <2> HIDE DEF S
    <2>1. Len(list) \in Nat
      BY LenProperties
    <2> QED
      BY <1>1, <1>2, <2>1, SetInduction
  <1>4. Solves(LocalMaps(r, list, m), Len(list))
    <2>1. \E f : Solves(f, Len(list))
      BY <1>3
    <2> QED
      BY <2>1, Zenon DEF LocalMaps
  <1> DEFINE k == LocalMaps(r, list, m)
             N == Len(list)
  <1>5. N \in Nat
    BY LenProperties
  <1>6. Solves(k, N)
    BY <1>4
  <1> HIDE DEF k, N
  <1>7. k[0] = r
    BY <1>5, <1>6
  <1>8. ASSUME NEW n \in 1..N  PROVE k[n] = LocalMap(k[n - 1], list[n], m)
    <2>1. n \in 0..N /\ n # 0
      BY <1>5
    <2> QED
      BY <1>6, <2>1
  <1> QED
    BY <1>7, <1>8 DEF k, N

\* So is mapping several, one after the other.
LEMMA LocalMapsHarmless ==
    ASSUME NEW r, Whole(r), NEW list \in Seq(Xids), NEW m \in BOOLEAN, NEW cs,
           Range(list) \subseteq Windows(r.table)
    PROVE  Harmless(r, LocalMaps(r, list, m)[Len(list)], cs)
  <1> DEFINE f == LocalMaps(r, list, m)
             N == Len(list)
             S == {n \in Nat : n <= N => Harmless(r, f[n], cs)}
  <1>0. N \in Nat
    BY LenProperties
  <1>1. f[0] = r /\ \A n \in 1..N : f[n] = LocalMap(f[n - 1], list[n], m)
    BY LocalMapsDefinition
  <1>2. \A n \in 1..N : list[n] \in Windows(r.table)
    BY <1>0 DEF Range
  <1> HIDE DEF f, N
  <1>3. 0 \in S
    BY <1>1, NothingHarmless
  <1>4. ASSUME NEW n \in Nat, n \in S  PROVE n + 1 \in S
    <2> SUFFICES ASSUME n + 1 <= N  PROVE Harmless(r, f[n + 1], cs)
      OBVIOUS
    <2>1. Harmless(r, f[n], cs)
      BY <1>0, <1>4
    <2>2. n + 1 \in 1..N /\ (n + 1) - 1 = n
      BY <1>0
    <2>3. f[n + 1] = LocalMap(f[n], list[n + 1], m)
      BY <1>1, <2>2
    <2> DEFINE s == f[n]
               w == list[n + 1]
    <2>4. Harmless(r, s, cs) /\ f[n + 1] = LocalMap(s, w, m)
      BY <2>1, <2>3
    <2>5. w \in Windows(r.table)
      BY <1>2, <2>2
    <2> HIDE DEF s, w
    <2>6. Whole(s) /\ w \in Windows(s.table)
      BY <2>4, <2>5, ShapeFacts DEF Harmless
    <2>7. Harmless(s, LocalMap(s, w, m), cs)
      BY <2>6, LocalMapHarmless
    <2> QED
      BY <2>4, <2>7, HarmlessTwice
  <1>5. N \in S
    <2> HIDE DEF S
    <2> QED
      BY <1>0, <1>3, <1>4, SetInduction
  <1> QED
    BY <1>0, <1>5 DEF f, N

\* The subwindows of a window are windows.
LEMMA ChildrenAre ==
    ASSUME NEW r, Whole(r), NEW w \in Windows(r.table)
    PROVE  /\ r.table[w].children \in Seq(Xids)
           /\ Range(r.table[w].children)
                = {x \in Windows(r.table) : x # Root /\ r.table[x].parent = w}
  <1>1. r.table \in Tables /\ Branching(r.table)
    BY WholeFacts
  <1>2. r.table[w] \in WindowRecord
    BY <1>1, WindowsAre
  <1>3. r.table[w].children \in Seq(Xids)
    BY <1>2 DEF WindowRecord
  <1>4. \A v \in Windows(r.table) :
          Range(r.table[v].children) = {x \in Windows(r.table) : x # Root /\ r.table[x].parent = v}
    BY <1>1 DEF Branching
  <1> QED
    BY <1>3, <1>4

\* So is mapping the subwindows of a window (MapSubwindows).
LEMMA MapSubwindowsHarmless ==
    ASSUME NEW r, Whole(r), NEW w \in Windows(r.table), NEW m \in BOOLEAN, NEW cs
    PROVE  LET children == r.table[w].children
           IN  Harmless(r, LocalMaps(r, children, m)[Len(children)], cs)
  <1>1. r.table[w].children \in Seq(Xids) /\ Range(r.table[w].children) \subseteq Windows(r.table)
    BY ChildrenAre
  <1> QED
    BY <1>1, LocalMapsHarmless

-----------------------------------------------------------------------------
(* The window manager's answer is applied *)

\* An answer is a sequence of top-level windows.
LEMMA AnswersAre ==
    ASSUME NEW r, Sound(r), NEW order \in Answers(r)
    PROVE  /\ order \in Seq(Xids)
           /\ \A x \in Range(order) : IsPolicyCandidate(r.table, x)
  <1>1. PICK shown \in SUBSET {x \in Windows(r.table) : /\ IsPolicyCandidate(r.table, x)
                                                        /\ r.table[x].mapRequested} :
           order \in SetToSeqs(shown)
    BY DEF Answers
  <1>2. order \in [1..Cardinality(shown) -> shown]
    BY <1>1 DEF SetToSeqs
  <1>3. IsFiniteSet(shown)
    <2>1. IsFiniteSet(Windows(r.table))
      BY WindowsAreFinite DEF Sound, Typed, TypedTable
    <2> QED
      BY <2>1, FS_Subset
  <1>4. Cardinality(shown) \in Nat
    BY <1>3, FS_CardinalityType
  <1>5. order \in Seq(shown) /\ Range(order) \subseteq shown
    BY <1>2, <1>4 DEF Range
  <1>6. shown \subseteq Xids
    <2>1. Windows(r.table) \subseteq Places
      BY TableFacts DEF Sound, Typed, TypedTable, Windows, OfType
    <2>2. ~IsPolicyCandidate(r.table, Root)
      BY XidFacts DEF IsPolicyCandidate, Sound, Typed, TypedTable, RootStands
    <2> QED
      BY <2>1, <2>2 DEF Places
  <1>7. order \in Seq(Xids)
    BY <1>2, <1>4, <1>6
  <1> QED
    BY <1>5, <1>7

\* The record of a top-level window that is shown, or is not.
Showing(a, v) == [a EXCEPT !.policyVisible = v]

\* Showing a window is a touch.
LEMMA ShowingTouches ==
    ASSUME NEW a \in WindowRecord, NEW v \in BOOLEAN, NEW cs
    PROVE  Touched(a, Showing(a, v), cs)
  <1> DEFINE b == [a EXCEPT !.policyVisible = v]
  <1>1. b \in WindowRecord /\ b.owner = a.owner /\ b.parent = a.parent /\ b.class = a.class
        /\ b.children = a.children /\ b.properties = a.properties /\ b.events = a.events
        /\ b.type = "Window" /\ a.type = "Window"
    BY DEF WindowRecord
  <1>2. b \in Resource
    BY <1>1 DEF Resource
  <1>3. Showing(a, v) = b
    BY DEF Showing
  <1> HIDE DEF b
  <1> QED
    BY <1>1, <1>2, <1>3 DEF Touched

\* The table with the shown windows on top, before the map states follow.
Raised(t, shown, q) ==
    [x \in DOMAIN t |-> IF x = Root THEN [t[x] EXCEPT !.children = q]
                        ELSE IF IsPolicyCandidate(t, x) THEN Showing(t[x], x \in shown)
                        ELSE t[x]]

\* So is putting the shown windows on top.
LEMMA RaisedTouches ==
    ASSUME NEW r, Sound(r), NEW shown, NEW q \in Seq(Xids),
           Range(q) = Range(r.table[Root].children), NEW cs
    PROVE  AllTouched(r.table, Raised(r.table, shown, q), cs)
  <1> DEFINE t == r.table
             T == Raised(t, shown, q)
  <1>1. t \in Tables /\ RootStands(t)
    BY DEF Sound, Typed, TypedTable
  <1>2. Root \in Windows(t)
    BY <1>1 DEF RootStands, Windows, OfType
  <1>3. /\ T = [x \in DOMAIN t |-> T[x]]
        /\ \A x \in DOMAIN t :
             T[x] = IF x = Root THEN [t[x] EXCEPT !.children = q]
                    ELSE IF IsPolicyCandidate(t, x) THEN Showing(t[x], x \in shown)
                    ELSE t[x]
    BY DEF Raised
  <1> HIDE DEF T
  <1>4. ASSUME NEW x \in DOMAIN t  PROVE Touched(t[x], T[x], cs)
    <2>1. t[x] \in Resource
      BY <1>1, TableFacts
    <2>2. CASE x = Root
      <3>1. t[x] \in WindowRecord
        BY <1>1, <1>2, <2>2, WindowsAre
      <3>2. T[x] = [t[x] EXCEPT !.children = q]
        BY <1>3, <2>2
      <3> DEFINE a == t[x]
      <3>3. a \in WindowRecord /\ Range(q) = Range(a.children)
        BY <2>2, <3>1
      <3> HIDE DEF a
      <3>4. Touched(a, [a EXCEPT !.children = q], cs)
        BY <3>3, TouchedWindow
      <3> QED
        BY <3>2, <3>4 DEF a
    <2>3. CASE x # Root /\ IsPolicyCandidate(t, x)
      <3>1. t[x] \in WindowRecord
        BY <1>1, <2>3, WindowsAre DEF IsPolicyCandidate
      <3>2. T[x] = Showing(t[x], x \in shown)
        BY <1>3, <2>3
      <3>3. Touched(t[x], Showing(t[x], TRUE), cs) /\ Touched(t[x], Showing(t[x], FALSE), cs)
        BY <3>1, ShowingTouches
      <3>4. T[x] = Showing(t[x], TRUE) \/ T[x] = Showing(t[x], FALSE)
        <4> DEFINE v == x \in shown
        <4>1. T[x] = Showing(t[x], v)
          BY <3>2
        <4>2. v = TRUE \/ v = FALSE
          OBVIOUS
        <4> HIDE DEF v
        <4> QED
          BY <4>1, <4>2, Zenon
      <3> QED
        BY <3>3, <3>4
    <2>4. CASE x # Root /\ ~IsPolicyCandidate(t, x)
      <3>1. T[x] = t[x]
        BY <1>3, <2>4
      <3>2. Touched(t[x], t[x], cs)
        BY <2>1, TouchedItself
      <3> QED
        BY <3>1, <3>2
    <2> QED
      BY <2>2, <2>3, <2>4
  <1> QED
    BY <1>3, <1>4 DEF AllTouched, T

\* apply_policy_state makes whole what is sound.
LEMMA PolicyAppliedHarmless ==
    ASSUME NEW r, Sound(r), NEW order \in Answers(r), NEW cs
    PROVE  Harmless(r, PolicyApplied(r, order), cs)
  <1> DEFINE t == r.table
             shown == Range(order)
             q == Without(t[Root].children, shown) \o order
             T == Raised(t, shown, q)
             s == Retabled(r, T)
             t1 == [x \in DOMAIN t |->
                      IF IsPolicyCandidate(t, x)
                      THEN [t[x] EXCEPT !.policyVisible = x \in shown] ELSE t[x]]
  <1>1. t \in Tables /\ RootStands(t) /\ Branching(t) /\ Rooted(t) /\ r \in ResourceTables
    BY DEF Sound, Typed, TypedTable, Branching
  <1>2. Root \in Windows(t) /\ Root \in DOMAIN t
    BY <1>1 DEF RootStands, Windows, OfType
  <1>3. ~IsPolicyCandidate(t, Root)
    BY <1>1, XidFacts DEF RootStands, IsPolicyCandidate
  <1>4. order \in Seq(Xids) /\ \A x \in shown : IsPolicyCandidate(t, x)
    BY AnswersAre
  <1>5. t[Root].children \in Seq(Xids)
    <2>1. t[Root] \in WindowRecord
      BY <1>1, <1>2, WindowsAre
    <2> QED
      BY <2>1 DEF WindowRecord
  <1>6. shown \subseteq Range(t[Root].children)
    <2>1. Range(t[Root].children) = {x \in Windows(t) : x # Root /\ t[x].parent = Root}
      BY <1>1, <1>2 DEF Branching
    <2> QED
      BY <1>3, <1>4, <2>1 DEF IsPolicyCandidate
  <1>7. q \in Seq(Xids) /\ Range(q) = Range(t[Root].children)
    <2> DEFINE hidden == Without(t[Root].children, shown)
    <2>1. hidden \in Seq(Xids) /\ Range(hidden) = Range(t[Root].children) \ shown
      BY <1>5, WithoutFacts
    <2> HIDE DEF hidden
    <2>2. hidden \o order \in Seq(Xids) /\ Range(hidden \o order) = Range(hidden) \cup shown
      BY <1>4, <2>1, ConcatRange
    <2>3. Range(hidden \o order) = Range(t[Root].children)
      BY <1>6, <2>1, <2>2
    <2> QED
      BY <2>2, <2>3 DEF hidden
  <1>8. t1[Root] = t[Root]
    BY <1>2, <1>3
  <1>9. T = [t1 EXCEPT ![Root].children = Without(t1[Root].children, shown) \o order]
    <2>1. \A x \in DOMAIN t : x # Root => T[x] = t1[x]
      BY DEF Raised, Showing
    <2>2. T[Root] = [t1[Root] EXCEPT !.children = q]
      BY <1>2, <1>8 DEF Raised
    <2>3. T = [x \in DOMAIN t |-> T[x]] /\ t1 = [x \in DOMAIN t |-> t1[x]]
      BY DEF Raised
    <2> DEFINE v == [t1 EXCEPT ![Root].children = q]
    <2>4. v = [x \in DOMAIN t |-> v[x]]
      BY <2>3
    <2>5. v[Root] = [t1[Root] EXCEPT !.children = q]
      BY <1>2, <2>3
    <2>6. \A x \in DOMAIN t : x # Root => v[x] = t1[x]
      BY <2>3
    <2> HIDE DEF v, q, T, t1
    <2>7. T = v
      BY <2>1, <2>2, <2>3, <2>4, <2>5, <2>6
    <2> QED
      BY <1>8, <2>7 DEF v, q
  <1>10. PolicyApplied(r, order) = [r EXCEPT !.table = RecomputeMapStates(T, Root)]
    <2> HIDE DEF T
    <2> QED
      BY <1>9 DEF PolicyApplied
  <1> HIDE DEF q, t1
  <1>11. AllTouched(t, T, cs)
    BY <1>7, RaisedTouches
  <1> HIDE DEF T
  <1>12. /\ Sound(s) /\ s.table = T
         /\ SameShape(t, T) /\ SameProperties(t, T)
         /\ Evolves(t, T, {}, cs)
         /\ s.owned = r.owned /\ s.drawableBytes = r.drawableBytes
    BY <1>11, TouchedSound
  <1>13. PolicyApplied(r, order) = Retabled(s, RecomputeMapStates(s.table, Root))
    BY <1>1, <1>10, <1>12 DEF Retabled, ResourceTables
  <1> HIDE DEF s
  <1>14. Root \in Windows(s.table) /\ Windows(s.table) \ Subtree(s.table, Root) = {}
    <2>1. Windows(s.table) = Windows(t)
      BY <1>12, ShapeFacts
    <2>2. Rooted(s.table)
      BY <1>1, <1>12, ShapeTree
    <2> QED
      BY <1>2, <2>1, <2>2, SubtreeFacts
  <1>15. Harmless(s, PolicyApplied(r, order), cs)
    BY <1>12, <1>13, <1>14, RecomputedIsWhole
  <1> QED
    BY <1>12, <1>15, SoundThenHarmless

-----------------------------------------------------------------------------
(* The remaining operations *)

\* u is r with some resources of the identifiers ids, which c made.
Makes(r, u, ids, c) == \E news \in SUBSET ids : Becomes(r, u, news, {c})

\* A harmless change makes nothing.
LEMMA HarmlessMakes ==
    ASSUME NEW r, NEW u, NEW ids, NEW c, Harmless(r, u, {c})
    PROVE  Makes(r, u, ids, c)
  <1>1. Becomes(r, u, {}, {c}) /\ {} \in SUBSET ids
    BY HarmlessBecomes
  <1> QED
    BY <1>1 DEF Makes

\* A change that brings one identifier of a set makes some of the set.
LEMMA BecomesMakes ==
    ASSUME NEW r, NEW u, NEW ids, NEW c, NEW x, x \in ids,
           Becomes(r, u, {}, {c}) \/ Becomes(r, u, {x}, {c})
    PROVE  Makes(r, u, ids, c)
  <1>1. {} \in SUBSET ids /\ {x} \in SUBSET ids
    OBVIOUS
  <1> QED
    BY <1>1 DEF Makes

\* A change that brings nothing makes nothing.
LEMMA NothingMakes ==
    ASSUME NEW r, NEW u, NEW ids, NEW c, Becomes(r, u, {}, {c})
    PROVE  Makes(r, u, ids, c)
  BY DEF Makes

\* A harmless change, then another one.
LEMMA HarmlessThenBecomes ==
    ASSUME NEW r, NEW s, NEW u, NEW news, NEW cs, Harmless(r, s, cs), Becomes(s, u, news, cs)
    PROVE  Becomes(r, u, news, cs)
  <1>1. DOMAIN s.table = DOMAIN r.table
    BY DEF Harmless, SameShape
  <1>2. Evolves(r.table, s.table, {}, cs) /\ Evolves(s.table, u.table, news, cs) /\ Whole(u)
    BY DEF Harmless, Becomes
  <1>3. Evolves(r.table, u.table, news, cs)
    BY <1>1, <1>2, EvolvesTwice
  <1> QED
    BY <1>2, <1>3 DEF Becomes

\* name_window_pixmap
LEMMA NamedWindowMakes ==
    ASSUME NEW r, Whole(r), NEW c \in Clients, NEW x \in Xids, x \notin DOMAIN r.table,
           NEW w \in Windows(r.table)
    PROVE  Makes(r, NamedWindowPixmap(r, c, x, w), {x}, c)
  <1> DEFINE s == WithStorage(r, w)
             shared == s.table[w].storage
             counted == \E p \in OfType(s.table, "Pixmap") : s.table[p].storage = shared
             u == Accounted(Install(s, c, x, [type |-> "Pixmap", owner |-> c,
                                              storage |-> shared]))
  <1>1. NamedWindowPixmap(r, c, x, w) =
           IF ~counted /\ s.drawableBytes >= Limits.drawableBytes THEN s ELSE u
    BY DEF NamedWindowPixmap
  <1>2. IsDrawable(r.table, w)
    BY DEF IsDrawable, Windows, OfType
  <1>3. Harmless(r, s, {c})
    BY <1>2, WithStorageHarmless
  <1>4. shared \in Storages
    <2>1. r.table[w] \in WindowRecord /\ w \in DOMAIN r.table
      BY WindowsTouched
    <2>2. r.table[w].storage \in Storages \union {NoStorage}
      BY <2>1 DEF WindowRecord
    <2>3. CASE r.table[w].storage # NoStorage
      BY <2>2, <2>3 DEF WithStorage
    <2>4. CASE r.table[w].storage = NoStorage
      <3>1. FreshStorage(r.table, 1) \in Storages
        BY WholeFacts, FreshStorageFacts
      <3> DEFINE f == FreshStorage(r.table, 1)
      <3>2. s = Rewritten(r, w, [r.table[w] EXCEPT !.storage = f])
        BY <2>4 DEF WithStorage, Rewritten, Retabled
      <3> HIDE DEF f, s
      <3>3. r = [table |-> r.table, owned |-> r.owned, propertyBytes |-> r.propertyBytes,
                 drawableBytes |-> r.drawableBytes, cursorBytes |-> r.cursorBytes]
        BY WholeFacts DEF ResourceTables
      <3>4. r.table = [y \in DOMAIN r.table |-> r.table[y]]
        BY WholeFacts, TableFacts
      <3> DEFINE a == [r.table[w] EXCEPT !.storage = f]
      <3>5. a.storage = f
        BY <2>1 DEF WindowRecord
      <3> HIDE DEF a
      <3>6. s.table[w] = a
        BY <2>1, <3>2, <3>3, <3>4 DEF Rewritten, Retabled, a
      <3> QED
        BY <3>1, <3>5, <3>6 DEF f
    <2> QED
      BY <2>3, <2>4
  <1>5. counted <=> shared \in StoragesOf(s.table)
    BY DEF StoragesOf
  <1> HIDE DEF s, shared, counted
  <1>6. Whole(s) /\ x \notin DOMAIN s.table
    BY <1>3 DEF Harmless, SameShape
  <1>7. s.drawableBytes \in Nat /\ Limits.drawableBytes \in Nat
    BY <1>6, PartsFacts
  <1>8. CASE ~counted /\ s.drawableBytes >= Limits.drawableBytes
    BY <1>1, <1>3, <1>8, HarmlessMakes
  <1>9. CASE ~(~counted /\ s.drawableBytes >= Limits.drawableBytes)
    <2>1. s.drawableBytes < Limits.drawableBytes \/ shared \in StoragesOf(s.table)
      BY <1>5, <1>7, <1>9
    <2>2. Becomes(s, u, {x}, {c})
      BY <1>4, <1>6, <2>1, PixmapBecomes
    <2>3. NamedWindowPixmap(r, c, x, w) = u
      BY <1>1, <1>9
    <2> HIDE DEF u
    <2>4. Becomes(r, u, {x}, {c})
      BY <1>3, <2>2, HarmlessThenBecomes
    <2> QED
      BY <2>3, <2>4, BecomesMakes
  <1> QED
    BY <1>8, <1>9

\* destroy_window
LEMMA DestroyTreeBecomes ==
    ASSUME NEW r, Whole(r), NEW w \in Windows(r.table) \ {Root}
    PROVE  \A cs : Becomes(r, DestroyTree(r, w), {}, cs)
  <1>1. Rooted(r.table)
    BY WholeFacts
  <1>2. Cut(r.table, Subtree(r.table, w))
    BY <1>1, SubtreeIsCut
  <1> QED
    BY <1>2, DestroyWindowsBecomes DEF DestroyTree

\* The same, after the parent was damaged or not (DestroyWindow).
LEMMA ExposedDestroyBecomes ==
    ASSUME NEW r, Whole(r), NEW w \in Windows(r.table) \ {Root}, NEW s, NEW d, NEW c,
           s = r \/ s = AddDamage(r, d, Cells)
    PROVE  Becomes(r, DestroyTree(s, w), {}, {c})
  <1>1. Harmless(r, s, {c})
    BY NothingHarmless, AddDamageHarmless
  <1>2. Whole(s) /\ w \in Windows(s.table) \ {Root}
    BY <1>1, ShapeFacts DEF Harmless
  <1>3. Becomes(s, DestroyTree(s, w), {}, {c})
    BY <1>2, DestroyTreeBecomes
  <1> QED
    BY <1>1, <1>3, HarmlessThenBecomes

\* configure_window, which damages the parent or does not.
LEMMA ConfigureHarmless ==
    ASSUME NEW r, Whole(r), NEW w \in Windows(r.table) \ {Root}, NEW resize \in BOOLEAN,
           NEW stack, NEW d, NEW cs
    PROVE  /\ Harmless(r, AddDamage(Configured(r, w, resize, stack), d, Cells), cs)
           /\ Harmless(r, Configured(r, w, resize, stack), cs)
  <1>1. Harmless(r, Configured(r, w, resize, stack), cs)
    BY ConfiguredHarmless
  <1>2. Whole(Configured(r, w, resize, stack))
    BY <1>1 DEF Harmless
  <1>3. Harmless(Configured(r, w, resize, stack),
                 AddDamage(Configured(r, w, resize, stack), d, Cells), cs)
    BY <1>2, AddDamageHarmless
  <1> QED
    BY <1>1, <1>3, HarmlessTwice

\* Pixels of d change, after the storage of another drawable was made.
LEMMA PaintsAfterHarmless ==
    ASSUME NEW r, Whole(r), NEW from, NEW d, IsDrawable(r.table, from), IsDrawable(r.table, d),
           NEW cells \in SUBSET Cells, NEW cs, NEW s, s = WithStorage(r, from)
    PROVE  Harmless(r, AddDamage(WithStorage(s, d), d, cells), cs)
  <1>1. Harmless(r, s, cs)
    BY WithStorageHarmless
  <1>2. Whole(s) /\ IsDrawable(s.table, d)
    BY <1>1, ShapeFacts DEF Harmless
  <1>3. Harmless(s, AddDamage(WithStorage(s, d), d, cells), cs)
    BY <1>2, PaintsHarmless
  <1> QED
    BY <1>1, <1>3, HarmlessTwice

-----------------------------------------------------------------------------
(* What stays of the trees when resources come and go *)

\* What is above a window that stays is what was above it.
LEMMA AncestorsStay ==
    ASSUME NEW t, NEW u, NEW news, NEW cs, Evolves(t, u, news, cs), Rooted(t), Rooted(u)
    PROVE  \A w \in Windows(u) \ news : w \in Windows(t) /\ Ancestors(u, w) = Ancestors(t, w)
  <1> DEFINE S == {w \in Windows(u) : w \notin news => Ancestors(u, w) = Ancestors(t, w)}
  <1>1. Windows(u) \ news \subseteq Windows(t) /\ Windows(t) \intersect news = {}
    BY DEF Evolves, Windows, OfType
  <1>2. Root \in S
    <2>1. Ancestors(u, Root) = {} /\ Ancestors(t, Root) = {}
      BY AncestorsStep
    <2> QED
      BY <2>1 DEF Rooted
  <1>3. ASSUME NEW w \in Windows(u) \ {Root}, u[w].parent \in S  PROVE w \in S
    <2> SUFFICES ASSUME w \notin news  PROVE Ancestors(u, w) = Ancestors(t, w)
      OBVIOUS
    <2> DEFINE p == u[w].parent
    <2>1. w \in Windows(t) \ {Root} /\ t[w].parent = p
      BY <1>1 DEF Evolves
    <2>2. p \in Windows(t)
      BY <2>1 DEF Rooted
    <2>3. Ancestors(u, p) = Ancestors(t, p)
      BY <1>1, <1>3, <2>2
    <2>4. /\ Ancestors(u, w) = {p} \cup Ancestors(u, p)
          /\ Ancestors(t, w) = {p} \cup Ancestors(t, p)
      BY <2>1, AncestorsStep
    <2> QED
      BY <2>3, <2>4
  <1> HIDE DEF S
  <1>4. Windows(u) \subseteq S
    BY <1>2, <1>3, TreeInduction
  <1> QED
    BY <1>1, <1>4 DEF S

\* All windows of c are in the trees of the roots.
Reaches(t, roots, c) == \A w \in Windows(t) : t[w].owner = c => w \in Trees(t, roots)

\* Trees that hold all windows of a client go on doing so when it makes none.
LEMMA TreesStay ==
    ASSUME NEW t, NEW u, NEW news, NEW cs, Evolves(t, u, news, cs), Rooted(t), Rooted(u),
           NEW roots, NEW c, Reaches(t, roots, c), news = {} \/ c \notin cs
    PROVE  Reaches(u, roots, c)
  <1>1. SUFFICES ASSUME NEW w \in Windows(u), u[w].owner = c  PROVE w \in Trees(u, roots)
    BY DEF Reaches
  <1>2. w \notin news
    BY <1>1 DEF Evolves, Windows, OfType
  <1>3. w \in Windows(t) /\ Ancestors(u, w) = Ancestors(t, w) /\ t[w].owner = c
    <2>1. t[w].owner = u[w].owner
      BY <1>2 DEF Evolves, Windows, OfType
    <2> QED
      BY <1>1, <1>2, <2>1, AncestorsStay
  <1>4. w \in Trees(t, roots)
    BY <1>3 DEF Reaches
  <1>5. PICK x \in roots \intersect Windows(t) : w \in Subtree(t, x)
    BY <1>4 DEF Trees
  <1>6. x \in Windows(u)
    <2>1. Ancestors(u, w) \subseteq Windows(u)
      BY AncestorsDefinition
    <2> QED
      BY <1>3, <1>5, <2>1 DEF Subtree
  <1>7. w \in Subtree(u, x)
    BY <1>3, <1>5 DEF Subtree
  <1> QED
    BY <1>5, <1>6, <1>7 DEF Trees

\* Every window of a client is below one of its own that none of its own covers.
LEMMA RootsReach ==
    ASSUME NEW r, Whole(r), NEW c \in Clients
    PROVE  Reaches(r.table, CleanupRoots(r, c), c) /\ Root \notin CleanupRoots(r, c)
  <1> DEFINE t == r.table
             R == CleanupRoots(r, c)
             own(w) == \A y \in Ancestors(t, w) \ {Root} : t[y].owner # c
             S == {w \in Windows(t) : (w # Root /\ t[w].owner = c) \/ ~own(w)
                                        => w \in Trees(t, R)}
  <1>1. Rooted(t) /\ RootStands(t)
    BY WholeFacts
  <1>2. Range(r.owned[c]) = {x \in DOMAIN t \ {Root} : t[x].owner = c}
    BY DEF Whole, Sound, Owned
  <1>3. R = {x \in Windows(t) \ {Root} : t[x].owner = c /\ own(x)}
    BY <1>2 DEF CleanupRoots, Windows, OfType
  <1>4. \A x \in R : x \in Trees(t, R)
    BY <1>3 DEF Trees, Subtree
  <1>5. Root \in S
    <2>1. Ancestors(t, Root) = {}
      BY <1>1, AncestorsStep
    <2> QED
      BY <1>1, <2>1 DEF Rooted
  <1>6. ASSUME NEW w \in Windows(t) \ {Root}, t[w].parent \in S  PROVE w \in S
    <2> DEFINE p == t[w].parent
    <2>1. p \in Windows(t) /\ Ancestors(t, w) = {p} \cup Ancestors(t, p)
      BY <1>1, AncestorsStep DEF Rooted
    <2>2. p \in Trees(t, R) => w \in Trees(t, R)
      <3>1. ASSUME NEW x \in R \intersect Windows(t), p \in Subtree(t, x)
            PROVE  w \in Subtree(t, x)
        BY <2>1, <3>1 DEF Subtree
      <3> QED
        BY <3>1 DEF Trees
    <2>3. CASE ~own(w)
      <3>1. (p # Root /\ t[p].owner = c) \/ ~own(p)
        BY <2>1, <2>3
      <3> QED
        BY <1>6, <2>2, <3>1
    <2>4. CASE own(w) /\ t[w].owner = c
      BY <1>3, <1>4, <2>4
    <2> QED
      BY <2>3, <2>4
  <1>7. Windows(t) \subseteq S
    <2> HIDE DEF S
    <2> QED
      BY <1>1, <1>5, <1>6, TreeInduction
  <1>8. \A w \in Windows(t) : t[w].owner = c => w # Root
    BY <1>1, XidFacts DEF RootStands
  <1>9. Reaches(t, R, c)
    BY <1>7, <1>8 DEF Reaches
  <1> QED
    BY <1>3, <1>9

-----------------------------------------------------------------------------
(* The deferred operations and the bases *)

Kinds == {"Create", "Destroy", "Map", "Configure", "Property", "Cleanup"}
IsOp(op) ==
    /\ op = [kind |-> op.kind, client |-> op.client, window |-> op.window,
             value |-> op.value, cancelled |-> op.cancelled]
    /\ op.kind \in Kinds /\ op.client \in Clients /\ op.cancelled \in BOOLEAN

\* What the deferred request asks for.
Meant(op) ==
    /\ op.kind # "Cleanup" => op.window \in Xids
    /\ op.kind = "Create" =>
         /\ op.value.xid \in Xids /\ op.value.parent = Root
         /\ op.value.class = "InputOutput" /\ op.value.cursor \in Xids \union {None}
         /\ op.value.image \in Nat /\ op.value.events \in BOOLEAN
    /\ op.kind \in {"Map", "Configure"} => op.value \in BOOLEAN
    /\ op.kind = "Property" => op.value \in Nat

\* The client of a request that is not cancelled is there, and the identifier of
\* the window it creates is its own and free.
Standing(op, t, cl) ==
    op.kind # "Cleanup" /\ ~op.cancelled =>
        /\ cl[op.client] # 0
        /\ op.kind = "Create" => /\ op.value.xid[1] = cl[op.client]
                                 /\ op.value.xid \notin DOMAIN t

\* The client of a cleanup is gone, its base is kept back, and its trees hold
\* all of its windows.
Cleaning(op, t, cl, ar, pend) ==
    op.kind = "Cleanup" =>
        /\ cl[op.client] = 0 /\ op.client <= ar
        /\ op.value[1] \in pend
        /\ Root \notin op.value[2] /\ Reaches(t, op.value[2], op.client)

Apart(p, q) ==
    /\ p.kind # "Cleanup" /\ q.kind # "Cleanup" => p.client # q.client
    /\ p.kind = "Cleanup" /\ q.kind = "Cleanup" => /\ p.client # q.client
                                                   /\ p.value[1] # q.value[1]

\* Each base is held by one client at most, and by none while it is cleaned.
Based(cl, ar, pend) ==
    /\ cl \in [Clients -> Bases \union {0}]
    /\ ar \in 0..MaxClients /\ pend \subseteq Bases
    /\ \A c \in Clients : cl[c] # 0 => c <= ar /\ cl[c] \notin pend
    /\ \A c, d \in Clients : cl[c] # 0 /\ c # d => cl[c] # cl[d]

\* What is in the table is its holder's, or is being cleaned.
Held(t, cl, q) ==
    \A x \in DOMAIN t \ {Root} :
        \/ cl[t[x].owner] = x[1]
        \/ \E op \in Range(q) : /\ op.kind = "Cleanup" /\ op.client = t[x].owner
                                /\ op.value[1] = x[1]

Sides(cl, o, g, w, e, d) ==
    \A c \in Clients : cl[c] = 0 => /\ c # o[1] /\ c # g[1]
                                    /\ \A x \in w \union e : x[1] # c
                                    /\ \A x \in d : x.client # c
Listening(t, cl) == \A w \in Windows(t) : \A c \in t[w].events : cl[c] # 0

\* An operation in the queue.
Fine(op, t, cl, ar, pend) ==
    IsOp(op) /\ Meant(op) /\ Standing(op, t, cl) /\ Cleaning(op, t, cl, ar, pend)

Queued(q, t, cl, ar, pend) ==
    /\ q \in Seq(Range(q))
    /\ \A op \in Range(q) : Fine(op, t, cl, ar, pend)
    /\ \A i, j \in DOMAIN q : i # j => Apart(q[i], q[j])

\* The news of a step are of the base of c, who is there.
News(news, c, cl) == \A x \in news : c \in Clients /\ cl[c] # 0 /\ x[1] = cl[c]

\* An operation in the queue stays fine while others change the table.
LEMMA FineEvolves ==
    ASSUME NEW t, NEW u, NEW news, NEW c, Evolves(t, u, news, {c}), Rooted(t), Rooted(u),
           NEW cl, NEW ar, NEW pend, Based(cl, ar, pend), News(news, c, cl),
           NEW op, Fine(op, t, cl, ar, pend),
           news = {} \/ op.kind # "Create" \/ op.client # c
    PROVE  Fine(op, u, cl, ar, pend)
  <1>1. IsOp(op) /\ Meant(op) /\ Standing(op, t, cl) /\ Cleaning(op, t, cl, ar, pend)
    BY DEF Fine
  <1>2. Standing(op, u, cl)
    <2> SUFFICES ASSUME op.kind = "Create", ~op.cancelled
                 PROVE  op.value.xid \notin DOMAIN u
      BY <1>1 DEF Standing
    <2>1. op.value.xid[1] = cl[op.client] /\ op.value.xid \notin DOMAIN t /\ cl[op.client] # 0
      BY <1>1 DEF Standing
    <2>2. op.value.xid \notin news
      <3> SUFFICES ASSUME op.value.xid \in news  PROVE FALSE
        OBVIOUS
      <3>1. c \in Clients /\ op.client \in Clients /\ cl[c] = cl[op.client] /\ cl[c] # 0
            /\ op.client # c
        BY <1>1, <2>1 DEF News, IsOp
      <3> QED
        BY <3>1 DEF Based
    <2> QED
      BY <2>1, <2>2 DEF Evolves
  <1>3. Cleaning(op, u, cl, ar, pend)
    <2> SUFFICES ASSUME op.kind = "Cleanup"
                 PROVE  Reaches(u, op.value[2], op.client)
      BY <1>1 DEF Cleaning
    <2>1. cl[op.client] = 0 /\ Reaches(t, op.value[2], op.client)
      BY <1>1 DEF Cleaning
    <2>2. news = {} \/ op.client \notin {c}
      BY <2>1 DEF News
    <2> QED
      BY <2>1, <2>2, TreesStay
  <1> QED
    BY <1>1, <1>2, <1>3 DEF Fine

\* What is in the table stays its holder's while the table changes.
LEMMA HeldEvolves ==
    ASSUME NEW t, NEW u, NEW news, NEW c, Evolves(t, u, news, {c}), NEW cl, News(news, c, cl),
           NEW q, Held(t, cl, q)
    PROVE  Held(u, cl, q)
  <1>1. SUFFICES ASSUME NEW x \in DOMAIN u \ {Root}
                 PROVE  \/ cl[u[x].owner] = x[1]
                        \/ \E op \in Range(q) : /\ op.kind = "Cleanup"
                                                /\ op.client = u[x].owner
                                                /\ op.value[1] = x[1]
    BY DEF Held
  <1>2. CASE x \in news
    BY <1>2 DEF Evolves, News
  <1>3. CASE x \notin news
    <2>1. x \in DOMAIN t \ {Root} /\ u[x].owner = t[x].owner
      BY <1>3 DEF Evolves
    <2> QED
      BY <2>1 DEF Held
  <1> QED
    BY <1>2, <1>3

\* Only clients that are there come to listen to a window.
LEMMA ListeningEvolves ==
    ASSUME NEW t, NEW u, NEW news, NEW c, Evolves(t, u, news, {c}), NEW cl, cl[c] # 0,
           Listening(t, cl)
    PROVE  Listening(u, cl)
  <1>1. \A w \in Windows(u) : w \notin news => w \in Windows(t)
    BY DEF Evolves, Windows, OfType
  <1>2. \A w \in Windows(u) : \A d \in u[w].events : d = c \/ cl[d] # 0
    BY <1>1 DEF Evolves, Listening
  <1> QED
    BY <1>2 DEF Listening

-----------------------------------------------------------------------------
(* The queue *)

\* The queue without its head, place by place.
LEMMA QueueTail ==
    ASSUME NEW q, q \in Seq(Range(q)), q # <<>>
    PROVE  LET v == Tail(q)
           IN  /\ v \in Seq(Range(v)) /\ Range(q) = Range(v) \union {Head(q)}
               /\ DOMAIN v = 1..Len(q) - 1 /\ DOMAIN q = 1..Len(q) /\ Len(q) \in Nat
               /\ Head(q) = q[1] /\ 1 \in DOMAIN q
               /\ \A i \in DOMAIN v : i + 1 \in DOMAIN q /\ v[i] = q[i + 1]
  <1> DEFINE v == Tail(q)
             X == Range(q)
             n == Len(q)
  <1>1. /\ n \in Nat \ {0} /\ DOMAIN q = 1..n /\ v \in Seq(X) /\ Len(v) = n - 1
        /\ Head(q) = q[1] /\ \A i \in 1..n - 1 : v[i] = q[i + 1]
    <2>1. q \in Seq(X)
      OBVIOUS
    <2> HIDE DEF X
    <2>2. n \in Nat /\ DOMAIN q = 1..n
      BY <2>1, LenProperties
    <2>3. n # 0
      BY <2>1, EmptySeq
    <2>4. v \in Seq(X) /\ Len(v) = n - 1 /\ \A i \in 1..n - 1 : v[i] = q[i + 1]
      BY <2>1
    <2> QED
      BY <2>1, <2>2, <2>3, <2>4
  <1> HIDE DEF v, n, X
  <1>2. DOMAIN v = 1..n - 1 /\ v = [i \in 1..n - 1 |-> v[i]]
    BY <1>1
  <1>3. 1 \in DOMAIN q /\ \A i \in DOMAIN v : i + 1 \in DOMAIN q /\ v[i] = q[i + 1]
    BY <1>1, <1>2
  <1>4. Range(q) = Range(v) \union {Head(q)}
    <2>1. Range(v) \subseteq Range(q) /\ Head(q) \in Range(q)
      BY <1>1, <1>3 DEF Range
    <2>2. ASSUME NEW i \in DOMAIN q  PROVE q[i] \in Range(v) \union {Head(q)}
      <3>1. CASE i = 1
        BY <1>1, <3>1
      <3>2. CASE i # 1
        <4>1. i - 1 \in DOMAIN v /\ (i - 1) + 1 = i
          BY <1>1, <1>2, <3>2
        <4> QED
          BY <1>3, <4>1 DEF Range
      <3> QED
        BY <3>1, <3>2
    <2> QED
      BY <2>1, <2>2 DEF Range
  <1>5. v \in Seq(Range(v))
    <2>1. n - 1 \in Nat
      BY <1>1
    <2>2. \A i \in 1..n - 1 : v[i] \in Range(v)
      BY <1>2 DEF Range
    <2>3. v \in [1..n - 1 -> Range(v)]
      BY <1>2, <2>2
    <2> QED
      BY <2>1, <2>3
  <1> QED
    BY <1>1, <1>2, <1>3, <1>4, <1>5 DEF v, n

\* The queue without its head is as good, and the head gets along with it.
LEMMA QueuedTail ==
    ASSUME NEW q, NEW t, NEW cl, NEW ar, NEW pend, Queued(q, t, cl, ar, pend), q # <<>>
    PROVE  /\ Queued(Tail(q), t, cl, ar, pend) /\ Fine(Head(q), t, cl, ar, pend)
           /\ \A op \in Range(Tail(q)) : Apart(Head(q), op)
           /\ Range(q) = Range(Tail(q)) \union {Head(q)}
  <1> DEFINE v == Tail(q)
  <1>1. /\ v \in Seq(Range(v)) /\ Range(q) = Range(v) \union {Head(q)}
        /\ DOMAIN v = 1..Len(q) - 1 /\ DOMAIN q = 1..Len(q) /\ Len(q) \in Nat
        /\ Head(q) = q[1] /\ 1 \in DOMAIN q
        /\ \A i \in DOMAIN v : i + 1 \in DOMAIN q /\ v[i] = q[i + 1]
    BY QueueTail DEF Queued
  <1> HIDE DEF v
  <1>2. \A i, j \in DOMAIN v : i # j => Apart(v[i], v[j])
    <2> TAKE i \in DOMAIN v, j \in DOMAIN v
    <2>1. i \in Nat /\ j \in Nat /\ (i # j => i + 1 # j + 1)
      BY <1>1
    <2> QED
      BY <1>1, <2>1 DEF Queued
  <1>3. \A i \in DOMAIN v : Apart(q[1], v[i])
    <2> TAKE i \in DOMAIN v
    <2>1. i \in Nat /\ i + 1 # 1
      BY <1>1
    <2> QED
      BY <1>1, <2>1 DEF Queued
  <1>4. \A op \in Range(v) : Apart(Head(q), op)
    BY <1>1, <1>3 DEF Range
  <1>5. Queued(v, t, cl, ar, pend) /\ Fine(Head(q), t, cl, ar, pend)
    BY <1>1, <1>2 DEF Queued
  <1> QED
    BY <1>1, <1>4, <1>5 DEF v

\* v is q with the entry e at place k.
Inserted(q, k, e, v) ==
    /\ v \in Seq(Range(v)) /\ DOMAIN v = 1..Len(q) + 1
    /\ \A i \in 1..Len(q) + 1 : v[i] = IF i < k THEN q[i] ELSE IF i = k THEN e ELSE q[i - 1]

\* A sequence is one of its own elements.
LEMMA RangeSequence ==
    ASSUME NEW X, NEW v \in Seq(X)
    PROVE  v \in Seq(Range(v)) /\ Len(v) \in Nat /\ DOMAIN v = 1..Len(v)
  <1>1. Len(v) \in Nat /\ DOMAIN v = 1..Len(v) /\ v = [i \in 1..Len(v) |-> v[i]]
    OBVIOUS
  <1>2. \A i \in 1..Len(v) : v[i] \in Range(v)
    BY <1>1 DEF Range
  <1>3. v \in [1..Len(v) -> Range(v)]
    BY <1>1, <1>2
  <1> QED
    BY <1>1, <1>3

\* Appending inserts behind the last place.
LEMMA AppendInserts ==
    ASSUME NEW q, q \in Seq(Range(q)), NEW e
    PROVE  Inserted(q, Len(q) + 1, e, Append(q, e))
  <1> DEFINE X == Range(q) \union {e}
             v == Append(q, e)
             n == Len(q)
  <1>1. q \in Seq(X) /\ e \in X
    <2>1. Range(q) \subseteq X
      OBVIOUS
    <2> QED
      BY <2>1
  <1> HIDE DEF X
  <1>2. /\ v \in Seq(X) /\ Len(v) = n + 1 /\ n \in Nat
        /\ \A i \in 1..n : v[i] = q[i]
        /\ v[n + 1] = e
    BY <1>1
  <1> HIDE DEF v, n
  <1>3. v \in Seq(Range(v)) /\ DOMAIN v = 1..n + 1
    BY <1>2, RangeSequence
  <1>4. \A i \in 1..n + 1 : v[i] = IF i < n + 1 THEN q[i] ELSE IF i = n + 1 THEN e ELSE q[i - 1]
    <2> TAKE i \in 1..n + 1
    <2>1. CASE i = n + 1
      BY <1>2, <2>1
    <2>2. CASE i # n + 1
      <3>1. i \in 1..n /\ i < n + 1
        BY <1>2, <2>2
      <3> QED
        BY <1>2, <3>1
    <2> QED
      BY <2>1, <2>2
  <1> QED
    BY <1>3, <1>4 DEF Inserted, v, n

\* InsertAt inserts at its place.
LEMMA InsertInserts ==
    ASSUME NEW q, q \in Seq(Range(q)), NEW e, NEW k \in 1..Len(q) + 1
    PROVE  Inserted(q, k, e, InsertAt(q, k, e))
  <1> DEFINE X == Range(q) \union {e}
             v == InsertAt(q, k, e)
             n == Len(q)
             a == SubSeq(q, 1, k - 1)
             b == SubSeq(q, k, n)
             m == a \o <<e>>
  <1>1. q \in Seq(X) /\ e \in X /\ n \in Nat /\ DOMAIN q = 1..n
    <2>1. Range(q) \subseteq X
      OBVIOUS
    <2> QED
      BY <2>1
  <1> HIDE DEF X
  <1>2. v = m \o b
    BY DEF InsertAt
  <1>3. a \in Seq(X) /\ Len(a) = k - 1 /\ \A i \in 1..k - 1 : a[i] = q[i]
    BY <1>1
  <1>4. b \in Seq(X) /\ Len(b) = n - k + 1 /\ \A i \in 1..n - k + 1 : b[i] = q[k + i - 1]
    BY <1>1
  <1> HIDE DEF a, b
  <1>5. m \in Seq(X) /\ Len(m) = k /\ m[k] = e /\ \A i \in 1..k - 1 : m[i] = q[i]
    <2>1. <<e>> \in Seq(X) /\ Len(<<e>>) = 1 /\ <<e>>[1] = e
      BY <1>1
    <2>2. m \in Seq(X) /\ Len(m) = Len(a) + 1
      BY <1>3, <2>1
    <2>3. \A i \in 1..Len(a) + 1 : m[i] = IF i <= Len(a) THEN a[i] ELSE <<e>>[i - Len(a)]
      BY <1>3, <2>1
    <2>4. k \in Nat \ {0} /\ Len(a) + 1 = k /\ k \in 1..Len(a) + 1 /\ k - Len(a) = 1
          /\ ~(k <= Len(a))
      BY <1>1, <1>3
    <2>5. m[k] = e
      BY <2>1, <2>3, <2>4
    <2> HIDE DEF m
    <2>6. ASSUME NEW i \in 1..k - 1  PROVE m[i] = q[i]
      <3>1. i \in 1..Len(a) + 1 /\ i <= Len(a)
        BY <1>3, <2>4
      <3>2. m[i] = a[i]
        BY <2>3, <3>1
      <3> QED
        BY <1>3, <3>2
    <2>7. m \in Seq(X) /\ Len(m) = k
      BY <2>2, <2>4
    <2> QED
      BY <2>5, <2>6, <2>7
  <1> HIDE DEF m
  <1>6. /\ v \in Seq(X) /\ Len(v) = n + 1
        /\ \A i \in 1..n + 1 : v[i] = IF i <= k THEN m[i] ELSE b[i - k]
    <2>1. m \o b \in Seq(X) /\ Len(m \o b) = Len(m) + Len(b)
          /\ \A i \in 1..Len(m) + Len(b) :
               (m \o b)[i] = IF i <= Len(m) THEN m[i] ELSE b[i - Len(m)]
      BY <1>4, <1>5, ConcatProperties
    <2>2. Len(m) + Len(b) = n + 1
      BY <1>1, <1>4, <1>5
    <2> QED
      BY <1>2, <1>5, <2>1, <2>2
  <1> HIDE DEF v, n
  <1>7. v \in Seq(Range(v)) /\ DOMAIN v = 1..n + 1
    BY <1>6, RangeSequence
  <1>8. \A i \in 1..n + 1 : v[i] = IF i < k THEN q[i] ELSE IF i = k THEN e ELSE q[i - 1]
    <2> TAKE i \in 1..n + 1
    <2>0. k \in Nat /\ k >= 1 /\ k <= n + 1
      BY <1>1 DEF n
    <2>1. CASE i < k
      <3>1. i \in 1..k - 1 /\ i <= k
        BY <1>1, <2>0, <2>1
      <3> QED
        BY <1>5, <1>6, <2>1, <3>1
    <2>2. CASE i = k
      BY <1>5, <1>6, <2>0, <2>2
    <2>3. CASE i > k
      <3>1. i - k \in 1..n - k + 1 /\ k + (i - k) - 1 = i - 1 /\ ~(i <= k) /\ ~(i < k) /\ i # k
        BY <1>1, <2>0, <2>3
      <3> QED
        BY <1>4, <1>6, <3>1
    <2> QED
      BY <1>1, <2>0, <2>1, <2>2, <2>3
  <1> QED
    BY <1>7, <1>8 DEF Inserted, v, n

\* An operation may join those it gets along with.
LEMMA QueuedInserted ==
    ASSUME NEW q, NEW t, NEW cl, NEW ar, NEW pend, Queued(q, t, cl, ar, pend),
           NEW op, Fine(op, t, cl, ar, pend),
           \A p \in Range(q) : Apart(p, op) /\ Apart(op, p),
           NEW k \in 1..Len(q) + 1, NEW v, Inserted(q, k, op, v)
    PROVE  Queued(v, t, cl, ar, pend) /\ Range(v) = Range(q) \union {op}
  <1> DEFINE n == Len(q)
  <1>1. q \in Seq(Range(q)) /\ \A i, j \in DOMAIN q : i # j => Apart(q[i], q[j])
    BY DEF Queued
  <1>2. n \in Nat /\ DOMAIN q = 1..n
    BY <1>1
  <1>3. k \in Nat /\ 1 <= k /\ k <= n + 1
    BY <1>2
  <1>4. /\ v \in Seq(Range(v)) /\ DOMAIN v = 1..n + 1
        /\ \A i \in 1..n + 1 : v[i] = IF i < k THEN q[i] ELSE IF i = k THEN op ELSE q[i - 1]
    BY DEF Inserted
  <1> HIDE DEF n
  <1>5. \A i \in 1..n + 1 : /\ i < k => i \in DOMAIN q /\ v[i] = q[i]
                            /\ i = k => v[i] = op
                            /\ i > k => i - 1 \in DOMAIN q /\ v[i] = q[i - 1]
                            /\ i < k \/ i = k \/ i > k
    BY <1>2, <1>3, <1>4
  <1>6. \A i \in DOMAIN q : q[i] \in Range(q)
    BY DEF Range
  <1>7. Range(v) \subseteq Range(q) \union {op}
    BY <1>4, <1>5, <1>6 DEF Range
  <1>8. Range(q) \union {op} \subseteq Range(v)
    <2>1. op \in Range(v)
      <3>1. k \in DOMAIN v /\ v[k] = op
        BY <1>2, <1>3, <1>4, <1>5
      <3> QED
        BY <3>1 DEF Range
    <2>2. ASSUME NEW i \in DOMAIN q  PROVE q[i] \in Range(v)
      <3>1. CASE i < k
        <4>1. i \in DOMAIN v /\ v[i] = q[i]
          BY <1>2, <1>3, <1>4, <1>5, <3>1
        <4> QED
          BY <4>1 DEF Range
      <3>2. CASE ~(i < k)
        <4>1. i + 1 \in 1..n + 1 /\ i + 1 > k /\ (i + 1) - 1 = i
          BY <1>2, <1>3, <3>2
        <4>2. i + 1 \in DOMAIN v /\ v[i + 1] = q[i]
          BY <1>4, <1>5, <4>1
        <4> QED
          BY <4>2 DEF Range
      <3> QED
        BY <3>1, <3>2
    <2> QED
      BY <2>1, <2>2 DEF Range
  <1>9. ASSUME NEW i \in DOMAIN v, NEW j \in DOMAIN v, i # j  PROVE Apart(v[i], v[j])
    <2>1. i \in 1..n + 1 /\ j \in 1..n + 1
      BY <1>4
    <2>2. CASE i = k
      <3>1. j < k \/ j > k
        BY <1>2, <1>3, <1>9, <2>1, <2>2
      <3>2. v[j] \in Range(q)
        BY <1>5, <1>6, <2>1, <3>1
      <3> QED
        BY <1>5, <2>1, <2>2, <3>2
    <2>3. CASE j = k
      <3>1. i < k \/ i > k
        BY <1>2, <1>3, <1>9, <2>1, <2>3
      <3>2. v[i] \in Range(q)
        BY <1>5, <1>6, <2>1, <3>1
      <3> QED
        BY <1>5, <2>1, <2>3, <3>2
    <2>4. CASE i # k /\ j # k
      <3> DEFINE a == IF i < k THEN i ELSE i - 1
                 b == IF j < k THEN j ELSE j - 1
      <3>1. a \in DOMAIN q /\ b \in DOMAIN q /\ a # b
        BY <1>2, <1>3, <1>9, <2>1, <2>4
      <3>2. v[i] = q[a] /\ v[j] = q[b]
        BY <1>3, <1>5, <2>1, <2>4
      <3> HIDE DEF a, b
      <3> QED
        BY <1>1, <3>1, <3>2
    <2> QED
      BY <2>2, <2>3, <2>4
  <1>10. \A p \in Range(q) : Fine(p, t, cl, ar, pend)
    BY DEF Queued
  <1>11. \A p \in Range(v) : Fine(p, t, cl, ar, pend)
    BY <1>7, <1>10
  <1>12. Queued(v, t, cl, ar, pend)
    BY <1>4, <1>9, <1>11 DEF Queued
  <1> QED
    BY <1>7, <1>8, <1>12

-----------------------------------------------------------------------------
(* A client leaves *)

Gone(cl, c) == [cl EXCEPT ![c] = 0]
CancelOp(op, c) == [op EXCEPT !.cancelled = op.cancelled \/ op.client = c]

\* The same operation, cancelled or not.
SameOp(p, op) == p.kind = op.kind /\ p.client = op.client /\ p.window = op.window
                 /\ p.value = op.value

\* A cancelled operation is the same operation.
LEMMA CancelOpFacts ==
    ASSUME NEW op, IsOp(op), NEW c
    PROVE  /\ IsOp(CancelOp(op, c)) /\ SameOp(CancelOp(op, c), op)
           /\ ~CancelOp(op, c).cancelled => ~op.cancelled /\ op.client # c
  <1> DEFINE k == op.kind
             d == op.client
             w == op.window
             v == op.value
             x == op.cancelled \/ op.client = c
             y == op.cancelled
  <1>1. op = [kind |-> k, client |-> d, window |-> w, value |-> v, cancelled |-> y]
        /\ k \in Kinds /\ d \in Clients /\ y \in BOOLEAN
    BY DEF IsOp
  <1>2. CancelOp(op, c) = [op EXCEPT !.cancelled = x]
    BY DEF CancelOp
  <1>3. x \in BOOLEAN /\ (~x => ~y /\ d # c)
    BY <1>1
  <1> HIDE DEF k, d, w, v, x, y
  <1> DEFINE p == [op EXCEPT !.cancelled = x]
  <1>4. p = [kind |-> k, client |-> d, window |-> w, value |-> v, cancelled |-> x]
    BY <1>1
  <1> HIDE DEF p
  <1>5. p.kind = k /\ p.client = d /\ p.window = w /\ p.value = v /\ p.cancelled = x
    BY <1>4
  <1>6. IsOp(p)
    BY <1>1, <1>3, <1>4, <1>5 DEF IsOp
  <1>7. SameOp(p, op)
    BY <1>5 DEF SameOp, k, d, w, v
  <1>8. ~p.cancelled => ~op.cancelled /\ op.client # c
    BY <1>3, <1>5 DEF d, y
  <1> QED
    BY <1>2, <1>6, <1>7, <1>8 DEF p

\* An operation stays fine when a client leaves and its own are cancelled.
LEMMA FineLeaves ==
    ASSUME NEW op, NEW t, NEW cl, NEW ar, NEW pend, Fine(op, t, cl, ar, pend),
           Based(cl, ar, pend), NEW c \in Clients, NEW kept, pend \subseteq kept
    PROVE  Fine(CancelOp(op, c), t, Gone(cl, c), ar, kept)
  <1> DEFINE p == CancelOp(op, c)
             gl == Gone(cl, c)
  <1>1. IsOp(op) /\ Meant(op) /\ Standing(op, t, cl) /\ Cleaning(op, t, cl, ar, pend)
    BY DEF Fine
  <1>2. /\ IsOp(p) /\ SameOp(p, op)
        /\ ~p.cancelled => ~op.cancelled /\ op.client # c
    BY <1>1, CancelOpFacts
  <1>3. gl \in [Clients -> Bases \union {0}] /\ gl[c] = 0
        /\ \A d \in Clients : d # c => gl[d] = cl[d]
    BY DEF Based, Gone
  <1> HIDE DEF p, gl
  <1>4. op.client \in Clients
    BY <1>1 DEF IsOp
  <1>5. Meant(p)
    BY <1>1, <1>2 DEF Meant, SameOp
  <1>6. Standing(p, t, gl)
    BY <1>1, <1>2, <1>3, <1>4 DEF Standing, SameOp
  <1>7. Cleaning(p, t, gl, ar, kept)
    BY <1>1, <1>2, <1>3, <1>4 DEF Cleaning, SameOp
  <1> QED
    BY <1>2, <1>5, <1>6, <1>7 DEF Fine, p, gl

\* The two queues hold the same operations.
SameOps(q, v) == /\ \A op \in Range(q) : \E p \in Range(v) : SameOp(p, op)
                 /\ \A p \in Range(v) : \E op \in Range(q) : SameOp(p, op)

\* The queue stays as good when a client leaves and its operations are cancelled.
LEMMA QueuedLeaves ==
    ASSUME NEW q, NEW t, NEW cl, NEW ar, NEW pend, Queued(q, t, cl, ar, pend),
           Based(cl, ar, pend), NEW c \in Clients, NEW kept, pend \subseteq kept
    PROVE  /\ Queued(Cancelled(q, c), t, Gone(cl, c), ar, kept)
           /\ SameOps(q, Cancelled(q, c))
           /\ Len(Cancelled(q, c)) = Len(q)
  <1> DEFINE v == Cancelled(q, c)
             n == Len(q)
  <1>1. q \in Seq(Range(q)) /\ \A i, j \in DOMAIN q : i # j => Apart(q[i], q[j])
    BY DEF Queued
  <1>2. n \in Nat /\ DOMAIN q = 1..n
    BY <1>1
  <1>3. v = [i \in 1..n |-> CancelOp(q[i], c)]
    BY <1>2 DEF Cancelled, CancelOp
  <1>4. DOMAIN v = 1..n /\ \A i \in 1..n : v[i] = CancelOp(q[i], c)
    BY <1>3
  <1>5. v \in Seq(Range(v)) /\ Len(v) = n
    <2>1. v \in [1..n -> Range(v)]
      <3>1. \A i \in 1..n : v[i] \in Range(v)
        BY <1>4 DEF Range
      <3>2. v = [i \in 1..n |-> v[i]]
        BY <1>3
      <3> HIDE DEF v
      <3> QED
        BY <3>1, <3>2
    <2> HIDE DEF v
    <2> QED
      BY <1>2, <2>1
  <1> HIDE DEF v, n
  <1>6. \A i \in 1..n : Fine(q[i], t, cl, ar, pend) /\ IsOp(q[i])
    BY <1>2 DEF Queued, Range, Fine
  <1>7. \A i \in 1..n : Fine(v[i], t, Gone(cl, c), ar, kept) /\ SameOp(v[i], q[i])
    BY <1>4, <1>6, FineLeaves, CancelOpFacts
  <1>8. \A p \in Range(v) : Fine(p, t, Gone(cl, c), ar, kept)
    BY <1>4, <1>7 DEF Range
  <1>9. \A i, j \in DOMAIN v : i # j => Apart(v[i], v[j])
    BY <1>1, <1>2, <1>4, <1>7 DEF Apart, SameOp
  <1>10. SameOps(q, v)
    <2>1. ASSUME NEW op \in Range(q)  PROVE \E p \in Range(v) : SameOp(p, op)
      <3>1. PICK i \in 1..n : op = q[i]
        BY <1>2 DEF Range
      <3>2. v[i] \in Range(v)
        BY <1>4 DEF Range
      <3> QED
        BY <1>7, <3>1, <3>2
    <2>2. ASSUME NEW p \in Range(v)  PROVE \E op \in Range(q) : SameOp(p, op)
      <3>1. PICK i \in 1..n : p = v[i]
        BY <1>4 DEF Range
      <3>2. q[i] \in Range(q)
        BY <1>2 DEF Range
      <3> QED
        BY <1>7, <3>1, <3>2
    <2> QED
      BY <2>1, <2>2 DEF SameOps
  <1>11. Queued(v, t, Gone(cl, c), ar, kept)
    BY <1>5, <1>8, <1>9 DEF Queued
  <1> QED
    BY <1>5, <1>10, <1>11 DEF v, n

\* The bases stay apart when a client leaves, and its base is kept back or not.
LEMMA BasedLeaves ==
    ASSUME NEW cl, NEW ar, NEW pend, Based(cl, ar, pend), NEW c \in Clients
    PROVE  /\ Based(Gone(cl, c), ar, pend)
           /\ cl[c] # 0 => Based(Gone(cl, c), ar, pend \union {cl[c]})
  <1> DEFINE gl == Gone(cl, c)
  <1>1. gl \in [Clients -> Bases \union {0}] /\ gl[c] = 0
        /\ \A d \in Clients : d # c => gl[d] = cl[d]
    BY DEF Based, Gone
  <1> HIDE DEF gl
  <1>2. Based(gl, ar, pend)
    BY <1>1 DEF Based
  <1>3. cl[c] # 0 => Based(gl, ar, pend \union {cl[c]})
    BY <1>1 DEF Based
  <1> QED
    BY <1>2, <1>3 DEF gl

\* What is left of c is being cleaned, or there is nothing.
LEMMA HeldLeaves ==
    ASSUME NEW t, NEW cl, NEW q, Held(t, cl, q), NEW c, cl \in [Clients -> Bases \union {0}],
           c \in Clients, RootStands(t),
           NEW v, SameOps(q, v),
           NEW w, Range(v) \subseteq Range(w),
           \/ \A x \in DOMAIN t : t[x].owner # c
           \/ \E op \in Range(w) : op.kind = "Cleanup" /\ op.client = c /\ op.value[1] = cl[c]
    PROVE  Held(t, Gone(cl, c), w)
  <1> DEFINE gl == Gone(cl, c)
  <1>1. \A d \in Clients : d # c => gl[d] = cl[d]
    BY DEF Gone
  <1> HIDE DEF gl
  <1>2. SUFFICES ASSUME NEW x \in DOMAIN t \ {Root}
                 PROVE  \/ gl[t[x].owner] = x[1]
                        \/ \E op \in Range(w) : /\ op.kind = "Cleanup"
                                                /\ op.client = t[x].owner
                                                /\ op.value[1] = x[1]
    BY DEF Held, gl
  <1>3. t[x].owner \in Clients
    BY DEF RootStands
  <1>4. CASE cl[t[x].owner] = x[1] /\ t[x].owner # c
    BY <1>1, <1>3, <1>4
  <1>5. CASE cl[t[x].owner] = x[1] /\ t[x].owner = c
    BY <1>5
  <1>6. CASE \E op \in Range(q) : /\ op.kind = "Cleanup" /\ op.client = t[x].owner
                                  /\ op.value[1] = x[1]
    <2>1. PICK op \in Range(q) : /\ op.kind = "Cleanup" /\ op.client = t[x].owner
                                 /\ op.value[1] = x[1]
      BY <1>6
    <2>2. PICK p \in Range(v) : SameOp(p, op)
      BY DEF SameOps
    <2> QED
      BY <2>1, <2>2 DEF SameOp
  <1> QED
    BY <1>4, <1>5, <1>6 DEF Held

-----------------------------------------------------------------------------
(* A client arrives *)

Come(cl, ar, b) == [cl EXCEPT ![ar + 1] = b]

\* The bases stay apart when a client comes that is given a free one.
LEMMA BasedComes ==
    ASSUME NEW cl, NEW ar, NEW pend, Based(cl, ar, pend), NEW b \in Bases, b \notin pend,
           \A c \in Clients : cl[c] # b, ar < MaxClients
    PROVE  /\ Based(Come(cl, ar, b), ar + 1, pend)
           /\ ar + 1 \in Clients /\ cl[ar + 1] = 0
           /\ \A c \in Clients : c # ar + 1 => Come(cl, ar, b)[c] = cl[c]
           /\ \A c \in Clients : cl[c] # 0 => c # ar + 1
           /\ Come(cl, ar, b)[ar + 1] = b
  <1> DEFINE gl == Come(cl, ar, b)
  <1>1. MaxClients \in Nat /\ Clients = 1..MaxClients /\ ar \in Nat /\ 0 \notin Bases
    BY ResourcesAssumption DEF Based, Clients
  <1>2. ar + 1 \in Clients /\ ar + 1 \in 0..MaxClients
    BY <1>1
  <1>3. cl \in [Clients -> Bases \union {0}]
    BY DEF Based
  <1>4. gl \in [Clients -> Bases \union {0}] /\ gl[ar + 1] = b
        /\ \A c \in Clients : c # ar + 1 => gl[c] = cl[c]
    BY <1>2, <1>3 DEF Come
  <1> HIDE DEF gl
  <1>5. \A c \in Clients : cl[c] # 0 => c <= ar /\ cl[c] \notin pend
    BY DEF Based
  <1>6. \A c \in Clients : cl[c] # 0 => c # ar + 1
    BY <1>1, <1>5
  <1>7. \A c \in Clients : gl[c] # 0 => c <= ar + 1 /\ gl[c] \notin pend
    BY <1>1, <1>4, <1>5
  <1>8. \A c, d \in Clients : gl[c] # 0 /\ c # d => gl[c] # gl[d]
    BY <1>4 DEF Based
  <1>9. Based(gl, ar + 1, pend)
    BY <1>2, <1>4, <1>7, <1>8 DEF Based
  <1> QED
    BY <1>2, <1>4, <1>6, <1>9 DEF gl

\* An operation stays fine when a client comes.
LEMMA FineComes ==
    ASSUME NEW op, NEW t, NEW cl, NEW ar, NEW pend, Fine(op, t, cl, ar, pend),
           ar \in Nat, NEW gl,
           \A c \in Clients : c # ar + 1 => gl[c] = cl[c],
           \A c \in Clients : cl[c] # 0 => c # ar + 1
    PROVE  Fine(op, t, gl, ar + 1, pend)
  <1>1. IsOp(op) /\ Meant(op) /\ Standing(op, t, cl) /\ Cleaning(op, t, cl, ar, pend)
    BY DEF Fine
  <1>2. op.client \in Clients /\ \A c \in Clients : c \in Nat
    BY <1>1 DEF IsOp, Clients
  <1>3. Standing(op, t, gl)
    BY <1>1, <1>2 DEF Standing
  <1>4. Cleaning(op, t, gl, ar + 1, pend)
    <2> SUFFICES ASSUME op.kind = "Cleanup"
                 PROVE  gl[op.client] = 0 /\ op.client <= ar + 1
      BY <1>1 DEF Cleaning
    <2>1. cl[op.client] = 0 /\ op.client <= ar
      BY <1>1 DEF Cleaning
    <2>2. op.client # ar + 1 /\ op.client <= ar + 1
      BY <1>2, <2>1
    <2> QED
      BY <1>2, <2>1, <2>2
  <1> QED
    BY <1>1, <1>3, <1>4 DEF Fine

\* What is in the table stays its holder's when a client comes.
LEMMA HeldComes ==
    ASSUME NEW t \in Tables, RootStands(t), NEW cl, NEW q, Held(t, cl, q), NEW gl, NEW d,
           \A c \in Clients : c # d => gl[c] = cl[c],
           \A c \in Clients : cl[c] # 0 => c # d
    PROVE  Held(t, gl, q)
  <1>1. SUFFICES ASSUME NEW x \in DOMAIN t \ {Root}, cl[t[x].owner] = x[1]
                 PROVE  gl[t[x].owner] = x[1]
    BY DEF Held
  <1>2. x \in Xids /\ t[x].owner \in Clients
    BY TableFacts DEF Places, RootStands
  <1>3. x[1] # 0
    BY <1>2, XidFacts
  <1> QED
    BY <1>1, <1>2, <1>3

-----------------------------------------------------------------------------
(* The inductive invariant *)

Alone ==
    ~integrated => /\ queue = <<>>
                   /\ Sides(clients, owner, grab, watchers, randr, redirects)
                   /\ Listening(res.table, clients)

TableInv ==
    /\ workload \in Workloads /\ arrived <= workload.clients
    /\ Whole(res)
    /\ Based(clients, arrived, pendingBases)
    /\ Queued(queue, res.table, clients, arrived, pendingBases)
    /\ Held(res.table, clients, queue)
    /\ Alone

\* The identifiers of a client.
Ids(c) == {x \in Xids : x[1] = clients[c]}

\* Nobody but c comes into the selections, grabs, redirections and event selections.
OnlyOf(c) ==
    \A d \in Clients \ {c} :
        /\ owner'[1] = d => owner[1] = d
        /\ grab'[1] = d => grab[1] = d
        /\ \A x \in watchers' \union randr' : x[1] = d => x \in watchers \union randr
        /\ \A x \in redirects' : x.client = d => x \in redirects

\* A request of c that is deferred.
Deferring(c) ==
    /\ integrated /\ res' = res
    /\ \E op : /\ Fine(op, res.table, clients, arrived, pendingBases)
               /\ op.kind # "Cleanup" /\ op.client = c
               /\ queue' = Append(queue, op)

\* What every request of c does.
Requests(c) ==
    /\ UNCHANGED <<integrated, workload, clients, arrived, pendingBases>>
    /\ clients[c] # 0 /\ ~Blocked(c)
    /\ Makes(res, res', Ids(c), c)
    /\ queue' = queue \/ Deferring(c)
    /\ OnlyOf(c)

\* A client that is served has no request in the queue.
LEMMA BlockedFacts ==
    ASSUME NEW c, ~Blocked(c)
    PROVE  \A op \in Range(queue) : op.kind # "Cleanup" => op.client # c
  BY DEF Blocked, Range

\* Whatever a request does in the bounds of Requests keeps the invariant.
LEMMA RequestKeeps ==
    ASSUME TableInv, NEW c \in Clients, Requests(c)
    PROVE  TableInv'
  <1> DEFINE t == res.table
             u == res'.table
  <1>1. /\ integrated' = integrated /\ workload' = workload /\ clients' = clients
        /\ arrived' = arrived /\ pendingBases' = pendingBases
        /\ clients[c] # 0
    BY DEF Requests
  <1>2. /\ Whole(res) /\ Based(clients, arrived, pendingBases)
        /\ Queued(queue, t, clients, arrived, pendingBases) /\ Held(t, clients, queue)
    BY DEF TableInv
  <1>3. PICK news \in SUBSET Ids(c) : Becomes(res, res', news, {c})
    BY DEF Requests, Makes
  <1>4. Whole(res') /\ Evolves(t, u, news, {c})
    BY <1>3 DEF Becomes
  <1>5. Rooted(t) /\ Rooted(u)
    BY <1>2, <1>4, WholeFacts
  <1>6. News(news, c, clients)
    BY <1>1, <1>3 DEF News, Ids
  <1>7. \A op \in Range(queue) : op.kind # "Create" \/ op.client # c
    BY BlockedFacts DEF Requests
  <1> HIDE DEF t, u
  <1>8. \A op \in Range(queue) : Fine(op, u, clients, arrived, pendingBases)
    <2> TAKE op \in Range(queue)
    <2>1. Fine(op, t, clients, arrived, pendingBases)
      BY <1>2 DEF Queued
    <2> QED
      BY <1>2, <1>4, <1>5, <1>6, <1>7, <2>1, FineEvolves
  <1>9. Queued(queue, u, clients, arrived, pendingBases)
    BY <1>2, <1>8 DEF Queued
  <1>10. Held(u, clients, queue)
    BY <1>2, <1>4, <1>6, HeldEvolves
  <1>11. /\ Queued(queue', u, clients, arrived, pendingBases)
         /\ Range(queue) \subseteq Range(queue')
    <2>1. CASE queue' = queue
      BY <1>9, <2>1
    <2>2. CASE Deferring(c)
      <3>1. PICK op : /\ Fine(op, t, clients, arrived, pendingBases)
                      /\ op.kind # "Cleanup" /\ op.client = c
                      /\ queue' = Append(queue, op)
        BY <2>2 DEF Deferring, t
      <3>2. Fine(op, u, clients, arrived, pendingBases)
        <4>1. u = t
          BY <2>2 DEF Deferring, t, u
        <4> QED
          BY <3>1, <4>1
      <3>3. \A p \in Range(queue) : Apart(p, op) /\ Apart(op, p)
        <4>1. \A p \in Range(queue) : p.kind # "Cleanup" => p.client # c
          BY BlockedFacts DEF Requests
        <4> QED
          BY <3>1, <4>1 DEF Apart
      <3>4. queue \in Seq(Range(queue))
        BY <1>2 DEF Queued
      <3>5. Inserted(queue, Len(queue) + 1, op, queue') /\ Len(queue) + 1 \in 1..Len(queue) + 1
        BY <3>1, <3>4, AppendInserts
      <3>6. /\ Queued(queue', u, clients, arrived, pendingBases)
            /\ Range(queue') = Range(queue) \union {op}
        BY <1>9, <3>2, <3>3, <3>5, QueuedInserted
      <3> QED
        BY <3>6
    <2> QED
      BY <2>1, <2>2 DEF Requests
  <1>12. Held(u, clients, queue')
    BY <1>10, <1>11 DEF Held
  <1>13. Alone'
    <2> SUFFICES ASSUME ~integrated
                 PROVE  /\ queue' = <<>>
                        /\ Sides(clients, owner', grab', watchers', randr', redirects')
                        /\ Listening(u, clients)
      BY <1>1 DEF Alone, u
    <2>1. /\ queue = <<>> /\ Listening(t, clients)
          /\ Sides(clients, owner, grab, watchers, randr, redirects)
      BY DEF TableInv, Alone, t
    <2>2. queue' = <<>>
      BY <2>1 DEF Requests, Deferring
    <2>3. Listening(u, clients)
      BY <1>1, <1>4, <2>1, ListeningEvolves
    <2>4. ASSUME NEW d \in Clients, clients[d] = 0
          PROVE  /\ d # owner'[1] /\ d # grab'[1]
                 /\ \A x \in watchers' \union randr' : x[1] # d
                 /\ \A x \in redirects' : x.client # d
      <3>1. /\ d # owner[1] /\ d # grab[1]
            /\ \A x \in watchers \union randr : x[1] # d
            /\ \A x \in redirects : x.client # d
        BY <2>1, <2>4 DEF Sides
      <3>2. d \in Clients \ {c}
        BY <1>1, <2>4
      <3>3. OnlyOf(c)
        BY DEF Requests
      <3> QED
        BY <3>1, <3>2, <3>3 DEF OnlyOf
    <2> QED
      BY <2>2, <2>3, <2>4 DEF Sides
  <1> QED
    <2>1. workload' \in Workloads /\ arrived' <= workload'.clients
      BY <1>1 DEF TableInv
    <2> QED
      BY <1>1, <1>2, <1>4, <1>11, <1>12, <1>13, <2>1 DEF TableInv, u

-----------------------------------------------------------------------------
(* The requests that take effect at once *)

\* The identifiers a client may take are its own and free.
LEMMA NewIdsFacts ==
    ASSUME TableInv, NEW c \in Clients, clients[c] # 0, NEW kind, NEW x \in NewIds(c, kind)
    PROVE  x \in Xids /\ x \notin DOMAIN res.table /\ x \in Ids(c) /\ x[1] = clients[c]
  <1>1. clients[c] \in Bases
    BY DEF TableInv, Based
  <1>2. x \in {clients[c]} \X Indices /\ x \notin DOMAIN res.table
    BY DEF NewIds, IsNewId
  <1> QED
    BY <1>1, <1>2 DEF Xids, Ids

\* A request that takes effect at once is in these bounds when its change is.
LEMMA ChangesRequests ==
    ASSUME NEW c \in Clients, NEW k, Serves(c, k), NEW u, Changes(u),
           Makes(res, u, Ids(c), c)
    PROVE  Requests(c)
  BY DEF Serves, Changes, Served, sideVars, Requests, OnlyOf

\* So it is when its change is harmless,
LEMMA HarmlessRequests ==
    ASSUME NEW c \in Clients, NEW k, Serves(c, k), NEW u, Changes(u), Harmless(res, u, {c})
    PROVE  Requests(c)
  BY HarmlessMakes, ChangesRequests

\* when it brings nothing,
LEMMA GoneRequests ==
    ASSUME NEW c \in Clients, NEW k, Serves(c, k), NEW u, Changes(u),
           Becomes(res, u, {}, {c})
    PROVE  Requests(c)
  BY NothingMakes, ChangesRequests

\* and when it brings one resource.
LEMMA NewRequests ==
    ASSUME TableInv, NEW c \in Clients, NEW k, Serves(c, k), NEW u, Changes(u),
           NEW kind, NEW x \in NewIds(c, kind), Becomes(res, u, {x}, {c})
    PROVE  Requests(c)
  <1>1. x \in Ids(c)
    BY NewIdsFacts DEF Serves
  <1>2. Makes(res, u, Ids(c), c)
    BY <1>1, BecomesMakes
  <1> QED
    BY <1>2, ChangesRequests

\* A new resource that counts in no total.
LEMMA InstallRequests ==
    ASSUME TableInv, NEW c \in Clients, NEW k, Serves(c, k),
           NEW kind, NEW x \in NewIds(c, kind), NEW a \in Resource, a.owner = c,
           a.type \in PlainKinds,
           a.type \in {"Damage", "Picture"} =>
               a.drawable = None \/ IsDrawable(res.table, a.drawable),
           Changes(Install(res, c, x, a))
    PROVE  Requests(c)
  <1>1. x \in Xids /\ x \notin DOMAIN res.table
    BY NewIdsFacts DEF Serves
  <1>2. Whole(res)
    BY DEF TableInv
  <1>3. Becomes(res, Install(res, c, x, a), {x}, {c})
    BY <1>1, <1>2, InstallBecomes
  <1> QED
    BY <1>3, NewRequests

\* A new resource that nothing else refers to.
LEMMA PlainRequests ==
    ASSUME TableInv, NEW c \in Clients, NEW k, Serves(c, k), NEW type \in PlainTypes,
           NEW x \in NewIds(c, type), Changes(Install(res, c, x, WithoutStorage(c, type)))
    PROVE  Requests(c)
  <1> DEFINE a == WithoutStorage(c, type)
  <1>1. a \in PlainRecord /\ a.owner = c /\ a.type = type
    BY DEF PlainRecord, WithoutStorage
  <1>2. a \in Resource /\ a.type \in PlainKinds /\ a.type \notin {"Damage", "Picture"}
    BY <1>1 DEF Resource, PlainKinds, PlainTypes
  <1> HIDE DEF a
  <1>3. Changes(Install(res, c, x, a))
    BY DEF a
  <1> QED
    BY <1>1, <1>2, <1>3, InstallRequests

\* CreateGC, OpenFont, CreateColormap and ShmAttach keep within bounds.
LEMMA PlainActions ==
    ASSUME TableInv, NEW c \in Clients,
           CreateGC(c) \/ OpenFont(c) \/ CreateColormap(c) \/ AttachShm(c)
    PROVE  Requests(c)
  <1>1. CASE CreateGC(c)
    BY <1>1, PlainRequests DEF CreateGC, PlainTypes
  <1>2. CASE OpenFont(c)
    BY <1>2, PlainRequests DEF OpenFont, PlainTypes
  <1>3. CASE CreateColormap(c)
    BY <1>3, PlainRequests DEF CreateColormap, PlainTypes
  <1>4. CASE AttachShm(c)
    BY <1>4, PlainRequests DEF AttachShm, PlainTypes
  <1> QED
    BY <1>1, <1>2, <1>3, <1>4

\* So do the requests on regions.
LEMMA RegionActions ==
    ASSUME TableInv, NEW c \in Clients,
           CreateRegion(c) \/ SetRegion(c) \/ CombineRegion(c)
    PROVE  Requests(c)
  <1>0. Whole(res)
    BY DEF TableInv
  <1>1. CASE CreateRegion(c)
    <2>1. PICK x \in NewIds(c, "Region"), cells \in SUBSET Cells :
            Changes(Install(res, c, x, [type |-> "Region", owner |-> c, region |-> cells]))
      BY <1>1 DEF CreateRegion
    <2> DEFINE a == [type |-> "Region", owner |-> c, region |-> cells]
    <2>2. a \in RegionRecord /\ a.owner = c /\ a.type = "Region"
      BY DEF RegionRecord
    <2>3. Changes(Install(res, c, x, a))
      BY <2>1
    <2> HIDE DEF a
    <2>4. a \in Resource /\ a.type \in PlainKinds /\ a.type \notin {"Damage", "Picture"}
      BY <2>2 DEF Resource, PlainKinds
    <2>5. Serves(c, "CreateRegion")
      BY <1>1 DEF CreateRegion
    <2> QED
      BY <2>2, <2>3, <2>4, <2>5, InstallRequests
  <1>2. CASE SetRegion(c)
    <2>1. PICK x \in OfType(res.table, "Region"), cells \in SUBSET Cells :
            Changes([res EXCEPT !.table[x].region = cells])
      BY <1>2 DEF SetRegion
    <2> DEFINE u == [res EXCEPT !.table[x].region = cells]
    <2>2. Harmless(res, u, {c})
      BY <1>0, RegionHarmless
    <2>3. Changes(u) /\ Serves(c, "SetRegion")
      BY <1>2, <2>1 DEF SetRegion
    <2> HIDE DEF u
    <2> QED
      BY <2>2, <2>3, HarmlessRequests
  <1>3. CASE CombineRegion(c)
    <2>1. PICK x \in OfType(res.table, "Region"), y \in OfType(res.table, "Region"),
               z \in OfType(res.table, "Region") :
            LET a == res.table[x].region
                b == res.table[y].region
            IN  \E new \in {a \union b, a \intersect b, a \ b} :
                   Changes([res EXCEPT !.table[z].region = new])
      BY <1>3 DEF CombineRegion
    <2> DEFINE a == res.table[x].region
               b == res.table[y].region
    <2>2. PICK new \in {a \union b, a \intersect b, a \ b} :
            Changes([res EXCEPT !.table[z].region = new])
      BY <2>1
    <2>3. a \in SUBSET Cells /\ b \in SUBSET Cells
      BY <1>0, RegionsAre
    <2> HIDE DEF a, b
    <2>4. new \in SUBSET Cells
      BY <2>2, <2>3
    <2> DEFINE u == [res EXCEPT !.table[z].region = new]
    <2>5. Harmless(res, u, {c})
      BY <1>0, <2>4, RegionHarmless
    <2>6. Changes(u) /\ Serves(c, "CombineRegion")
      BY <1>3, <2>2 DEF CombineRegion
    <2> HIDE DEF u
    <2> QED
      BY <2>5, <2>6, HarmlessRequests
  <1> QED
    BY <1>1, <1>2, <1>3

\* So do the requests on damage objects.
LEMMA DamageActions ==
    ASSUME TableInv, NEW c \in Clients,
           CreateDamage(c) \/ DamageSubtract(c) \/ DamageAdd(c)
    PROVE  Requests(c)
  <1>0. Whole(res) /\ DOMAIN res.table \subseteq Places
    BY WholeFacts DEF TableInv
  <1>1. CASE CreateDamage(c)
    <2>1. PICK x \in NewIds(c, "Damage"), d \in DOMAIN res.table :
            /\ IsDrawable(res.table, d)
            /\ Changes(Install(res, c, x, [type |-> "Damage", owner |-> c,
                                           drawable |-> d, region |-> {}]))
      BY <1>1 DEF CreateDamage
    <2> DEFINE a == [type |-> "Damage", owner |-> c, drawable |-> d, region |-> {}]
    <2>2. a \in DamageRecord /\ a.owner = c /\ a.type = "Damage" /\ a.drawable = d
      BY <1>0 DEF DamageRecord, Places
    <2>3. Changes(Install(res, c, x, a))
      BY <2>1
    <2> HIDE DEF a
    <2>4. a \in Resource /\ a.type \in PlainKinds
      BY <2>2 DEF Resource, PlainKinds
    <2>5. Serves(c, "DamageCreate")
      BY <1>1 DEF CreateDamage
    <2> QED
      BY <2>1, <2>2, <2>3, <2>4, <2>5, InstallRequests
  <1>2. CASE DamageSubtract(c)
    <2>1. PICK x \in OfType(res.table, "Damage"),
               repair \in OfType(res.table, "Region") \union {None},
               parts \in OfType(res.table, "Region") \union {None} :
            Changes(SubtractDamage(res, x, repair, parts))
      BY <1>2 DEF DamageSubtract
    <2>2. Harmless(res, SubtractDamage(res, x, repair, parts), {c})
      BY <1>0, SubtractDamageHarmless
    <2>3. Serves(c, "DamageSubtract")
      BY <1>2 DEF DamageSubtract
    <2> QED
      BY <2>1, <2>2, <2>3, HarmlessRequests
  <1>3. CASE DamageAdd(c)
    <2>1. PICK d \in DOMAIN res.table, y \in OfType(res.table, "Region") :
            Changes(AddDamage(res, d, res.table[y].region))
      BY <1>3 DEF DamageAdd
    <2>2. res.table[y].region \in SUBSET Cells
      BY <1>0, RegionsAre
    <2>3. Harmless(res, AddDamage(res, d, res.table[y].region), {c})
      BY <1>0, <2>2, AddDamageHarmless
    <2>4. Serves(c, "DamageAdd")
      BY <1>3 DEF DamageAdd
    <2> QED
      BY <2>1, <2>3, <2>4, HarmlessRequests
  <1> QED
    BY <1>1, <1>2, <1>3

\* So do the requests that make pictures.
LEMMA PictureActions ==
    ASSUME TableInv, NEW c \in Clients, CreateSolidFill(c) \/ CreatePicture(c)
    PROVE  Requests(c)
  <1>0. Whole(res) /\ DOMAIN res.table \subseteq Places
    BY WholeFacts DEF TableInv
  <1>1. PICK x \in NewIds(c, "Picture"), d \in DOMAIN res.table \union {None} :
          /\ d = None \/ IsDrawable(res.table, d)
          /\ Changes(Install(res, c, x, [type |-> "Picture", owner |-> c, drawable |-> d]))
    BY DEF CreateSolidFill, CreatePicture
  <1> DEFINE a == [type |-> "Picture", owner |-> c, drawable |-> d]
  <1>2. a \in PictureRecord /\ a.owner = c /\ a.type = "Picture" /\ a.drawable = d
    BY <1>0 DEF PictureRecord, Places
  <1>3. Changes(Install(res, c, x, a))
    BY <1>1
  <1> HIDE DEF a
  <1>4. a \in Resource /\ a.type \in PlainKinds
    BY <1>2 DEF Resource, PlainKinds
  <1>5. PICK k : Serves(c, k)
    BY DEF CreateSolidFill, CreatePicture
  <1> QED
    BY <1>1, <1>2, <1>3, <1>4, <1>5, InstallRequests

\* So do the requests on cursors.
LEMMA CursorActions ==
    ASSUME TableInv, NEW c \in Clients,
           CreateCursor(c) \/ CreateGlyphCursor(c) \/ RecolorCursor(c)
    PROVE  Requests(c)
  <1>0. Whole(res) /\ IsFiniteSet(DOMAIN res.table)
    BY WholeFacts DEF TableInv
  <1>1. ASSUME NEW k, Serves(c, k), RoomForCursor(res, c), NEW x \in NewIds(c, "Cursor"),
               Changes(WithCursor(res, c, x))
        PROVE  Requests(c)
    <2>1. x \in Xids /\ x \notin DOMAIN res.table
      BY <1>1, NewIdsFacts DEF Serves
    <2>2. res.cursorBytes < Limits.cursorBytes
      BY <1>1 DEF RoomForCursor
    <2>3. Becomes(res, WithCursor(res, c, x), {x}, {c})
      BY <1>0, <2>1, <2>2, CursorBecomes
    <2> QED
      BY <1>1, <2>3, NewRequests
  <1>3. CASE CreateCursor(c)
    BY <1>1, <1>3 DEF CreateCursor
  <1>4. CASE CreateGlyphCursor(c)
    BY <1>1, <1>4 DEF CreateGlyphCursor
  <1>2. CASE RecolorCursor(c)
    <2>1. PICK x \in OfType(res.table, "Cursor") :
            Changes(Recoloured(res, x, FreshImage(res.table)))
      BY <1>2 DEF RecolorCursor
    <2>2. FreshImage(res.table) \in Nat
      BY <1>0, FreshImageFacts
    <2>3. Harmless(res, Recoloured(res, x, FreshImage(res.table)), {c})
      BY <1>0, <2>2, RecolouredHarmless
    <2>4. Serves(c, "RecolorCursor")
      BY <1>2 DEF RecolorCursor
    <2> QED
      BY <2>1, <2>3, <2>4, HarmlessRequests
  <1> QED
    BY <1>2, <1>3, <1>4

\* So do CreatePixmap, NameWindowPixmap and the requests that free.
LEMMA PixmapActions ==
    ASSUME TableInv, NEW c \in Clients,
           CreatePixmap(c) \/ NameWindowPixmap(c) \/ FreeAny(c)
    PROVE  Requests(c)
  <1>0. Whole(res) /\ IsFiniteSet(DOMAIN res.table)
    BY WholeFacts DEF TableInv
  <1>1. CASE CreatePixmap(c)
    <2>1. Serves(c, "CreatePixmap") /\ RoomForPixmap(res)
      BY <1>1 DEF CreatePixmap
    <2> DEFINE s == FreshStorage(res.table, 1)
    <2>2. PICK x \in NewIds(c, "Pixmap") :
            Changes(Accounted(Install(res, c, x, [type |-> "Pixmap", owner |-> c,
                                                  storage |-> s])))
      BY <1>1 DEF CreatePixmap
    <2>3. s \in Storages
      BY <1>0, FreshStorageFacts
    <2> HIDE DEF s
    <2> DEFINE u == Accounted(Install(res, c, x, [type |-> "Pixmap", owner |-> c,
                                                  storage |-> s]))
    <2>4. x \in Xids /\ x \notin DOMAIN res.table
      BY <2>1, NewIdsFacts DEF Serves
    <2>5. res.drawableBytes < Limits.drawableBytes
      BY <2>1 DEF RoomForPixmap
    <2>6. Becomes(res, u, {x}, {c})
      BY <1>0, <2>3, <2>4, <2>5, PixmapBecomes
    <2>7. Changes(u)
      BY <2>2
    <2> HIDE DEF u
    <2> QED
      BY <2>1, <2>6, <2>7, NewRequests
  <1>2. CASE NameWindowPixmap(c)
    <2>1. Serves(c, "NameWindowPixmap")
      BY <1>2 DEF NameWindowPixmap
    <2>2. PICK x \in NewIds(c, "Pixmap"), w \in Windows(res.table) \ {Root} :
            Changes(NamedWindowPixmap(res, c, x, w))
      BY <1>2 DEF NameWindowPixmap
    <2>3. x \in Xids /\ x \notin DOMAIN res.table /\ x \in Ids(c)
      BY <2>1, NewIdsFacts DEF Serves
    <2>4. Makes(res, NamedWindowPixmap(res, c, x, w), {x}, c)
      BY <1>0, <2>3, NamedWindowMakes
    <2>5. Makes(res, NamedWindowPixmap(res, c, x, w), Ids(c), c)
      BY <2>3, <2>4 DEF Makes
    <2> QED
      BY <2>1, <2>2, <2>5, ChangesRequests
  <1>3. CASE FreeAny(c)
    <2>1. Serves(c, "Free")
      BY <1>3 DEF FreeAny
    <2>2. PICK x \in DOMAIN res.table : /\ res.table[x].type # "Window"
                                        /\ Changes(FreeResource(res, x))
      BY <1>3 DEF FreeAny
    <2>3. Becomes(res, FreeResource(res, x), {}, {c})
      BY <1>0, <2>2, FreeResourceBecomes
    <2> QED
      BY <2>1, <2>2, <2>3, GoneRequests
  <1> QED
    BY <1>1, <1>2, <1>3

-----------------------------------------------------------------------------
(* Drawing *)

\* A request that paints keeps within bounds.
LEMMA PaintsRequests ==
    ASSUME TableInv, NEW c \in Clients, NEW k, Serves(c, k), NEW d, Paintable(res.table, d),
           Paints(res, d)
    PROVE  Requests(c)
  <1>1. Whole(res) /\ IsDrawable(res.table, d)
    BY DEF TableInv, Paintable
  <1>2. PICK cells \in SUBSET Cells : Changes(AddDamage(WithStorage(res, d), d, cells))
    BY DEF Paints
  <1>3. Harmless(res, AddDamage(WithStorage(res, d), d, cells), {c})
    BY <1>1, PaintsHarmless
  <1> QED
    BY <1>2, <1>3, HarmlessRequests

\* So does one that gives its source storage before.
LEMMA PaintsAfterRequests ==
    ASSUME TableInv, NEW c \in Clients, NEW k, Serves(c, k), NEW from, NEW d,
           Paintable(res.table, from), Paintable(res.table, d),
           Paints(WithStorage(res, from), d)
    PROVE  Requests(c)
  <1> DEFINE s == WithStorage(res, from)
  <1>1. Whole(res) /\ IsDrawable(res.table, d) /\ IsDrawable(res.table, from)
    BY DEF TableInv, Paintable
  <1>2. PICK cells \in SUBSET Cells : Changes(AddDamage(WithStorage(s, d), d, cells))
    BY DEF Paints
  <1>3. s = WithStorage(res, from)
    OBVIOUS
  <1> HIDE DEF s
  <1>4. Harmless(res, AddDamage(WithStorage(s, d), d, cells), {c})
    BY <1>1, <1>3, PaintsAfterHarmless
  <1> QED
    BY <1>2, <1>4, HarmlessRequests

\* So do all requests that draw.
LEMMA DrawingActions ==
    ASSUME TableInv, NEW c \in Clients,
           \/ PolyDraw(c) \/ PutImage(c) \/ ShmPutImage(c) \/ PolyFillRectangle(c)
           \/ DrawText(c) \/ CopyArea(c) \/ ClearArea(c) \/ RenderComposite(c)
           \/ RenderFillRectangles(c)
    PROVE  Requests(c)
  <1>1. CASE PolyDraw(c)
    BY <1>1, PaintsRequests DEF PolyDraw
  <1>2. CASE PutImage(c)
    BY <1>2, PaintsRequests DEF PutImage
  <1>3. CASE ShmPutImage(c)
    BY <1>3, PaintsRequests DEF ShmPutImage
  <1>4. CASE PolyFillRectangle(c)
    BY <1>4, PaintsRequests DEF PolyFillRectangle
  <1>5. CASE DrawText(c)
    BY <1>5, PaintsRequests DEF DrawText
  <1>6. CASE CopyArea(c)
    BY <1>6, PaintsAfterRequests DEF CopyArea
  <1>7. CASE ClearArea(c)
    BY <1>7, PaintsRequests DEF ClearArea
  <1>8. CASE RenderComposite(c)
    <2>1. Serves(c, "RenderComposite")
      BY <1>8 DEF RenderComposite
    <2>2. PICK from \in OfType(res.table, "Picture"), to \in OfType(res.table, "Picture") :
            LET d == res.table[to].drawable
                source == res.table[from].drawable
            IN  /\ d # None
                /\ Paintable(res.table, d)
                /\ source # None => Paintable(res.table, source)
                /\ Paints(IF source = None THEN res ELSE WithStorage(res, source), d)
      BY <1>8 DEF RenderComposite
    <2> DEFINE d == res.table[to].drawable
               source == res.table[from].drawable
    <2>3. CASE source = None
      BY <2>1, <2>2, <2>3, PaintsRequests
    <2>4. CASE source # None
      BY <2>1, <2>2, <2>4, PaintsAfterRequests
    <2> QED
      BY <2>3, <2>4
  <1>9. CASE RenderFillRectangles(c)
    BY <1>9, PaintsRequests DEF RenderFillRectangles
  <1> QED
    BY <1>1, <1>2, <1>3, <1>4, <1>5, <1>6, <1>7, <1>8, <1>9

-----------------------------------------------------------------------------
(* Attributes, properties, maps that are not deferred *)

\* So does ChangeWindowAttributes.
LEMMA AttributeActions ==
    ASSUME TableInv, NEW c \in Clients, ChangeWindowAttributes(c)
    PROVE  Requests(c)
  <1>0. Whole(res) /\ Serves(c, "ChangeWindowAttributes")
    BY DEF TableInv, ChangeWindowAttributes
  <1>1. PICK w \in Windows(res.table) :
          \/ \E x \in OfType(res.table, "Cursor") :
                Changes([res EXCEPT !.table[w].inherit = FALSE,
                                    !.table[w].cursor = x,
                                    !.table[w].image = res.table[x].image])
          \/ Changes([res EXCEPT !.table[w].inherit = TRUE,
                                 !.table[w].cursor = None,
                                 !.table[w].image = 0])
          \/ Changes([res EXCEPT !.table[w].events = @ \ {c}])
          \/ Changes([res EXCEPT !.table[w].events = @ \union {c}])
    BY DEF ChangeWindowAttributes
  <1>2. ASSUME NEW x \in OfType(res.table, "Cursor"),
               Changes([res EXCEPT !.table[w].inherit = FALSE,
                                   !.table[w].cursor = x,
                                   !.table[w].image = res.table[x].image])
        PROVE  Requests(c)
    <2> DEFINE n == res.table[x].image
    <2>1. res.table[x] \in CursorRecord /\ x \in Places /\ x # Root
      <3>1. x \in DOMAIN res.table /\ res.table[x] \in Resource /\ res.table[x].type = "Cursor"
            /\ x \in Places
        BY <1>0, WholeFacts DEF OfType
      <3>2. RootStands(res.table)
        BY <1>0, WholeFacts
      <3> QED
        BY <3>1, <3>2, ResourceKinds DEF RootStands
    <2>2. n \in Nat /\ x \in Xids \union {None}
      BY <2>1 DEF CursorRecord, Places
    <2> HIDE DEF n
    <2> DEFINE u == [res EXCEPT !.table[w].inherit = FALSE, !.table[w].cursor = x,
                                !.table[w].image = n]
    <2>3. Harmless(res, u, {c})
      BY <1>0, <2>2, AttributesHarmless
    <2>4. Changes(u)
      BY <1>2 DEF n
    <2> HIDE DEF u
    <2> QED
      BY <1>0, <2>3, <2>4, HarmlessRequests
  <1>3. CASE Changes([res EXCEPT !.table[w].inherit = TRUE, !.table[w].cursor = None,
                                 !.table[w].image = 0])
    <2> DEFINE u == [res EXCEPT !.table[w].inherit = TRUE, !.table[w].cursor = None,
                                !.table[w].image = 0]
    <2>1. Harmless(res, u, {c})
      BY <1>0, AttributesHarmless
    <2>2. Changes(u)
      BY <1>3
    <2> HIDE DEF u
    <2> QED
      BY <1>0, <2>1, <2>2, HarmlessRequests
  <1>4. res.table[w].events \in SUBSET Clients
    <2>1. res.table[w] \in WindowRecord
      BY <1>0, WindowsTouched
    <2> QED
      BY <2>1 DEF WindowRecord
  <1>5. ASSUME NEW e, e = res.table[w].events \ {c} \/ e = res.table[w].events \union {c},
               Changes([res EXCEPT !.table[w].events = e])
        PROVE  Requests(c)
    <2>1. e \in SUBSET Clients /\ e \subseteq res.table[w].events \union {c}
      BY <1>4, <1>5
    <2> DEFINE u == [res EXCEPT !.table[w].events = e]
    <2>2. Harmless(res, u, {c})
      BY <1>0, <2>1, EventsHarmless
    <2>3. Changes(u)
      BY <1>5
    <2> HIDE DEF u
    <2> QED
      BY <1>0, <2>2, <2>3, HarmlessRequests
  <1>6. CASE Changes([res EXCEPT !.table[w].events = @ \ {c}])
    BY <1>5, <1>6
  <1>7. CASE Changes([res EXCEPT !.table[w].events = @ \union {c}])
    BY <1>5, <1>7
  <1> QED
    BY <1>1, <1>2, <1>3, <1>6, <1>7

\* So does MapSubwindows.
LEMMA MapSubwindowsAction ==
    ASSUME TableInv, NEW c \in Clients, MapSubwindows(c)
    PROVE  Requests(c)
  <1>0. Whole(res) /\ Serves(c, "MapSubwindows")
    BY DEF TableInv, MapSubwindows
  <1>1. PICK w \in Windows(res.table), mapped \in BOOLEAN :
          Changes(LocalMaps(res, res.table[w].children, mapped)[Len(res.table[w].children)])
    BY DEF MapSubwindows
  <1> DEFINE u == LocalMaps(res, res.table[w].children, mapped)[Len(res.table[w].children)]
  <1>2. Harmless(res, u, {c})
    BY <1>0, MapSubwindowsHarmless
  <1>3. Changes(u)
    BY <1>1
  <1> HIDE DEF u
  <1> QED
    BY <1>0, <1>2, <1>3, HarmlessRequests

\* So does GetProperty, which may delete.
LEMMA GetPropertyAction ==
    ASSUME TableInv, NEW c \in Clients, GetProperty(c)
    PROVE  Requests(c)
  <1>0. Whole(res) /\ Serves(c, "GetProperty")
    BY DEF TableInv, GetProperty
  <1>1. PICK w \in Windows(res.table), a \in Atoms : Changes(WithoutProperty(res, w, a))
    BY DEF GetProperty
  <1>2. Becomes(res, WithoutProperty(res, w, a), {}, {c})
    BY <1>0, WithoutPropertyBecomes
  <1> QED
    BY <1>0, <1>1, <1>2, GoneRequests

-----------------------------------------------------------------------------
(* Selections, grabs, redirections, event selections *)

\* A request that changes what refers to windows only for the requester keeps
\* within bounds.
LEMMA SideRequests ==
    ASSUME TableInv, NEW c \in Clients, NEW k, Serves(c, k), Served,
           res' = res, queue' = queue, OnlyOf(c)
    PROVE  Requests(c)
  <1>1. Whole(res)
    BY DEF TableInv
  <1>2. Harmless(res, res, {c})
    BY <1>1, NothingHarmless
  <1>3. Makes(res, res, Ids(c), c)
    BY <1>2, HarmlessMakes
  <1> QED
    BY <1>3 DEF Serves, Served, Requests

\* So do the requests on selections, grabs, event selections and redirections.
LEMMA SideActions ==
    ASSUME TableInv, NEW c \in Clients,
           \/ SetSelectionOwner(c) \/ SelectSelectionInput(c) \/ GrabPointer(c)
           \/ UngrabPointer(c) \/ RandrSelectInput(c) \/ Redirect(c) \/ Unredirect(c)
    PROVE  Requests(c)
  <1>0. \A d \in Clients : Nobody[1] # d
    <2>1. 0 \notin Clients
      BY XidFacts
    <2> QED
      BY <2>1 DEF Nobody
  <1>1. CASE SetSelectionOwner(c)
    <2>1. OnlyOf(c) /\ Served /\ res' = res /\ queue' = queue
      BY <1>0, <1>1 DEF SetSelectionOwner, OnlyOf
    <2> QED
      BY <1>1, <2>1, SideRequests DEF SetSelectionOwner
  <1>2. CASE SelectSelectionInput(c)
    <2>1. OnlyOf(c) /\ Served /\ res' = res /\ queue' = queue
      BY <1>2 DEF SelectSelectionInput, OnlyOf, SymDiff
    <2> QED
      BY <1>2, <2>1, SideRequests DEF SelectSelectionInput
  <1>3. CASE GrabPointer(c)
    <2>1. OnlyOf(c) /\ Served /\ res' = res /\ queue' = queue
      BY <1>3 DEF GrabPointer, OnlyOf
    <2> QED
      BY <1>3, <2>1, SideRequests DEF GrabPointer
  <1>4. CASE UngrabPointer(c)
    <2>1. OnlyOf(c) /\ Served /\ res' = res /\ queue' = queue
      BY <1>0, <1>4 DEF UngrabPointer, OnlyOf
    <2> QED
      BY <1>4, <2>1, SideRequests DEF UngrabPointer
  <1>5. CASE RandrSelectInput(c)
    <2>1. OnlyOf(c) /\ Served /\ res' = res /\ queue' = queue
      BY <1>5 DEF RandrSelectInput, OnlyOf, SymDiff
    <2> QED
      BY <1>5, <2>1, SideRequests DEF RandrSelectInput
  <1>6. CASE Redirect(c)
    <2>1. OnlyOf(c) /\ Served /\ res' = res /\ queue' = queue
      BY <1>6 DEF Redirect, OnlyOf
    <2> QED
      BY <1>6, <2>1, SideRequests DEF Redirect
  <1>7. CASE Unredirect(c)
    <2>1. OnlyOf(c) /\ Served /\ res' = res /\ queue' = queue
      BY <1>7 DEF Unredirect, OnlyOf
    <2> QED
      BY <1>7, <2>1, SideRequests DEF Unredirect
  <1> QED
    BY <1>1, <1>2, <1>3, <1>4, <1>5, <1>6, <1>7

-----------------------------------------------------------------------------
(* Requests that may be deferred *)

\* A deferred request, as defer_lifecycle queues it.
Op(kind, c, w, value) ==
    [kind |-> kind, client |-> c, window |-> w, value |-> value, cancelled |-> FALSE]

\* A request that is deferred with its own identifiers keeps within bounds.
LEMMA DefersRequests ==
    ASSUME TableInv, NEW c \in Clients, NEW k, Serves(c, k), integrated,
           NEW kind \in Kinds \ {"Cleanup"}, NEW w \in Xids, NEW value,
           Meant(Op(kind, c, w, value)),
           kind = "Create" => value.xid[1] = clients[c] /\ value.xid \notin DOMAIN res.table,
           Defers(c, kind, w, value), UNCHANGED <<res, sideVars>>
    PROVE  Requests(c)
  <1> DEFINE op == Op(kind, c, w, value)
  <1>1. /\ IsOp(op) /\ op.kind = kind /\ op.client = c /\ op.value = value
        /\ op.cancelled = FALSE
    BY DEF Op, IsOp
  <1>2. queue' = Append(queue, op)
    BY DEF Defers, Op
  <1>3. Meant(op)
    OBVIOUS
  <1> HIDE DEF op
  <1>4. clients[c] # 0
    BY DEF Serves
  <1>5. Standing(op, res.table, clients) /\ Cleaning(op, res.table, clients, arrived, pendingBases)
    BY <1>1, <1>4 DEF Standing, Cleaning
  <1>6. Fine(op, res.table, clients, arrived, pendingBases)
    BY <1>1, <1>3, <1>5 DEF Fine
  <1>7. Deferring(c)
    BY <1>1, <1>2, <1>6 DEF Deferring
  <1>8. Harmless(res, res, {c})
    BY NothingHarmless DEF TableInv
  <1>9. Makes(res, res, Ids(c), c)
    BY <1>8, HarmlessMakes
  <1> QED
    BY <1>7, <1>9 DEF Serves, Defers, Served, Requests, OnlyOf, sideVars

\* A window that is not the root has an identifier of a client.
LEMMA WindowIds ==
    ASSUME TableInv, NEW w \in Windows(res.table), w # Root
    PROVE  w \in Xids
  <1>1. w \in Places
    BY WholeFacts DEF TableInv, Windows, OfType
  <1> QED
    BY <1>1 DEF Places

\* A top-level window has an identifier of a client.
LEMMA CandidateIds ==
    ASSUME TableInv, NEW w, IsPolicyCandidate(res.table, w)
    PROVE  w \in Xids /\ w \in Windows(res.table) \ {Root}
  <1>1. w \in Windows(res.table) /\ res.table[w].parent = Root
    BY DEF IsPolicyCandidate
  <1>2. res.table[Root].parent = None /\ None # Root
    BY WholeFacts, XidFacts DEF TableInv, RootStands
  <1> QED
    BY <1>1, <1>2, WindowIds

\* CreateWindow keeps within bounds, deferred or not.
LEMMA CreateWindowAction ==
    ASSUME TableInv, NEW c \in Clients, CreateWindow(c)
    PROVE  Requests(c)
  <1>0. Whole(res) /\ Serves(c, "CreateWindow") /\ clients[c] # 0
    BY DEF TableInv, CreateWindow, Serves
  <1>1. PICK x \in NewIds(c, "Window"), parent \in Windows(res.table),
             class \in {"InputOutput", "InputOnly"},
             cursor \in OfType(res.table, "Cursor") \union {None}, events \in BOOLEAN :
          /\ class = "InputOutput" => res.table[parent].class = "InputOutput"
          /\ LET spec == [xid |-> x, parent |-> parent, class |-> class,
                          cursor |-> cursor, events |-> events,
                          image |-> IF cursor = None THEN 0
                                    ELSE res.table[cursor].image]
             IN  IF integrated /\ parent = Root /\ class = "InputOutput"
                 THEN Defers(c, "Create", x, spec) /\ UNCHANGED <<res, sideVars>>
                 ELSE Changes(CreateWindowIn(res, c, spec))
    BY DEF CreateWindow
  <1> DEFINE n == IF cursor = None THEN 0 ELSE res.table[cursor].image
             spec == [xid |-> x, parent |-> parent, class |-> class, cursor |-> cursor,
                      events |-> events, image |-> n]
  <1>2. n \in Nat /\ cursor \in Xids \union {None}
    <2>1. CASE cursor = None
      BY <2>1
    <2>2. CASE cursor # None
      <3>1. cursor \in DOMAIN res.table /\ res.table[cursor].type = "Cursor"
        BY <2>2 DEF OfType
      <3>2. res.table[cursor] \in CursorRecord
        BY <1>0, <3>1, WholeFacts, ResourceKinds
      <3>3. cursor # Root
        BY <1>0, <3>1, WholeFacts DEF RootStands
      <3>4. cursor \in Xids
        BY <1>0, <3>1, <3>3, WholeFacts DEF Places
      <3> QED
        BY <2>2, <3>2, <3>4 DEF CursorRecord
    <2> QED
      BY <2>1, <2>2
  <1>3. IF integrated /\ parent = Root /\ class = "InputOutput"
        THEN Defers(c, "Create", x, spec) /\ UNCHANGED <<res, sideVars>>
        ELSE Changes(CreateWindowIn(res, c, spec))
    BY <1>1
  <1>4. /\ spec.xid = x /\ spec.parent = parent /\ spec.class = class
        /\ spec.cursor = cursor /\ spec.events = events /\ spec.image = n
    OBVIOUS
  <1> HIDE DEF n, spec
  <1>5. x \in Xids /\ x \notin DOMAIN res.table /\ x[1] = clients[c]
    BY <1>0, NewIdsFacts
  <1>6. CASE integrated /\ parent = Root /\ class = "InputOutput"
    <2>1. Meant(Op("Create", c, x, spec))
      BY <1>2, <1>4, <1>5, <1>6 DEF Meant, Op
    <2>2. Defers(c, "Create", x, spec) /\ UNCHANGED <<res, sideVars>>
      BY <1>3, <1>6
    <2> QED
      BY <1>0, <1>4, <1>5, <1>6, <2>1, <2>2, DefersRequests DEF Kinds
  <1>7. CASE ~(integrated /\ parent = Root /\ class = "InputOutput")
    <2>1. Creatable(res.table, spec)
      BY <1>1, <1>2, <1>4, <1>5 DEF Creatable
    <2>2. Becomes(res, CreateWindowIn(res, c, spec), {x}, {c})
      BY <1>0, <1>4, <2>1, CreateWindowBecomes
    <2>3. Changes(CreateWindowIn(res, c, spec))
      BY <1>3, <1>7
    <2> QED
      BY <1>0, <2>2, <2>3, NewRequests
  <1> QED
    BY <1>6, <1>7

\* So does DestroyWindow.
LEMMA DestroyWindowAction ==
    ASSUME TableInv, NEW c \in Clients, DestroyWindow(c)
    PROVE  Requests(c)
  <1>0. Whole(res) /\ Serves(c, "DestroyWindow") /\ clients[c] # 0
    BY DEF TableInv, DestroyWindow, Serves
  <1>1. PICK w \in Windows(res.table) \ {Root} :
          LET t == res.table
              plan == DestroyPlan(t, w)
              gone == Subtree(t, w)
              exposed == IF t[w].mapState = "Viewable" /\ t[w].class = "InputOutput"
                         THEN AddDamage(res, t[w].parent, Cells) ELSE res
          IN  IF integrated /\ IsPolicyCandidate(t, w)
              THEN Defers(c, "Destroy", w, plan) /\ UNCHANGED <<res, sideVars>>
              ELSE /\ Served
                   /\ res' = DestroyTree(exposed, w)
                   /\ owner' = OwnerWithout(owner, {}, gone)
                   /\ watchers' = WatchersWithout({}, gone)
                   /\ randr' = RandrWithout({}, gone)
                   /\ redirects' = RedirectsWithout({}, gone)
                   /\ UNCHANGED <<grab, queue>>
    BY DEF DestroyWindow
  <1> DEFINE t == res.table
             plan == DestroyPlan(t, w)
             gone == Subtree(t, w)
             exposed == IF t[w].mapState = "Viewable" /\ t[w].class = "InputOutput"
                        THEN AddDamage(res, t[w].parent, Cells) ELSE res
  <1>2. CASE integrated /\ IsPolicyCandidate(t, w)
    <2>1. Defers(c, "Destroy", w, plan) /\ UNCHANGED <<res, sideVars>> /\ w \in Xids
      BY <1>1, <1>2, WindowIds
    <2> HIDE DEF plan
    <2>2. Meant(Op("Destroy", c, w, plan))
      BY <2>1 DEF Meant, Op
    <2> QED
      BY <1>0, <1>2, <2>1, <2>2, DefersRequests DEF Kinds
  <1>3. CASE ~(integrated /\ IsPolicyCandidate(t, w))
    <2>1. /\ Served /\ res' = DestroyTree(exposed, w)
          /\ owner' = OwnerWithout(owner, {}, gone)
          /\ watchers' = WatchersWithout({}, gone)
          /\ randr' = RandrWithout({}, gone)
          /\ redirects' = RedirectsWithout({}, gone)
          /\ UNCHANGED <<grab, queue>>
      BY <1>1, <1>3
    <2>2. exposed = res \/ exposed = AddDamage(res, t[w].parent, Cells)
      OBVIOUS
    <2> HIDE DEF exposed, gone
    <2>3. Becomes(res, DestroyTree(exposed, w), {}, {c})
      BY <1>0, <2>2, ExposedDestroyBecomes
    <2>4. Makes(res, res', Ids(c), c)
      BY <2>1, <2>3, NothingMakes
    <2>5. \A d \in Clients : Nobody[1] # d
      <3>1. 0 \notin Clients
        BY XidFacts
      <3> QED
        BY <3>1 DEF Nobody
    <2>6. OnlyOf(c)
      BY <2>1, <2>5 DEF OnlyOf, OwnerWithout, WatchersWithout, RandrWithout, RedirectsWithout
    <2> QED
      BY <1>0, <2>1, <2>4, <2>6 DEF Serves, Served, Requests
  <1> QED
    BY <1>2, <1>3

\* So do MapWindow and UnmapWindow.
LEMMA MapWindowAction ==
    ASSUME TableInv, NEW c \in Clients, MapWindow(c)
    PROVE  Requests(c)
  <1>0. Whole(res) /\ Serves(c, "MapWindow")
    BY DEF TableInv, MapWindow
  <1>1. PICK w \in Windows(res.table) \ {Root}, mapped \in BOOLEAN :
          \/ integrated /\ Defers(c, "Map", w, mapped) /\ UNCHANGED <<res, sideVars>>
          \/ Changes(LocalMap(res, w, mapped))
    BY DEF MapWindow
  <1>2. CASE integrated /\ Defers(c, "Map", w, mapped) /\ UNCHANGED <<res, sideVars>>
    <2>1. w \in Xids
      BY WindowIds
    <2>2. Meant(Op("Map", c, w, mapped))
      BY <2>1 DEF Meant, Op
    <2> QED
      BY <1>0, <1>2, <2>1, <2>2, DefersRequests DEF Kinds
  <1>3. CASE Changes(LocalMap(res, w, mapped))
    <2>1. Harmless(res, LocalMap(res, w, mapped), {c})
      BY <1>0, LocalMapHarmless
    <2> QED
      BY <1>0, <1>3, <2>1, HarmlessRequests
  <1> QED
    BY <1>1, <1>2, <1>3

\* So does ConfigureWindow.
LEMMA ConfigureWindowAction ==
    ASSUME TableInv, NEW c \in Clients, ConfigureWindow(c)
    PROVE  Requests(c)
  <1>0. Whole(res) /\ Serves(c, "ConfigureWindow")
    BY DEF TableInv, ConfigureWindow
  <1>1. PICK w \in Windows(res.table) \ {Root}, resize \in BOOLEAN,
             stack \in {"Above", "Below", "None"} :
          IF IsPolicyCandidate(res.table, w)
          THEN integrated /\ Defers(c, "Configure", w, resize) /\ UNCHANGED <<res, sideVars>>
          ELSE Changes(IF res.table[w].class = "InputOutput"
                       THEN AddDamage(Configured(res, w, resize, stack),
                                      res.table[w].parent, Cells)
                       ELSE Configured(res, w, resize, stack))
    BY DEF ConfigureWindow
  <1>2. CASE IsPolicyCandidate(res.table, w)
    <2>1. /\ w \in Xids /\ integrated /\ Defers(c, "Configure", w, resize)
          /\ UNCHANGED <<res, sideVars>>
      BY <1>1, <1>2, WindowIds
    <2>2. Meant(Op("Configure", c, w, resize))
      BY <2>1 DEF Meant, Op
    <2> QED
      BY <1>0, <2>1, <2>2, DefersRequests DEF Kinds
  <1>3. CASE ~IsPolicyCandidate(res.table, w)
    <2> DEFINE s == Configured(res, w, resize, stack)
               p == res.table[w].parent
    <2>1. Changes(IF res.table[w].class = "InputOutput" THEN AddDamage(s, p, Cells) ELSE s)
      BY <1>1, <1>3
    <2>2. Harmless(res, AddDamage(s, p, Cells), {c}) /\ Harmless(res, s, {c})
      BY <1>0, ConfigureHarmless
    <2> HIDE DEF s, p
    <2> QED
      BY <1>0, <2>1, <2>2, HarmlessRequests
  <1> QED
    BY <1>2, <1>3

\* The bytes of a property that is there, or none.
LEMMA OldSizeFacts ==
    ASSUME NEW r, Whole(r), NEW w \in Windows(r.table), NEW a
    PROVE  OldSize(r, w, a) \in Nat
  <1>1. r.table[w] \in WindowRecord
    BY WindowsTouched
  <1>2. r.table[w].properties \in Stores
    BY <1>1 DEF WindowRecord
  <1> QED
    BY <1>2, StoresFacts DEF OldSize

\* So do ChangeProperty and DeleteProperty.
LEMMA PropertyActions ==
    ASSUME TableInv, NEW c \in Clients, ChangeProperty(c) \/ DeleteProperty(c)
    PROVE  Requests(c)
  <1>0. Whole(res)
    BY DEF TableInv
  <1>1. CASE ChangeProperty(c)
    <2>1. Serves(c, "ChangeProperty")
      BY <1>1 DEF ChangeProperty
    <2>2. PICK w \in Windows(res.table), a \in Atoms, append \in BOOLEAN,
               bytes \in 1..Limits.property :
            LET size == IF append THEN OldSize(res, w, a) + bytes ELSE bytes
            IN  /\ PropertyFits(res, w, a, size)
                /\ IF integrated /\ a = "STATE" /\ IsPolicyCandidate(res.table, w)
                   THEN /\ Defers(c, "Property", w, size)
                        /\ UNCHANGED <<res, sideVars>>
                   ELSE Changes(WithProperty(res, w, a, size))
      BY <1>1 DEF ChangeProperty
    <2> DEFINE size == IF append THEN OldSize(res, w, a) + bytes ELSE bytes
    <2>3. size \in Nat
      <3>1. bytes \in Nat
        BY ResourcesAssumption
      <3> QED
        BY <1>0, <3>1, OldSizeFacts
    <2>4. /\ PropertyFits(res, w, a, size)
          /\ IF integrated /\ a = "STATE" /\ IsPolicyCandidate(res.table, w)
             THEN Defers(c, "Property", w, size) /\ UNCHANGED <<res, sideVars>>
             ELSE Changes(WithProperty(res, w, a, size))
      BY <2>2
    <2> HIDE DEF size
    <2>5. CASE integrated /\ a = "STATE" /\ IsPolicyCandidate(res.table, w)
      <3>1. w \in Xids
        BY <2>5, CandidateIds
      <3>2. Meant(Op("Property", c, w, size))
        BY <2>3, <3>1 DEF Meant, Op
      <3> QED
        BY <2>1, <2>4, <2>5, <3>1, <3>2, DefersRequests DEF Kinds
    <2>6. CASE ~(integrated /\ a = "STATE" /\ IsPolicyCandidate(res.table, w))
      <3>1. Becomes(res, WithProperty(res, w, a, size), {}, {c})
        BY <1>0, <2>3, <2>4, WithPropertyBecomes
      <3> QED
        BY <2>1, <2>4, <2>6, <3>1, GoneRequests
    <2> QED
      BY <2>5, <2>6
  <1>2. CASE DeleteProperty(c)
    <2>1. Serves(c, "DeleteProperty")
      BY <1>2 DEF DeleteProperty
    <2>2. PICK w \in Windows(res.table), a \in Atoms :
            IF integrated /\ a = "STATE" /\ IsPolicyCandidate(res.table, w)
            THEN Defers(c, "Property", w, 0) /\ UNCHANGED <<res, sideVars>>
            ELSE Changes(WithoutProperty(res, w, a))
      BY <1>2 DEF DeleteProperty
    <2>3. CASE integrated /\ a = "STATE" /\ IsPolicyCandidate(res.table, w)
      <3>1. w \in Xids
        BY <2>3, CandidateIds
      <3>2. Meant(Op("Property", c, w, 0))
        BY <3>1 DEF Meant, Op
      <3> QED
        BY <2>1, <2>2, <2>3, <3>1, <3>2, DefersRequests DEF Kinds
    <2>4. CASE ~(integrated /\ a = "STATE" /\ IsPolicyCandidate(res.table, w))
      <3>1. Becomes(res, WithoutProperty(res, w, a), {}, {c})
        BY <1>0, WithoutPropertyBecomes
      <3> QED
        BY <2>1, <2>2, <2>4, <3>1, GoneRequests
    <2> QED
      BY <2>3, <2>4
  <1> QED
    BY <1>1, <1>2

-----------------------------------------------------------------------------
(* Clients arrive and leave *)

\* A client that is given a free base keeps the invariant (allocate_resource_base).
LEMMA AcceptKeeps ==
    ASSUME TableInv, Accept
    PROVE  TableInv'
  <1> DEFINE b == Min(FreeBases)
             t == res.table
             gl == Come(clients, arrived, b)
  <1>1. /\ Whole(res) /\ Based(clients, arrived, pendingBases)
        /\ Queued(queue, t, clients, arrived, pendingBases) /\ Held(t, clients, queue)
        /\ workload \in Workloads /\ Alone
    BY DEF TableInv
  <1>2. /\ arrived' = arrived + 1 /\ clients' = gl /\ FreeBases # {}
        /\ arrived < workload.clients
        /\ UNCHANGED <<integrated, workload, res, pendingBases, sideVars, queue>>
    BY DEF Accept, Come
  <1>3. b \in FreeBases
    <2>1. FreeBases \subseteq Nat
      BY ResourcesAssumption DEF FreeBases
    <2>2. \E x \in FreeBases : \A y \in FreeBases : x <= y
      BY <1>2, <2>1, LeastNumber
    <2> QED
      BY <2>2 DEF Min
  <1>4. b \in Bases /\ b \notin pendingBases /\ \A c \in Clients : clients[c] # b
    BY <1>3 DEF FreeBases
  <1>5. arrived < MaxClients /\ arrived \in Nat /\ arrived + 1 <= workload.clients
    <2>1. workload.clients \in 0..MaxClients /\ MaxClients \in Nat
      BY <1>1, ResourcesAssumption
    <2>2. arrived \in Nat
      BY <1>1, <2>1 DEF Based
    <2> QED
      BY <1>2, <2>1, <2>2
  <1> HIDE DEF b
  <1>6. /\ Based(gl, arrived + 1, pendingBases)
        /\ \A c \in Clients : c # arrived + 1 => gl[c] = clients[c]
        /\ \A c \in Clients : clients[c] # 0 => c # arrived + 1
        /\ gl[arrived + 1] = b /\ arrived + 1 \in Clients
    BY <1>1, <1>4, <1>5, BasedComes
  <1> HIDE DEF t, gl
  <1>7. Queued(queue, t, gl, arrived + 1, pendingBases)
    <2>1. \A op \in Range(queue) : Fine(op, t, gl, arrived + 1, pendingBases)
      BY <1>1, <1>5, <1>6, FineComes DEF Queued
    <2> QED
      BY <1>1, <2>1 DEF Queued
  <1>8. Held(t, gl, queue)
    <2>1. t \in Tables /\ RootStands(t)
      BY <1>1, WholeFacts DEF t
    <2> QED
      BY <1>1, <1>6, <2>1, HeldComes
  <1>9. b # 0
    BY <1>4, ResourcesAssumption
  <1>10. \A c \in Clients : gl[c] = 0 => clients[c] = 0
    BY <1>6, <1>9
  <1>11. Alone'
    <2> SUFFICES ASSUME ~integrated
                 PROVE  /\ queue = <<>>
                        /\ Sides(gl, owner, grab, watchers, randr, redirects)
                        /\ Listening(t, gl)
      BY <1>2 DEF Alone, t, sideVars
    <2>1. /\ queue = <<>>
          /\ Sides(clients, owner, grab, watchers, randr, redirects)
          /\ Listening(t, clients)
      BY <1>1 DEF Alone, t
    <2>2. Sides(gl, owner, grab, watchers, randr, redirects)
      BY <1>10, <2>1 DEF Sides
    <2>3. Listening(t, gl)
      <3>1. SUFFICES ASSUME NEW w \in Windows(t), NEW c \in t[w].events  PROVE gl[c] # 0
        BY DEF Listening
      <3>2. t[w] \in WindowRecord
        BY <1>1, WindowsTouched DEF t
      <3>3. c \in Clients /\ clients[c] # 0
        BY <2>1, <3>2 DEF Listening, WindowRecord
      <3> QED
        BY <1>10, <3>3
    <2> QED
      BY <2>1, <2>2, <2>3
  <1>12. workload' \in Workloads /\ arrived' <= workload'.clients
    BY <1>1, <1>2, <1>5
  <1> QED
    BY <1>1, <1>2, <1>6, <1>7, <1>8, <1>11, <1>12 DEF TableInv, t

\* A change for nobody is one for anybody.
LEMMA EvolvesMore ==
    ASSUME NEW t, NEW u, Evolves(t, u, {}, {}), NEW cs
    PROVE  Evolves(t, u, {}, cs)
  BY DEF Evolves

\* The two tables of a client that leaves: prepared, and cleaned.
Prepared(r, u, c, roots) ==
    /\ Whole(u) /\ Evolves(r.table, u.table, {}, {})
    /\ Root \notin roots /\ Reaches(u.table, roots, c)
Cleaned(r, u, c) ==
    /\ Whole(u) /\ Evolves(r.table, u.table, {}, {})
    /\ \A x \in DOMAIN u.table : u.table[x].owner # c
    /\ \A w \in Windows(u.table) : c \notin u.table[w].events

\* Before the cleanup the trees of its roots hold all windows of the leaver
\* (prepare_client_cleanup).
LEMMA PreparedFacts ==
    ASSUME NEW r, Whole(r), NEW c \in Clients
    PROVE  Prepared(r, PrepareCleanup(r, c), c, CleanupRoots(r, c))
  <1> DEFINE P == PrepareCleanup(r, c)
             roots == CleanupRoots(r, c)
  <1>1. Harmless(r, P, {})
    BY PrepareHarmless
  <1>2. Reaches(r.table, roots, c) /\ Root \notin roots
    BY RootsReach
  <1> HIDE DEF P, roots
  <1>3. Whole(P) /\ Evolves(r.table, P.table, {}, {})
    BY <1>1 DEF Harmless
  <1>4. Rooted(r.table) /\ Rooted(P.table)
    BY <1>3, WholeFacts
  <1>5. Reaches(P.table, roots, c)
    BY <1>2, <1>3, <1>4, TreesStay
  <1>6. Prepared(r, P, c, roots)
    BY <1>2, <1>3, <1>5 DEF Prepared
  <1> QED
    BY <1>6 DEF P, roots

\* After it nothing is the leaver's, and it listens to no window
\* (commit_client_cleanup).
LEMMA CleanedFacts ==
    ASSUME NEW r, Whole(r), NEW c \in Clients
    PROVE  Cleaned(r, CommitCleanup(PrepareCleanup(r, c), c, CleanupRoots(r, c)), c)
  <1> DEFINE P == PrepareCleanup(r, c)
             roots == CleanupRoots(r, c)
             u == CommitCleanup(P, c, roots)
  <1>1. Prepared(r, P, c, roots)
    BY PreparedFacts
  <1>2. \A w \in Windows(P.table) : c \notin P.table[w].events
    BY PrepareHarmless
  <1> HIDE DEF P, roots
  <1>3. /\ Whole(P) /\ Evolves(r.table, P.table, {}, {})
        /\ Root \notin roots /\ Reaches(P.table, roots, c)
    BY <1>1 DEF Prepared
  <1>4. \A w \in Windows(P.table) : P.table[w].owner = c => w \in Trees(P.table, roots)
    BY <1>3 DEF Reaches
  <1>5. /\ \A cs : Becomes(P, u, {}, cs)
        /\ \A x \in DOMAIN u.table : u.table[x].owner # c
    BY <1>3, <1>4, CommitCleanupBecomes
  <1> HIDE DEF u
  <1>6. Whole(u) /\ Evolves(P.table, u.table, {}, {})
    BY <1>5 DEF Becomes
  <1>7. Evolves(r.table, u.table, {}, {})
    BY <1>3, <1>6, EvolvesTwice
  <1>8. \A w \in Windows(u.table) : c \notin u.table[w].events
    BY <1>2, <1>6 DEF Evolves, Windows, OfType
  <1>9. Cleaned(r, u, c)
    BY <1>5, <1>6, <1>7, <1>8 DEF Cleaned
  <1> QED
    BY <1>9 DEF P, roots, u

\* The queue and the owners as the table loses something.
LEMMA QueueStays ==
    ASSUME TableInv, NEW u, Whole(u), Evolves(res.table, u.table, {}, {})
    PROVE  /\ Queued(queue, u.table, clients, arrived, pendingBases)
           /\ Held(u.table, clients, queue)
  <1> DEFINE t == res.table
             v == u.table
  <1>1. /\ Based(clients, arrived, pendingBases)
        /\ Queued(queue, t, clients, arrived, pendingBases) /\ Held(t, clients, queue)
    BY DEF TableInv
  <1>2. Rooted(t) /\ Rooted(v)
    BY WholeFacts DEF TableInv
  <1>3. Evolves(t, v, {}, {1}) /\ News({}, 1, clients)
    BY EvolvesMore DEF News
  <1> HIDE DEF t, v
  <1>4. \A op \in Range(queue) : Fine(op, v, clients, arrived, pendingBases)
    <2> TAKE op \in Range(queue)
    <2>1. Fine(op, t, clients, arrived, pendingBases)
      BY <1>1 DEF Queued
    <2> QED
      BY <1>1, <1>2, <1>3, <2>1, FineEvolves
  <1>5. Queued(queue, v, clients, arrived, pendingBases)
    BY <1>1, <1>4 DEF Queued
  <1>6. Held(v, clients, queue)
    BY <1>1, <1>3, HeldEvolves
  <1> QED
    BY <1>5, <1>6 DEF v

\* A client that leaves the stand-alone server keeps the invariant
\* (ServerState::cleanup_client).
LEMMA LeaveStandaloneKeeps ==
    ASSUME TableInv, NEW c \in Clients, LeaveStandalone(c)
    PROVE  TableInv'
  <1> DEFINE u == res'
             gl == Gone(clients, c)
  <1>1. /\ Whole(res) /\ Based(clients, arrived, pendingBases)
        /\ workload \in Workloads /\ arrived <= workload.clients
        /\ ~integrated /\ queue = <<>>
        /\ Sides(clients, owner, grab, watchers, randr, redirects)
        /\ Listening(res.table, clients)
    BY DEF TableInv, Alone, LeaveStandalone
  <1>2. /\ clients' = gl
        /\ UNCHANGED <<integrated, workload, arrived, pendingBases, queue>>
        /\ LeaveAlone(c)
    BY DEF LeaveStandalone, Gone
  <1>3. Cleaned(res, u, c)
    BY <1>1, <1>2, CleanedFacts DEF LeaveAlone
  <1> HIDE DEF u
  <1>4. /\ Whole(u) /\ Evolves(res.table, u.table, {}, {})
        /\ \A x \in DOMAIN u.table : u.table[x].owner # c
        /\ \A w \in Windows(u.table) : c \notin u.table[w].events
    BY <1>3 DEF Cleaned
  <1>5. Held(u.table, clients, queue)
    BY <1>4, QueueStays
  <1>5a. clients \in [Clients -> Bases \union {0}]
    BY <1>1 DEF Based
  <1>6. Based(gl, arrived, pendingBases)
    BY <1>1, BasedLeaves
  <1>7. gl[c] = 0 /\ \A d \in Clients : d # c => gl[d] = clients[d]
    BY <1>5a DEF Gone
  <1>8. Held(u.table, gl, queue)
    <2>1. SameOps(queue, queue)
      BY DEF SameOps, SameOp
    <2>2. RootStands(u.table)
      BY <1>4, WholeFacts
    <2> QED
      BY <1>4, <1>5, <1>5a, <2>1, <2>2, HeldLeaves
  <1> HIDE DEF gl
  <1>9. Queued(queue, u.table, gl, arrived, pendingBases)
    <2>1. Range(<<>>) = {} /\ <<>> \in Seq({}) /\ DOMAIN <<>> = {}
      BY DEF Range
    <2> QED
      BY <1>1, <2>1 DEF Queued
  <1>10. Sides(gl, owner', grab', watchers', randr', redirects')
    <2>1. SUFFICES ASSUME NEW d \in Clients, gl[d] = 0
                   PROVE  /\ d # owner'[1] /\ d # grab'[1]
                          /\ \A x \in watchers' \union randr' : x[1] # d
                          /\ \A x \in redirects' : x.client # d
      BY DEF Sides
    <2>2. d # Nobody[1]
      <3>1. 0 \notin Clients
        BY XidFacts
      <3> QED
        BY <3>1 DEF Nobody
    <2>3. /\ owner' = OwnerWithout(owner, {c}, {})
          /\ watchers' = WatchersWithout({c}, {})
          /\ grab' = GrabWithout({c}, {})
          /\ randr' \subseteq RandrWithout({c}, {})
          /\ redirects' = RedirectsWithout({c}, {})
      BY <1>2 DEF LeaveAlone
    <2>4. CASE d = c
      BY <2>2, <2>3, <2>4 DEF OwnerWithout, WatchersWithout, GrabWithout, RandrWithout,
                              RedirectsWithout
    <2>5. CASE d # c
      <3>1. /\ d # owner[1] /\ d # grab[1]
            /\ \A x \in watchers \union randr : x[1] # d
            /\ \A x \in redirects : x.client # d
        BY <1>1, <1>7, <2>1, <2>5 DEF Sides
      <3> QED
        BY <2>2, <2>3, <3>1 DEF OwnerWithout, WatchersWithout, GrabWithout, RandrWithout,
                                RedirectsWithout
    <2> QED
      BY <2>4, <2>5
  <1>11. Listening(u.table, gl)
    <2>1. SUFFICES ASSUME NEW w \in Windows(u.table), NEW d \in u.table[w].events
                   PROVE  gl[d] # 0
      BY DEF Listening
    <2>2. d # c
      BY <1>4
    <2>3. w \in Windows(res.table) /\ d \in res.table[w].events
      BY <1>4 DEF Evolves, Windows, OfType
    <2>4. d \in Clients /\ clients[d] # 0
      <3>1. u.table[w] \in WindowRecord
        BY <1>4, WindowsTouched
      <3> QED
        BY <1>1, <2>3, <3>1 DEF Listening, WindowRecord
    <2> QED
      BY <1>7, <2>2, <2>4
  <1>12. Alone'
    BY <1>1, <1>2, <1>10, <1>11 DEF Alone, u
  <1> QED
    BY <1>1, <1>2, <1>4, <1>6, <1>8, <1>9, <1>12 DEF TableInv, u, gl

\* The cleanup that waits for its turn.
CleanupOp(c, base, roots) ==
    [kind |-> "Cleanup", client |-> c, window |-> None, value |-> <<base, roots>>,
     cancelled |-> FALSE]

\* A prepared cleanup is an operation that may wait.
LEMMA CleanupOpFine ==
    ASSUME NEW t, NEW gl, NEW ar, NEW kept, NEW c \in Clients, NEW base, NEW roots,
           gl[c] = 0, c <= ar, base \in kept, Root \notin roots, Reaches(t, roots, c)
    PROVE  Fine(CleanupOp(c, base, roots), t, gl, ar, kept)
  <1> DEFINE op == CleanupOp(c, base, roots)
  <1>1. /\ IsOp(op) /\ op.kind = "Cleanup" /\ op.client = c
        /\ op.value[1] = base /\ op.value[2] = roots
    BY DEF CleanupOp, IsOp, Kinds
  <1> HIDE DEF op
  <1>2. Meant(op) /\ Standing(op, t, gl)
    BY <1>1 DEF Meant, Standing
  <1>3. Cleaning(op, t, gl, ar, kept)
    BY <1>1 DEF Cleaning
  <1>4. Fine(op, t, gl, ar, kept)
    BY <1>1, <1>2, <1>3 DEF Fine
  <1> QED
    BY <1>4 DEF op

\* The queue and the owners when the cleanup of c joins them.
LEMMA CleanupJoins ==
    ASSUME NEW q, NEW t, NEW cl, NEW ar, NEW pend, Queued(q, t, cl, ar, pend),
           Based(cl, ar, pend), Held(t, cl, q), RootStands(t),
           NEW c \in Clients, cl[c] # 0, NEW roots, Root \notin roots, Reaches(t, roots, c),
           NEW n \in {0, 1}, n <= Len(Cancelled(q, c)), NEW v,
           v = InsertAt(Cancelled(q, c), n + 1, CleanupOp(c, cl[c], roots))
    PROVE  /\ Queued(v, t, Gone(cl, c), ar, pend \union {cl[c]})
           /\ Held(t, Gone(cl, c), v)
           /\ Based(Gone(cl, c), ar, pend \union {cl[c]})
  <1> DEFINE gl == Gone(cl, c)
             kept == pend \union {cl[c]}
             m == Cancelled(q, c)
             op == CleanupOp(c, cl[c], roots)
  <1>1. cl \in [Clients -> Bases \union {0}] /\ c <= ar /\ cl[c] \notin pend
    BY DEF Based
  <1>2. gl[c] = 0
    BY <1>1 DEF Gone
  <1>3. Based(gl, ar, kept)
    BY BasedLeaves
  <1>4. Queued(m, t, gl, ar, kept) /\ SameOps(q, m) /\ Len(m) = Len(q)
    BY QueuedLeaves
  <1>5. /\ op.kind = "Cleanup" /\ op.client = c /\ op.value[1] = cl[c]
    BY DEF CleanupOp
  <1>6. cl[c] \in kept
    OBVIOUS
  <1> HIDE DEF kept
  <1>7. Fine(op, t, gl, ar, kept)
    BY <1>1, <1>2, <1>6, CleanupOpFine
  <1>8. v = InsertAt(m, n + 1, op) /\ n <= Len(m)
    OBVIOUS
  <1>9. n + 1 \in 1..Len(m) + 1
    <2>1. q \in Seq(Range(q))
      BY DEF Queued
    <2>2. Len(m) \in Nat
      BY <1>4, <2>1
    <2> HIDE DEF m
    <2> QED
      BY <1>8, <2>2
  <1> HIDE DEF m, op
  <1>10. m \in Seq(Range(m))
    BY <1>4 DEF Queued
  <1>11. Inserted(m, n + 1, op, v)
    BY <1>8, <1>9, <1>10, InsertInserts
  <1>12. \A p \in Range(m) : Apart(p, op) /\ Apart(op, p)
    <2> TAKE p \in Range(m)
    <2>1. PICK o \in Range(q) : SameOp(p, o)
      BY <1>4 DEF SameOps
    <2>2. Fine(o, t, cl, ar, pend)
      BY DEF Queued
    <2>3. o.kind = "Cleanup" => cl[o.client] = 0 /\ o.value[1] \in pend
      BY <2>2 DEF Fine, Cleaning
    <2>4. p.kind = "Cleanup" => p.client # c /\ p.value[1] # cl[c]
      BY <1>1, <2>1, <2>3 DEF SameOp
    <2> QED
      BY <1>5, <2>4 DEF Apart
  <1> HIDE DEF gl
  <1>13. Queued(v, t, gl, ar, kept) /\ Range(v) = Range(m) \union {op}
    BY <1>4, <1>7, <1>9, <1>11, <1>12, QueuedInserted
  <1>14. Held(t, Gone(cl, c), v)
    <2>1. Range(m) \subseteq Range(v) /\ op \in Range(v)
      BY <1>13
    <2>2. \E e \in Range(v) : e.kind = "Cleanup" /\ e.client = c /\ e.value[1] = cl[c]
      BY <1>5, <2>1
    <2> QED
      BY <1>1, <1>4, <2>1, <2>2, HeldLeaves
  <1> QED
    BY <1>3, <1>13, <1>14 DEF gl, kept

\* A client that leaves the integrated server keeps the invariant, whether its
\* cleanup is deferred or not (cancel_client_lifecycle).
LEMMA LeaveIntegratedKeeps ==
    ASSUME TableInv, NEW c \in Clients, LeaveIntegrated(c)
    PROVE  TableInv'
  <1> DEFINE roots == CleanupRoots(res, c)
             q == Cancelled(queue, c)
             op == CleanupOp(c, clients[c], roots)
  <1>1. /\ Whole(res) /\ Based(clients, arrived, pendingBases)
        /\ workload \in Workloads /\ arrived <= workload.clients
        /\ Queued(queue, res.table, clients, arrived, pendingBases)
    BY DEF TableInv
  <1>2. /\ clients' = Gone(clients, c) /\ clients[c] # 0 /\ integrated
        /\ UNCHANGED <<integrated, workload, arrived>>
    BY DEF LeaveIntegrated, Gone
  <1>3. \/ /\ res' = PrepareCleanup(res, c)
           /\ pendingBases' = pendingBases \union {clients[c]}
           /\ \E n \in {0, 1} : n <= Len(q) /\ queue' = InsertAt(q, n + 1, op)
        \/ /\ res' = CommitCleanup(PrepareCleanup(res, c), c, roots)
           /\ queue' = q /\ pendingBases' = pendingBases
    BY DEF LeaveIntegrated, CleanupOp
  <1>4. Alone'
    BY <1>2 DEF Alone
  <1>5. CASE /\ res' = PrepareCleanup(res, c)
             /\ pendingBases' = pendingBases \union {clients[c]}
             /\ \E n \in {0, 1} : n <= Len(q) /\ queue' = InsertAt(q, n + 1, op)
    <2> DEFINE u == res'
    <2>1. Prepared(res, u, c, roots)
      BY <1>1, <1>5, PreparedFacts
    <2> HIDE DEF roots, u
    <2>2. /\ Whole(u) /\ Evolves(res.table, u.table, {}, {})
          /\ Root \notin roots /\ Reaches(u.table, roots, c)
      BY <2>1 DEF Prepared
    <2>3. /\ Queued(queue, u.table, clients, arrived, pendingBases)
          /\ Held(u.table, clients, queue)
      BY <2>2, QueueStays
    <2>4. PICK n \in {0, 1} : n <= Len(q) /\ queue' = InsertAt(q, n + 1, op)
      BY <1>5
    <2>5. RootStands(u.table)
      BY <2>2, WholeFacts
    <2>6. /\ Queued(queue', u.table, clients', arrived, pendingBases')
          /\ Held(u.table, clients', queue')
          /\ Based(clients', arrived, pendingBases')
      BY <1>1, <1>2, <1>5, <2>2, <2>3, <2>4, <2>5, CleanupJoins
    <2> QED
      BY <1>1, <1>2, <1>4, <2>2, <2>6 DEF TableInv, u
  <1>6. CASE /\ res' = CommitCleanup(PrepareCleanup(res, c), c, roots)
             /\ queue' = q /\ pendingBases' = pendingBases
    <2> DEFINE u == res'
    <2>1. Cleaned(res, u, c)
      BY <1>1, <1>6, CleanedFacts
    <2> HIDE DEF roots, u
    <2>2. /\ Whole(u) /\ Evolves(res.table, u.table, {}, {})
          /\ \A x \in DOMAIN u.table : u.table[x].owner # c
      BY <2>1 DEF Cleaned
    <2>3. /\ Queued(queue, u.table, clients, arrived, pendingBases)
          /\ Held(u.table, clients, queue)
      BY <2>2, QueueStays
    <2>4. RootStands(u.table)
      BY <2>2, WholeFacts
    <2>5. Based(clients', arrived, pendingBases')
      BY <1>1, <1>2, <1>6, BasedLeaves
    <2>6. /\ Queued(queue', u.table, clients', arrived, pendingBases')
          /\ SameOps(queue, q)
      BY <1>1, <1>2, <1>6, <2>3, QueuedLeaves
    <2>7. Held(u.table, clients', queue')
      <3>1. clients \in [Clients -> Bases \union {0}]
        BY <1>1 DEF Based
      <3>2. Range(q) \subseteq Range(queue')
        BY <1>6
      <3> QED
        BY <1>2, <2>2, <2>3, <2>4, <2>6, <3>1, <3>2, HeldLeaves
    <2> QED
      BY <1>1, <1>2, <1>4, <2>2, <2>5, <2>6, <2>7 DEF TableInv, u
  <1> QED
    BY <1>3, <1>5, <1>6

-----------------------------------------------------------------------------
(* The deferred operations take effect *)

\* What an operation makes of the table r before the window manager's answer is
\* applied: the window of a Create may come, of the client of a Cleanup nothing stays.
Outcome(r, u, op, cl, news) ==
    /\ Sound(u) /\ Evolves(r.table, u.table, news, {op.client})
    /\ News(news, op.client, cl)
    /\ news = {} \/ op.kind = "Create"
    /\ op.kind = "Cleanup" => \A x \in DOMAIN u.table : u.table[x].owner # op.client

\* An operation that is neither cancelled nor refused.
Due(r, op, cl, ar, pend) ==
    /\ Whole(r) /\ Fine(op, r.table, cl, ar, pend) /\ ~op.cancelled
    /\ op.kind \in {"Create", "Cleanup"} \/ op.window \in Windows(r.table)
    /\ Commits(r, op)

\* An operation that makes nothing and cleans nothing.
LEMMA NothingNew ==
    ASSUME NEW r, NEW u, NEW op, NEW cl, op.kind # "Cleanup",
           Becomes(r, u, {}, {op.client}) \/ Harmless(r, u, {op.client})
    PROVE  Outcome(r, u, op, cl, {})
  <1>1. Whole(u) /\ Evolves(r.table, u.table, {}, {op.client})
    BY DEF Becomes, Harmless
  <1> QED
    BY <1>1 DEF Outcome, News, Whole

\* A deferred CreateWindow makes the one window its client reserved.
LEMMA CreateOutcome ==
    ASSUME NEW r, NEW op, NEW cl, NEW ar, NEW pend, Due(r, op, cl, ar, pend),
           op.kind = "Create"
    PROVE  Outcome(r, Mutated(r, op), op, cl, {op.value.xid})
  <1> DEFINE u == Mutated(r, op)
             x == op.value.xid
  <1>1. Whole(r) /\ IsOp(op) /\ Meant(op) /\ Standing(op, r.table, cl) /\ ~op.cancelled
    BY DEF Due, Fine
  <1>2. cl[op.client] # 0 /\ x[1] = cl[op.client] /\ x \notin DOMAIN r.table
        /\ op.client \in Clients
    BY <1>1 DEF Standing, IsOp
  <1>3. Root \in Windows(r.table) /\ r.table[Root].class = "InputOutput"
    BY <1>1, WholeFacts DEF RootStands
  <1>4. Creatable(r.table, op.value)
    BY <1>1, <1>2, <1>3 DEF Creatable, Meant
  <1>5. u = CreateWindowIn(r, op.client, op.value)
    BY DEF Mutated
  <1>6. Becomes(r, u, {x}, {op.client})
    BY <1>1, <1>2, <1>4, <1>5, CreateWindowBecomes
  <1> HIDE DEF u, x
  <1>7. Whole(u) /\ Evolves(r.table, u.table, {x}, {op.client})
    BY <1>6 DEF Becomes
  <1>8. News({x}, op.client, cl)
    BY <1>2 DEF News
  <1>9. Outcome(r, u, op, cl, {x})
    BY <1>7, <1>8 DEF Outcome, Whole
  <1> QED
    BY <1>9 DEF u, x

\* A deferred cleanup leaves nothing of its client.
LEMMA CleanupOutcome ==
    ASSUME NEW r, NEW op, NEW cl, NEW ar, NEW pend, Due(r, op, cl, ar, pend),
           op.kind = "Cleanup"
    PROVE  Outcome(r, Mutated(r, op), op, cl, {})
  <1> DEFINE u == Mutated(r, op)
             roots == op.value[2]
             c == op.client
  <1>1. Whole(r) /\ IsOp(op) /\ Cleaning(op, r.table, cl, ar, pend)
    BY DEF Due, Fine
  <1>2. Root \notin roots /\ Reaches(r.table, roots, c) /\ c \in Clients
    BY <1>1 DEF Cleaning, IsOp
  <1>3. u = CommitCleanup(r, c, roots)
    BY DEF Mutated
  <1> HIDE DEF u, roots
  <1>4. \A w \in Windows(r.table) : r.table[w].owner = c => w \in Trees(r.table, roots)
    BY <1>2 DEF Reaches
  <1>5. /\ \A cs : Becomes(r, u, {}, cs)
        /\ \A x \in DOMAIN u.table : u.table[x].owner # c
    BY <1>1, <1>2, <1>3, <1>4, CommitCleanupBecomes
  <1>6. Whole(u) /\ Evolves(r.table, u.table, {}, {c})
    BY <1>5 DEF Becomes
  <1>7. Outcome(r, u, op, cl, {})
    BY <1>5, <1>6 DEF Outcome, News, Whole
  <1> QED
    BY <1>7 DEF u

\* A deferred MapWindow leaves a sound table, whose map states are still old.
LEMMA MapOutcome ==
    ASSUME NEW r, NEW op, NEW cl, NEW ar, NEW pend, Due(r, op, cl, ar, pend),
           op.kind = "Map"
    PROVE  Outcome(r, Mutated(r, op), op, cl, {})
  <1> DEFINE w == op.window
             m == op.value
             u == MapIntent(r, w, m)
  <1>1. Whole(r) /\ w \in Windows(r.table) /\ m \in BOOLEAN
    BY DEF Due, Fine, Meant
  <1>2. Mutated(r, op) = [r EXCEPT !.table[w].mapRequested = m]
    BY DEF Mutated
  <1>3. [r EXCEPT !.table[w].mapRequested = m] = u
    BY DEF MapIntent, Rewritten, Retabled, Asking
  <1>4. Sound(u) /\ Evolves(r.table, u.table, {}, {op.client})
    <2>1. Sound(r)
      BY <1>1, WholeFacts
    <2> QED
      BY <1>1, <2>1, MapIntentSound
  <1> HIDE DEF u
  <1>5. Outcome(r, u, op, cl, {})
    BY <1>4 DEF Outcome, News
  <1> QED
    BY <1>2, <1>3, <1>5

\* What each deferred operation does when it commits (commit_lifecycle).
LEMMA MutatedOutcome ==
    ASSUME NEW r, NEW op, NEW cl, NEW ar, NEW pend, Due(r, op, cl, ar, pend)
    PROVE  \E news : Outcome(r, Mutated(r, op), op, cl, news)
  <1>1. Whole(r) /\ op.kind \in Kinds /\ op.client \in Clients /\ Meant(op)
    BY DEF Due, Fine, IsOp
  <1>2. CASE op.kind = "Create"
    BY <1>2, CreateOutcome
  <1>3. CASE op.kind = "Cleanup"
    BY <1>3, CleanupOutcome
  <1>4. CASE op.kind = "Map"
    BY <1>4, MapOutcome
  <1> DEFINE w == op.window
  <1>5. op.kind \notin {"Create", "Cleanup"} => w \in Windows(r.table) \ {Root}
    <2>1. Root \notin Xids
      BY XidFacts
    <2> QED
      BY <1>1, <2>1 DEF Meant, Due
  <1> HIDE DEF w
  <1>6. CASE op.kind = "Destroy"
    <2>1. Mutated(r, op) = DestroyTree(r, w)
      BY <1>6 DEF Mutated, w
    <2>2. Becomes(r, DestroyTree(r, w), {}, {op.client})
      BY <1>1, <1>5, <1>6, DestroyTreeBecomes
    <2> QED
      BY <1>6, <2>1, <2>2, NothingNew
  <1>7. CASE op.kind = "Configure"
    <2>1. Mutated(r, op) = Configured(r, w, op.value, "None")
      BY <1>7 DEF Mutated, w
    <2>2. op.value \in BOOLEAN
      BY <1>1, <1>7 DEF Meant
    <2>3. Harmless(r, Configured(r, w, op.value, "None"), {op.client})
      BY <1>1, <1>5, <1>7, <2>2, ConfiguredHarmless
    <2> QED
      BY <1>7, <2>1, <2>3, NothingNew
  <1>8. CASE op.kind = "Property" /\ op.value = 0
    <2>1. Mutated(r, op) = WithoutProperty(r, w, "STATE")
      BY <1>8 DEF Mutated, w
    <2>2. "STATE" \in Atoms /\ w \in Windows(r.table)
      BY <1>5, <1>8 DEF Atoms
    <2>3. Becomes(r, WithoutProperty(r, w, "STATE"), {}, {op.client})
      BY <1>1, <2>2, WithoutPropertyBecomes
    <2> QED
      BY <1>8, <2>1, <2>3, NothingNew
  <1>9. CASE op.kind = "Property" /\ op.value # 0
    <2>1. Mutated(r, op) = WithProperty(r, w, "STATE", op.value)
      BY <1>9 DEF Mutated, w
    <2>2. "STATE" \in Atoms /\ w \in Windows(r.table) /\ op.value \in Nat
      BY <1>1, <1>5, <1>9 DEF Atoms, Meant
    <2>3. PropertyFits(r, w, "STATE", op.value)
      BY <1>9 DEF Due, Commits, w
    <2>4. Becomes(r, WithProperty(r, w, "STATE", op.value), {}, {op.client})
      BY <1>1, <2>2, <2>3, WithPropertyBecomes
    <2> QED
      BY <1>9, <2>1, <2>4, NothingNew
  <1> QED
    BY <1>1, <1>2, <1>3, <1>4, <1>6, <1>7, <1>8, <1>9 DEF Kinds

\* The queue and the owners when the operation op has taken effect.
LEMMA QueueGoesOn ==
    ASSUME NEW q, q # <<>>, NEW t, NEW v, NEW cl, NEW ar, NEW pend, NEW news,
           Queued(q, t, cl, ar, pend), Held(t, cl, q), Based(cl, ar, pend),
           Rooted(t), Rooted(v), Evolves(t, v, news, {Head(q).client}),
           News(news, Head(q).client, cl), news = {} \/ Head(q).kind = "Create",
           Head(q).kind = "Cleanup" => \A x \in DOMAIN v : v[x].owner # Head(q).client,
           NEW left, left = IF Head(q).kind = "Cleanup" THEN pend \ {Head(q).value[1]} ELSE pend
    PROVE  /\ Queued(Tail(q), v, cl, ar, left) /\ Held(v, cl, Tail(q))
           /\ Based(cl, ar, left)
  <1> DEFINE op == Head(q)
             rest == Tail(q)
  <1>1. /\ Queued(rest, t, cl, ar, pend)
        /\ \A p \in Range(rest) : Apart(op, p)
        /\ Range(q) = Range(rest) \union {op}
    BY QueuedTail
  <1> HIDE DEF rest
  <1>2. ASSUME NEW p \in Range(rest)  PROVE Fine(p, v, cl, ar, left)
    <2>1. Fine(p, t, cl, ar, pend) /\ Apart(op, p)
      BY <1>1 DEF Queued
    <2>2. news = {} \/ p.kind # "Create" \/ p.client # op.client
      BY <2>1 DEF Apart
    <2>3. Fine(p, v, cl, ar, pend)
      BY <2>1, <2>2, FineEvolves
    <2>4. IsOp(p) /\ Meant(p) /\ Standing(p, v, cl) /\ Cleaning(p, v, cl, ar, pend)
      BY <2>3 DEF Fine
    <2>5. Cleaning(p, v, cl, ar, left)
      <3> SUFFICES ASSUME p.kind = "Cleanup"  PROVE p.value[1] \in left
        BY <2>4 DEF Cleaning
      <3>1. p.value[1] \in pend
        BY <2>4 DEF Cleaning
      <3>2. op.kind = "Cleanup" => p.value[1] # op.value[1]
        BY <2>1 DEF Apart
      <3> QED
        BY <3>1, <3>2
    <2> QED
      BY <2>4, <2>5 DEF Fine
  <1>3. Queued(rest, v, cl, ar, left)
    BY <1>1, <1>2 DEF Queued
  <1>4. Held(v, cl, q)
    BY HeldEvolves
  <1>5. Held(v, cl, rest)
    BY <1>1, <1>4 DEF Held
  <1>6. Based(cl, ar, left)
    BY DEF Based
  <1> QED
    BY <1>3, <1>5, <1>6 DEF rest

\* An operation that commits keeps the invariant.
LEMMA CommitDeferredKeeps ==
    ASSUME TableInv, CommitDeferred
    PROVE  TableInv'
  <1> DEFINE op == Head(queue)
             m == Mutated(res, op)
  <1>1. /\ Whole(res) /\ Based(clients, arrived, pendingBases)
        /\ workload \in Workloads /\ arrived <= workload.clients
        /\ Queued(queue, res.table, clients, arrived, pendingBases)
        /\ Held(res.table, clients, queue) /\ Alone
    BY DEF TableInv
  <1>2. /\ queue # <<>> /\ ~op.cancelled /\ Rebases(op) /\ Commits(res, op)
        /\ queue' = Tail(queue)
        /\ UNCHANGED <<integrated, workload, clients, arrived>>
        /\ pendingBases' = IF op.kind = "Cleanup" THEN pendingBases \ {op.value[1]}
                           ELSE pendingBases
    BY DEF CommitDeferred
  <1>3. PICK order \in Answers(m) : res' = PolicyApplied(m, order)
    BY DEF CommitDeferred
  <1>4. Fine(op, res.table, clients, arrived, pendingBases)
    BY <1>1, <1>2, QueuedTail
  <1>5. Due(res, op, clients, arrived, pendingBases)
    BY <1>1, <1>2, <1>4 DEF Due, Rebases
  <1>6. PICK news : Outcome(res, m, op, clients, news)
    BY <1>5, MutatedOutcome
  <1> HIDE DEF m
  <1>7. /\ Sound(m) /\ Evolves(res.table, m.table, news, {op.client})
        /\ News(news, op.client, clients)
        /\ news = {} \/ op.kind = "Create"
        /\ op.kind = "Cleanup" => \A x \in DOMAIN m.table : m.table[x].owner # op.client
    BY <1>6 DEF Outcome
  <1> DEFINE u == res'
  <1>8. Harmless(m, u, {op.client})
    BY <1>3, <1>7, PolicyAppliedHarmless
  <1> HIDE DEF u
  <1>9. Whole(u) /\ SameShape(m.table, u.table) /\ Evolves(m.table, u.table, {}, {op.client})
    BY <1>8 DEF Harmless
  <1>10. Evolves(res.table, u.table, news, {op.client})
    BY <1>7, <1>9, EvolvesTwice
  <1>11. op.kind = "Cleanup" => \A x \in DOMAIN u.table : u.table[x].owner # op.client
    BY <1>7, <1>9 DEF SameShape
  <1>12. Rooted(res.table) /\ Rooted(u.table)
    BY <1>1, <1>9, WholeFacts
  <1>13. /\ Queued(queue', u.table, clients, arrived, pendingBases')
         /\ Held(u.table, clients, queue') /\ Based(clients, arrived, pendingBases')
    BY <1>1, <1>2, <1>7, <1>10, <1>11, <1>12, QueueGoesOn
  <1>14. Alone'
    <2>1. integrated
      BY <1>1, <1>2 DEF Alone
    <2> QED
      BY <1>2, <2>1 DEF Alone
  <1> QED
    BY <1>1, <1>2, <1>9, <1>13, <1>14 DEF TableInv, u

\* So does one that is refused.
LEMMA RejectDeferredKeeps ==
    ASSUME TableInv, RejectDeferred
    PROVE  TableInv'
  <1>1. /\ Whole(res) /\ Based(clients, arrived, pendingBases)
        /\ workload \in Workloads /\ arrived <= workload.clients
        /\ Queued(queue, res.table, clients, arrived, pendingBases)
        /\ Held(res.table, clients, queue) /\ Alone
    BY DEF TableInv
  <1>2. /\ queue # <<>> /\ Head(queue).kind # "Cleanup" /\ queue' = Tail(queue)
        /\ UNCHANGED <<integrated, workload, res, clients, arrived, pendingBases, sideVars>>
    BY DEF RejectDeferred
  <1>3. /\ Queued(queue', res.table, clients, arrived, pendingBases)
        /\ Range(queue) = Range(queue') \union {Head(queue)}
    BY <1>1, <1>2, QueuedTail
  <1>4. Held(res.table, clients, queue')
    BY <1>1, <1>2, <1>3 DEF Held
  <1>5. Alone'
    <2>1. integrated
      BY <1>1, <1>2 DEF Alone
    <2> QED
      BY <1>2, <2>1 DEF Alone
  <1> QED
    BY <1>1, <1>2, <1>3, <1>4, <1>5 DEF TableInv

\* So does a step that changes none of this.
LEMMA StayingKeeps ==
    ASSUME TableInv, UNCHANGED <<integrated, workload, res, clients, arrived, pendingBases,
                                 sideVars, queue>>
    PROVE  TableInv'
  BY DEF TableInv, Alone, sideVars

-----------------------------------------------------------------------------
(* Every step *)

\* Every step keeps the invariant.
LEMMA NextKeeps ==
    ASSUME TableInv, [Next]_vars
    PROVE  TableInv'
  <1>1. CASE Accept
    BY <1>1, AcceptKeeps
  <1>2. CASE CommitDeferred
    BY <1>2, CommitDeferredKeeps
  <1>3. CASE RejectDeferred
    BY <1>3, RejectDeferredKeeps
  <1>4. CASE CommitFails
    BY <1>4, StayingKeeps DEF CommitFails
  <1>5. CASE UNCHANGED vars
    BY <1>5, StayingKeeps DEF vars, sideVars
  <1>6. ASSUME NEW c \in Clients, LeaveStandalone(c) \/ LeaveIntegrated(c)
        PROVE  TableInv'
    BY <1>6, LeaveStandaloneKeeps, LeaveIntegratedKeeps
  <1>7. ASSUME NEW c \in Clients,
               \/ CreateWindow(c) \/ DestroyWindow(c) \/ MapWindow(c) \/ MapSubwindows(c)
               \/ ConfigureWindow(c) \/ ChangeWindowAttributes(c)
        PROVE  TableInv'
    <2>1. Requests(c)
      BY <1>7, CreateWindowAction, DestroyWindowAction, MapWindowAction, MapSubwindowsAction,
         ConfigureWindowAction, AttributeActions
    <2> QED
      BY <2>1, RequestKeeps
  <1>8. ASSUME NEW c \in Clients,
               \/ CreatePixmap(c) \/ NameWindowPixmap(c) \/ FreeAny(c) \/ CreateGC(c)
               \/ OpenFont(c) \/ CreateColormap(c) \/ AttachShm(c) \/ CreateCursor(c)
               \/ CreateGlyphCursor(c) \/ CreateSolidFill(c) \/ RecolorCursor(c)
               \/ CreatePicture(c)
        PROVE  TableInv'
    <2>1. Requests(c)
      BY <1>8, PixmapActions, PlainActions, CursorActions, PictureActions
    <2> QED
      BY <2>1, RequestKeeps
  <1>9. ASSUME NEW c \in Clients,
               \/ CreateRegion(c) \/ SetRegion(c) \/ CombineRegion(c)
               \/ CreateDamage(c) \/ DamageSubtract(c) \/ DamageAdd(c)
        PROVE  TableInv'
    <2>1. Requests(c)
      BY <1>9, RegionActions, DamageActions
    <2> QED
      BY <2>1, RequestKeeps
  <1>10. ASSUME NEW c \in Clients,
                \/ PolyDraw(c) \/ PutImage(c) \/ ShmPutImage(c) \/ PolyFillRectangle(c)
                \/ DrawText(c) \/ CopyArea(c) \/ ClearArea(c) \/ RenderComposite(c)
                \/ RenderFillRectangles(c)
         PROVE  TableInv'
    BY <1>10, DrawingActions, RequestKeeps
  <1>11. ASSUME NEW c \in Clients,
                ChangeProperty(c) \/ DeleteProperty(c) \/ GetProperty(c)
         PROVE  TableInv'
    BY <1>11, PropertyActions, GetPropertyAction, RequestKeeps
  <1>12. ASSUME NEW c \in Clients,
                \/ SetSelectionOwner(c) \/ SelectSelectionInput(c) \/ GrabPointer(c)
                \/ UngrabPointer(c) \/ RandrSelectInput(c) \/ Redirect(c) \/ Unredirect(c)
         PROVE  TableInv'
    BY <1>12, SideActions, RequestKeeps
  <1> QED
    BY <1>1, <1>2, <1>3, <1>4, <1>5, <1>6, <1>7, <1>8, <1>9, <1>10, <1>11, <1>12 DEF Next

-----------------------------------------------------------------------------
(* The first table *)

NewRoot == [NewWindow(0, None, "InputOutput") EXCEPT !.mapState = "Viewable"]
OnlyRoot(t) ==
    /\ t = [x \in {Root} |-> t[x]] /\ DOMAIN t = {Root} /\ t[Root] = NewRoot
    /\ Windows(t) = {Root} /\ \A type : type # "Window" => OfType(t, type) = {}

\* The root window of a new server.
LEMMA NewRootFacts ==
    /\ NewRoot \in WindowRecord /\ NewRoot.type = "Window" /\ NewRoot.owner = 0
    /\ NewRoot.parent = None /\ NewRoot.class = "InputOutput" /\ NewRoot.children = <<>>
    /\ NewRoot.mapState = "Viewable" /\ NewRoot.properties = <<>> /\ NewRoot.events = {}
  <1>1. <<>> \in Stores
    BY NothingStored
  <1>2. <<>> \in Seq(Xids)
    OBVIOUS
  <1> QED
    BY <1>1, <1>2 DEF NewRoot, NewWindow, WindowRecord, MapStatesOfWindows

\* The empty list and the empty set.
LEMMA EmptyFacts ==
    /\ Range(<<>>) = {} /\ Distinct(<<>>) /\ DOMAIN <<>> = {}
    /\ <<>> \in Seq({}) /\ <<>> \in Seq(Xids)
    /\ Cardinality({}) = 0
  <1>1. DOMAIN <<>> = {}
    OBVIOUS
  <1>2. Range(<<>>) = {} /\ Distinct(<<>>)
    BY <1>1 DEF Range, Distinct
  <1>3. Cardinality({}) = 0
    BY FS_EmptySet
  <1> QED
    BY <1>1, <1>2, <1>3

\* A new table has the root window only.
LEMMA NewTableFacts ==
    /\ OnlyRoot(NewTable.table) /\ NewTable.owned = [c \in Clients |-> <<>>]
    /\ NewTable.propertyBytes = 0 /\ NewTable.drawableBytes = 0 /\ NewTable.cursorBytes = 0
    /\ NewTable.table \in Tables => NewTable \in ResourceTables
  <1> DEFINE t == NewTable.table
  <1>1. /\ t = [x \in {Root} |-> NewRoot]
        /\ NewTable.owned = [c \in Clients |-> <<>>]
        /\ NewTable.propertyBytes = 0 /\ NewTable.drawableBytes = 0
        /\ NewTable.cursorBytes = 0
    BY DEF NewTable, NewRoot
  <1>2. t \in Tables => NewTable \in ResourceTables
    <2>1. [c \in Clients |-> <<>>] \in [Clients -> Seq(Xids)]
      BY EmptyFacts
    <2> QED
      BY <2>1 DEF NewTable, ResourceTables
  <1> HIDE DEF t
  <1>3. t = [x \in {Root} |-> t[x]] /\ DOMAIN t = {Root} /\ t[Root] = NewRoot
    BY <1>1
  <1>4. Windows(t) = {Root} /\ \A type : type # "Window" => OfType(t, type) = {}
    BY <1>3, NewRootFacts DEF Windows, OfType
  <1> QED
    BY <1>1, <1>2, <1>3, <1>4 DEF OnlyRoot, t

\* A new table is whole.
LEMMA NewTableIsWhole == Whole(NewTable)
  <1> DEFINE r == NewTable
             t == r.table
  <1>1. /\ OnlyRoot(t) /\ r.owned = [c \in Clients |-> <<>>]
        /\ r.propertyBytes = 0 /\ r.drawableBytes = 0 /\ r.cursorBytes = 0
        /\ t \in Tables => r \in ResourceTables
    BY NewTableFacts
  <1> HIDE DEF r
  <1> HIDE DEF t
  <1>2. /\ t = [x \in {Root} |-> t[x]] /\ DOMAIN t = {Root} /\ t[Root] = NewRoot
        /\ Windows(t) = {Root} /\ \A type : type # "Window" => OfType(t, type) = {}
    BY <1>1 DEF OnlyRoot
  <1>3. t \in Tables
    <2>1. {Root} \subseteq Places /\ NewRoot \in Resource
      BY NewRootFacts DEF Places, Resource
    <2> QED
      BY <1>2, <2>1, TablesHave
  <1>4. RootStands(t)
    BY <1>2, NewRootFacts DEF RootStands
  <1>5. Typed(r)
    <2>1. IsFiniteSet({Root})
      BY FS_Singleton
    <2> QED
      BY <1>1, <1>2, <1>3, <1>4, <2>1 DEF Typed, TypedTable, t
  <1>6. Owned(r)
    BY <1>1, <1>2, EmptyFacts DEF Owned, t
  <1>7. Rooted(t)
    BY <1>2 DEF Rooted
  <1>8. Branching(t)
    <2>1. Range(t[Root].children) = {}
      BY <1>2, NewRootFacts, EmptyFacts
    <2> QED
      BY <1>2, <1>7, <2>1 DEF Branching
  <1>9. Pinned(t)
    BY <1>2 DEF Pinned, Hanging
  <1>10. Totalled(r)
    <2> DEFINE f == [w \in {Root} |-> PropertyBytes(t[w])]
    <2>1. PropertyBytes(t[Root]) = 0
      BY <1>2, NewRootFacts, NothingStored DEF PropertyBytes
    <2>2. f[Root] = 0 /\ DOMAIN f = {Root} /\ BytesOf(t, {Root}) = SumOf(f)
      BY <2>1 DEF BytesOf
    <2> HIDE DEF f
    <2>3. BytesOf(t, {Root}) = 0
      <3>1. SumOf(f) = Cardinality(Counted(f, {Root}))
        BY <2>2, SumIsCounted
      <3>2. Cardinality(Counted(f, {Root})) = 0
        BY <2>2, CountedOne
      <3> QED
        BY <2>2, <3>1, <3>2
    <2>4. StoragesOf(t) = {} /\ PixmapBytes(t) = BytesIn(StoragesOf(t))
      <3>1. OfType(t, "Pixmap") = {}
        BY <1>2
      <3>2. IsFiniteSet(DOMAIN t)
        BY <1>2, FS_Singleton
      <3> QED
        BY <1>3, <3>1, <3>2, StoragesOfFacts DEF StoragesOf
    <2>5. BytesIn({}) = 0
      <3> DEFINE g == [s \in {} |-> s[2]]
      <3>1. DOMAIN g = {} /\ BytesIn({}) = SumOf(g)
        BY DEF BytesIn
      <3> HIDE DEF g
      <3>2. Counted(g, {}) = {}
        BY DEF Counted
      <3>3. SumOf(g) = Cardinality(Counted(g, {}))
        BY <3>1, SumIsCounted
      <3> QED
        BY <3>1, <3>2, <3>3, EmptyFacts
    <2>6. Cardinality(OfType(t, "Cursor")) = 0
      BY <1>2, EmptyFacts
    <2>7. /\ Limits.totalProperty \in Nat /\ Limits.drawableBytes \in Nat
          /\ Limits.cursorBytes \in Nat
      BY ResourcesAssumption
    <2>8. PixmapBytes(t) = 0
      BY <2>4, <2>5
    <2>9. BytesOf(t, Windows(t)) = 0
      BY <1>2, <2>3
    <2>10. /\ BytesOf(r.table, Windows(r.table)) = 0 /\ PixmapBytes(r.table) = 0
           /\ Cardinality(OfType(r.table, "Cursor")) = 0
      BY <2>6, <2>8, <2>9 DEF t
    <2>11. /\ r.propertyBytes = 0 /\ r.drawableBytes = 0 /\ r.cursorBytes = 0
      BY <1>1
    <2> QED
      BY <2>7, <2>10, <2>11 DEF Totalled
  <1>11. Derived(t)
    BY <1>2, NewRootFacts DEF Derived, Expected
  <1>12. Whole(r)
    BY <1>5, <1>6, <1>8, <1>9, <1>10, <1>11 DEF Whole, Sound, t
  <1> QED
    BY <1>12 DEF r

\* The invariant holds when the server starts.
LEMMA InitKeeps ==
    ASSUME Init
    PROVE  TableInv
  <1> DEFINE t == res.table
  <1>1. /\ workload \in Workloads /\ res = NewTable /\ clients = [c \in Clients |-> 0]
        /\ arrived = 0 /\ pendingBases = {} /\ owner = Nobody /\ grab = Nobody
        /\ watchers = {} /\ randr = {} /\ redirects = {} /\ queue = <<>>
    BY DEF Init
  <1>2. Whole(res) /\ OnlyRoot(t)
    BY <1>1, NewTableIsWhole, NewTableFacts
  <1>3. workload.clients \in 0..MaxClients /\ MaxClients \in Nat
    BY <1>1, ResourcesAssumption
  <1>4. arrived <= workload.clients /\ Based(clients, arrived, pendingBases)
    BY <1>1, <1>3 DEF Based
  <1> HIDE DEF t
  <1>5. Queued(queue, t, clients, arrived, pendingBases)
    BY <1>1, EmptyFacts DEF Queued
  <1>6. Held(t, clients, queue)
    BY <1>2 DEF Held, OnlyRoot
  <1>7. Alone
    <2>1. 0 \notin Clients
      BY XidFacts
    <2>2. Sides(clients, owner, grab, watchers, randr, redirects)
      BY <1>1, <2>1 DEF Sides, Nobody
    <2>3. Listening(t, clients)
      BY <1>2, NewRootFacts DEF Listening, OnlyRoot
    <2> QED
      BY <1>1, <2>2, <2>3 DEF Alone, t
  <1> QED
    BY <1>1, <1>2, <1>4, <1>5, <1>6, <1>7 DEF TableInv, t

-----------------------------------------------------------------------------
(* What the invariant says *)

\* A whole table is consistent.
LEMMA WholeIsConsistent ==
    ASSUME Whole(res)
    PROVE  TableIsConsistent
  <1> DEFINE t == res.table
  <1>1. /\ Typed(res) /\ Owned(res) /\ Branching(t) /\ Pinned(t) /\ Totalled(res)
        /\ Derived(t) /\ RootStands(t)
    BY WholeFacts DEF Whole, Sound
  <1>2. OwnersAreExact
    <2>1. SUFFICES ASSUME NEW x \in DOMAIN res.table \ {Root}
                   PROVE  LET list == res.owned[res.table[x].owner]
                          IN  Cardinality({i \in DOMAIN list : list[i] = x}) = 1
      BY DEF OwnersAreExact
    <2> DEFINE list == res.owned[res.table[x].owner]
    <2>2. res.table[x].owner \in Clients
      BY <1>1 DEF RootStands
    <2>3. Distinct(list) /\ x \in Range(list)
      BY <1>1, <2>2 DEF Owned
    <2> HIDE DEF list
    <2>4. PICK k \in DOMAIN list : list[k] = x
      BY <2>3 DEF Range
    <2>5. {i \in DOMAIN list : list[i] = x} = {k}
      BY <2>3, <2>4 DEF Distinct
    <2>6. Cardinality({k}) = 1
      BY FS_Singleton
    <2> QED
      BY <2>5, <2>6 DEF list
  <1> HIDE DEF t
  <1>3. TreeIsConsistent
    <2>1. SUFFICES ASSUME NEW w \in Windows(t)
                   PROVE  /\ \A i \in DOMAIN t[w].children :
                                /\ t[w].children[i] \in Windows(t)
                                /\ t[t[w].children[i]].parent = w
                          /\ w # Root => /\ t[w].parent \in Windows(t)
                                         /\ w \in Range(t[t[w].parent].children)
                          /\ t[w].class = "InputOutput" /\ w # Root
                                => t[t[w].parent].class = "InputOutput"
      BY DEF TreeIsConsistent, t
    <2>2. Range(t[w].children) = {x \in Windows(t) : x # Root /\ t[x].parent = w}
      BY <1>1 DEF Branching
    <2>3. \A i \in DOMAIN t[w].children : t[w].children[i] \in Range(t[w].children)
      BY DEF Range
    <2>4. w # Root => t[w].parent \in Windows(t)
      BY <1>1 DEF Branching, Rooted
    <2>5. w # Root => w \in Range(t[t[w].parent].children)
      BY <1>1, <2>4 DEF Branching
    <2>6. t[w].class = "InputOutput" /\ w # Root => t[t[w].parent].class = "InputOutput"
      BY <1>1 DEF Branching
    <2> QED
      BY <2>2, <2>3, <2>4, <2>5, <2>6
  <1>4. NothingDangles
    BY <1>1 DEF NothingDangles, Pinned, Hanging, t
  <1>5. TotalsAreExact
    BY <1>1 DEF TotalsAreExact, Totalled
  <1>6. MapStatesAreDerived
    BY <1>1 DEF MapStatesAreDerived, Derived, Expected, DerivedState, Asks, t
  <1> QED
    BY <1>2, <1>3, <1>4, <1>5, <1>6 DEF TableIsConsistent

\* What is held or being cleaned keeps the bases clean.
LEMMA InvClean ==
    ASSUME TableInv
    PROVE  BasesAreClean
  <1>1. /\ Whole(res) /\ Based(clients, arrived, pendingBases)
        /\ Queued(queue, res.table, clients, arrived, pendingBases)
        /\ Held(res.table, clients, queue)
    BY DEF TableInv
  <1>2. SUFFICES ASSUME NEW x \in DOMAIN res.table \ {Root},
                        clients[res.table[x].owner] # x[1]
                 PROVE  x[1] \in pendingBases /\ \A c \in Clients : clients[c] # x[1]
    BY DEF BasesAreClean
  <1>3. PICK op \in Range(queue) : op.kind = "Cleanup" /\ op.value[1] = x[1]
    BY <1>1, <1>2 DEF Held
  <1>4. Fine(op, res.table, clients, arrived, pendingBases)
    BY <1>1 DEF Queued
  <1>5. x[1] \in pendingBases
    BY <1>3, <1>4 DEF Fine, Cleaning
  <1>6. x[1] # 0
    <2>1. x \in Xids
      BY <1>1, WholeFacts DEF Places
    <2> QED
      BY <2>1, XidFacts
  <1> QED
    BY <1>1, <1>5, <1>6 DEF Based

\* What a stand-alone server knows is of clients that are there.
LEMMA InvLeavesNoTrace ==
    ASSUME TableInv
    PROVE  LeavesNoTrace
  <1>1. SUFFICES ASSUME ~integrated, NEW c \in Clients, clients[c] = 0
                 PROVE  /\ c # owner[1] /\ c # grab[1]
                        /\ \A e \in watchers \union randr : e[1] # c
                        /\ \A e \in redirects : e.client # c
                        /\ \A w \in Windows(res.table) : c \notin res.table[w].events
                        /\ res.owned[c] = <<>>
    BY DEF LeavesNoTrace
  <1>2. /\ Whole(res) /\ Held(res.table, clients, queue) /\ queue = <<>>
        /\ Sides(clients, owner, grab, watchers, randr, redirects)
        /\ Listening(res.table, clients)
    BY <1>1 DEF TableInv, Alone
  <1>3. \A x \in DOMAIN res.table \ {Root} : res.table[x].owner # c
    <2>1. SUFFICES ASSUME NEW x \in DOMAIN res.table \ {Root}, res.table[x].owner = c
                   PROVE  FALSE
      OBVIOUS
    <2>2. x[1] # 0
      <3>1. x \in Xids
        BY <1>2, WholeFacts DEF Places
      <3> QED
        BY <3>1, XidFacts
    <2>3. Range(queue) = {}
      BY <1>2, EmptyFacts
    <2> QED
      BY <1>1, <1>2, <2>1, <2>2, <2>3 DEF Held
  <1>4. Range(res.owned[c]) = {} /\ res.owned[c] \in Seq(Xids)
    <2>1. Owned(res)
      BY <1>2 DEF Whole, Sound
    <2>2. Range(res.owned[c]) = {}
      BY <1>3, <2>1 DEF Owned
    <2> QED
      BY <1>2, <2>2, PartsFacts
  <1>5. res.owned[c] = <<>>
    <2> DEFINE s == res.owned[c]
    <2>1. DOMAIN s = {}
      BY <1>4 DEF Range
    <2>2. s \in Seq(Xids)
      BY <1>4
    <2> HIDE DEF s
    <2>3. Len(s) = 0
      <3>1. Len(s) \in Nat /\ DOMAIN s = 1..Len(s)
        BY <2>2, LenProperties
      <3>2. Len(s) # 0 => 1 \in DOMAIN s
        BY <3>1
      <3> QED
        BY <2>1, <3>2
    <2>4. s = <<>>
      BY <2>2, <2>3, EmptySeq
    <2> QED
      BY <2>4 DEF s
  <1> QED
    BY <1>1, <1>2, <1>5 DEF Sides, Listening

-----------------------------------------------------------------------------
(* The theorems *)

\* TableInv holds after any requests of any clients that come and go, and any
\* answers to the deferred operations: it is the inductive invariant.
THEOREM TableInvIsInvariant == Spec => []TableInv
  <1>1. Init => TableInv
    BY InitKeeps
  <1>2. TableInv /\ [Next]_vars => TableInv'
    BY NextKeeps
  <1> QED
    BY <1>1, <1>2, PTL DEF Spec

\* The resource table stays whole through every order of requests, of clients
\* that leave and of deferred operations that commit late: each resource is in its
\* owner's list once, the window tree agrees in both directions, nothing outlives
\* its drawable, the totals are exact and within the limits, and the stored map
\* states are what the tree makes them (ResourceTable::invariants_hold).
THEOREM TableStaysConsistent == Spec => []TableIsConsistent
  <1>1. TableInv => TableIsConsistent
    BY WholeIsConsistent DEF TableInv
  <1> QED
    BY <1>1, TableInvIsInvariant, PTL

\* A resource base is not given to a new client while anything of its previous
\* holder is in the table or waits to be cleaned (allocate_resource_base).
THEOREM BasesStayClean == Spec => []BasesAreClean
  <1>1. TableInv => BasesAreClean
    BY InvClean
  <1> QED
    BY <1>1, TableInvIsInvariant, PTL

\* A client that leaves a stand-alone server takes with it its resources, its
\* event selections, selections, grab and redirections (cleanup_client).
THEOREM LeaversLeaveNoTrace == Spec => []LeavesNoTrace
  <1>1. TableInv => LeavesNoTrace
    BY InvLeavesNoTrace
  <1> QED
    BY <1>1, TableInvIsInvariant, PTL

=============================================================================
