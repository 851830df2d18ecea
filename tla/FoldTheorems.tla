---------------------------- MODULE FoldTheorems ----------------------------
(***************************************************************************)
(* What FoldLeft of the community modules computes, for any operator: a    *)
(* module that folds an operator of its own instantiates this one with it. *)
(* The library defines a fold as a recursive function on the subsets of a  *)
(* domain, so that what is to be proved first is that there is one.        *)
(***************************************************************************)
EXTENDS Integers, Sequences, SequencesExt, FiniteSetsExt, WellFoundedInduction, TLAPS

CONSTANT Op(_, _)

(* A set of naturals that is not empty has a least element. *)
LEMMA LeastNat ==
  ASSUME NEW S \in SUBSET Nat, S # {}
  PROVE  \E n \in S : \A m \in S : n <= m
<1>1. PICK n \in S : \A m \in S : <<m, n>> \notin OpToRel(<, Nat)
  BY WFMin, NatLessThanWellFounded
<1>2. \A m \in S : ~(m < n)
  BY <1>1 DEF OpToRel
<1>. QED  BY <1>2

(* The function the library's fold stands for, on the sets up to m. *)
Folds(b, s, m, g) ==
  g = [S \in SUBSET (1 .. m) |-> IF S = {} THEN b ELSE Op(g[S \ {Max(S)}], s[Max(S)])]

(* The last element of an interval, and what is left without it. *)
LEMMA MaxOfInterval ==
  ASSUME NEW m \in Nat, NEW S \in SUBSET (1 .. m + 1)
  PROVE  /\ m + 1 \in S => Max(S) = m + 1 /\ S \ {m + 1} \in SUBSET (1 .. m)
         /\ m + 1 \notin S => S \in SUBSET (1 .. m)
         /\ Max(1 .. m + 1) = m + 1 /\ (1 .. m + 1) \ {m + 1} = 1 .. m
<1>1. ASSUME NEW T \in SUBSET (1 .. m + 1), m + 1 \in T PROVE Max(T) = m + 1
  <2>1. \A y \in T : m + 1 >= y /\ (\A x \in T : x >= m + 1 => x = m + 1)
    BY <1>1
  <2>. QED  BY <1>1, <2>1 DEF Max
<1>2. m + 1 \in 1 .. m + 1 /\ (1 .. m + 1) \ {m + 1} = 1 .. m
  OBVIOUS
<1>. QED  BY <1>1, <1>2

(* The recursive function exists: the sets up to m have it, those up to    *)
(* m + 1 have it from that.                                                *)
LEMMA FoldsExist ==
  ASSUME NEW b, NEW s, NEW m \in Nat
  PROVE  \E g : Folds(b, s, m, g)
<1>. DEFINE Bad == {n \in Nat : ~\E g : Folds(b, s, n, g)}
<1>. SUFFICES ASSUME Bad # {} PROVE FALSE
  OBVIOUS
<1>1. PICK n \in Bad : \A j \in Bad : n <= j
  <2>. HIDE DEF Bad
  <2>1. Bad \in SUBSET Nat
    BY DEF Bad
  <2>. QED  BY <2>1, LeastNat
<1>2. n # 0
  <2>. DEFINE g == [S \in SUBSET (1 .. 0) |-> b]
  <2>1. SUBSET (1 .. 0) = {{}}
    OBVIOUS
  <2>2. Folds(b, s, 0, g)
    BY <2>1 DEF Folds
  <2>. QED  BY <1>1, <2>2
<1>3. PICK g : Folds(b, s, n - 1, g)
  <2>1. n - 1 \in Nat /\ ~(n <= n - 1)
    BY <1>1, <1>2
  <2>. QED  BY <1>1, <2>1
<1>. DEFINE k == n - 1
            h == [S \in SUBSET (1 .. n) |-> IF S \in SUBSET (1 .. k) THEN g[S] ELSE Op(g[S \ {n}], s[n])]
<1>4. k \in Nat /\ n = k + 1
  BY <1>1, <1>2
<1>. HIDE DEF k
<1>5. ASSUME NEW S \in SUBSET (1 .. n)
      PROVE  h[S] = IF S = {} THEN b ELSE Op(h[S \ {Max(S)}], s[Max(S)])
  <2>1. h[S] = IF S \in SUBSET (1 .. k) THEN g[S] ELSE Op(g[S \ {n}], s[n])
    OBVIOUS
  <2>2. \A T \in SUBSET (1 .. k) : T \in SUBSET (1 .. n) /\ h[T] = g[T]
    <3>1. 1 .. k \subseteq 1 .. n
      BY <1>4
    <3>. QED  BY <3>1
  <2>. HIDE DEF h
  <2>3. CASE n \in S
    <3>1. Max(S) = n /\ S \ {n} \in SUBSET (1 .. k) /\ S \notin SUBSET (1 .. k) /\ S # {}
      <4>1. n \notin 1 .. k
        BY <1>4
      <4>. QED  BY <1>4, <2>3, <4>1, MaxOfInterval
    <3>. QED  BY <2>1, <2>2, <3>1
  <2>4. CASE n \notin S
    <3>1. S \in SUBSET (1 .. k)
      BY <1>4, <2>4, MaxOfInterval
    <3>2. g[S] = IF S = {} THEN b ELSE Op(g[S \ {Max(S)}], s[Max(S)])
      BY <1>3, <3>1 DEF Folds, k
    <3>3. S \ {Max(S)} \in SUBSET (1 .. k)
      BY <3>1
    <3>. QED  BY <2>2, <3>1, <3>2, <3>3
  <2>. QED  BY <2>3, <2>4
<1>6. Folds(b, s, n, h)
  <2>1. h = [S \in SUBSET (1 .. n) |-> h[S]]
    OBVIOUS
  <2>. HIDE DEF h
  <2>. QED  BY <1>5, <2>1 DEF Folds
<1>. HIDE DEF h
<1>. QED  BY <1>1, <1>6

(* A fold goes through a sequence of results, one for each element. *)
THEOREM FoldSteps ==
  ASSUME NEW X, NEW s \in Seq(X), NEW b
  PROVE  \E r : /\ r[0] = b
                /\ \A k \in 1 .. Len(s) : r[k] = Op(r[k - 1], s[k])
                /\ FoldLeft(Op, b, s) = r[Len(s)]
<1>. DEFINE n == Len(s)
            F(g) == g = [S \in SUBSET (DOMAIN s) |-> IF S = {} THEN b ELSE Op(g[S \ {Max(S)}], s[Max(S)])]
            g == CHOOSE f : F(f)
<1>1. FoldLeft(Op, b, s) = g[DOMAIN s]
  BY DEF FoldLeft, MapThenFoldSet
<1>2. n \in Nat /\ DOMAIN s = 1 .. n
  OBVIOUS
<1>3. F(g)
  <2>1. \E f : F(f)
    <3>1. PICK f : Folds(b, s, n, f)
      BY <1>2, FoldsExist
    <3>2. F(f)
      <4>1. f = [S \in SUBSET (1 .. n) |-> IF S = {} THEN b ELSE Op(f[S \ {Max(S)}], s[Max(S)])]
        BY <3>1 DEF Folds
      <4>. HIDE DEF n
      <4>. QED  BY <1>2, <4>1
    <3>. QED  BY <3>2
  <2>. HIDE DEF F
  <2>. QED  BY <2>1
<1>4. g = [S \in SUBSET (1 .. n) |-> IF S = {} THEN b ELSE Op(g[S \ {Max(S)}], s[Max(S)])]
  <2>. HIDE DEF g
  <2>. QED  BY <1>2, <1>3
<1>. HIDE DEF g, F, n
<1>. DEFINE r == [k \in 0 .. n |-> g[1 .. k]]
<1>5. r[0] = b
  <2>1. 1 .. 0 = {} /\ 0 \in 0 .. n
    BY <1>2
  <2>. QED  BY <1>4, <2>1
<1>6. ASSUME NEW k \in 1 .. n PROVE r[k] = Op(r[k - 1], s[k])
  <2>1. /\ k - 1 \in Nat /\ k = (k - 1) + 1 /\ k - 1 \in 0 .. n /\ k \in 0 .. n
        /\ 1 .. k \in SUBSET (1 .. n) /\ 1 .. k # {}
    BY <1>2
  <2>2. Max(1 .. k) = k /\ (1 .. k) \ {k} = 1 .. k - 1
    BY <2>1, MaxOfInterval
  <2>. QED  BY <1>4, <2>1, <2>2
<1>7. FoldLeft(Op, b, s) = r[n]
  BY <1>1, <1>2
<1>. HIDE DEF r
<1>. QED  BY <1>5, <1>6, <1>7 DEF n

(* The results of a fold, after none and after each of n elements. *)
Results(r, b, s, n) ==
  r[0] = b /\ \A k \in 1 .. n : r[k] = Op(r[k - 1], s[k])

(* Two sequences of results of one fold agree. *)
LEMMA FoldUnique ==
  ASSUME NEW n \in Nat, NEW s, NEW b, NEW r, Results(r, b, s, n), NEW q, Results(q, b, s, n)
  PROVE  \A k \in 0 .. n : r[k] = q[k]
<1>. DEFINE Bad == {k \in 0 .. n : r[k] # q[k]}
<1>. SUFFICES ASSUME Bad # {} PROVE FALSE
  OBVIOUS
<1>1. PICK k \in Bad : \A j \in Bad : k <= j
  <2>1. Bad \in SUBSET Nat
    OBVIOUS
  <2>. HIDE DEF Bad
  <2>. QED  BY <2>1, LeastNat
<1>2. k # 0
  BY <1>1 DEF Results
<1>3. k - 1 \in 0 .. n /\ k \in 1 .. n /\ ~(k <= k - 1)
  BY <1>1, <1>2
<1>4. r[k - 1] = q[k - 1]
  BY <1>1, <1>3
<1>. QED  BY <1>1, <1>3, <1>4 DEF Results

(* The fold over nothing is the base. *)
THEOREM FoldEmpty == ASSUME NEW b PROVE FoldLeft(Op, b, <<>>) = b
<1>. DEFINE s == <<>>
<1>1. s \in Seq({}) /\ Len(s) = 0
  OBVIOUS
<1>. HIDE DEF s
<1>2. PICK r : /\ r[0] = b
               /\ \A k \in 1 .. Len(s) : r[k] = Op(r[k - 1], s[k])
               /\ FoldLeft(Op, b, s) = r[Len(s)]
  BY <1>1, FoldSteps
<1>. QED  BY <1>1, <1>2 DEF s

(* One fold after the other is the fold over both.                         *)
THEOREM FoldConcat ==
  ASSUME NEW X, NEW s \in Seq(X), NEW t \in Seq(X), NEW b
  PROVE  FoldLeft(Op, b, s \o t) = FoldLeft(Op, FoldLeft(Op, b, s), t)
<1>. DEFINE n == Len(s)
            m == Len(t)
            u == s \o t
<1>1. /\ u \in Seq(X) /\ n \in Nat /\ m \in Nat /\ Len(u) = n + m
      /\ \A k \in 1 .. n : u[k] = s[k]
      /\ \A k \in 1 .. m : u[n + k] = t[k]
  OBVIOUS
<1>2. PICK r : /\ r[0] = b
               /\ \A k \in 1 .. n : r[k] = Op(r[k - 1], s[k])
               /\ FoldLeft(Op, b, s) = r[n]
  BY FoldSteps
<1>3. PICK q : /\ q[0] = r[n]
               /\ \A k \in 1 .. m : q[k] = Op(q[k - 1], t[k])
               /\ FoldLeft(Op, r[n], t) = q[m]
  BY FoldSteps
<1>. HIDE DEF u
<1>4. PICK p : /\ p[0] = b
               /\ \A k \in 1 .. Len(u) : p[k] = Op(p[k - 1], u[k])
               /\ FoldLeft(Op, b, u) = p[Len(u)]
  BY <1>1, FoldSteps
<1>. HIDE DEF n, m
<1>5. \A k \in 0 .. n : p[k] = r[k]
  <2>1. \A k \in 1 .. n : p[k] = Op(p[k - 1], s[k])
    <3>1. 1 .. n \subseteq 1 .. Len(u)
      BY <1>1
    <3>. QED  BY <1>1, <1>4, <3>1
  <2>2. Results(p, b, s, n) /\ Results(r, b, s, n)
    BY <1>2, <1>4, <2>1 DEF Results
  <2>. QED  BY <1>1, <2>2, FoldUnique
<1>. DEFINE e == [k \in 0 .. m |-> p[n + k]]
<1>6. \A k \in 0 .. m : e[k] = q[k]
  <2>1. e[0] = q[0]
    BY <1>1, <1>3, <1>5
  <2>2. ASSUME NEW k \in 1 .. m PROVE e[k] = Op(e[k - 1], t[k])
    <3>1. n + k \in 1 .. Len(u) /\ k \in 0 .. m /\ k - 1 \in 0 .. m /\ n + (k - 1) = (n + k) - 1
      BY <1>1
    <3>2. e[k] = p[n + k] /\ e[k - 1] = p[(n + k) - 1]
      BY <3>1
    <3>. QED  BY <1>1, <1>3, <1>4, <3>1, <3>2
  <2>. HIDE DEF e
  <2>3. Results(e, r[n], t, m) /\ Results(q, r[n], t, m)
    BY <1>3, <2>1, <2>2 DEF Results
  <2>. QED  BY <1>1, <2>3, FoldUnique
<1>7. p[Len(u)] = q[m]
  BY <1>1, <1>6
<1>. QED  BY <1>2, <1>3, <1>4, <1>7 DEF n, m, u

(* The fold over one element more.                                         *)
THEOREM FoldAppend ==
  ASSUME NEW X, NEW s \in Seq(X), NEW x \in X, NEW b
  PROVE  FoldLeft(Op, b, Append(s, x)) = Op(FoldLeft(Op, b, s), x)
<1>1. <<x>> \in Seq(X) /\ Len(<<x>>) = 1 /\ <<x>>[1] = x /\ Append(s, x) = s \o <<x>>
  OBVIOUS
<1>2. FoldLeft(Op, b, Append(s, x)) = FoldLeft(Op, FoldLeft(Op, b, s), <<x>>)
  BY <1>1, FoldConcat
<1>. DEFINE c == FoldLeft(Op, b, s)
            t == <<x>>
<1>. HIDE DEF c, t
<1>3. PICK r : /\ r[0] = c
               /\ \A k \in 1 .. Len(t) : r[k] = Op(r[k - 1], t[k])
               /\ FoldLeft(Op, c, t) = r[Len(t)]
  BY <1>1, FoldSteps DEF t
<1>4. Len(t) = 1 /\ t[1] = x
  BY <1>1 DEF t
<1>5. r[1] = Op(c, x)
  <2>1. 1 \in 1 .. 1 /\ 1 - 1 = 0
    OBVIOUS
  <2>2. r[1] = Op(r[1 - 1], t[1])
    BY <1>3, <1>4, <2>1
  <2>. QED  BY <1>3, <1>4, <2>1, <2>2
<1>. QED  BY <1>2, <1>3, <1>4, <1>5 DEF c, t
=============================================================================
