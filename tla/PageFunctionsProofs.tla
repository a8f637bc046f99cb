------------------------ MODULE PageFunctionsProofs ------------------------
(***************************************************************************)
(* What the page's functions return for every input, and not only for      *)
(* those the runs enumerate.                                               *)
(*                                                                         *)
(* A loop or a recursion of the code is a recursive function or a fold of  *)
(* the model.  For each there is a lemma that it is well defined (Loop for *)
(* one over a sequence, Recursion for the rest), and what it computes is   *)
(* proved by induction: NatInSet, from the least counterexample.  With the *)
(* one inductive invariant, Computed, each property follows.               *)
(***************************************************************************)
EXTENDS PageFunctions, SequenceTheorems, FiniteSetTheorems, WellFoundedInduction, TLAPS

-----------------------------------------------------------------------------
(* Induction and recursion over natural numbers.                             *)

\* A nonempty set of naturals has a least element.
LEMMA LeastNat ==
  ASSUME NEW S \in SUBSET Nat, S # {}
  PROVE  \E n \in S : \A m \in S : n <= m
<1> DEFINE R == {ss \in Nat \X Nat : ss[1] < ss[2]}
<1>1. IsWellFoundedOn(R, Nat)
  BY NatLessThanWellFounded DEF OpToRel
<1>2. PICK n \in S : \A m \in S : ~(<<m, n>> \in R)
  <2> HIDE DEF R
  <2> QED BY <1>1, WFMin
<1>3. \A m \in S : ~(m < n)
  BY <1>2
<1> QED BY <1>3

\* Induction, for a set of naturals instead of a predicate.
LEMMA NatInSet ==
  ASSUME NEW S, 0 \in S, \A n \in Nat : n \in S => n + 1 \in S
  PROVE  Nat \subseteq S
<1> SUFFICES ASSUME Nat \ S # {} PROVE FALSE
  OBVIOUS
<1>1. PICK n \in Nat \ S : \A m \in Nat \ S : n <= m
  BY LeastNat
<1>2. n # 0 /\ n - 1 \in Nat /\ ~(n <= n - 1)
  BY <1>1
<1>3. n - 1 \in S
  BY <1>1, <1>2
<1>4. (n - 1) + 1 \in S
  BY <1>2, <1>3
<1>5. (n - 1) + 1 = n
  BY <1>2
<1>6. n \in S
  BY <1>4, <1>5
<1> QED BY <1>1, <1>6

\* h holds the values F, F of F, ... take on from a.
Iterates(h, n, A, F, a) ==
  /\ h \in [0 .. n -> A] /\ h[0] = a
  /\ \A i \in 1 .. n : h[i] = F[h[i - 1]]

\* They exist.
LEMMA IteratesExist ==
  ASSUME NEW A, NEW F \in [A -> A], NEW a \in A, NEW n \in Nat
  PROVE  \E h : Iterates(h, n, A, F, a)
<1> DEFINE Good == {m \in Nat : \E h : Iterates(h, m, A, F, a)}
<1>1. 0 \in Good
  <2> DEFINE h == [i \in 0 .. 0 |-> a]
  <2>1. Iterates(h, 0, A, F, a)
    BY DEF Iterates
  <2> HIDE DEF h
  <2> QED BY <2>1
<1>2. ASSUME NEW m \in Nat, m \in Good PROVE m + 1 \in Good
  <2>1. PICK h : Iterates(h, m, A, F, a)
    BY <1>2
  <2> DEFINE g == [i \in 0 .. m + 1 |-> IF i = m + 1 THEN F[h[m]] ELSE h[i]]
  <2>2. g \in [0 .. m + 1 -> A] /\ g[0] = a
    BY <2>1 DEF Iterates
  <2>3. \A i \in 1 .. m + 1 : g[i] = F[g[i - 1]]
    BY <2>1 DEF Iterates
  <2> HIDE DEF g
  <2>4. Iterates(g, m + 1, A, F, a)
    BY <2>2, <2>3 DEF Iterates
  <2> QED BY <2>4
<1> HIDE DEF Good
<1>3. n \in Good
  BY <1>1, <1>2, NatInSet
<1> QED BY <1>3 DEF Good

\* The value of F[f] at k depends on those of f of lower rank only.
Descends(D, T, m, rank, F) ==
  /\ rank \in [D -> 0 .. m] /\ F \in [[D -> T] -> [D -> T]]
  /\ \A g, h \in [D -> T] : \A k \in D :
       (\A j \in D : rank[j] < rank[k] => g[j] = h[j]) => F[g][k] = F[h][k]

\* f is what F makes of f.
Solves(f, D, T, F) == f \in [D -> T] /\ f = F[f]

\* A recursive definition of a function has a solution.
LEMMA Recursion ==
  ASSUME NEW D, NEW T, T # {}, NEW m \in Nat, NEW rank, NEW F, Descends(D, T, m, rank, F)
  PROVE  \E f : Solves(f, D, T, F)
<1> DEFINE A == [D -> T]
<1>1. m + 2 \in Nat /\ F \in [A -> A]
  BY DEF Descends
<1>2. PICK a : a \in A
  <2>1. PICK t : t \in T
    OBVIOUS
  <2>2. [d \in D |-> t] \in A
    BY <2>1
  <2> QED BY <2>2
<1>3. PICK h : Iterates(h, m + 2, A, F, a)
  <2> HIDE DEF A
  <2> QED BY <1>1, <1>2, IteratesExist
<1>4. \A i \in 0 .. m + 2 : h[i] \in [D -> T]
  BY <1>3 DEF Iterates
<1>5. \A i \in 0 .. m + 1 : h[i + 1] = F[h[i]]
  <2>1. \A i \in 0 .. m + 1 : i + 1 \in 1 .. m + 2 /\ (i + 1) - 1 = i
    OBVIOUS
  <2>2. \A i \in 1 .. m + 2 : h[i] = F[h[i - 1]]
    BY <1>3 DEF Iterates
  <2> QED BY <2>1, <2>2
<1> DEFINE Good == {i \in Nat : i <= m + 1 => \A k \in D : rank[k] < i => h[i][k] = h[i + 1][k]}
<1>6. 0 \in Good
  <2>1. \A k \in D : ~(rank[k] < 0)
    BY DEF Descends
  <2> QED BY <2>1
<1>7. ASSUME NEW i \in Nat, i \in Good PROVE i + 1 \in Good
  <2> SUFFICES ASSUME i + 1 <= m + 1, NEW k \in D, rank[k] < i + 1
               PROVE  h[i + 1][k] = h[(i + 1) + 1][k]
    OBVIOUS
  <2>1. i \in 0 .. m + 1 /\ i + 1 \in 0 .. m + 1 /\ i + 1 \in 0 .. m + 2 /\ i \in 0 .. m + 2
    OBVIOUS
  <2>2. h[i + 1] = F[h[i]] /\ h[(i + 1) + 1] = F[h[i + 1]]
    BY <1>5, <2>1
  <2>3. h[i] \in [D -> T] /\ h[i + 1] \in [D -> T]
    BY <1>4, <2>1
  <2>4. ASSUME NEW j \in D, rank[j] < rank[k] PROVE h[i][j] = h[i + 1][j]
    <3>1. rank[j] \in Nat /\ rank[k] \in Nat
      BY DEF Descends
    <3>2. rank[j] < i /\ i <= m + 1
      BY <2>4, <3>1
    <3> QED BY <1>7, <3>2
  <2>5. F[h[i]][k] = F[h[i + 1]][k]
    BY <2>3, <2>4 DEF Descends
  <2> QED BY <2>2, <2>5
<1> HIDE DEF Good
<1>8. m + 1 \in Good
  BY <1>6, <1>7, NatInSet
<1> DEFINE f == h[m + 1]
<1>9. f \in [D -> T] /\ F[f] = h[m + 2] /\ F[f] \in [D -> T]
  <2>1. m + 1 \in 0 .. m + 1 /\ m + 1 \in 0 .. m + 2 /\ m + 2 \in 0 .. m + 2 /\ (m + 1) + 1 = m + 2
    OBVIOUS
  <2> QED BY <2>1, <1>4, <1>5
<1>10. \A k \in D : f[k] = F[f][k]
  <2>1. (m + 1) + 1 = m + 2 /\ m + 1 <= m + 1
    OBVIOUS
  <2>2. \A k \in D : rank[k] < m + 1
    BY DEF Descends
  <2> QED BY <1>8, <1>9, <2>1, <2>2 DEF Good
<1>11. f = F[f]
  BY <1>9, <1>10
<1>12. Solves(f, D, T, F)
  BY <1>9, <1>11 DEF Solves
<1> QED BY <1>12

-----------------------------------------------------------------------------
(* enrichConfig(): the tree of a pool's devices.                             *)

\* The greatest of a nonempty set of naturals with a bound.
LEMMA MaxFact ==
  ASSUME NEW n \in Nat, NEW S \in SUBSET (0 .. n), S # {}
  PROVE  Max(S) \in S /\ \A x \in S : x <= Max(S)
<1> DEFINE U == {n - x : x \in S}
<1>0. U \in SUBSET Nat /\ U # {}
  <2>1. \A x \in S : n - x \in Nat
    OBVIOUS
  <2> QED BY <2>1
<1>1. PICK k \in U : \A l \in U : k <= l
  <2> HIDE DEF U
  <2> QED BY <1>0, LeastNat
<1>2. PICK x \in S : k = n - x
  BY <1>1
<1>3. \A y \in S : x >= y
  BY <1>1, <1>2
<1> QED BY <1>3 DEF Max

\* Pop leaves a beginning of the stack.
LEMMA PopFact ==
  ASSUME NEW config, NEW s \in Seq(Nat), NEW indent
  PROVE  \E m \in 0 .. Len(s) :
           /\ Pop(config, s, indent) = SubSeq(s, 1, m)
           /\ m # 0 => config[s[m]] < indent
           /\ \A k \in 1 .. Len(s) : config[s[k]] < indent => k <= m
<1> DEFINE S == {0} \cup {k \in DOMAIN s : config[s[k]] < indent}
<1>1. S \in SUBSET (0 .. Len(s)) /\ S # {} /\ Len(s) \in Nat
  BY LenProperties
<1>2. Pop(config, s, indent) = SubSeq(s, 1, Max(S))
  BY DEF Pop
<1>3. Max(S) \in S /\ \A x \in S : x <= Max(S)
  <2> HIDE DEF S
  <2> QED BY <1>1, MaxFact
<1> DEFINE m == Max(S)
<1>4. m \in 0 .. Len(s)
  BY <1>1, <1>3
<1>5. m # 0 => config[s[m]] < indent
  BY <1>3
<1>6. ASSUME NEW k \in 1 .. Len(s), config[s[k]] < indent PROVE k <= m
  <2>1. k \in S
    BY <1>6, LenProperties
  <2> QED BY <2>1, <1>3
<1> HIDE DEF m
<1> QED BY <1>2, <1>4, <1>5, <1>6 DEF m

\* The lines up to line i that line i is, or the next may be, under.
Lead(config, i) == {j \in 1 .. i : \A k \in j + 1 .. i : config[k] > config[j]}

\* s is the stack that line i of the loop finds, when it has been cut.
Stacked(config, i, s) ==
  /\ s \in Seq(Nat) /\ ToSet(s) = Lead(config, i)
  /\ \A k, l \in 1 .. Len(s) : k < l => s[k] < s[l]

\* A line of the loop of enrichConfig: what is left of the stack is what the
\* line is under.
LEMMA PopLeads ==
  ASSUME NEW config \in Seq(Nat), NEW i \in 0 .. Len(config) - 1, NEW s, Stacked(config, i, s)
  PROVE  LET left == Pop(config, s, config[i + 1])
         IN /\ left \in Seq(Nat)
            /\ ToSet(left) = {j \in Lead(config, i) : config[j] < config[i + 1]}
            /\ Stacked(config, i + 1, Append(left, i + 1))
<1> DEFINE left == Pop(config, s, config[i + 1])
<1>1. Len(config) \in Nat /\ i \in Nat /\ i + 1 \in 1 .. Len(config) /\ Len(s) \in Nat /\ s \in Seq(Nat)
  BY LenProperties DEF Stacked
<1>2. PICK m \in 0 .. Len(s) :
           /\ left = SubSeq(s, 1, m)
           /\ m # 0 => config[s[m]] < config[i + 1]
           /\ \A k \in 1 .. Len(s) : config[s[k]] < config[i + 1] => k <= m
  BY <1>1, PopFact
<1>3. left \in Seq(Nat) /\ Len(left) = m /\ \A k \in 1 .. m : left[k] = s[k]
  BY <1>1, <1>2, SubSeqProperties
<1>4. \A k \in 1 .. Len(s) : s[k] \in Lead(config, i) /\ s[k] \in 1 .. i
  BY <1>1, LenProperties DEF Stacked, ToSet, Lead
<1>5. \A j \in 1 .. Len(config) : config[j] \in Nat
  BY LenProperties, ElementOfSeq
<1>6. \A k \in 1 .. m : config[s[k]] < config[i + 1]
  <2> SUFFICES ASSUME NEW k \in 1 .. m, k < m PROVE config[s[k]] < config[i + 1]
    BY <1>2
  <2>1. s[k] < s[m] /\ s[k] \in Lead(config, i) /\ s[m] \in 1 .. i /\ s[k] \in 1 .. i
    BY <1>1, <1>4 DEF Stacked
  <2>2. config[s[m]] > config[s[k]]
    BY <2>1 DEF Lead
  <2>3. config[s[k]] \in Nat /\ config[s[m]] \in Nat /\ config[i + 1] \in Nat
    <3>1. s[k] \in 1 .. Len(config) /\ s[m] \in 1 .. Len(config)
      BY <1>1, <2>1
    <3> QED BY <1>1, <1>5, <3>1
  <2>4. config[s[m]] < config[i + 1]
    <3>1. m # 0
      OBVIOUS
    <3>2. QED BY ONLY <1>2, <3>1
  <2>5. QED BY ONLY <2>2, <2>3, <2>4
<1>7. ToSet(left) = {j \in Lead(config, i) : config[j] < config[i + 1]}
  <2>1. ToSet(left) = {s[k] : k \in 1 .. m}
    BY <1>3, LenProperties DEF ToSet
  <2>2. ToSet(s) = {s[k] : k \in 1 .. Len(s)} /\ ToSet(s) = Lead(config, i)
    BY <1>1, LenProperties DEF ToSet, Stacked
  <2>3. ASSUME NEW j \in Lead(config, i), config[j] < config[i + 1] PROVE j \in ToSet(left)
    <3>1. PICK k \in 1 .. Len(s) : s[k] = j
      BY <2>2
    <3>2. k \in 1 .. m
      BY <1>2, <2>3, <3>1
    <3> QED BY <2>1, <3>1, <3>2
  <2>4. ASSUME NEW j \in ToSet(left) PROVE j \in Lead(config, i) /\ config[j] < config[i + 1]
    BY <1>4, <1>6, <2>1
  <2> QED BY <2>3, <2>4
<1>8. Stacked(config, i + 1, Append(left, i + 1))
  <2> DEFINE t == Append(left, i + 1)
  <2>1. t \in Seq(Nat) /\ Len(t) = m + 1 /\ t[m + 1] = i + 1 /\ \A k \in 1 .. m : t[k] = s[k]
    BY <1>1, <1>3, AppendProperties
  <2>2. ToSet(t) = ToSet(left) \cup {i + 1}
    <3>1. DOMAIN t = 1 .. m + 1 /\ DOMAIN left = 1 .. m
      BY <1>3, <2>1, LenProperties
    <3>2. \A k \in 1 .. m + 1 : k = m + 1 \/ k \in 1 .. m
      OBVIOUS
    <3> HIDE DEF t
    <3>3. ToSet(t) = {t[k] : k \in 1 .. m + 1} /\ ToSet(left) = {left[k] : k \in 1 .. m}
      BY <3>1 DEF ToSet
    <3>4. \A k \in 1 .. m : t[k] = left[k] /\ k \in 1 .. m + 1
      BY <2>1, <1>3
    <3>5. m + 1 \in 1 .. m + 1
      OBVIOUS
    <3> HIDE DEF left
    <3> QED BY <3>2, <3>3, <3>4, <3>5, <2>1
  <2>3. Lead(config, i + 1) = ToSet(left) \cup {i + 1}
    <3>1. ASSUME NEW j \in Lead(config, i + 1), j # i + 1
          PROVE  j \in Lead(config, i) /\ config[j] < config[i + 1]
      <4>1. j \in 1 .. i /\ i + 1 \in j + 1 .. i + 1
        BY <1>1, <3>1 DEF Lead
      <4>2. config[i + 1] > config[j]
        BY <4>1, <3>1 DEF Lead
      <4>3. \A k \in j + 1 .. i : config[k] > config[j]
        BY <1>1, <3>1 DEF Lead
      <4>4. config[j] \in Nat /\ config[i + 1] \in Nat
        BY <1>1, <1>5, <4>1
      <4> QED BY <4>1, <4>2, <4>3, <4>4 DEF Lead
    <3>2. ASSUME NEW j \in Lead(config, i), config[j] < config[i + 1]
          PROVE  j \in Lead(config, i + 1)
      <4>1. j \in 1 .. i + 1 /\ j \in 1 .. i
        BY <1>1 DEF Lead
      <4>2. config[j] \in Nat /\ config[i + 1] \in Nat
        BY <1>1, <1>5, <4>1
      <4>3. ASSUME NEW k \in j + 1 .. i + 1 PROVE config[k] > config[j]
        <5>1. k = i + 1 \/ k \in j + 1 .. i
          BY <1>1, <4>1
        <5> QED BY <5>1, <4>2, <3>2 DEF Lead
      <4> QED BY <4>1, <4>3 DEF Lead
    <3>3. i + 1 \in Lead(config, i + 1)
      BY <1>1 DEF Lead
    <3> QED BY <1>7, <3>1, <3>2, <3>3
  <2>4. ASSUME NEW k \in 1 .. m + 1, NEW l \in 1 .. m + 1, k < l PROVE t[k] < t[l]
    <3>1. k \in 1 .. m /\ t[k] = s[k] /\ s[k] \in 1 .. i
      BY <2>1, <2>4, <1>4
    <3>2. CASE l = m + 1
      BY <3>1, <3>2, <2>1, <1>1
    <3>3. CASE l # m + 1
      <4>1. l \in 1 .. m
        BY <3>3
      <4>2. k \in 1 .. Len(s) /\ l \in 1 .. Len(s)
        BY <3>1, <4>1, <1>1
      <4>3. s[k] < s[l]
        BY <4>2, <2>4 DEF Stacked
      <4> QED BY <3>1, <4>1, <4>3, <2>1
    <3> QED BY <3>2, <3>3
  <2> HIDE DEF t
  <2>5. Stacked(config, i + 1, t)
    BY <2>1, <2>2, <2>3, <2>4 DEF Stacked
  <2> QED BY <2>5 DEF t
<1> QED BY <1>3, <1>7, <1>8

\* The stack of enrichConfig's loop, defined by recursion, is well defined.
LEMMA StackDefined ==
  ASSUME NEW config \in Seq(Nat)
  PROVE  LET stack[i \in 0 .. Len(config)] ==
               IF i = 0 THEN <<>> ELSE Append(Pop(config, stack[i - 1], config[i]), i)
         IN stack = [i \in 0 .. Len(config) |->
                       IF i = 0 THEN <<>> ELSE Append(Pop(config, stack[i - 1], config[i]), i)]
<1> DEFINE D == 0 .. Len(config)
           T == Seq(Nat)
           Step(g) == [i \in D |-> IF i = 0 THEN <<>>
                                   ELSE Append(Pop(config, g[i - 1], config[i]), i)]
           F == [g \in [D -> T] |-> Step(g)]
           rank == [i \in D |-> i]
<1>1. Len(config) \in Nat
  BY LenProperties
<1>2. ASSUME NEW g \in [D -> T] PROVE Step(g) \in [D -> T]
  <2> SUFFICES ASSUME NEW i \in D, i # 0 PROVE Append(Pop(config, g[i - 1], config[i]), i) \in T
    <3>1. <<>> \in T
      OBVIOUS
    <3> HIDE DEF T
    <3> QED BY <3>1
  <2>1. i - 1 \in D /\ i \in Nat
    BY <1>1
  <2>2. g[i - 1] \in Seq(Nat)
    BY <2>1
  <2>3. Pop(config, g[i - 1], config[i]) \in Seq(Nat)
    <3>1. PICK m \in 0 .. Len(g[i - 1]) : Pop(config, g[i - 1], config[i]) = SubSeq(g[i - 1], 1, m)
      BY <2>2, PopFact
    <3> QED BY <2>2, <3>1, SubSeqProperties
  <2> QED BY <2>1, <2>3, AppendProperties
<1>3. Descends(D, T, Len(config), rank, F)
  <2>1. rank \in [D -> 0 .. Len(config)]
    OBVIOUS
  <2>2. F \in [[D -> T] -> [D -> T]]
    BY <1>2
  <2>3. ASSUME NEW g \in [D -> T], NEW h \in [D -> T], NEW k \in D,
               \A j \in D : rank[j] < rank[k] => g[j] = h[j]
        PROVE  F[g][k] = F[h][k]
    <3>1. CASE k = 0
      BY <3>1
    <3>2. CASE k # 0
      <4>1. k - 1 \in D /\ rank[k - 1] < rank[k]
        BY <1>1, <3>2
      <4>2. g[k - 1] = h[k - 1]
        BY <4>1, <2>3
      <4> QED BY <4>2
    <3> QED BY <3>1, <3>2
  <2> HIDE DEF D, T, F, rank
  <2> QED BY <2>1, <2>2, <2>3 DEF Descends
<1>4. PICK f : Solves(f, D, T, F)
  <2>1. T # {}
    BY EmptySeq
  <2> HIDE DEF D, T, F, rank
  <2> QED BY <1>1, <1>3, <2>1, Recursion
<1>5. f = Step(f)
  BY <1>4 DEF Solves
<1> QED BY <1>5

\* A line is under those that a vdev's page has it below.
LEMMA Stacks ==
  ASSUME NEW config \in Seq(Nat), NEW stack,
         stack = [i \in 0 .. Len(config) |->
                    IF i = 0 THEN <<>> ELSE Append(Pop(config, stack[i - 1], config[i]), i)]
  PROVE  \A i \in 0 .. Len(config) : Stacked(config, i, stack[i])
<1>1. Len(config) \in Nat
  BY LenProperties
<1> DEFINE Good == {i \in Nat : i <= Len(config) => Stacked(config, i, stack[i])}
<1>2. 0 \in Good
  <2>1. stack[0] = <<>>
    BY <1>1
  <2>2. Lead(config, 0) = {} /\ ToSet(<<>>) = {}
    BY DEF Lead, ToSet
  <2>3. Stacked(config, 0, <<>>)
    <3>1. <<>> \in Seq(Nat) /\ \A k \in 1 .. Len(<<>>) : FALSE
      OBVIOUS
    <3> QED BY <2>2, <3>1 DEF Stacked
  <2> QED BY <2>1, <2>3
<1>3. ASSUME NEW i \in Nat, i \in Good PROVE i + 1 \in Good
  <2> SUFFICES ASSUME i + 1 <= Len(config) PROVE Stacked(config, i + 1, stack[i + 1])
    OBVIOUS
  <2>1. i \in 0 .. Len(config) - 1 /\ i + 1 \in 0 .. Len(config) /\ i + 1 # 0 /\ (i + 1) - 1 = i
    BY <1>1
  <2>2. stack[i + 1] = Append(Pop(config, stack[i], config[i + 1]), i + 1)
    BY <2>1
  <2>3. Stacked(config, i, stack[i])
    BY <1>1, <1>3, <2>1
  <2>4. Stacked(config, i + 1, Append(Pop(config, stack[i], config[i + 1]), i + 1))
    BY <2>1, <2>3, PopLeads
  <2> QED BY <2>2, <2>4
<1> HIDE DEF Good
<1>4. Nat \subseteq Good
  BY <1>2, <1>3, NatInSet
<1>5. \A i \in 0 .. Len(config) : i \in Good /\ i <= Len(config)
  BY <1>1, <1>4
<1> QED BY <1>5 DEF Good

\* The ancestors enrichConfig gives a line are those whose page lists it, and
\* the lines nothing is under are those SMART asks for.
LEMMA EnrichConfigFact ==
  ASSUME NEW config \in Seq(Nat)
  PROVE  SameTree(config, EnrichConfig(config))
<1> DEFINE stack[i \in 0 .. Len(config)] ==
             IF i = 0 THEN <<>> ELSE Append(Pop(config, stack[i - 1], config[i]), i)
<1>1. stack = [i \in 0 .. Len(config) |->
                 IF i = 0 THEN <<>> ELSE Append(Pop(config, stack[i - 1], config[i]), i)]
  BY StackDefined
<1>2. EnrichConfig(config) = [i \in DOMAIN config |-> Front(stack[i])]
  BY DEF EnrichConfig
<1> HIDE DEF stack
<1>3. Len(config) \in Nat /\ DOMAIN config = 1 .. Len(config)
  BY LenProperties
<1>4. \A i \in 0 .. Len(config) : Stacked(config, i, stack[i])
  BY <1>1, Stacks
<1>5. ASSUME NEW i \in DOMAIN config
      PROVE  ToSet(EnrichConfig(config)[i]) =
               {j \in 1 .. i - 1 : \A k \in j + 1 .. i : config[k] > config[j]}
  <2> DEFINE left == Pop(config, stack[i - 1], config[i])
             n    == i - 1
  <2>1. i \in 0 .. Len(config) /\ i # 0 /\ n \in 0 .. Len(config) - 1 /\ n + 1 = i
    BY <1>3
  <2>2. stack[i] = Append(left, i)
    BY <1>1, <2>1
  <2>3. Stacked(config, n, stack[n])
    BY <1>4, <2>1, <1>3
  <2>4. left \in Seq(Nat) /\ ToSet(left) = {j \in Lead(config, n) : config[j] < config[i]}
    <3>1. LET l == Pop(config, stack[n], config[n + 1])
          IN l \in Seq(Nat) /\ ToSet(l) = {j \in Lead(config, n) : config[j] < config[n + 1]}
      <4> HIDE DEF n
      <4> QED BY <2>1, <2>3, PopLeads
    <3> QED BY <3>1, <2>1
  <2>5. Front(Append(left, i)) = left
    <3> HIDE DEF left
    <3> QED BY <2>4, <2>1, AppendProperties, SubSeqFull DEF Front
  <2>6. EnrichConfig(config)[i] = left
    BY <1>2, <2>2, <2>5
  <2>7. \A j \in 1 .. Len(config) : config[j] \in Nat
    BY <1>3, ElementOfSeq
  <2>8. ASSUME NEW j \in 1 .. i - 1
        PROVE  (\A k \in j + 1 .. i : config[k] > config[j])
                 <=> (\A k \in j + 1 .. n : config[k] > config[j]) /\ config[j] < config[i]
    <3>1. \A k \in j + 1 .. i : k \in j + 1 .. n \/ k = i
      BY <1>3
    <3>2. i \in j + 1 .. i /\ \A k \in j + 1 .. n : k \in j + 1 .. i
      BY <1>3
    <3>3. config[i] \in Nat /\ config[j] \in Nat
      BY <1>3, <2>7
    <3> QED BY <3>1, <3>2, <3>3
  <2> HIDE DEF left
  <2> QED BY <2>4, <2>6, <2>8 DEF Lead
<1>6. ASSUME NEW j \in DOMAIN config, NEW i \in DOMAIN config
      PROVE  i \in ConfigChildren(config, j) <=> j \in ToSet(EnrichConfig(config)[i])
  <2>1. j \in 1 .. i - 1 <=> i \in j + 1 .. Len(config)
    BY <1>3
  <2> QED BY <1>5, <2>1 DEF ConfigChildren
<1>7. ASSUME NEW j \in DOMAIN config
      PROVE  IsStatusConfigLeaf(config, j) <=> ConfigChildren(config, j) = {}
  <2>1. ASSUME NEW i \in ConfigChildren(config, j) PROVE j # Len(config) /\ config[j + 1] > config[j]
    <3>1. i \in j + 1 .. Len(config) /\ j + 1 \in j + 1 .. i
      BY <1>3 DEF ConfigChildren
    <3> QED BY <1>3, <3>1 DEF ConfigChildren
  <2>2. ASSUME j # Len(config), config[j + 1] > config[j] PROVE j + 1 \in ConfigChildren(config, j)
    <3>1. j + 1 \in j + 1 .. Len(config) /\ \A k \in j + 1 .. j + 1 : k = j + 1
      BY <1>3, <2>2
    <3> QED BY <2>2, <3>1 DEF ConfigChildren
  <2>3. j # Len(config) => config[j] \in Nat /\ config[j + 1] \in Nat
    <3>1. j # Len(config) => j + 1 \in 1 .. Len(config)
      BY <1>3
    <3> QED BY <1>3, <3>1, ElementOfSeq
  <2> QED BY <2>1, <2>2, <2>3 DEF IsStatusConfigLeaf
<1> QED BY <1>6, <1>7 DEF SameTree

-----------------------------------------------------------------------------
(* applyListFilter(): the lists of a browser.                                *)

\* What a list's filter shows under a heading are the rows between it and the
\* next one that pass.
LEMMA ListFilterFact ==
  ASSUME NEW list \in Seq([is : {"heading", "row", "up", "remark"}, text : SUBSET STRING]),
         NEW parts
  PROVE  HeadingsHoldRows(list, parts, ApplyListFilter(list, parts))
<1> DEFINE tok   == ParseFilterTokens(parts)
           shown == ApplyListFilter(list, parts)
<1>1. Len(list) \in Nat /\ DOMAIN list = 1 .. Len(list)
  BY LenProperties
<1>2. shown = {i \in DOMAIN list :
                 \/ ShownRow(list, i, tok)
                 \/ list[i].is = "remark"
                 \/ list[i].is = "heading" /\ (parts = <<>> \/ \E k \in Under(list, i) : ShownRow(list, k, tok))}
  BY DEF ApplyListFilter
<1> HIDE DEF tok, shown
<1> SUFFICES ASSUME NEW i \in DOMAIN list, list[i].is = "heading"
             PROVE  LET next == {h \in i + 1 .. Len(list) : list[h].is = "heading"}
                        rows == {k \in shown : k > i /\ (\A h \in next : k < h)
                                               /\ list[k].is \in {"row", "up"}}
                    IN /\ rows # {} => i \in shown
                       /\ parts # <<>> /\ rows = {} => i \notin shown
  BY DEF HeadingsHoldRows, shown
<1> DEFINE next == {h \in i + 1 .. Len(list) : list[h].is = "heading"}
           rows == {k \in shown : k > i /\ (\A h \in next : k < h) /\ list[k].is \in {"row", "up"}}
<1>3. ASSUME NEW k \in rows PROVE k \in Under(list, i) /\ ShownRow(list, k, tok)
  <2>1. k \in i + 1 .. Len(list) /\ k \in DOMAIN list /\ list[k].is \in {"row", "up"}
    BY <1>1, <1>2
  <2>2. ShownRow(list, k, tok)
    BY <1>2, <2>1
  <2>3. ASSUME NEW h \in i + 1 .. k, list[h].is = "heading" PROVE FALSE
    <3>1. h \in next
      BY <1>1, <2>1, <2>3
    <3> QED BY <1>1, <2>1, <3>1
  <2> QED BY <2>1, <2>2, <2>3 DEF Under
<1>4. ASSUME NEW k \in Under(list, i), ShownRow(list, k, tok) PROVE k \in rows
  <2>1. k \in i + 1 .. Len(list) /\ \A h \in i + 1 .. k : list[h].is # "heading"
    BY DEF Under
  <2>2. k \in shown /\ list[k].is \in {"row", "up"} /\ k > i
    <3>1. k \in DOMAIN list /\ k > i
      BY <1>1, <2>1
    <3>2. list[k].is \in {"row", "up"}
      BY <1>4 DEF ShownRow
    <3> QED BY <1>2, <1>4, <3>1, <3>2
  <2>3. \A h \in next : k < h
    BY <1>1, <2>1
  <2> QED BY <2>2, <2>3
<1>5. ~ShownRow(list, i, tok)
  BY DEF ShownRow
<1>6. i \in shown <=> parts = <<>> \/ \E k \in Under(list, i) : ShownRow(list, k, tok)
  BY <1>2, <1>5
<1> HIDE DEF next, rows
<1>7. /\ rows # {} => i \in shown
      /\ parts # <<>> /\ rows = {} => i \notin shown
  BY <1>3, <1>4, <1>6
<1> QED BY <1>7 DEF next, rows

-----------------------------------------------------------------------------
(* The pages of a history.                                                   *)

\* FlattenSeq, whose recursion is well defined, appends one after the other.
LEMMA FlattenDefined ==
  ASSUME NEW S, NEW seqs \in Seq(Seq(S))
  PROVE  LET flatten[i \in 1 .. Len(seqs)] ==
               IF i = 1 THEN seqs[i] ELSE flatten[i - 1] \o seqs[i]
         IN flatten = [i \in 1 .. Len(seqs) |->
                         IF i = 1 THEN seqs[i] ELSE flatten[i - 1] \o seqs[i]]
<1> DEFINE D == 1 .. Len(seqs)
           T == Seq(S)
           Step(g) == [i \in D |-> IF i = 1 THEN seqs[i] ELSE g[i - 1] \o seqs[i]]
           F == [g \in [D -> T] |-> Step(g)]
           rank == [i \in D |-> i]
<1>1. Len(seqs) \in Nat /\ \A i \in D : seqs[i] \in T
  BY LenProperties, ElementOfSeq
<1>2. ASSUME NEW g \in [D -> T] PROVE Step(g) \in [D -> T]
  <2>1. ASSUME NEW i \in D, i # 1 PROVE g[i - 1] \o seqs[i] \in T
    <3>1. i - 1 \in D
      BY <1>1, <2>1
    <3>2. g[i - 1] \in T /\ seqs[i] \in T
      BY <1>1, <3>1
    <3> QED BY <3>2, ConcatProperties
  <2> HIDE DEF T, D
  <2> QED BY <1>1, <2>1
<1>3. Descends(D, T, Len(seqs), rank, F)
  <2>1. rank \in [D -> 0 .. Len(seqs)]
    BY <1>1
  <2>2. F \in [[D -> T] -> [D -> T]]
    BY <1>2
  <2>3. ASSUME NEW g \in [D -> T], NEW h \in [D -> T], NEW k \in D,
               \A j \in D : rank[j] < rank[k] => g[j] = h[j]
        PROVE  F[g][k] = F[h][k]
    <3>1. CASE k = 1
      BY <3>1
    <3>2. CASE k # 1
      <4>1. k - 1 \in D /\ rank[k - 1] < rank[k]
        BY <1>1, <3>2
      <4>2. g[k - 1] = h[k - 1]
        BY <4>1, <2>3
      <4> QED BY <4>2
    <3> QED BY <3>1, <3>2
  <2> HIDE DEF D, T, F, rank
  <2> QED BY <2>1, <2>2, <2>3 DEF Descends
<1>4. PICK f : Solves(f, D, T, F)
  <2>1. T # {}
    BY EmptySeq
  <2> HIDE DEF D, T, F, rank
  <2> QED BY <1>1, <1>3, <2>1, Recursion
<1>5. f = Step(f)
  BY <1>4 DEF Solves
<1> QED BY <1>5

\* What is flattened so far, acc, ends in the result.
LEMMA FlattenFact ==
  ASSUME NEW S, NEW seqs \in Seq(Seq(S)), Len(seqs) > 0, NEW acc, acc[0] = <<>>,
         \A i \in 0 .. Len(seqs) - 1 : acc[i] \in Seq(S) /\ acc[i + 1] = acc[i] \o seqs[i + 1]
  PROVE  FlattenSeq(seqs) = acc[Len(seqs)]
<1> DEFINE flatten[i \in 1 .. Len(seqs)] == IF i = 1 THEN seqs[i] ELSE flatten[i - 1] \o seqs[i]
           n == Len(seqs)
<1>1. flatten = [i \in 1 .. Len(seqs) |-> IF i = 1 THEN seqs[i] ELSE flatten[i - 1] \o seqs[i]]
  BY FlattenDefined
<1>2. n \in Nat /\ n > 0 /\ \A i \in 1 .. n : seqs[i] \in Seq(S)
  BY LenProperties, ElementOfSeq
<1>3. FlattenSeq(seqs) = flatten[n]
  BY <1>2 DEF FlattenSeq
<1> HIDE DEF flatten
<1> DEFINE Good == {i \in Nat : i + 1 <= n => flatten[i + 1] = acc[i + 1]}
<1>4. 0 \in Good
  <2>1. 0 + 1 = 1 /\ 1 \in 1 .. n /\ 0 \in 0 .. n - 1
    BY <1>2
  <2>2. flatten[1] = seqs[1] /\ acc[1] = <<>> \o seqs[1] /\ seqs[1] \in Seq(S)
    BY <1>1, <1>2, <2>1
  <2>3. flatten[1] = acc[1]
    BY <2>2, ConcatEmptySeq
  <2> QED BY <2>1, <2>3
<1>5. ASSUME NEW i \in Nat, i \in Good PROVE i + 1 \in Good
  <2> DEFINE k == i + 1
  <2> SUFFICES ASSUME k + 1 <= n PROVE flatten[k + 1] = acc[k + 1]
    OBVIOUS
  <2>1. k \in 0 .. n - 1 /\ k + 1 \in 1 .. n /\ k + 1 # 1 /\ (k + 1) - 1 = k /\ i + 1 <= n
    BY <1>2
  <2>2. flatten[k] = acc[k]
    BY <1>5, <2>1
  <2> HIDE DEF k
  <2>3. flatten[k + 1] = flatten[k] \o seqs[k + 1]
    BY <1>1, <2>1
  <2>4. acc[k + 1] = acc[k] \o seqs[k + 1]
    BY <2>1
  <2> QED BY <2>2, <2>3, <2>4
<1> HIDE DEF Good
<1>6. n - 1 \in Good /\ (n - 1) + 1 = n
  <2>1. n - 1 \in Nat /\ (n - 1) + 1 = n
    BY <1>2
  <2> QED BY <1>4, <1>5, <2>1, NatInSet
<1>7. flatten[n] = acc[n]
  BY <1>6 DEF Good
<1> QED BY <1>3, <1>7

\* Division with remainder below the divisor.
LEMMA RemainderFact ==
  ASSUME NEW a \in Nat, NEW b \in Nat, a < b
  PROVE  a % b = a
OBVIOUS

\* An int that is not too great stays what it is.
LEMMA WrapFact ==
  ASSUME NEW n \in 0 .. IntMax
  PROVE  Wrap(n) = n
<1> DEFINE a == n + IntMax + 1
           b == 2 * (IntMax + 1)
<1>1. IntMax \in Nat /\ a \in Nat /\ b \in Nat /\ a < b /\ n \in Nat
  BY IntAssumption
<1>2. a % b = a
  <2> HIDE DEF a, b
  <2> QED BY <1>1, RemainderFact
<1> QED BY <1>1, <1>2 DEF Wrap

\* A page of a history: what is asked for of what there is.
LEMMA PoolHistoryFact ==
  ASSUME NEW all, Len(all) \in Nat, NEW offset \in 0 .. IntMax, NEW limit \in 1 .. IntMax,
         Len(all) + limit <= IntMax
  PROVE  PoolHistory(all, offset, limit) =
           IF offset > Len(all) THEN <<>>
           ELSE SubSeq(all, offset + 1, IF offset + limit < Len(all) THEN offset + limit ELSE Len(all))
<1>1. IntMax \in Nat /\ offset \in Nat /\ limit \in Nat /\ limit > 0
  BY IntAssumption
<1>2. Max({0, offset}) = offset
  <2>1. \A x \in {0, offset} : (\A y \in {0, offset} : x >= y) <=> x = offset
    BY <1>1
  <2> QED BY <2>1 DEF Max
<1>3. CASE offset > Len(all)
  BY <1>2, <1>3 DEF PoolHistory
<1>4. CASE ~(offset > Len(all))
  <2>1. offset + limit \in 0 .. IntMax
    BY <1>1, <1>4
  <2>2. Wrap(offset + limit) = offset + limit
    BY <2>1, WrapFact
  <2> DEFINE end == IF offset + limit < Len(all) THEN offset + limit ELSE Len(all)
  <2>3. ~(end < offset)
    BY <1>1, <1>4
  <2>4. PoolHistory(all, offset, limit) =
          IF offset > Len(all) THEN <<>> ELSE IF end < offset THEN Panic ELSE SubSeq(all, offset + 1, end)
    BY <1>1, <1>2, <2>2 DEF PoolHistory
  <2> QED BY <1>4, <2>3, <2>4
<1> QED BY <1>3, <1>4

\* A beginning and what comes next make a longer beginning.
LEMMA JoinFact ==
  ASSUME NEW S, NEW s \in Seq(S), NEW a \in 0 .. Len(s), NEW b \in a .. Len(s)
  PROVE  SubSeq(s, 1, a) \o SubSeq(s, a + 1, b) = SubSeq(s, 1, b)
<1>1. Len(s) \in Nat
  BY LenProperties
<1>2. 1 \in 1 .. Len(s) + 1 /\ a \in 1 - 1 .. Len(s)
  BY <1>1
<1> QED BY <1>2, ConcatAdjacentSubSeq

\* Products of what grows by a page at a time.
LEMMA TimesFact ==
  ASSUME NEW i \in Nat, NEW p \in Nat \ {0}
  PROVE  /\ i * p \in Nat /\ i * p >= i
         /\ (i + 1) * p = i * p + p /\ 0 * p = 0
<1>1. i * p \in Nat /\ (i + 1) * p = i * p + p /\ 0 * p = 0
  OBVIOUS
<1>2. i * p >= i
  <2>1. p - 1 \in Nat /\ i * (p - 1) \in Nat /\ i * p = i * (p - 1) + i
    OBVIOUS
  <2> QED BY <2>1
<1> QED BY <1>1, <1>2

\* The pages of a history put together are the history.
LEMMA PagesFact ==
  ASSUME NEW S, NEW all \in Seq(S), Len(all) + DefaultLimit <= IntMax,
         NEW limit \in IntRange, limit <= IntMax - Len(all)
  PROVE  PagesTile(all, Pages(all, limit))
<1> DEFINE page == IF limit <= 0 THEN DefaultLimit ELSE limit
           N == Len(all)
           pages == Pages(all, limit)
           upTo(i) == IF i * page < N THEN i * page ELSE N
           acc == [i \in 0 .. N + 1 |-> SubSeq(all, 1, upTo(i))]
<1>1. /\ N \in Nat /\ N + 1 \in Nat /\ IntMax \in Nat
      /\ page \in 1 .. IntMax /\ page \in Nat \ {0} /\ page > 0 /\ N + page <= IntMax
  BY IntAssumption, LenProperties DEF IntRange
<1>2. ASSUME NEW i \in 0 .. N
      PROVE  /\ upTo(i) \in 0 .. N /\ upTo(i + 1) \in 0 .. N /\ upTo(0) = 0 /\ upTo(N + 1) = N
             /\ pages[i + 1] = IF i * page > N THEN <<>> ELSE SubSeq(all, upTo(i) + 1, upTo(i + 1))
             /\ i * page > N => upTo(i) = N /\ upTo(i + 1) = N
  <2>1. /\ i * page \in Nat /\ (i + 1) * page = i * page + page /\ 0 * page = 0
        /\ (N + 1) * page \in Nat /\ (N + 1) * page >= N + 1
    <3> HIDE DEF page
    <3>1. i \in Nat
      BY <1>1
    <3> QED BY <1>1, <3>1, TimesFact
  <2> DEFINE o == i * page
  <2>2. /\ upTo(i) = IF o < N THEN o ELSE N
        /\ upTo(i + 1) = IF o + page < N THEN o + page ELSE N
        /\ upTo(0) = IF 0 < N THEN 0 ELSE N
    BY <2>1
  <2>3. upTo(N + 1) = N
    <3> HIDE DEF page
    <3> QED BY <1>1, <2>1
  <2>4. pages[i + 1] = HandlePoolHistory(all, Min({((i + 1) - 1) * page, IntMax}), limit)
    <3>1. i + 1 \in 1 .. Len(all) + 1
      BY <1>1
    <3> QED BY <3>1 DEF Pages
  <2>5. ((i + 1) - 1) * page = o
    BY <1>1
  <2> DEFINE at == Min({o, IntMax})
  <2>6. at = IF o < IntMax THEN o ELSE IntMax
    <3>1. \A x \in {o, IntMax} : (\A y \in {o, IntMax} : x =< y) <=> x = (IF o < IntMax THEN o ELSE IntMax)
      BY <1>1, <2>1
    <3> QED BY <3>1 DEF Min
  <2>7. at \in 0 .. IntMax
    BY <1>1, <2>1, <2>6
  <2> HIDE DEF at
  <2>8. pages[i + 1] = PoolHistory(all, at, page)
    BY <2>4, <2>5 DEF HandlePoolHistory, at
  <2> HIDE DEF page, o, pages, upTo
  <2>9. pages[i + 1] = IF at > N THEN <<>>
                       ELSE SubSeq(all, at + 1, IF at + page < N THEN at + page ELSE N)
    BY <1>1, <2>7, <2>8, PoolHistoryFact
  <2>10. CASE o > N
    <3>1. at > N
      BY <1>1, <2>1, <2>6, <2>10 DEF o
    <3>2. upTo(i) = N /\ upTo(i + 1) = N
      BY <1>1, <2>1, <2>2, <2>10 DEF o
    <3> QED BY <1>1, <2>2, <2>3, <2>9, <2>10, <3>1, <3>2 DEF o
  <2>11. CASE ~(o > N)
    <3>1. at = o /\ ~(at > N)
      BY <1>1, <2>1, <2>6, <2>11 DEF o
    <3>2. upTo(i) = o /\ upTo(i) \in 0 .. N /\ upTo(i + 1) \in 0 .. N
      BY <1>1, <2>1, <2>2, <2>11 DEF o
    <3>3. upTo(i + 1) = IF at + page < N THEN at + page ELSE N
      BY <2>2, <3>1
    <3>4. upTo(0) = 0
      BY <1>1, <2>2
    <3>5. pages[i + 1] = SubSeq(all, upTo(i) + 1, upTo(i + 1))
      BY <2>9, <3>1, <3>2, <3>3
    <3> QED BY <2>3, <2>11, <3>2, <3>4, <3>5 DEF o
  <2> QED BY <2>10, <2>11
<1>3. pages \in Seq(Seq(S)) /\ Len(pages) = N + 1
  <2>1. DOMAIN pages = 1 .. N + 1 /\ pages = [k \in 1 .. N + 1 |-> pages[k]]
    BY DEF Pages
  <2>2. ASSUME NEW k \in 1 .. N + 1 PROVE pages[k] \in Seq(S)
    <3>1. k - 1 \in 0 .. N /\ (k - 1) + 1 = k
      BY <1>1
    <3>2. upTo(k - 1) \in 0 .. N /\ upTo((k - 1) + 1) \in 0 .. N
          /\ pages[(k - 1) + 1] = IF (k - 1) * page > N THEN <<>>
                                  ELSE SubSeq(all, upTo(k - 1) + 1, upTo((k - 1) + 1))
      BY <1>2, <3>1
    <3> HIDE DEF pages, upTo, page
    <3>3. <<>> \in Seq(S)
      OBVIOUS
    <3>4. SubSeq(all, upTo(k - 1) + 1, upTo((k - 1) + 1)) \in Seq(S)
      BY <1>1, <3>2, SubSeqProperties
    <3> QED BY <3>1, <3>2, <3>3, <3>4
  <2> HIDE DEF pages
  <2> QED BY <1>1, <2>1, <2>2, IsASeq
<1>4. ASSUME NEW i \in 0 .. N PROVE acc[i] \in Seq(S) /\ acc[i + 1] = acc[i] \o pages[i + 1]
  <2>1. acc[i] = SubSeq(all, 1, upTo(i)) /\ acc[i + 1] = SubSeq(all, 1, upTo(i + 1))
    <3>1. i \in 0 .. N + 1 /\ i + 1 \in 0 .. N + 1
      BY <1>1
    <3> HIDE DEF upTo
    <3> QED BY <3>1
  <2>2. /\ upTo(i) \in 0 .. N /\ upTo(i + 1) \in 0 .. N
        /\ pages[i + 1] = IF i * page > N THEN <<>> ELSE SubSeq(all, upTo(i) + 1, upTo(i + 1))
        /\ i * page > N => upTo(i) = N /\ upTo(i + 1) = N
    BY <1>2
  <2>3. upTo(i) <= upTo(i + 1)
    <3>1. i * page \in Nat /\ (i + 1) * page = i * page + page
      <4> HIDE DEF page
      <4>1. i \in Nat
        BY <1>1
      <4> QED BY <1>1, <4>1, TimesFact
    <3> QED BY <1>1, <3>1
  <2> HIDE DEF acc, pages, upTo, page
  <2>4. acc[i] \in Seq(S) /\ acc[i + 1] \in Seq(S)
    BY <1>1, <2>1, <2>2, SubSeqProperties
  <2>5. CASE i * page > N
    BY <2>1, <2>2, <2>4, <2>5, ConcatEmptySeq
  <2>6. CASE ~(i * page > N)
    <3>1. upTo(i + 1) \in upTo(i) .. Len(all)
      BY <1>1, <2>2, <2>3
    <3>2. SubSeq(all, 1, upTo(i)) \o SubSeq(all, upTo(i) + 1, upTo(i + 1)) = SubSeq(all, 1, upTo(i + 1))
      BY <2>2, <3>1, JoinFact
    <3>3. pages[i + 1] = SubSeq(all, upTo(i) + 1, upTo(i + 1))
      BY <2>2, <2>6
    <3> QED BY <2>1, <2>4, <3>2, <3>3
  <2> QED BY <2>4, <2>5, <2>6
<1>5. acc[0] = <<>> /\ acc[N + 1] = all
  <2>1. upTo(0) = 0 /\ upTo(N + 1) = N /\ 0 \in 0 .. N + 1 /\ N + 1 \in 0 .. N + 1
    BY <1>1, <1>2
  <2>2. acc[0] = SubSeq(all, 1, 0) /\ acc[N + 1] = SubSeq(all, 1, N)
    BY <2>1
  <2> QED BY <2>2, SubSeqEmpty, SubSeqFull
<1> HIDE DEF acc, pages
<1>6. FlattenSeq(pages) = acc[N + 1]
  <2>1. \A i \in 0 .. Len(pages) - 1 : acc[i] \in Seq(S) /\ acc[i + 1] = acc[i] \o pages[i + 1]
    <3>1. Len(pages) - 1 = N
      BY <1>1, <1>3
    <3> QED BY <1>4, <3>1
  <2>2. Len(pages) > 0
    BY <1>1, <1>3
  <2> QED BY <1>3, <1>5, <2>1, <2>2, FlattenFact
<1> QED BY <1>5, <1>6 DEF PagesTile, pages

-----------------------------------------------------------------------------
(* The usage bars.                                                           *)

\* Taking the greatest out of a set of indices leaves a smaller one.
LEMMA IndicesFact ==
  ASSUME NEW n \in Nat, NEW s \in SUBSET (1 .. n)
  PROVE  /\ Cardinality(s) \in 0 .. n
         /\ s # {} => /\ Max(s) \in s /\ s \ {Max(s)} \in SUBSET (1 .. n)
                      /\ Cardinality(s \ {Max(s)}) < Cardinality(s)
<1>1. IsFiniteSet(1 .. n) /\ Cardinality(1 .. n) = n
  BY FS_Interval
<1>2. IsFiniteSet(s) /\ Cardinality(s) \in Nat /\ Cardinality(s) <= n
  BY <1>1, FS_Subset, FS_CardinalityType
<1>3. s # {} => Max(s) \in s
  <2>1. s \in SUBSET (0 .. n)
    OBVIOUS
  <2> QED BY <2>1, MaxFact
<1>4. ASSUME NEW x \in s PROVE Cardinality(s \ {x}) < Cardinality(s)
  <2>1. Cardinality(s \ {x}) = Cardinality(s) - 1
    BY <1>2, FS_RemoveElement
  <2> QED BY <1>2, <2>1
<1>5. s # {} => s \ {Max(s)} \in SUBSET (1 .. n)
  OBVIOUS
<1>6. Cardinality(s) \in 0 .. n
  BY <1>2
<1> QED BY <1>3, <1>4, <1>5, <1>6

\* The greatest index up to k is k.
LEMMA LastIndexFact ==
  ASSUME NEW k \in Nat \ {0}
  PROVE  Max(1 .. k) = k /\ (1 .. k) \ {k} = 1 .. k - 1
<1>1. \A x \in 1 .. k : (\A y \in 1 .. k : x >= y) <=> x = k
  OBVIOUS
<1>2. k \in 1 .. k
  OBVIOUS
<1>3. Max(1 .. k) = k
  BY <1>1, <1>2 DEF Max
<1>4. (1 .. k) \ {k} = 1 .. k - 1
  OBVIOUS
<1> QED BY <1>3, <1>4

\* What segments are drawn of.
Kinds ==
  {"part", "own", "unallocated", "disk", "used", "free", "dataset", "snap", "all", "data", "reservation"}

\* A segment of a bar.
Segment == [is : Kinds, bytes : Nat]

\* What segments are, one by one.
LEMMA SegmentsFact ==
  ASSUME NEW segs \in Seq(Segment)
  PROVE  /\ Len(segs) \in Nat /\ DOMAIN segs = 1 .. Len(segs)
         /\ \A i \in 1 .. Len(segs) : segs[i] \in Segment /\ segs[i].bytes \in Nat
<1>1. Len(segs) \in Nat /\ DOMAIN segs = 1 .. Len(segs)
  BY LenProperties
<1>2. \A i \in 1 .. Len(segs) : segs[i] \in Segment
  BY ElementOfSeq
<1> QED BY <1>1, <1>2 DEF Segment

\* acc holds what the first segments amount to.
SumsUp(acc, segs) ==
  /\ acc \in [0 .. Len(segs) -> Nat] /\ acc[0] = 0
  /\ \A k \in 1 .. Len(segs) : acc[k] = acc[k - 1] + segs[k].bytes

\* The fold of Sum, whose recursion is well defined, adds one after the other.
LEMMA SumDefined ==
  ASSUME NEW segs \in Seq(Segment)
  PROVE  LET iter[s \in SUBSET (DOMAIN segs)] ==
               IF s = {} THEN 0 ELSE LET x == Max(s) IN iter[s \ {x}] + segs[x].bytes
         IN iter = [s \in SUBSET (DOMAIN segs) |->
                      IF s = {} THEN 0 ELSE LET x == Max(s) IN iter[s \ {x}] + segs[x].bytes]
<1> DEFINE n == Len(segs)
           D == SUBSET (DOMAIN segs)
           Step(g) == [s \in D |-> IF s = {} THEN 0 ELSE LET x == Max(s) IN g[s \ {x}] + segs[x].bytes]
           F == [g \in [D -> Nat] |-> Step(g)]
           rank == [s \in D |-> Cardinality(s)]
<1>1. n \in Nat /\ DOMAIN segs = 1 .. n /\ \A i \in 1 .. n : segs[i].bytes \in Nat
  BY SegmentsFact
<1>2. ASSUME NEW g \in [D -> Nat] PROVE Step(g) \in [D -> Nat]
  <2>1. ASSUME NEW s \in D, s # {} PROVE g[s \ {Max(s)}] + segs[Max(s)].bytes \in Nat
    <3>1. Max(s) \in 1 .. n /\ s \ {Max(s)} \in D
      BY <1>1, <2>1, IndicesFact
    <3>2. g[s \ {Max(s)}] \in Nat
      BY <3>1
    <3> QED BY <1>1, <3>1, <3>2
  <2> QED BY <2>1
<1>3. Descends(D, Nat, n, rank, F)
  <2>1. rank \in [D -> 0 .. n]
    BY <1>1, IndicesFact
  <2>2. F \in [[D -> Nat] -> [D -> Nat]]
    BY <1>2
  <2>3. ASSUME NEW g \in [D -> Nat], NEW h \in [D -> Nat], NEW k \in D,
               \A j \in D : rank[j] < rank[k] => g[j] = h[j]
        PROVE  F[g][k] = F[h][k]
    <3>1. CASE k = {}
      BY <3>1
    <3>2. CASE k # {}
      <4>1. k \ {Max(k)} \in D /\ rank[k \ {Max(k)}] < rank[k]
        BY <1>1, <3>2, IndicesFact
      <4>2. g[k \ {Max(k)}] = h[k \ {Max(k)}]
        BY <4>1, <2>3
      <4> QED BY <4>2
    <3> QED BY <3>1, <3>2
  <2> HIDE DEF D, F, rank
  <2> QED BY <2>1, <2>2, <2>3 DEF Descends
<1>4. PICK f : Solves(f, D, Nat, F)
  <2> HIDE DEF D, F, rank
  <2> QED BY <1>1, <1>3, Recursion
<1>5. f = Step(f)
  BY <1>4 DEF Solves
<1> QED BY <1>5

\* What Sum returns.
LEMMA SumSteps ==
  ASSUME NEW segs \in Seq(Segment)
  PROVE  \E acc : SumsUp(acc, segs) /\ Sum(segs) = acc[Len(segs)]
<1> DEFINE n == Len(segs)
           iter[s \in SUBSET (DOMAIN segs)] ==
             IF s = {} THEN 0 ELSE LET x == Max(s) IN iter[s \ {x}] + segs[x].bytes
<1>1. iter = [s \in SUBSET (DOMAIN segs) |->
                IF s = {} THEN 0 ELSE LET x == Max(s) IN iter[s \ {x}] + segs[x].bytes]
  BY SumDefined
<1>2. Sum(segs) = iter[DOMAIN segs]
  BY DEF Sum, FoldLeft, MapThenFoldSet
<1>3. n \in Nat /\ DOMAIN segs = 1 .. n /\ \A i \in 1 .. n : segs[i].bytes \in Nat
  BY SegmentsFact
<1> HIDE DEF iter
<1> DEFINE acc == [k \in 0 .. n |-> iter[1 .. k]]
<1>4. iter[{}] = 0
  BY <1>1
<1>5. ASSUME NEW k \in 1 .. n PROVE iter[1 .. k] = iter[1 .. k - 1] + segs[k].bytes
  <2>1. 1 .. k \in SUBSET (DOMAIN segs) /\ 1 .. k # {} /\ k \in Nat \ {0}
    <3>1. k \in Nat /\ k >= 1 /\ k <= n /\ k \in 1 .. k
      BY <1>3
    <3>2. \A i \in 1 .. k : i \in 1 .. n
      BY <1>3, <3>1
    <3>3. \A S : S = 1 .. n => 1 .. k \in SUBSET S
      BY <3>2
    <3>4. 1 .. k \in SUBSET (DOMAIN segs)
      BY <1>3, <3>3
    <3>5. 1 .. k # {}
      BY <3>1
    <3>6. k \in Nat \ {0}
      BY <3>1
    <3> QED BY <3>4, <3>5, <3>6
  <2>2. Max(1 .. k) = k /\ (1 .. k) \ {k} = 1 .. k - 1
    BY <2>1, LastIndexFact
  <2>3. iter[1 .. k] = LET x == Max(1 .. k) IN iter[(1 .. k) \ {x}] + segs[x].bytes
    BY <1>1, <2>1
  <2> QED BY <2>2, <2>3
<1>6. acc[0] = 0 /\ \A k \in 1 .. n : acc[k] = acc[k - 1] + segs[k].bytes
  <2>1. 1 .. 0 = {} /\ 0 \in 0 .. n
    BY <1>3
  <2>2. \A k \in 1 .. n : k \in 0 .. n /\ k - 1 \in 0 .. n
    BY <1>3
  <2> QED BY <1>4, <1>5, <2>1, <2>2
<1> DEFINE Good == {k \in Nat : k <= n => acc[k] \in Nat}
<1>7. \A k \in 0 .. n : acc[k] \in Nat
  <2>1. 0 \in Good
    BY <1>6
  <2>2. ASSUME NEW k \in Nat, k \in Good PROVE k + 1 \in Good
    <3> SUFFICES ASSUME k + 1 <= n PROVE acc[k + 1] \in Nat
      OBVIOUS
    <3>1. k + 1 \in 1 .. n /\ (k + 1) - 1 = k /\ k <= n
      BY <1>3
    <3>2. acc[k + 1] = acc[k] + segs[k + 1].bytes /\ segs[k + 1].bytes \in Nat
      BY <1>3, <1>6, <3>1
    <3>3. acc[k] \in Nat
      BY <2>2, <3>1
    <3> QED BY <3>2, <3>3
  <2> HIDE DEF Good
  <2>3. Nat \subseteq Good
    BY <2>1, <2>2, NatInSet
  <2>4. \A k \in 0 .. n : k \in Good /\ k <= n
    BY <1>3, <2>3
  <2> QED BY <2>4 DEF Good
<1>8. SumsUp(acc, segs)
  <2>1. acc \in [0 .. n -> Nat]
    BY <1>7
  <2> HIDE DEF acc
  <2> QED BY <1>6, <2>1 DEF SumsUp
<1>9. Sum(segs) = acc[n]
  BY <1>2, <1>3
<1> HIDE DEF acc
<1> QED BY <1>8, <1>9

\* Whatever holds the sums so far ends in the sum.
LEMMA SumUnique ==
  ASSUME NEW segs \in Seq(Segment), NEW acc, SumsUp(acc, segs)
  PROVE  Sum(segs) = acc[Len(segs)] /\ Sum(segs) \in Nat
<1> DEFINE n == Len(segs)
<1>1. n \in Nat
  BY LenProperties
<1>2. PICK b : SumsUp(b, segs) /\ Sum(segs) = b[n]
  BY SumSteps
<1> DEFINE Good == {k \in Nat : k <= n => acc[k] = b[k]}
<1>3. 0 \in Good
  BY <1>2 DEF SumsUp
<1>4. ASSUME NEW k \in Nat, k \in Good PROVE k + 1 \in Good
  <2> SUFFICES ASSUME k + 1 <= n PROVE acc[k + 1] = b[k + 1]
    OBVIOUS
  <2>1. k + 1 \in 1 .. n /\ (k + 1) - 1 = k /\ k <= n
    BY <1>1
  <2>2. acc[k + 1] = acc[k] + segs[k + 1].bytes /\ b[k + 1] = b[k] + segs[k + 1].bytes
    BY <1>2, <2>1 DEF SumsUp
  <2> QED BY <1>4, <2>1, <2>2
<1> HIDE DEF Good
<1>5. n \in Good
  BY <1>1, <1>3, <1>4, NatInSet
<1>6. acc[n] = b[n]
  BY <1>5 DEF Good
<1>7. acc[n] \in Nat
  BY <1>1 DEF SumsUp
<1> QED BY <1>2, <1>6, <1>7

\* What is drawn of the first segments.
DrawsUp(bars, segs, keep) ==
  /\ bars \in [0 .. Len(segs) -> Seq(Segment)] /\ bars[0] = <<>>
  /\ \A k \in 1 .. Len(segs) :
       bars[k] = IF segs[k].bytes > 0 \/ segs[k].is \in keep THEN Append(bars[k - 1], segs[k])
                 ELSE bars[k - 1]

\* The fold of Drawn.
DrawnFold(segs, keep) ==
  LET iter[s \in SUBSET (DOMAIN segs)] ==
        IF s = {} THEN <<>>
        ELSE LET x == Max(s)
             IN IF segs[x].bytes > 0 \/ segs[x].is \in keep
                THEN Append(iter[s \ {x}], segs[x]) ELSE iter[s \ {x}]
  IN iter

\* It is well defined.
LEMMA DrawnDefined ==
  ASSUME NEW segs \in Seq(Segment), NEW keep
  PROVE  DrawnFold(segs, keep) =
           [s \in SUBSET (DOMAIN segs) |->
              IF s = {} THEN <<>>
              ELSE LET x == Max(s)
                   IN IF segs[x].bytes > 0 \/ segs[x].is \in keep
                      THEN Append(DrawnFold(segs, keep)[s \ {x}], segs[x])
                      ELSE DrawnFold(segs, keep)[s \ {x}]]
<1> DEFINE n == Len(segs)
           D == SUBSET (DOMAIN segs)
           T == Seq(Segment)
           Step(g) == [s \in D |->
                         IF s = {} THEN <<>>
                         ELSE LET x == Max(s)
                              IN IF segs[x].bytes > 0 \/ segs[x].is \in keep
                                 THEN Append(g[s \ {x}], segs[x]) ELSE g[s \ {x}]]
           F == [g \in [D -> T] |-> Step(g)]
           rank == [s \in D |-> Cardinality(s)]
<1>1. n \in Nat /\ DOMAIN segs = 1 .. n /\ \A i \in 1 .. n : segs[i] \in Segment
  BY SegmentsFact
<1>2. ASSUME NEW g \in [D -> T] PROVE Step(g) \in [D -> T]
  <2>1. ASSUME NEW s \in D, s # {}
        PROVE  g[s \ {Max(s)}] \in T /\ Append(g[s \ {Max(s)}], segs[Max(s)]) \in T
    <3>1. Max(s) \in 1 .. n /\ s \ {Max(s)} \in D
      BY <1>1, <2>1, IndicesFact
    <3>2. g[s \ {Max(s)}] \in T /\ segs[Max(s)] \in Segment
      BY <1>1, <3>1
    <3> QED BY <3>2, AppendProperties
  <2>2. <<>> \in T
    OBVIOUS
  <2> HIDE DEF T, D
  <2> QED BY <2>1, <2>2
<1>3. Descends(D, T, n, rank, F)
  <2>1. rank \in [D -> 0 .. n]
    BY <1>1, IndicesFact
  <2>2. F \in [[D -> T] -> [D -> T]]
    BY <1>2
  <2>3. ASSUME NEW g \in [D -> T], NEW h \in [D -> T], NEW k \in D,
               \A j \in D : rank[j] < rank[k] => g[j] = h[j]
        PROVE  F[g][k] = F[h][k]
    <3>1. CASE k = {}
      BY <3>1
    <3>2. CASE k # {}
      <4>1. k \ {Max(k)} \in D /\ rank[k \ {Max(k)}] < rank[k]
        BY <1>1, <3>2, IndicesFact
      <4>2. g[k \ {Max(k)}] = h[k \ {Max(k)}]
        BY <4>1, <2>3
      <4> QED BY <4>2
    <3> QED BY <3>1, <3>2
  <2> HIDE DEF D, T, F, rank
  <2> QED BY <2>1, <2>2, <2>3 DEF Descends
<1>4. PICK f : Solves(f, D, T, F)
  <2>1. T # {}
    BY EmptySeq
  <2> HIDE DEF D, T, F, rank
  <2> QED BY <1>1, <1>3, <2>1, Recursion
<1>5. f = Step(f)
  BY <1>4 DEF Solves
<1> QED BY <1>5 DEF DrawnFold

\* What Drawn returns.
LEMMA DrawnSteps ==
  ASSUME NEW segs \in Seq(Segment), NEW keep
  PROVE  \E bars : DrawsUp(bars, segs, keep) /\ Drawn(segs, keep) = bars[Len(segs)]
<1> DEFINE n == Len(segs)
           iter == DrawnFold(segs, keep)
<1>1. iter = [s \in SUBSET (DOMAIN segs) |->
                IF s = {} THEN <<>>
                ELSE LET x == Max(s)
                     IN IF segs[x].bytes > 0 \/ segs[x].is \in keep
                        THEN Append(iter[s \ {x}], segs[x]) ELSE iter[s \ {x}]]
  BY DrawnDefined
<1>2. Drawn(segs, keep) = iter[DOMAIN segs]
  BY DEF Drawn, FoldLeft, MapThenFoldSet, DrawnFold
<1>3. n \in Nat /\ DOMAIN segs = 1 .. n /\ \A i \in 1 .. n : segs[i] \in Segment
  BY SegmentsFact
<1> HIDE DEF iter
<1> DEFINE bars == [k \in 0 .. n |-> iter[1 .. k]]
<1>4. iter[{}] = <<>>
  BY <1>1
<1>5. ASSUME NEW k \in 1 .. n
      PROVE  iter[1 .. k] = IF segs[k].bytes > 0 \/ segs[k].is \in keep
                            THEN Append(iter[1 .. k - 1], segs[k]) ELSE iter[1 .. k - 1]
  <2>1. 1 .. k \in SUBSET (DOMAIN segs) /\ 1 .. k # {} /\ k \in Nat \ {0}
    <3>1. k \in Nat /\ k >= 1 /\ k <= n /\ k \in 1 .. k
      BY <1>3
    <3>2. \A i \in 1 .. k : i \in 1 .. n
      BY <1>3, <3>1
    <3>3. \A S : S = 1 .. n => 1 .. k \in SUBSET S
      BY <3>2
    <3>4. 1 .. k \in SUBSET (DOMAIN segs)
      BY <1>3, <3>3
    <3>5. 1 .. k # {}
      BY <3>1
    <3>6. k \in Nat \ {0}
      BY <3>1
    <3> QED BY <3>4, <3>5, <3>6
  <2>2. Max(1 .. k) = k /\ (1 .. k) \ {k} = 1 .. k - 1
    BY <2>1, LastIndexFact
  <2>3. iter[1 .. k] = LET x == Max(1 .. k)
                       IN IF segs[x].bytes > 0 \/ segs[x].is \in keep
                          THEN Append(iter[(1 .. k) \ {x}], segs[x]) ELSE iter[(1 .. k) \ {x}]
    BY <1>1, <2>1
  <2> QED BY <2>2, <2>3
<1>6. /\ bars[0] = <<>>
      /\ \A k \in 1 .. n :
           bars[k] = IF segs[k].bytes > 0 \/ segs[k].is \in keep THEN Append(bars[k - 1], segs[k])
                     ELSE bars[k - 1]
  <2>1. 1 .. 0 = {} /\ 0 \in 0 .. n
    BY <1>3
  <2>2. \A k \in 1 .. n : k \in 0 .. n /\ k - 1 \in 0 .. n
    BY <1>3
  <2> QED BY <1>4, <1>5, <2>1, <2>2
<1> DEFINE Good == {k \in Nat : k <= n => bars[k] \in Seq(Segment)}
<1>7. \A k \in 0 .. n : bars[k] \in Seq(Segment)
  <2> HIDE DEF bars
  <2>1. 0 \in Good
    BY <1>6, EmptySeq
  <2>2. ASSUME NEW k \in Nat, k \in Good PROVE k + 1 \in Good
    <3> SUFFICES ASSUME k + 1 <= n PROVE bars[k + 1] \in Seq(Segment)
      OBVIOUS
    <3>1. k + 1 \in 1 .. n /\ (k + 1) - 1 = k /\ k <= n
      BY <1>3
    <3>2. bars[k + 1] = bars[k] \/ bars[k + 1] = Append(bars[k], segs[k + 1])
      BY <1>6, <3>1
    <3>3. bars[k] \in Seq(Segment) /\ segs[k + 1] \in Segment
      BY <1>3, <2>2, <3>1
    <3> QED BY <3>2, <3>3, AppendProperties
  <2> HIDE DEF Good
  <2>3. Nat \subseteq Good
    BY <2>1, <2>2, NatInSet
  <2>4. \A k \in 0 .. n : k \in Good /\ k <= n
    BY <1>3, <2>3
  <2> QED BY <2>4 DEF Good
<1>8. DrawsUp(bars, segs, keep)
  <2>1. bars \in [0 .. n -> Seq(Segment)]
    BY <1>7
  <2> HIDE DEF bars
  <2> QED BY <1>6, <2>1 DEF DrawsUp
<1>9. Drawn(segs, keep) = bars[n]
  BY <1>2, <1>3
<1> HIDE DEF bars
<1> QED BY <1>8, <1>9

\* Sums of no segment, of one more, and of one.
LEMMA SumAppend ==
  ASSUME NEW segs \in Seq(Segment), NEW s \in Segment
  PROVE  Sum(Append(segs, s)) = Sum(segs) + s.bytes
<1> DEFINE n == Len(segs)
           more == Append(segs, s)
<1>1. PICK acc : SumsUp(acc, segs) /\ Sum(segs) = acc[n]
  BY SumSteps
<1>2. /\ n \in Nat /\ more \in Seq(Segment) /\ Len(more) = n + 1
      /\ more[n + 1] = s /\ \A k \in 1 .. n : more[k] = segs[k]
  BY LenProperties, AppendProperties
<1>3. s.bytes \in Nat
  BY DEF Segment
<1> DEFINE b == [k \in 0 .. n + 1 |-> IF k = n + 1 THEN acc[n] + s.bytes ELSE acc[k]]
<1>4. \A k \in 0 .. n : acc[k] \in Nat
  BY <1>1 DEF SumsUp
<1>5. b \in [0 .. n + 1 -> Nat] /\ b[0] = 0
  <2>1. ASSUME NEW k \in 0 .. n + 1 PROVE b[k] \in Nat
    BY <1>2, <1>3, <1>4
  <2>2. acc[0] = 0 /\ 0 # n + 1 /\ 0 \in 0 .. n + 1
    BY <1>1, <1>2 DEF SumsUp
  <2> QED BY <2>1, <2>2
<1>6. ASSUME NEW k \in 1 .. n + 1 PROVE b[k] = b[k - 1] + more[k].bytes
  <2>1. CASE k = n + 1
    <3>1. k - 1 = n /\ n \in 0 .. n + 1 /\ n # n + 1 /\ n + 1 \in 0 .. n + 1
      BY <1>2, <2>1
    <3> HIDE DEF more
    <3> QED BY <1>2, <2>1, <3>1
  <2>2. CASE k # n + 1
    <3>1. k \in 1 .. n /\ k \in 0 .. n + 1 /\ k - 1 \in 0 .. n + 1 /\ k - 1 # n + 1
      BY <1>2, <2>2
    <3>2. acc[k] = acc[k - 1] + segs[k].bytes
      BY <1>1, <3>1 DEF SumsUp
    <3> HIDE DEF more
    <3> QED BY <1>2, <2>2, <3>1, <3>2
  <2> QED BY <2>1, <2>2
<1>7. SumsUp(b, more)
  <2> HIDE DEF b, more
  <2> QED BY <1>2, <1>5, <1>6 DEF SumsUp
<1>8. b[n + 1] = acc[n] + s.bytes
  BY <1>2
<1> HIDE DEF b, more
<1>9. Sum(more) = b[n + 1]
  BY <1>2, <1>7, SumUnique
<1> QED BY <1>1, <1>8, <1>9 DEF more

\* Sums of no segment and of one.
LEMMA SumSmall ==
  /\ Sum(<<>>) = 0
  /\ \A s \in Segment : Sum(<<s>>) = s.bytes
<1>1. <<>> \in Seq(Segment) /\ Len(<<>>) = 0
  OBVIOUS
<1>2. SumsUp([k \in 0 .. 0 |-> 0], <<>>)
  BY DEF SumsUp
<1>3. Sum(<<>>) = 0
  <2>1. Sum(<<>>) = [k \in 0 .. 0 |-> 0][0]
    BY <1>1, <1>2, SumUnique
  <2> QED BY <2>1
<1>4. ASSUME NEW s \in Segment PROVE Sum(<<s>>) = s.bytes
  <2>1. Append(<<>>, s) = <<s>>
    OBVIOUS
  <2>2. Sum(Append(<<>>, s)) = Sum(<<>>) + s.bytes
    BY <1>1, SumAppend
  <2>3. s.bytes \in Nat
    BY DEF Segment
  <2> QED BY <1>3, <2>1, <2>2, <2>3
<1> QED BY <1>3, <1>4

\* The sum of two sequences is that of both.
LEMMA SumConcat ==
  ASSUME NEW a \in Seq(Segment), NEW b \in Seq(Segment)
  PROVE  Sum(a \o b) = Sum(a) + Sum(b) /\ Sum(a) \in Nat /\ Sum(b) \in Nat
<1>1. PICK f : SumsUp(f, a) /\ Sum(a) = f[Len(a)]
  BY SumSteps
<1>2. PICK g : SumsUp(g, b) /\ Sum(b) = g[Len(b)]
  BY SumSteps
<1> DEFINE m == Len(a)
           n == Len(b)
           c == a \o b
           h == [k \in 0 .. m + n |-> IF k <= m THEN f[k] ELSE f[m] + g[k - m]]
<1>3. /\ m \in Nat /\ n \in Nat /\ c \in Seq(Segment) /\ Len(c) = m + n
      /\ \A k \in 1 .. m + n : c[k] = IF k <= m THEN a[k] ELSE b[k - m]
  BY LenProperties, ConcatProperties
<1>4. (\A k \in 0 .. m : f[k] \in Nat) /\ (\A k \in 0 .. n : g[k] \in Nat) /\ f[0] = 0 /\ g[0] = 0
  BY <1>1, <1>2 DEF SumsUp
<1>5. h \in [0 .. m + n -> Nat] /\ h[0] = 0
  <2>1. ASSUME NEW k \in 0 .. m + n PROVE h[k] \in Nat
    <3>1. CASE k <= m
      BY <1>3, <1>4, <3>1
    <3>2. CASE ~(k <= m)
      <4>1. k - m \in 0 .. n /\ m \in 0 .. m
        BY <1>3, <3>2
      <4> QED BY <1>4, <3>2, <4>1
    <3> QED BY <3>1, <3>2
  <2>2. 0 \in 0 .. m + n /\ 0 <= m
    BY <1>3
  <2> QED BY <1>4, <2>1, <2>2
<1>6. ASSUME NEW k \in 1 .. m + n PROVE h[k] = h[k - 1] + c[k].bytes
  <2>1. k \in 0 .. m + n /\ k - 1 \in 0 .. m + n
    BY <1>3
  <2> HIDE DEF c
  <2>2. CASE k <= m
    <3>1. k \in 1 .. m /\ k - 1 <= m
      BY <1>3, <2>2
    <3>2. f[k] = f[k - 1] + a[k].bytes
      BY <1>1, <3>1 DEF SumsUp
    <3> QED BY <1>3, <2>1, <2>2, <3>1, <3>2
  <2>3. CASE ~(k <= m)
    <3>1. k - m \in 1 .. n /\ (k - m) - 1 = (k - 1) - m /\ k - m \in 0 .. n /\ (k - m) - 1 \in 0 .. n
      BY <1>3, <2>3
    <3>2. g[k - m] = g[(k - 1) - m] + b[k - m].bytes
      BY <1>2, <3>1 DEF SumsUp
    <3>3. h[k - 1] = f[m] + g[(k - 1) - m]
      <4>1. CASE k - 1 = m
        <5>1. (k - 1) - m = 0 /\ k - 1 <= m /\ m \in 0 .. m
          BY <1>3, <4>1
        <5> QED BY <1>4, <2>1, <4>1, <5>1
      <4>2. CASE k - 1 # m
        <5>1. ~(k - 1 <= m)
          BY <1>3, <2>3, <4>2
        <5> QED BY <2>1, <5>1
      <4> QED BY <4>1, <4>2
    <3>4. h[k] = f[m] + g[k - m] /\ c[k] = b[k - m]
      BY <1>3, <2>1, <2>3
    <3>5. f[m] \in Nat /\ g[(k - 1) - m] \in Nat /\ b[k - m].bytes \in Nat
      <4>1. m \in 0 .. m
        BY <1>3
      <4> QED BY <1>4, <3>1, <4>1, SegmentsFact
    <3> HIDE DEF h
    <3> QED BY <3>2, <3>3, <3>4, <3>5
  <2> QED BY <2>2, <2>3
<1>7. SumsUp(h, c)
  <2> HIDE DEF h, c
  <2> QED BY <1>3, <1>5, <1>6 DEF SumsUp
<1>8. h[m + n] = f[m] + g[n]
  <2>1. m + n \in 0 .. m + n /\ m \in 0 .. m /\ (m + n) - m = n
    BY <1>3
  <2>2. CASE n = 0
    BY <1>3, <1>4, <2>1, <2>2
  <2>3. CASE n # 0
    BY <1>3, <2>1, <2>3
  <2> QED BY <2>2, <2>3
<1>9. f[m] \in Nat /\ g[n] \in Nat
  <2>1. m \in 0 .. m /\ n \in 0 .. n
    BY <1>3
  <2> QED BY <1>4, <2>1
<1> HIDE DEF h, c
<1>10. Sum(c) = h[m + n]
  BY <1>3, <1>7, SumUnique
<1> QED BY <1>1, <1>2, <1>8, <1>9, <1>10 DEF c

\* Segments of the same sizes have one sum.
LEMMA SumSame ==
  ASSUME NEW a \in Seq(Segment), NEW b \in Seq(Segment), Len(a) = Len(b),
         \A i \in 1 .. Len(a) : a[i].bytes = b[i].bytes
  PROVE  Sum(a) = Sum(b)
<1>1. PICK f : SumsUp(f, a) /\ Sum(a) = f[Len(a)]
  BY SumSteps
<1>2. SumsUp(f, b)
  BY <1>1 DEF SumsUp
<1> QED BY <1>1, <1>2, SumUnique

\* The greater, and the lesser, of two.
LEMMA TwoFact ==
  ASSUME NEW a \in Int, NEW b \in Int
  PROVE  /\ Max({a, b}) = IF a >= b THEN a ELSE b
         /\ Min({a, b}) = IF a =< b THEN a ELSE b
<1>1. \A x \in {a, b} : (\A y \in {a, b} : x >= y) <=> x = (IF a >= b THEN a ELSE b)
  OBVIOUS
<1>2. \A x \in {a, b} : (\A y \in {a, b} : x =< y) <=> x = (IF a =< b THEN a ELSE b)
  OBVIOUS
<1> QED BY <1>1, <1>2 DEF Max, Min

\* The segments of snapshots.
SnapsIn(bar) == {i \in DOMAIN bar : bar[i].is = "snap"}

\* One more segment is one more snapshot at most.
LEMMA SnapsAppend ==
  ASSUME NEW bar \in Seq(Segment), NEW s \in Segment
  PROVE  SnapsIn(Append(bar, s)) = SnapsIn(bar) \cup IF s.is = "snap" THEN {Len(bar) + 1} ELSE {}
<1> DEFINE n == Len(bar)
           more == Append(bar, s)
<1>1. /\ n \in Nat /\ DOMAIN bar = 1 .. n /\ DOMAIN more = 1 .. n + 1
      /\ more[n + 1] = s /\ \A k \in 1 .. n : more[k] = bar[k]
  BY LenProperties, AppendProperties
<1> HIDE DEF more
<1>2. \A i \in 1 .. n + 1 : i \in 1 .. n \/ i = n + 1
  BY <1>1
<1>3. n + 1 \in 1 .. n + 1 /\ \A i \in 1 .. n : i \in 1 .. n + 1
  BY <1>1
<1>4. SnapsIn(more) = {i \in 1 .. n + 1 : more[i].is = "snap"} /\ SnapsIn(bar) = {i \in 1 .. n : bar[i].is = "snap"}
  BY <1>1 DEF SnapsIn
<1> QED BY <1>1, <1>2, <1>3, <1>4 DEF more

\* What is left out has no bytes, and is no snapshot more.
LEMMA DrawnFact ==
  ASSUME NEW segs \in Seq(Segment), NEW keep
  PROVE  /\ Drawn(segs, keep) \in Seq(Segment)
         /\ Sum(Drawn(segs, keep)) = Sum(segs)
         /\ IsFiniteSet(SnapsIn(segs)) /\ IsFiniteSet(SnapsIn(Drawn(segs, keep)))
         /\ Cardinality(SnapsIn(Drawn(segs, keep))) <= Cardinality(SnapsIn(segs))
<1> DEFINE n == Len(segs)
           up(k) == {i \in 1 .. k : segs[i].is = "snap"}
<1>1. n \in Nat /\ DOMAIN segs = 1 .. n /\ \A i \in 1 .. n : segs[i] \in Segment /\ segs[i].bytes \in Nat
  BY SegmentsFact
<1>2. PICK bars : DrawsUp(bars, segs, keep) /\ Drawn(segs, keep) = bars[n]
  BY DrawnSteps
<1>3. PICK acc : SumsUp(acc, segs) /\ Sum(segs) = acc[n]
  BY SumSteps
<1>4. \A k \in 0 .. n : bars[k] \in Seq(Segment) /\ acc[k] \in Nat
  BY <1>2, <1>3 DEF DrawsUp, SumsUp
<1>5. \A k \in Nat : IsFiniteSet(up(k)) /\ Cardinality(up(k)) \in Nat
  <2> SUFFICES ASSUME NEW k \in Nat PROVE IsFiniteSet(up(k)) /\ Cardinality(up(k)) \in Nat
    OBVIOUS
  <2>1. IsFiniteSet(1 .. k)
    BY FS_Interval
  <2>2. up(k) \in SUBSET (1 .. k)
    OBVIOUS
  <2> HIDE DEF up
  <2> QED BY <2>1, <2>2, FS_Subset, FS_CardinalityType
<1> DEFINE Good == {k \in Nat : k <= n =>
                      /\ Sum(bars[k]) = acc[k] /\ IsFiniteSet(SnapsIn(bars[k]))
                      /\ Cardinality(SnapsIn(bars[k])) \in Nat
                      /\ Cardinality(SnapsIn(bars[k])) <= Cardinality(up(k))}
<1>6. 0 \in Good
  <2>1. bars[0] = <<>> /\ acc[0] = 0
    BY <1>2, <1>3 DEF DrawsUp, SumsUp
  <2>2. SnapsIn(<<>>) = {} /\ up(0) = {}
    BY DEF SnapsIn
  <2> HIDE DEF up
  <2>3. Sum(<<>>) = 0 /\ IsFiniteSet({}) /\ Cardinality({}) = 0
    BY SumSmall, FS_EmptySet
  <2>4. Cardinality(SnapsIn(bars[0])) = 0 /\ Cardinality(up(0)) = 0
    BY <2>1, <2>2, <2>3
  <2>5. Sum(bars[0]) = acc[0] /\ IsFiniteSet(SnapsIn(bars[0]))
    BY <2>1, <2>2, <2>3
  <2> QED BY <2>4, <2>5
<1>7. ASSUME NEW k \in Nat, k \in Good PROVE k + 1 \in Good
  <2> DEFINE l == k + 1
  <2> SUFFICES ASSUME l <= n
               PROVE  /\ Sum(bars[l]) = acc[l] /\ IsFiniteSet(SnapsIn(bars[l]))
                      /\ Cardinality(SnapsIn(bars[l])) \in Nat
                      /\ Cardinality(SnapsIn(bars[l])) <= Cardinality(up(l))
    OBVIOUS
  <2>1. l \in 1 .. n /\ l - 1 = k /\ k <= n /\ k \in 0 .. n /\ l \in Nat /\ l \in 1 .. l /\ l \notin 1 .. k
    BY <1>1
  <2>2. /\ Sum(bars[k]) = acc[k] /\ IsFiniteSet(SnapsIn(bars[k]))
        /\ Cardinality(SnapsIn(bars[k])) \in Nat
        /\ Cardinality(SnapsIn(bars[k])) <= Cardinality(up(k))
    BY <1>7, <2>1
  <2>3. up(l) = up(k) \cup IF segs[l].is = "snap" THEN {l} ELSE {}
    <3>1. \A i \in 1 .. l : i \in 1 .. k \/ i = l
      BY <2>1
    <3>2. \A i \in 1 .. k : i \in 1 .. l
      BY <2>1
    <3> HIDE DEF l
    <3> QED BY <3>1, <3>2, <2>1
  <2>4. Cardinality(up(l)) = IF segs[l].is = "snap" THEN Cardinality(up(k)) + 1 ELSE Cardinality(up(k))
    <3>1. l \notin up(k)
      BY <2>1
    <3> HIDE DEF up, l
    <3> QED BY <1>5, <2>3, <3>1, FS_AddElement
  <2> HIDE DEF up, l
  <2>5. /\ bars[l] = IF segs[l].bytes > 0 \/ segs[l].is \in keep THEN Append(bars[k], segs[l]) ELSE bars[k]
        /\ acc[l] = acc[k] + segs[l].bytes
    BY <1>2, <1>3, <2>1 DEF DrawsUp, SumsUp
  <2>6. CASE segs[l].bytes > 0 \/ segs[l].is \in keep
    <3>1. bars[l] = Append(bars[k], segs[l]) /\ bars[k] \in Seq(Segment) /\ segs[l] \in Segment
      BY <1>1, <1>4, <2>1, <2>5, <2>6
    <3>2. Sum(bars[l]) = acc[l]
      BY <2>2, <2>5, <3>1, SumAppend
    <3>3. SnapsIn(bars[l]) = SnapsIn(bars[k]) \cup IF segs[l].is = "snap" THEN {Len(bars[k]) + 1} ELSE {}
      BY <3>1, SnapsAppend
    <3>4. Len(bars[k]) + 1 \notin SnapsIn(bars[k])
      BY <3>1, LenProperties DEF SnapsIn
    <3>5. CASE segs[l].is = "snap"
      <4>1. /\ IsFiniteSet(SnapsIn(bars[l]))
            /\ Cardinality(SnapsIn(bars[l])) = Cardinality(SnapsIn(bars[k])) + 1
        BY <2>2, <3>3, <3>4, <3>5, FS_AddElement
      <4>2. Cardinality(up(k)) \in Nat /\ Cardinality(up(l)) = Cardinality(up(k)) + 1
        BY <1>5, <2>4, <3>5
      <4> QED BY <2>2, <3>2, <4>1, <4>2
    <3>6. CASE segs[l].is # "snap"
      BY <2>2, <2>4, <3>2, <3>3, <3>6
    <3> QED BY <3>5, <3>6
  <2>7. CASE ~(segs[l].bytes > 0 \/ segs[l].is \in keep)
    <3>1. segs[l].bytes = 0 /\ acc[k] \in Nat /\ bars[l] = bars[k]
      BY <1>1, <1>4, <2>1, <2>5, <2>7
    <3>2. Cardinality(up(k)) \in Nat /\ Cardinality(up(k)) <= Cardinality(up(l))
      BY <1>5, <2>4
    <3>3. Cardinality(up(l)) \in Nat
      BY <1>5, <2>1
    <3> QED BY <2>2, <2>5, <3>1, <3>2, <3>3
  <2> QED BY <2>6, <2>7
<1> HIDE DEF Good
<1>8. n \in Good
  BY <1>1, <1>6, <1>7, NatInSet
<1>9. Sum(bars[n]) = acc[n] /\ IsFiniteSet(SnapsIn(bars[n])) /\ Cardinality(SnapsIn(bars[n])) <= Cardinality(up(n))
  BY <1>8 DEF Good
<1>10. up(n) = SnapsIn(segs) /\ n \in 0 .. n
  BY <1>1 DEF SnapsIn
<1> HIDE DEF up
<1> QED BY <1>1, <1>2, <1>3, <1>4, <1>5, <1>9, <1>10

\* A usage bar stands for what its segments stand for.
LEMMA UsageBarFact ==
  ASSUME NEW segs \in Seq(Segment), NEW keep, NEW total \in Nat
  PROVE  /\ Sum(UsageBar(segs, keep, total)) = Sum(segs)
         /\ Cardinality(SnapsIn(UsageBar(segs, keep, total))) <= Cardinality(SnapsIn(segs))
         /\ Cardinality(SnapsIn(UsageBar(segs, keep, total))) \in Nat
<1> DEFINE some == Drawn(segs, keep)
<1>1. /\ some \in Seq(Segment) /\ Sum(some) = Sum(segs) /\ IsFiniteSet(SnapsIn(segs))
      /\ IsFiniteSet(SnapsIn(some)) /\ Cardinality(SnapsIn(some)) <= Cardinality(SnapsIn(segs))
  BY DrawnFact
<1>2. Sum(some) \in Nat /\ Cardinality(SnapsIn(segs)) \in Nat /\ Cardinality(SnapsIn(some)) \in Nat
  <2>1. PICK acc : SumsUp(acc, some)
    BY <1>1, SumSteps
  <2> QED BY <1>1, <2>1, SumUnique, FS_CardinalityType
<1>3. UsageBar(segs, keep, total) = IF Max({total, Sum(some)}) = 0 THEN <<>> ELSE some
  BY DEF UsageBar
<1> HIDE DEF some
<1>4. Max({total, Sum(some)}) = 0 => Sum(some) = 0
  BY <1>2, TwoFact
<1>5. Sum(<<>>) = 0 /\ SnapsIn(<<>>) = {} /\ Cardinality({}) = 0
  BY SumSmall, FS_EmptySet DEF SnapsIn
<1>6. CASE Max({total, Sum(some)}) = 0
  <2>1. UsageBar(segs, keep, total) = <<>>
    BY <1>3, <1>6
  <2>2. Sum(UsageBar(segs, keep, total)) = 0 /\ Cardinality(SnapsIn(UsageBar(segs, keep, total))) = 0
    BY <1>5, <2>1
  <2>3. Sum(segs) = 0 /\ 0 <= Cardinality(SnapsIn(segs))
    BY <1>1, <1>2, <1>4, <1>6
  <2> QED BY <2>2, <2>3
<1>7. CASE Max({total, Sum(some)}) # 0
  <2>1. UsageBar(segs, keep, total) = some
    BY <1>3, <1>7
  <2> QED BY <1>1, <1>2, <2>1
<1> QED BY <1>6, <1>7

\* Segments made of sizes.
LEMMA SegsFact ==
  ASSUME NEW is \in Kinds, NEW sizes \in Seq(Nat)
  PROVE  /\ Segs(is, sizes) \in Seq(Segment) /\ Len(Segs(is, sizes)) = Len(sizes)
         /\ \A i \in 1 .. Len(sizes) : Segs(is, sizes)[i] = Seg(is, sizes[i])
<1>1. Len(sizes) \in Nat /\ DOMAIN sizes = 1 .. Len(sizes)
  BY LenProperties
<1>2. \A i \in 1 .. Len(sizes) : Seg(is, sizes[i]) \in Segment
  BY ElementOfSeq DEF Seg, Segment, Kinds
<1>3. Segs(is, sizes) = [i \in 1 .. Len(sizes) |-> Seg(is, sizes[i])]
  BY <1>1 DEF Segs
<1> DEFINE segs == [i \in 1 .. Len(sizes) |-> Seg(is, sizes[i])]
<1>4. segs \in [1 .. Len(sizes) -> Segment]
  BY <1>2
<1>5. \A i \in 1 .. Len(sizes) : segs[i] = Seg(is, sizes[i])
  OBVIOUS
<1> HIDE DEF segs
<1>6. segs \in Seq(Segment)
  <2>1. \A S : \A n \in Nat : \A f \in [1 .. n -> S] : f \in Seq(S)
    OBVIOUS
  <2> QED BY <1>1, <1>4, <2>1
<1>7. Len(segs) = Len(sizes)
  BY <1>1, <1>4, <1>6, LenProperties
<1>8. Segs(is, sizes) = segs
  BY <1>3 DEF segs
<1> QED BY <1>5, <1>6, <1>7, <1>8

\* Segments of one list after another.
LEMMA SegsConcat ==
  ASSUME NEW is \in Kinds, NEW a \in Seq(Nat), NEW b \in Seq(Nat)
  PROVE  Sum(Segs(is, a \o b)) = Sum(Segs(is, a)) + Sum(Segs(is, b))
<1> DEFINE m == Len(a)
           n == Len(b)
           A == Segs(is, a)
           B == Segs(is, b)
           C == Segs(is, a \o b)
<1>1. /\ a \o b \in Seq(Nat) /\ Len(a \o b) = m + n /\ m \in Nat /\ n \in Nat
      /\ \A i \in 1 .. m + n : (a \o b)[i] = IF i <= m THEN a[i] ELSE b[i - m]
  BY ConcatProperties, LenProperties
<1>2. /\ A \in Seq(Segment) /\ Len(A) = m /\ \A i \in 1 .. m : A[i] = Seg(is, a[i])
      /\ B \in Seq(Segment) /\ Len(B) = n /\ \A i \in 1 .. n : B[i] = Seg(is, b[i])
  BY SegsFact
<1>3. C \in Seq(Segment) /\ Len(C) = m + n /\ \A i \in 1 .. m + n : C[i] = Seg(is, (a \o b)[i])
  BY <1>1, SegsFact
<1>4. /\ A \o B \in Seq(Segment) /\ Len(A \o B) = m + n
      /\ \A i \in 1 .. m + n : (A \o B)[i] = IF i <= m THEN A[i] ELSE B[i - m]
  <2> HIDE DEF A, B, m, n
  <2>1. A \in Seq(Segment) /\ B \in Seq(Segment) /\ Len(A) = m /\ Len(B) = n
    BY <1>2
  <2>2. A \o B \in Seq(Segment) /\ Len(A \o B) = Len(A) + Len(B)
    BY <2>1, ConcatProperties
  <2>3. \A i \in 1 .. Len(A) + Len(B) : (A \o B)[i] = IF i <= Len(A) THEN A[i] ELSE B[i - Len(A)]
    BY <2>1, ConcatProperties
  <2> QED BY <2>1, <2>2, <2>3
<1>5. \A i \in 1 .. m + n : C[i] = (A \o B)[i]
  <2> SUFFICES ASSUME NEW i \in 1 .. m + n PROVE C[i] = (A \o B)[i]
    OBVIOUS
  <2>1. i <= m => i \in 1 .. m
    BY <1>1
  <2>2. ~(i <= m) => i - m \in 1 .. n
    BY <1>1
  <2> HIDE DEF A, B, C, m, n
  <2> QED BY <1>1, <1>2, <1>3, <1>4, <2>1, <2>2
<1> HIDE DEF A, B, C, m, n
<1>6. Sum(C) = Sum(A \o B)
  BY <1>3, <1>4, <1>5, SumSame
<1>7. Sum(A \o B) = Sum(A) + Sum(B)
  BY <1>2, SumConcat
<1> QED BY <1>6, <1>7 DEF A, B, C

\* A disk's bar stands for the disk, or for what its partitions claim.
LEMMA DiskFact ==
  ASSUME NEW size \in Nat, NEW parts \in Seq(Nat), NEW own \in Nat
  PROVE  DiskAccounted(size, parts, DiskBar(size, parts, own))
<1> DEFINE n == Len(parts)
           claims == [i \in DOMAIN parts |-> Seg(IF i = own THEN "own" ELSE "part", parts[i])]
           claimed == Sum(Segs("part", parts))
           rest == RestOfDisk(size, parts)
           whole == IF rest > Slack THEN <<Seg("unallocated", rest)>>
                    ELSE IF parts = <<>> THEN <<Seg("disk", size)>> ELSE <<>>
<1>1. n \in Nat /\ DOMAIN parts = 1 .. n
  BY LenProperties
<1>2. claims \in Seq(Segment) /\ Len(claims) = n /\ \A i \in 1 .. n : claims[i].bytes = parts[i]
  <2>1. \A i \in 1 .. n : Seg(IF i = own THEN "own" ELSE "part", parts[i]) \in Segment
    BY ElementOfSeq DEF Seg, Segment, Kinds
  <2>2. claims \in [1 .. n -> Segment]
    BY <1>1, <2>1
  <2>3. \A i \in 1 .. n : claims[i].bytes = parts[i]
    BY <1>1 DEF Seg
  <2> HIDE DEF claims
  <2>4. \A S : \A k \in Nat : \A f \in [1 .. k -> S] : f \in Seq(S) /\ Len(f) = k
    OBVIOUS
  <2> QED BY <1>1, <2>2, <2>3, <2>4
<1>3. /\ Segs("part", parts) \in Seq(Segment) /\ Len(Segs("part", parts)) = n
      /\ \A i \in 1 .. n : Segs("part", parts)[i].bytes = parts[i]
  <2>1. "part" \in Kinds
    BY DEF Kinds
  <2>2. /\ Segs("part", parts) \in Seq(Segment) /\ Len(Segs("part", parts)) = n
        /\ \A i \in 1 .. n : Segs("part", parts)[i] = Seg("part", parts[i])
    BY <2>1, SegsFact
  <2>3. \A i \in 1 .. n : Seg("part", parts[i]).bytes = parts[i]
    BY DEF Seg
  <2> QED BY <2>2, <2>3
<1>4. DiskBar(size, parts, own) = UsageBar(claims \o whole, {"own"}, size)
  BY DEF DiskBar
<1>5. rest = size - claimed
  BY DEF RestOfDisk
<1> HIDE DEF claims
<1>6. Sum(claims) = claimed /\ claimed \in Nat
  <2>1. Sum(claims) = claimed
    BY <1>2, <1>3, SumSame
  <2> QED BY <1>2, <2>1, SumSteps, SumUnique
<1> HIDE DEF rest, claimed
<1>7. Slack \in Nat
  BY SlackAssumption
<1>8. whole \in Seq(Segment) /\ Sum(whole) = (IF rest > Slack THEN rest ELSE IF parts = <<>> THEN size ELSE 0)
  <2>1. CASE rest > Slack
    <3>1. Seg("unallocated", rest) \in Segment /\ Seg("unallocated", rest).bytes = rest
      BY <1>5, <1>6, <1>7, <2>1 DEF Seg, Segment, Kinds
    <3>2. whole = <<Seg("unallocated", rest)>>
      BY <2>1
    <3> HIDE DEF whole
    <3> QED BY <2>1, <3>1, <3>2, SumSmall
  <2>2. CASE ~(rest > Slack) /\ parts = <<>>
    <3>1. Seg("disk", size) \in Segment /\ Seg("disk", size).bytes = size
      BY DEF Seg, Segment, Kinds
    <3>2. whole = <<Seg("disk", size)>>
      BY <2>2
    <3> HIDE DEF whole
    <3> QED BY <2>2, <3>1, <3>2, SumSmall
  <2>3. CASE ~(rest > Slack) /\ parts # <<>>
    <3>1. whole = <<>>
      BY <2>3
    <3> HIDE DEF whole
    <3> QED BY <2>3, <3>1, SumSmall
  <2> QED BY <2>1, <2>2, <2>3
<1> HIDE DEF whole
<1>9. claims \o whole \in Seq(Segment) /\ Sum(claims \o whole) = claimed + Sum(whole)
  BY <1>2, <1>6, <1>8, SumConcat, ConcatProperties
<1>10. Sum(DiskBar(size, parts, own)) = claimed + Sum(whole)
  <2> DEFINE all == claims \o whole
  <2>1. all \in Seq(Segment) /\ Sum(all) = claimed + Sum(whole)
    BY <1>9
  <2> HIDE DEF all
  <2>2. Sum(UsageBar(all, {"own"}, size)) = Sum(all)
    BY <2>1, UsageBarFact
  <2> QED BY <1>4, <2>1, <2>2 DEF all
<1>11. parts = <<>> => claimed = 0
  BY <1>3, SumSmall DEF claimed, Segs
<1>12. Max({size, claimed}) = IF size >= claimed THEN size ELSE claimed
  BY <1>6, TwoFact
<1>13. /\ claimed + Sum(whole) >= size - Slack
       /\ claimed + Sum(whole) <= Max({size, claimed})
  BY <1>5, <1>6, <1>7, <1>8, <1>11, <1>12
<1> QED BY <1>10, <1>13 DEF DiskAccounted, claimed

\* A mounted volume's bar is no longer than the volume.
LEMMA MountFact ==
  ASSUME NEW size \in Nat, NEW used \in Nat, NEW avail \in Nat
  PROVE  MountAccounted(size, used, avail, MountBar(size, used, avail))
<1> DEFINE free == IF avail # 0 THEN avail ELSE Max({0, size - used})
           segs == <<Seg("used", used), Seg("free", free)>>
<1>1. Max({0, size - used}) = IF 0 >= size - used THEN 0 ELSE size - used
  <2>1. size - used \in Int /\ 0 \in Int
    OBVIOUS
  <2> QED BY <2>1, TwoFact
<1>2. free \in Nat /\ (used + avail <= size => used + free <= size)
  BY <1>1
<1>3. MountBar(size, used, avail) = IF size = 0 /\ used = 0 THEN <<>> ELSE UsageBar(segs, {}, size)
  BY DEF MountBar
<1> HIDE DEF free
<1>4. segs \in Seq(Segment) /\ Sum(segs) = used + free
  <2>1. Seg("used", used) \in Segment /\ Seg("free", free) \in Segment
    BY <1>2 DEF Seg, Segment, Kinds
  <2>2. /\ <<Seg("used", used)>> \in Seq(Segment)
        /\ segs = Append(<<Seg("used", used)>>, Seg("free", free))
    BY <2>1
  <2>3. Sum(<<Seg("used", used)>>) = used
    BY <2>1, SumSmall DEF Seg
  <2>4. Seg("free", free).bytes = free
    BY DEF Seg
  <2>5. segs \in Seq(Segment)
    BY <2>1
  <2> HIDE DEF segs
  <2>6. Sum(segs) = Sum(<<Seg("used", used)>>) + Seg("free", free).bytes
    BY <2>1, <2>2, SumAppend
  <2> QED BY <2>3, <2>4, <2>5, <2>6
<1> HIDE DEF segs
<1>5. Sum(UsageBar(segs, {}, size)) = used + free
  BY <1>4, UsageBarFact
<1>6. Sum(<<>>) = 0
  BY SumSmall
<1>7. used + avail <= size => Sum(MountBar(size, used, avail)) <= size
  BY <1>2, <1>3, <1>5, <1>6
<1> QED BY <1>7 DEF MountAccounted

\* What the snapshots' segments stand for, and how many they are.
LEMMA SnapSegsFact ==
  ASSUME NEW snaps \in Seq(Nat)
  PROVE  /\ SnapSegs(snaps) \in Seq(Segment) /\ Len(SnapSegs(snaps)) <= SnapCap + 1
         /\ Sum(SnapSegs(snaps)) = Sum(Segs("snap", snaps))
<1> DEFINE n == Len(snaps)
           c == IF SnapCap =< n THEN SnapCap ELSE n
           first == SubSeq(snaps, 1, c)
           later == SubSeq(snaps, SnapCap + 1, n)
<1>1. n \in Nat /\ SnapCap \in Nat /\ c \in 0 .. n /\ c \in Nat
  BY LenProperties, SlackAssumption
<1>2. "snap" \in Kinds
  BY DEF Kinds
<1>3. Min({SnapCap, n}) = c
  <2>1. n \in Int /\ SnapCap \in Int
    BY <1>1
  <2> QED BY <2>1, TwoFact
<1>4. SnapSegs(snaps) = Segs("snap", first)
                          \o IF n <= SnapCap THEN <<>> ELSE <<Seg("snap", Sum(Segs("snap", later)))>>
  BY <1>3 DEF SnapSegs
<1>5. first \in Seq(Nat) /\ Len(first) = c /\ \A i \in 1 .. c : first[i] = snaps[i]
  <2>1. \A i \in 1 .. c : snaps[i] \in Nat
    BY <1>1, ElementOfSeq
  <2> QED BY <1>1, <2>1, SubSeqProperties
<1>6. later \in Seq(Nat)
  BY <1>1, SubSeqProperties
<1>7. n > SnapCap => first \o later = snaps
  <2> SUFFICES ASSUME n > SnapCap PROVE first \o later = snaps
    OBVIOUS
  <2>1. SnapCap \in 0 .. n /\ n \in SnapCap .. n /\ c = SnapCap
    BY <1>1
  <2>2. SubSeq(snaps, 1, n) = snaps
    BY <1>1, LenProperties
  <2>3. SubSeq(snaps, 1, SnapCap) \o SubSeq(snaps, SnapCap + 1, n) = SubSeq(snaps, 1, n)
    <3> HIDE DEF n
    <3> QED BY <2>1, JoinFact DEF n
  <2> QED BY <2>1, <2>2, <2>3
<1>8. n <= SnapCap => first = snaps
  <2> SUFFICES ASSUME n <= SnapCap PROVE first = snaps
    OBVIOUS
  <2>1. c = n
    BY <1>1
  <2> QED BY <1>1, <2>1, LenProperties
<1> HIDE DEF first, later, c, n
<1>9. /\ Segs("snap", first) \in Seq(Segment) /\ Len(Segs("snap", first)) = c
      /\ Segs("snap", later) \in Seq(Segment)
  BY <1>2, <1>5, <1>6, SegsFact
<1>10. CASE n <= SnapCap
  <2>1. SnapSegs(snaps) = Segs("snap", first)
    BY <1>4, <1>9, <1>10
  <2>2. c <= SnapCap
    BY <1>1, <1>10 DEF c
  <2> QED BY <1>1, <1>8, <1>9, <1>10, <2>1, <2>2
<1>11. CASE n > SnapCap
  <2> DEFINE one == <<Seg("snap", Sum(Segs("snap", later)))>>
  <2>1. Sum(Segs("snap", later)) \in Nat
    BY <1>9, SumSteps, SumUnique
  <2>2. Seg("snap", Sum(Segs("snap", later))) \in Segment
    BY <2>1 DEF Seg, Segment, Kinds
  <2>3. one \in Seq(Segment) /\ Len(one) = 1 /\ Sum(one) = Sum(Segs("snap", later))
    BY <2>2, SumSmall DEF Seg
  <2>4. SnapSegs(snaps) = Segs("snap", first) \o one
    BY <1>1, <1>4, <1>11
  <2> HIDE DEF one
  <2>5. /\ SnapSegs(snaps) \in Seq(Segment) /\ Len(SnapSegs(snaps)) = c + 1
        /\ Sum(SnapSegs(snaps)) = Sum(Segs("snap", first)) + Sum(Segs("snap", later))
    <3> DEFINE some == Segs("snap", first)
    <3>1. some \in Seq(Segment) /\ Len(some) = c
      BY <1>9
    <3> HIDE DEF some
    <3>2. some \o one \in Seq(Segment) /\ Len(some \o one) = Len(some) + Len(one)
      BY <2>3, <3>1, ConcatProperties
    <3>3. Sum(some \o one) = Sum(some) + Sum(one)
      BY <2>3, <3>1, SumConcat
    <3> QED BY <2>3, <2>4, <3>1, <3>2, <3>3 DEF some
  <2>6. Sum(Segs("snap", first \o later)) = Sum(Segs("snap", first)) + Sum(Segs("snap", later))
    BY <1>2, <1>5, <1>6, SegsConcat
  <2>7. c <= SnapCap
    BY <1>1, <1>11 DEF c
  <2>8. Len(SnapSegs(snaps)) <= SnapCap + 1
    BY <1>1, <2>5, <2>7
  <2> QED BY <1>7, <1>11, <2>5, <2>6, <2>8
<1> QED BY <1>1, <1>10, <1>11

\* Sums do not tell the kinds apart.
LEMMA SegsKind ==
  ASSUME NEW is \in Kinds, NEW other \in Kinds, NEW sizes \in Seq(Nat)
  PROVE  Sum(Segs(is, sizes)) = Sum(Segs(other, sizes)) /\ Sum(Segs(is, sizes)) \in Nat
<1> DEFINE n == Len(sizes)
           a == Segs(is, sizes)
           b == Segs(other, sizes)
<1>1. a \in Seq(Segment) /\ Len(a) = n /\ \A i \in 1 .. n : a[i] = Seg(is, sizes[i])
  BY SegsFact
<1>2. b \in Seq(Segment) /\ Len(b) = n /\ \A i \in 1 .. n : b[i] = Seg(other, sizes[i])
  BY SegsFact
<1> HIDE DEF a, b, n
<1>3. \A i \in 1 .. n : a[i].bytes = b[i].bytes
  BY <1>1, <1>2 DEF Seg
<1>4. Sum(a) = Sum(b)
  BY <1>1, <1>2, <1>3, SumSame
<1>5. Sum(a) \in Nat
  BY <1>1, SumSteps, SumUnique
<1> QED BY <1>4, <1>5 DEF a, b

\* What comes after the snapshots adds its bytes and no snapshot.
LEMMA SegIfFact ==
  ASSUME NEW a \in Seq(Segment), NEW is \in Kinds \ {"snap"}, NEW bytes \in Nat
  PROVE  /\ a \o SegIf(is, bytes) \in Seq(Segment)
         /\ Sum(a \o SegIf(is, bytes)) = Sum(a) + bytes
         /\ SnapsIn(a \o SegIf(is, bytes)) = SnapsIn(a)
<1>1. Sum(a) \in Nat
  BY SumSteps, SumUnique
<1>2. CASE bytes > 0
  <2> DEFINE s == Seg(is, bytes)
  <2>1. s \in Segment /\ s.bytes = bytes /\ s.is # "snap"
    BY DEF Seg, Segment
  <2>2. SegIf(is, bytes) = <<s>>
    BY <1>2 DEF SegIf
  <2> HIDE DEF s
  <2>3. a \o <<s>> = Append(a, s) /\ Append(a, s) \in Seq(Segment)
    BY <2>1, AppendIsConcat, AppendProperties
  <2>4. SnapsIn(Append(a, s)) = SnapsIn(a)
    BY <2>1, SnapsAppend
  <2>5. Sum(Append(a, s)) = Sum(a) + bytes
    BY <2>1, SumAppend
  <2> QED BY <2>2, <2>3, <2>4, <2>5
<1>3. CASE ~(bytes > 0)
  <2>1. SegIf(is, bytes) = <<>> /\ bytes = 0
    BY <1>3 DEF SegIf
  <2>2. a \o <<>> = a
    BY ConcatEmptySeq
  <2> QED BY <1>1, <2>1, <2>2
<1> QED BY <1>2, <1>3

\* Nothing a dataset's rows list is missing from its bar, which stays within the cap.
LEMMA DatasetFact ==
  ASSUME NEW kids \in Seq(Nat), NEW snaps \in Seq(Nat), NEW data \in Nat,
         NEW reservation \in Nat, NEW free \in Nat, NEW total \in Nat
  PROVE  SnapshotsCounted(kids, snaps, data, reservation, free,
                          DatasetBar(kids, snaps, data, reservation, free, total))
<1> DEFINE s1 == Segs("dataset", kids)
           s2 == SnapSegs(snaps)
           s3 == s1 \o s2
           s4 == s3 \o SegIf("data", data)
           s5 == s4 \o SegIf("reservation", reservation)
           s6 == s5 \o SegIf("free", free)
           n == Len(s1)
           m == Len(s2)
           bar == DatasetBar(kids, snaps, data, reservation, free, total)
<1>1. /\ "dataset" \in Kinds /\ "snap" \in Kinds /\ "all" \in Kinds
      /\ "data" \in Kinds \ {"snap"} /\ "reservation" \in Kinds \ {"snap"} /\ "free" \in Kinds \ {"snap"}
  BY DEF Kinds
<1>2. s1 \in Seq(Segment) /\ \A i \in 1 .. n : s1[i].is = "dataset"
  <2>1. s1 \in Seq(Segment) /\ n = Len(kids) /\ \A i \in 1 .. n : s1[i] = Seg("dataset", kids[i])
    BY <1>1, SegsFact
  <2>2. \A i \in 1 .. n : Seg("dataset", kids[i]).is = "dataset"
    BY DEF Seg
  <2> HIDE DEF s1, n
  <2> QED BY <2>1, <2>2
<1>3. s2 \in Seq(Segment) /\ m <= SnapCap + 1 /\ Sum(s2) = Sum(Segs("snap", snaps))
  BY SnapSegsFact
<1>4. bar = UsageBar(s6, {"dataset", "snap"}, total)
  BY DEF DatasetBar
<1>5. Sum(Segs("all", kids \o snaps)) = Sum(s1) + Sum(s2)
  <2>1. Sum(Segs("all", kids)) = Sum(s1) /\ Sum(Segs("all", snaps)) = Sum(Segs("snap", snaps))
    BY <1>1, SegsKind
  <2> QED BY <1>1, <1>3, <2>1, SegsConcat
<1> HIDE DEF bar, s1, s2
<1>6. n \in Nat /\ m \in Nat /\ SnapCap \in Nat
  BY <1>2, <1>3, LenProperties, SlackAssumption
<1>7. /\ s3 \in Seq(Segment) /\ Len(s3) = n + m /\ DOMAIN s3 = 1 .. n + m
      /\ \A i \in 1 .. n : s3[i] = s1[i]
  <2>1. s3 \in Seq(Segment) /\ Len(s3) = n + m
    BY <1>2, <1>3, ConcatProperties
  <2>2. \A i \in 1 .. n + m : s3[i] = IF i <= n THEN s1[i] ELSE s2[i - n]
    BY <1>2, <1>3, ConcatProperties
  <2> HIDE DEF s3
  <2>3. DOMAIN s3 = 1 .. n + m
    BY <2>1, LenProperties
  <2> HIDE DEF n, m
  <2> QED BY <1>6, <2>1, <2>2, <2>3
<1>8. Sum(s3) = Sum(s1) + Sum(s2)
  BY <1>2, <1>3, SumConcat
<1>9. Sum(s3) \in Nat
  <2> HIDE DEF s3
  <2> QED BY <1>7, SumSteps, SumUnique
<1>10. SnapsIn(s3) \in SUBSET (n + 1 .. n + m)
  <2> SUFFICES ASSUME NEW i \in SnapsIn(s3) PROVE i \in n + 1 .. n + m
    OBVIOUS
  <2> HIDE DEF s3, n, m
  <2>1. i \in 1 .. n + m /\ s3[i].is = "snap"
    BY <1>7 DEF SnapsIn
  <2>2. i \notin 1 .. n
    BY <1>2, <1>7, <2>1
  <2> QED BY <1>6, <2>1, <2>2
<1> HIDE DEF s3
<1>11. s4 \in Seq(Segment) /\ Sum(s4) = Sum(s3) + data /\ SnapsIn(s4) = SnapsIn(s3)
  BY <1>1, <1>7, SegIfFact
<1> HIDE DEF s4
<1>12. s5 \in Seq(Segment) /\ Sum(s5) = Sum(s4) + reservation /\ SnapsIn(s5) = SnapsIn(s4)
  BY <1>1, <1>11, SegIfFact
<1> HIDE DEF s5
<1>13. s6 \in Seq(Segment) /\ Sum(s6) = Sum(s5) + free /\ SnapsIn(s6) = SnapsIn(s5)
  BY <1>1, <1>12, SegIfFact
<1> HIDE DEF s6
<1>14. Sum(bar) = Sum(s6) /\ Cardinality(SnapsIn(bar)) <= Cardinality(SnapsIn(s6))
  BY <1>4, <1>13, UsageBarFact
<1>15. Sum(bar) = Sum(Segs("all", kids \o snaps)) + data + reservation + free
  BY <1>5, <1>8, <1>9, <1>11, <1>12, <1>13, <1>14
<1>16. Cardinality(SnapsIn(s6)) <= SnapCap + 1 /\ Cardinality(SnapsIn(s6)) \in Nat
  <2> HIDE DEF n, m
  <2>1. IsFiniteSet(n + 1 .. n + m) /\ Cardinality(n + 1 .. n + m) = m
    <3>1. n + 1 \in Int /\ n + m \in Int
      BY <1>6
    <3>2. /\ IsFiniteSet(n + 1 .. n + m)
          /\ Cardinality(n + 1 .. n + m) = IF n + 1 > n + m THEN 0 ELSE (n + m) - (n + 1) + 1
      BY <3>1, FS_Interval
    <3> QED BY <1>6, <3>2
  <2>2. SnapsIn(s6) \in SUBSET (n + 1 .. n + m)
    BY <1>10, <1>11, <1>12, <1>13
  <2>3. IsFiniteSet(SnapsIn(s6)) /\ Cardinality(SnapsIn(s6)) <= m
    BY <2>1, <2>2, FS_Subset
  <2>4. Cardinality(SnapsIn(s6)) \in Nat
    BY <2>3, FS_CardinalityType
  <2> QED BY <1>3, <1>6, <2>3, <2>4 DEF m
<1>17. Cardinality(SnapsIn(bar)) \in Int
  BY <1>4, <1>13, UsageBarFact
<1>18. Cardinality(SnapsIn(bar)) <= SnapCap + 1
  BY <1>6, <1>14, <1>16, <1>17
<1> QED BY <1>15, <1>18 DEF SnapshotsCounted, SnapsIn, bar

-----------------------------------------------------------------------------
(* applyNavPoolFilter(): the sidebar's tree.                                 *)

\* A row of the sidebar's tree.
Row == [parent : Nat, text : SUBSET STRING, remark : BOOLEAN]

\* Each row is inside of one before it that is no remark, or of none.
IsTree(tree) ==
  /\ tree \in Seq(Row)
  /\ \A n \in DOMAIN tree : /\ tree[n].parent < n
                            /\ tree[n].parent # 0 => ~tree[tree[n].parent].remark

\* The rows of a tree, one by one, and those they are inside of.
LEMMA TreeFact ==
  ASSUME NEW tree, IsTree(tree)
  PROVE  /\ Len(tree) \in Nat /\ DOMAIN tree = 1 .. Len(tree)
         /\ \A n \in DOMAIN tree :
              /\ n \in Nat /\ n <= Len(tree)
              /\ tree[n].parent \in Nat /\ tree[n].parent < n /\ tree[n].remark \in BOOLEAN
              /\ tree[n].parent # 0 => /\ tree[n].parent \in DOMAIN tree
                                       /\ ~tree[tree[n].parent].remark
<1>1. Len(tree) \in Nat /\ DOMAIN tree = 1 .. Len(tree)
  BY LenProperties DEF IsTree
<1>2. \A n \in DOMAIN tree : tree[n] \in Row
  BY <1>1, ElementOfSeq DEF IsTree
<1>3. \A n \in DOMAIN tree : tree[n].parent \in Nat /\ tree[n].remark \in BOOLEAN
  BY <1>2 DEF Row
<1> QED BY <1>1, <1>3 DEF IsTree

\* The recursion up a tree is well defined: what PathTo computes.
LEMMA PathDefined ==
  ASSUME NEW tree, IsTree(tree)
  PROVE  LET path[k \in DOMAIN tree] ==
               {k} \cup IF tree[k].parent = 0 THEN {} ELSE path[tree[k].parent]
         IN path = [k \in DOMAIN tree |->
                      {k} \cup IF tree[k].parent = 0 THEN {} ELSE path[tree[k].parent]]
<1> DEFINE D == DOMAIN tree
           T == SUBSET D
           m == Len(tree)
           Step(g) == [k \in D |-> {k} \cup IF tree[k].parent = 0 THEN {} ELSE g[tree[k].parent]]
           F == [g \in [D -> T] |-> Step(g)]
           rank == [k \in D |-> k]
<1>1. /\ m \in Nat /\ D = 1 .. m
      /\ \A k \in D : tree[k].parent # 0 => tree[k].parent \in D /\ tree[k].parent < k
  BY TreeFact
<1>2. ASSUME NEW g \in [D -> T] PROVE Step(g) \in [D -> T]
  <2>1. \A k \in D : tree[k].parent # 0 => g[tree[k].parent] \in T
    BY <1>1
  <2> QED BY <2>1
<1>3. Descends(D, T, m, rank, F)
  <2>1. rank \in [D -> 0 .. m]
    BY <1>1
  <2>2. F \in [[D -> T] -> [D -> T]]
    BY <1>2
  <2>3. ASSUME NEW g \in [D -> T], NEW h \in [D -> T], NEW k \in D,
               \A j \in D : rank[j] < rank[k] => g[j] = h[j]
        PROVE  F[g][k] = F[h][k]
    <3>1. tree[k].parent # 0 => g[tree[k].parent] = h[tree[k].parent]
      BY <1>1, <2>3
    <3> QED BY <3>1
  <2> HIDE DEF D, T, F, rank, m
  <2> QED BY <2>1, <2>2, <2>3 DEF Descends
<1>4. PICK f : Solves(f, D, T, F)
  <2>1. T # {}
    OBVIOUS
  <2> HIDE DEF D, T, F, rank, m
  <2> QED BY <1>1, <1>3, <2>1, Recursion
<1>5. f = Step(f)
  BY <1>4 DEF Solves
<1> QED BY <1>5

\* The way to a row is the way to the one it is inside of, and itself.
LEMMA PathStep ==
  ASSUME NEW tree, IsTree(tree)
  PROVE  \A n \in DOMAIN tree :
           PathTo(tree, n) = {n} \cup IF tree[n].parent = 0 THEN {} ELSE PathTo(tree, tree[n].parent)
<1> DEFINE path[k \in DOMAIN tree] ==
             {k} \cup IF tree[k].parent = 0 THEN {} ELSE path[tree[k].parent]
<1>1. path = [k \in DOMAIN tree |->
                {k} \cup IF tree[k].parent = 0 THEN {} ELSE path[tree[k].parent]]
  BY PathDefined
<1>2. \A n : PathTo(tree, n) = path[n]
  BY DEF PathTo
<1> HIDE DEF path
<1> QED BY <1>1, <1>2

\* A row is on its own path, after the others; what is on the path of one on
\* it is on it as well; and none of them is a remark unless the row is.
LEMMA PathFact ==
  ASSUME NEW tree, IsTree(tree)
  PROVE  \A n \in DOMAIN tree :
           /\ n \in PathTo(tree, n) /\ PathTo(tree, n) \subseteq 1 .. n
           /\ \A b \in PathTo(tree, n) : PathTo(tree, b) \subseteq PathTo(tree, n)
           /\ \A a \in PathTo(tree, n) : a # n => ~tree[a].remark
<1> DEFINE N == Len(tree)
           P(n) == PathTo(tree, n)
           up(n) == tree[n].parent
           Holds(n) == /\ n \in P(n) /\ P(n) \subseteq 1 .. n
                       /\ \A b \in P(n) : P(b) \subseteq P(n)
                       /\ \A a \in P(n) : a # n => ~tree[a].remark
<1>1. /\ N \in Nat /\ DOMAIN tree = 1 .. N
      /\ \A n \in 1 .. N : /\ up(n) \in Nat /\ up(n) < n
                           /\ up(n) # 0 => up(n) \in 1 .. N /\ ~tree[up(n)].remark
  BY TreeFact
<1>2. \A n \in 1 .. N : P(n) = {n} \cup IF up(n) = 0 THEN {} ELSE P(up(n))
  BY <1>1, PathStep
<1> HIDE DEF P, up
<1>3. ASSUME NEW n \in 1 .. N, \A m \in 1 .. N : m < n => Holds(m) PROVE Holds(n)
  <2>1. CASE up(n) = 0
    <3>1. P(n) = {n}
      BY <1>2, <2>1
    <3> QED BY <3>1, <1>1
  <2>2. CASE up(n) # 0
    <3>1. up(n) \in 1 .. N /\ up(n) < n /\ ~tree[up(n)].remark
      BY <1>1, <2>2
    <3>2. P(n) = {n} \cup P(up(n)) /\ Holds(up(n))
      BY <1>2, <1>3, <2>2, <3>1
    <3>3. P(n) \subseteq 1 .. n
      BY <1>1, <3>1, <3>2
    <3>4. \A b \in P(n) : P(b) \subseteq P(n)
      BY <3>2
    <3>5. \A a \in P(n) : a # n => ~tree[a].remark
      BY <3>1, <3>2
    <3> QED BY <3>2, <3>3, <3>4, <3>5
  <2> QED BY <2>1, <2>2
<1> HIDE DEF Holds
<1>4. \A n \in 1 .. N : Holds(n)
  <2> DEFINE Bad == {n \in 1 .. N : ~Holds(n)}
  <2> SUFFICES ASSUME Bad # {} PROVE FALSE
    OBVIOUS
  <2>1. Bad \in SUBSET Nat
    BY <1>1
  <2>2. PICK n \in Bad : \A m \in Bad : n <= m
    <3> HIDE DEF Bad
    <3> QED BY <2>1, LeastNat
  <2>3. \A m \in 1 .. N : m < n => Holds(m)
    BY <1>1, <2>2
  <2> QED BY <1>3, <2>2, <2>3
<1> QED BY <1>1, <1>4 DEF Holds, P

\* The recursion of navMatch() is well defined.
LEMMA MatchDefined ==
  ASSUME NEW tree, IsTree(tree), NEW tok
  PROVE  LET match[n \in DOMAIN tree] ==
               Passes(tree[n].text, tok, tree[n].parent # 0 /\ match[tree[n].parent])
         IN match = [n \in DOMAIN tree |->
                       Passes(tree[n].text, tok, tree[n].parent # 0 /\ match[tree[n].parent])]
<1> DEFINE D == DOMAIN tree
           T == BOOLEAN
           m == Len(tree)
           Step(g) == [n \in D |-> Passes(tree[n].text, tok, tree[n].parent # 0 /\ g[tree[n].parent])]
           F == [g \in [D -> T] |-> Step(g)]
           rank == [k \in D |-> k]
<1>1. /\ m \in Nat /\ D = 1 .. m
      /\ \A k \in D : tree[k].parent # 0 => tree[k].parent \in D /\ tree[k].parent < k
  BY TreeFact
<1>2. ASSUME NEW g \in [D -> T] PROVE Step(g) \in [D -> T]
  BY DEF Passes
<1>3. Descends(D, T, m, rank, F)
  <2>1. rank \in [D -> 0 .. m]
    BY <1>1
  <2>2. F \in [[D -> T] -> [D -> T]]
    BY <1>2
  <2>3. ASSUME NEW g \in [D -> T], NEW h \in [D -> T], NEW k \in D,
               \A j \in D : rank[j] < rank[k] => g[j] = h[j]
        PROVE  F[g][k] = F[h][k]
    <3>1. tree[k].parent # 0 => g[tree[k].parent] = h[tree[k].parent]
      BY <1>1, <2>3
    <3>2. /\ F[g][k] = Passes(tree[k].text, tok, tree[k].parent # 0 /\ g[tree[k].parent])
          /\ F[h][k] = Passes(tree[k].text, tok, tree[k].parent # 0 /\ h[tree[k].parent])
      OBVIOUS
    <3> QED BY <3>1, <3>2 DEF Passes
  <2> HIDE DEF D, T, F, rank, m
  <2> QED BY <2>1, <2>2, <2>3 DEF Descends
<1>4. PICK f : Solves(f, D, T, F)
  <2>1. T # {}
    OBVIOUS
  <2> HIDE DEF D, T, F, rank, m
  <2> QED BY <1>1, <1>3, <2>1, Recursion
<1>5. f = Step(f)
  BY <1>4 DEF Solves
<1> QED BY <1>5

\* So is that of filterKids() and filterTopEntry(), from the last row up.
ShowFold(tree, match) ==
  LET show[n \in DOMAIN tree] ==
        /\ ~tree[n].remark
        /\ match[n] \/ \E k \in DOMAIN tree : tree[k].parent = n /\ show[k]
  IN show

\* The fold is well defined.
LEMMA ShowDefined ==
  ASSUME NEW tree, IsTree(tree), NEW match
  PROVE  ShowFold(tree, match) =
           [n \in DOMAIN tree |->
              /\ ~tree[n].remark
              /\ match[n] \/ \E k \in DOMAIN tree : tree[k].parent = n /\ ShowFold(tree, match)[k]]
<1> DEFINE D == DOMAIN tree
           T == BOOLEAN
           m == Len(tree)
           Step(g) == [n \in D |->
                         /\ ~tree[n].remark
                         /\ match[n] \/ \E k \in D : tree[k].parent = n /\ g[k]]
           F == [g \in [D -> T] |-> Step(g)]
           rank == [k \in D |-> m - k]
<1>1. m \in Nat /\ D = 1 .. m /\ \A k \in D : tree[k].parent < k
  BY TreeFact
<1>2. ASSUME NEW g \in [D -> T] PROVE Step(g) \in [D -> T]
  OBVIOUS
<1>3. Descends(D, T, m, rank, F)
  <2>1. rank \in [D -> 0 .. m]
    BY <1>1
  <2>2. F \in [[D -> T] -> [D -> T]]
    BY <1>2
  <2>3. ASSUME NEW g \in [D -> T], NEW h \in [D -> T], NEW n \in D,
               \A j \in D : rank[j] < rank[n] => g[j] = h[j]
        PROVE  F[g][n] = F[h][n]
    <3>1. \A k \in D : tree[k].parent = n => rank[k] < rank[n]
      BY <1>1
    <3>2. \A k \in D : tree[k].parent = n => g[k] = h[k]
      BY <2>3, <3>1
    <3>3. (\E k \in D : tree[k].parent = n /\ g[k]) <=> (\E k \in D : tree[k].parent = n /\ h[k])
      BY <3>2
    <3>4. /\ F[g][n] = (~tree[n].remark /\ (match[n] \/ \E k \in D : tree[k].parent = n /\ g[k]))
          /\ F[h][n] = (~tree[n].remark /\ (match[n] \/ \E k \in D : tree[k].parent = n /\ h[k]))
      OBVIOUS
    <3> HIDE DEF F
    <3> QED BY <3>3, <3>4
  <2> HIDE DEF D, T, F, rank, m
  <2> QED BY <2>1, <2>2, <2>3 DEF Descends
<1>4. PICK f : Solves(f, D, T, F)
  <2>1. T # {}
    OBVIOUS
  <2> HIDE DEF D, T, F, rank, m
  <2> QED BY <1>1, <1>3, <2>1, Recursion
<1>5. f = Step(f)
  BY <1>4 DEF Solves
<1> QED BY <1>5 DEF ShowFold

\* What the two compute.
LEMMA MatchStep ==
  ASSUME NEW tree, IsTree(tree), NEW tok
  PROVE  \A n \in DOMAIN tree :
           SelfMatches(tree, tok)[n] <=>
             Passes(tree[n].text, tok, tree[n].parent # 0 /\ SelfMatches(tree, tok)[tree[n].parent])
<1> DEFINE match[n \in DOMAIN tree] ==
             Passes(tree[n].text, tok, tree[n].parent # 0 /\ match[tree[n].parent])
<1>1. match = [n \in DOMAIN tree |->
                 Passes(tree[n].text, tok, tree[n].parent # 0 /\ match[tree[n].parent])]
  BY MatchDefined
<1>2. SelfMatches(tree, tok) = match
  BY DEF SelfMatches
<1> HIDE DEF match
<1>3. \A n \in DOMAIN tree : match[n] = Passes(tree[n].text, tok, tree[n].parent # 0 /\ match[tree[n].parent])
  BY <1>1
<1> QED BY <1>2, <1>3

\* A row is shown if it matches or one inside of it is shown.
LEMMA ShowStep ==
  ASSUME NEW tree, IsTree(tree), NEW tok
  PROVE  /\ ShownRows(tree, tok) \subseteq DOMAIN tree
         /\ \A n \in DOMAIN tree :
              n \in ShownRows(tree, tok) <=>
                /\ ~tree[n].remark
                /\ \/ SelfMatches(tree, tok)[n]
                   \/ \E k \in DOMAIN tree : tree[k].parent = n /\ k \in ShownRows(tree, tok)
<1> DEFINE match == SelfMatches(tree, tok)
           show == ShowFold(tree, match)
<1>1. ShownRows(tree, tok) = {n \in DOMAIN tree : show[n]}
  BY DEF ShownRows, ShowFold
<1> HIDE DEF match
<1>2. show = [n \in DOMAIN tree |->
                /\ ~tree[n].remark
                /\ match[n] \/ \E k \in DOMAIN tree : tree[k].parent = n /\ show[k]]
  BY ShowDefined
<1> HIDE DEF show
<1>3. \A n \in DOMAIN tree :
        show[n] = (~tree[n].remark
                     /\ (match[n] \/ \E k \in DOMAIN tree : tree[k].parent = n /\ show[k]))
  BY <1>2
<1> QED BY <1>1, <1>3 DEF match

\* A property of the rows of a tree that holds of a row when it holds of those
\* before it holds of all.
LEMMA DownTree ==
  ASSUME NEW N \in Nat, NEW Good,
         \A n \in 1 .. N : (\A m \in 1 .. n - 1 : m \in Good) => n \in Good
  PROVE  1 .. N \subseteq Good
<1> DEFINE Bad == (1 .. N) \ Good
<1> SUFFICES ASSUME Bad # {} PROVE FALSE
  OBVIOUS
<1>1. Bad \in SUBSET Nat
  OBVIOUS
<1>2. PICK n \in Bad : \A m \in Bad : n <= m
  <2> HIDE DEF Bad
  <2> QED BY <1>1, LeastNat
<1>3. \A m \in 1 .. n - 1 : m \in 1 .. N /\ ~(n <= m)
  BY <1>2
<1>4. \A m \in 1 .. n - 1 : m \in Good
  BY <1>2, <1>3
<1> QED BY <1>2, <1>4

\* What NavShowsWhatIsFound means by a row that is found, remarks aside.
Matching(tree, tok, n) ==
  \E a \in PathTo(tree, n) :
    /\ tok.include = {} \/ Hits(tree[a].text, tok.include)
    /\ \A b \in PathTo(tree, n) : a \in PathTo(tree, b) => ~Hits(tree[b].text, tok.exclude)

\* navMatch() finds these.
LEMMA MatchFact ==
  ASSUME NEW tree, IsTree(tree), NEW tok
  PROVE  \A n \in DOMAIN tree : SelfMatches(tree, tok)[n] <=> Matching(tree, tok, n)
<1> DEFINE N == Len(tree)
           P(n) == PathTo(tree, n)
           up(n) == tree[n].parent
           in(n) == tok.include = {} \/ Hits(tree[n].text, tok.include)
           out(n) == Hits(tree[n].text, tok.exclude)
           M(n) == SelfMatches(tree, tok)[n]
           Found(n) == \E a \in P(n) : in(a) /\ \A b \in P(n) : a \in P(b) => ~out(b)
           Good == {n \in 1 .. N : M(n) <=> Found(n)}
<1>1. /\ N \in Nat /\ DOMAIN tree = 1 .. N
      /\ \A n \in 1 .. N : up(n) \in Nat /\ up(n) < n /\ (up(n) # 0 => up(n) \in 1 .. N)
  BY TreeFact
<1>2. \A n \in 1 .. N : n \in P(n) /\ P(n) \subseteq 1 .. n
  BY <1>1, PathFact
<1>3. \A n \in 1 .. N : P(n) = {n} \cup IF up(n) = 0 THEN {} ELSE P(up(n))
  BY <1>1, PathStep
<1>4. \A n \in 1 .. N : M(n) <=> ~out(n) /\ ((up(n) # 0 /\ M(up(n))) \/ in(n))
  BY <1>1, MatchStep DEF Passes
<1>5. \A n \in DOMAIN tree : Matching(tree, tok, n) <=> Found(n)
  BY DEF Matching
<1> HIDE DEF P, up, in, out, M
<1>6. ASSUME NEW n \in 1 .. N, \A m \in 1 .. n - 1 : m \in Good PROVE n \in Good
  <2>1. \A b \in P(n) : n \in P(b) => b = n
    <3>1. \A b \in P(n) : b \in 1 .. N /\ b <= n
      BY <1>1, <1>2
    <3>2. \A b \in P(n) : n \in P(b) => n <= b
      BY <1>1, <1>2, <3>1
    <3> QED BY <1>1, <3>1, <3>2
  <2>2. ASSUME M(n) PROVE Found(n)
    <3>1. CASE in(n)
      BY <1>2, <1>4, <2>1, <2>2, <3>1
    <3>2. CASE up(n) # 0 /\ M(up(n))
      <4>1. up(n) \in 1 .. n - 1 /\ P(n) = {n} \cup P(up(n)) /\ ~out(n)
        BY <1>1, <1>3, <1>4, <2>2, <3>2
      <4>2. Found(up(n))
        BY <1>6, <3>2, <4>1
      <4>3. PICK a \in P(up(n)) : in(a) /\ \A b \in P(up(n)) : a \in P(b) => ~out(b)
        BY <4>2
      <4>4. a \in P(n) /\ \A b \in P(n) : a \in P(b) => ~out(b)
        BY <4>1, <4>3
      <4> QED BY <4>3, <4>4
    <3> QED BY <1>4, <2>2, <3>1, <3>2
  <2>3. ASSUME Found(n) PROVE M(n)
    <3>1. PICK a \in P(n) : in(a) /\ \A b \in P(n) : a \in P(b) => ~out(b)
      BY <2>3
    <3>2. ~out(n)
      BY <1>2, <3>1
    <3>3. CASE a = n
      BY <1>4, <3>1, <3>2, <3>3
    <3>4. CASE a # n
      <4>1. up(n) # 0 /\ up(n) \in 1 .. n - 1 /\ P(n) = {n} \cup P(up(n)) /\ a \in P(up(n))
        BY <1>1, <1>3, <3>1, <3>4
      <4>2. \A b \in P(up(n)) : a \in P(b) => ~out(b)
        BY <3>1, <4>1
      <4>3. Found(up(n))
        BY <3>1, <4>1, <4>2
      <4>4. M(up(n))
        BY <1>6, <4>1, <4>3
      <4> QED BY <1>4, <3>2, <4>1, <4>4
    <3> QED BY <3>3, <3>4
  <2> QED BY <2>2, <2>3
<1> HIDE DEF Good
<1>7. 1 .. N \subseteq Good
  <2> HIDE DEF N
  <2> QED BY <1>1, <1>6, DownTree
<1> HIDE DEF Found, N
<1> QED BY <1>1, <1>5, <1>7 DEF Good, M

\* What is shown is on the path of what is found, and nothing shown is inside
\* of what is hidden.
LEMMA ShownFact ==
  ASSUME NEW tree, IsTree(tree), NEW tok
  PROVE  /\ \A n \in DOMAIN tree :
              n \in ShownRows(tree, tok) <=>
                /\ ~tree[n].remark
                /\ \E d \in DOMAIN tree :
                     n \in PathTo(tree, d) /\ ~tree[d].remark /\ SelfMatches(tree, tok)[d]
         /\ \A n \in ShownRows(tree, tok) : PathTo(tree, n) \subseteq ShownRows(tree, tok)
<1> DEFINE N == Len(tree)
           P(n) == PathTo(tree, n)
           up(n) == tree[n].parent
           dull(n) == tree[n].remark
           M(n) == SelfMatches(tree, tok)[n]
           S == ShownRows(tree, tok)
           Below(n) == \E d \in 1 .. N : n \in P(d) /\ ~dull(d) /\ M(d)
           Up == {n \in 1 .. N : n \in S => P(n) \subseteq S}
           Down == {k \in 1 .. N : (N + 1) - k \in S => Below((N + 1) - k)}
<1>1. /\ N \in Nat /\ DOMAIN tree = 1 .. N
      /\ \A n \in 1 .. N : /\ up(n) \in Nat /\ up(n) < n
                           /\ up(n) # 0 => up(n) \in 1 .. N /\ ~dull(up(n))
  BY TreeFact
<1>2. \A n \in 1 .. N : /\ n \in P(n) /\ P(n) \subseteq 1 .. n
                        /\ \A b \in P(n) : P(b) \subseteq P(n)
                        /\ \A a \in P(n) : a # n => ~dull(a)
  BY <1>1, PathFact
<1>3. \A n \in 1 .. N : P(n) = {n} \cup IF up(n) = 0 THEN {} ELSE P(up(n))
  BY <1>1, PathStep
<1>4. /\ S \subseteq 1 .. N
      /\ \A n \in 1 .. N : n \in S <=> ~dull(n) /\ (M(n) \/ \E k \in 1 .. N : up(k) = n /\ k \in S)
  <2>1. S \subseteq DOMAIN tree
    BY ShowStep
  <2>2. \A n \in DOMAIN tree :
          n \in S <=> ~dull(n) /\ (M(n) \/ \E k \in DOMAIN tree : up(k) = n /\ k \in S)
    BY ShowStep
  <2> HIDE DEF S, dull, M, up
  <2> QED BY <1>1, <2>1, <2>2
<1> HIDE DEF P, up, dull, M, S
<1>5. ASSUME NEW n \in 1 .. N, \A m \in 1 .. n - 1 : m \in Up PROVE n \in Up
  <2> SUFFICES ASSUME n \in S PROVE P(n) \subseteq S
    OBVIOUS
  <2>1. CASE up(n) = 0
    BY <1>3, <2>1
  <2>2. CASE up(n) # 0
    <3>1. up(n) \in 1 .. n - 1 /\ up(n) \in 1 .. N /\ ~dull(up(n)) /\ P(n) = {n} \cup P(up(n))
      BY <1>1, <1>3, <2>2
    <3>2. up(n) \in S
      BY <1>4, <3>1
    <3> QED BY <1>5, <3>1, <3>2
  <2> QED BY <2>1, <2>2
<1>6. 1 .. N \subseteq Up
  <2> HIDE DEF N, Up
  <2> QED BY <1>1, <1>5, DownTree
<1>7. \A n \in S : P(n) \subseteq S
  BY <1>4, <1>6
<1>8. ASSUME NEW j \in 1 .. N, \A m \in 1 .. j - 1 : m \in Down PROVE j \in Down
  <2> DEFINE n == (N + 1) - j
  <2> SUFFICES ASSUME n \in S PROVE Below(n)
    OBVIOUS
  <2>1. n \in 1 .. N
    BY <1>1
  <2>2. CASE M(n)
    BY <1>2, <1>4, <2>1, <2>2
  <2>3. CASE ~M(n)
    <3> HIDE DEF n
    <3>1. PICK k \in 1 .. N : up(k) = n /\ k \in S
      BY <1>4, <2>1, <2>3
    <3>2. n < k /\ n # 0
      BY <1>1, <2>1, <3>1
    <3>3. (N + 1) - k \in 1 .. j - 1 /\ (N + 1) - ((N + 1) - k) = k
      BY <1>1, <2>1, <3>1, <3>2 DEF n
    <3>4. Below(k)
      BY <1>8, <3>1, <3>3
    <3>5. PICK d \in 1 .. N : k \in P(d) /\ ~dull(d) /\ M(d)
      BY <3>4
    <3>6. n \in P(k)
      BY <1>2, <1>3, <2>1, <3>1, <3>2
    <3>7. n \in P(d)
      BY <1>2, <3>5, <3>6
    <3> QED BY <3>5, <3>7
  <2> QED BY <2>2, <2>3
<1>9. 1 .. N \subseteq Down
  <2> HIDE DEF N, Down
  <2> QED BY <1>1, <1>8, DownTree
<1>10. \A n \in 1 .. N : n \in S => Below(n)
  <2> SUFFICES ASSUME NEW n \in 1 .. N, n \in S PROVE Below(n)
    OBVIOUS
  <2>1. (N + 1) - n \in 1 .. N /\ (N + 1) - ((N + 1) - n) = n
    BY <1>1
  <2>2. (N + 1) - n \in Down
    BY <1>9, <2>1
  <2> HIDE DEF Below
  <2> QED BY <2>1, <2>2
<1>11. \A n \in 1 .. N : ~dull(n) /\ Below(n) => n \in S
  BY <1>4, <1>7
<1>12. \A n \in 1 .. N : n \in S <=> ~dull(n) /\ Below(n)
  BY <1>4, <1>10, <1>11
<1> HIDE DEF N
<1> QED BY <1>1, <1>7, <1>12 DEF P, dull, M, S

\* The sidebar's filter shows what is found and what leads there, and counts
\* what there is to see.
LEMMA NavFact ==
  ASSUME NEW tree, IsTree(tree), NEW parts
  PROVE  /\ NavShowsWhatIsFound(tree, parts, ApplyNavPoolFilter(tree, parts).shown)
         /\ NavCountsWhatIsSeen(tree, ApplyNavPoolFilter(tree, parts))
<1> DEFINE tok == ParseFilterTokens(parts)
           rows == ShownRows(tree, tok)
           free == {n \in DOMAIN tree : tree[n].remark /\
                      (parts = <<>> \/ SelfMatches(tree, tok)[tree[n].parent])}
           r == ApplyNavPoolFilter(tree, parts)
           Found(n) == ~tree[n].remark /\ Matching(tree, tok, n)
<1>1. r.shown = rows \cup free /\ r.count = Cardinality(rows)
  BY DEF ApplyNavPoolFilter
<1>2. NavShowsWhatIsFound(tree, parts, r.shown) <=>
        \A n \in DOMAIN tree :
          ~tree[n].remark => (n \in r.shown <=> \E d \in DOMAIN tree : n \in PathTo(tree, d) /\ Found(d))
  BY DEF NavShowsWhatIsFound, Matching
<1>3. NavCountsWhatIsSeen(tree, r) <=>
        r.count = Cardinality({n \in DOMAIN tree : ~tree[n].remark /\ PathTo(tree, n) \subseteq r.shown})
  BY DEF NavCountsWhatIsSeen
<1>4. \A n \in free : tree[n].remark
  OBVIOUS
<1> HIDE DEF r, free, tok
<1>5. \A n \in DOMAIN tree :
        n \in rows <=> /\ ~tree[n].remark
                       /\ \E d \in DOMAIN tree :
                            n \in PathTo(tree, d) /\ ~tree[d].remark /\ SelfMatches(tree, tok)[d]
  BY ShownFact
<1>6. \A n \in rows : PathTo(tree, n) \subseteq rows
  BY ShownFact
<1>7. \A n \in DOMAIN tree : SelfMatches(tree, tok)[n] <=> Matching(tree, tok, n)
  BY MatchFact
<1>8. rows \subseteq DOMAIN tree
  BY ShowStep
<1>9. \A n \in DOMAIN tree : n \in PathTo(tree, n)
  BY PathFact
<1> HIDE DEF rows
<1>10. \A n \in DOMAIN tree :
         n \in rows <=> ~tree[n].remark /\ \E d \in DOMAIN tree : n \in PathTo(tree, d) /\ Found(d)
  BY <1>5, <1>7
<1> HIDE DEF Found
<1>11. \A n \in DOMAIN tree : ~tree[n].remark => (n \in r.shown <=> n \in rows)
  BY <1>1, <1>4
<1>12. NavShowsWhatIsFound(tree, parts, r.shown)
  BY <1>2, <1>10, <1>11
<1>13. {n \in DOMAIN tree : ~tree[n].remark /\ PathTo(tree, n) \subseteq r.shown} = rows
  <2>1. ASSUME NEW n \in rows PROVE ~tree[n].remark /\ PathTo(tree, n) \subseteq r.shown
    BY <1>1, <1>6, <1>8, <1>10
  <2>2. ASSUME NEW n \in DOMAIN tree, ~tree[n].remark, PathTo(tree, n) \subseteq r.shown
        PROVE  n \in rows
    BY <1>9, <1>11, <2>2
  <2> QED BY <1>8, <2>1, <2>2
<1> QED BY <1>1, <1>3, <1>12, <1>13 DEF r

-----------------------------------------------------------------------------
(* Links: texts that are split and joined.                                   *)

\* h holds what a loop over 1 .. n has computed before it and after each turn.
Builds(h, n, T, b, G) ==
  /\ h \in [0 .. n -> T] /\ h[0] = b
  /\ \A k \in 1 .. n : h[k] = G[k][h[k - 1]]

\* There is such an h.
LEMMA Loop ==
  ASSUME NEW n \in Nat, NEW T, NEW b \in T, NEW G \in [1 .. n -> [T -> T]]
  PROVE  \E h : Builds(h, n, T, b, G)
<1> DEFINE D == 0 .. n
           Step(g) == [k \in D |-> IF k = 0 THEN b ELSE G[k][g[k - 1]]]
           F == [g \in [D -> T] |-> Step(g)]
           rank == [k \in D |-> k]
<1>1. \A k \in D : k # 0 => k \in 1 .. n /\ k - 1 \in D /\ k - 1 < k
  OBVIOUS
<1>2. ASSUME NEW g \in [D -> T] PROVE Step(g) \in [D -> T]
  <2>1. \A k \in D : k # 0 => g[k - 1] \in T /\ G[k] \in [T -> T]
    BY <1>1
  <2>2. \A k \in D : k # 0 => G[k][g[k - 1]] \in T
    BY <2>1
  <2> QED BY <2>2
<1>3. Descends(D, T, n, rank, F)
  <2>1. rank \in [D -> 0 .. n]
    OBVIOUS
  <2>2. F \in [[D -> T] -> [D -> T]]
    BY <1>2
  <2>3. ASSUME NEW g \in [D -> T], NEW h \in [D -> T], NEW k \in D,
               \A j \in D : rank[j] < rank[k] => g[j] = h[j]
        PROVE  F[g][k] = F[h][k]
    <3>1. k # 0 => g[k - 1] = h[k - 1]
      BY <1>1, <2>3
    <3> QED BY <3>1
  <2> HIDE DEF D, F, rank
  <2> QED BY <2>1, <2>2, <2>3 DEF Descends
<1>4. PICK f : Solves(f, D, T, F)
  <2>1. T # {}
    OBVIOUS
  <2> HIDE DEF D, F, rank
  <2> QED BY <1>3, <2>1, Recursion
<1>5. f = Step(f) /\ f \in [D -> T]
  BY <1>4 DEF Solves
<1>6. f[0] = b /\ \A k \in 1 .. n : f[k] = G[k][f[k - 1]]
  <2>1. 0 \in D /\ \A k \in 1 .. n : k \in D /\ k # 0
    OBVIOUS
  <2> HIDE DEF D
  <2> QED BY <1>5, <2>1
<1>7. Builds(f, n, T, b, G)
  BY <1>5, <1>6 DEF Builds
<1> QED BY <1>7

\* What a split returns: at least one text.
Pieces(S) == Seq(Seq(S)) \ {<<>>}

\* A last piece ends, or grows.
LEMMA PiecesFact ==
  ASSUME NEW S, NEW ps \in Pieces(S), NEW x \in S
  PROVE  /\ ps \in Seq(Seq(S)) /\ Len(ps) \in Nat /\ Len(ps) > 0
         /\ Append(ps, <<>>) \in Pieces(S)
         /\ Front(ps) \in Seq(Seq(S)) /\ Last(ps) \in Seq(S)
         /\ Append(Front(ps), Append(Last(ps), x)) \in Pieces(S)
<1>1. ps \in Seq(Seq(S)) /\ ps # <<>>
  BY DEF Pieces
<1>2. Len(ps) \in Nat /\ Len(ps) > 0
  BY <1>1, LenProperties, EmptySeq
<1>3. <<>> \in Seq(S)
  BY EmptySeq
<1>4. Append(ps, <<>>) \in Pieces(S)
  <2>1. Append(ps, <<>>) \in Seq(Seq(S)) /\ Append(ps, <<>>) # <<>>
    BY <1>1, <1>3, AppendProperties
  <2> QED BY <2>1 DEF Pieces
<1>5. Front(ps) \in Seq(Seq(S))
  <2>1. 1 \in 1 .. Len(ps) + 1 /\ Len(ps) - 1 \in 1 - 1 .. Len(ps)
    BY <1>2
  <2> QED BY <1>1, <2>1, SubSeqProperties DEF Front
<1>6. Last(ps) \in Seq(S)
  <2>1. Len(ps) \in 1 .. Len(ps)
    BY <1>2
  <2> QED BY <1>1, <2>1, ElementOfSeq DEF Last
<1>7. Append(Front(ps), Append(Last(ps), x)) \in Pieces(S)
  <2>1. Append(Last(ps), x) \in Seq(S)
    BY <1>6, AppendProperties
  <2> DEFINE f == Front(ps)
             l == Append(Last(ps), x)
  <2>2. f \in Seq(Seq(S)) /\ l \in Seq(S)
    BY <1>5, <2>1
  <2> HIDE DEF f, l
  <2>3. Append(f, l) \in Seq(Seq(S)) /\ Append(f, l) # <<>>
    BY <2>2, AppendProperties
  <2>4. Append(f, l) \in Pieces(S)
    BY <2>3 DEF Pieces
  <2> QED BY <2>4 DEF f, l
<1> QED BY <1>1, <1>2, <1>4, <1>5, <1>6, <1>7

\* ps holds the pieces of each beginning of s.
SplitsUp(ps, s, c, S) ==
  /\ ps \in [0 .. Len(s) -> Pieces(S)] /\ ps[0] = << <<>> >>
  /\ \A k \in 1 .. Len(s) :
       ps[k] = IF s[k] = c THEN Append(ps[k - 1], <<>>)
               ELSE Append(Front(ps[k - 1]), Append(Last(ps[k - 1]), s[k]))

\* There are such pieces.
LEMMA SplitExists ==
  ASSUME NEW S, NEW s \in Seq(S), NEW c
  PROVE  \E ps : SplitsUp(ps, s, c, S)
<1> DEFINE n == Len(s)
           T == Pieces(S)
           b == << <<>> >>
           G == [k \in 1 .. n |->
                   [ps \in T |-> IF s[k] = c THEN Append(ps, <<>>)
                                 ELSE Append(Front(ps), Append(Last(ps), s[k]))]]
<1>1. n \in Nat /\ \A k \in 1 .. n : s[k] \in S
  BY LenProperties, ElementOfSeq
<1>2. G \in [1 .. n -> [T -> T]]
  <2>1. ASSUME NEW k \in 1 .. n, NEW ps \in T
        PROVE  /\ Append(ps, <<>>) \in T
               /\ Append(Front(ps), Append(Last(ps), s[k])) \in T
    BY <1>1, PiecesFact
  <2> HIDE DEF T
  <2> QED BY <2>1
<1>3. b \in T
  <2>1. <<>> \in Seq(S)
    BY EmptySeq
  <2>2. b \in Seq(Seq(S)) /\ b # <<>>
    BY <2>1
  <2> QED BY <2>2 DEF Pieces
<1>4. PICK h : Builds(h, n, T, b, G)
  <2> HIDE DEF n, T, b, G
  <2> QED BY <1>1, <1>2, <1>3, Loop
<1>5. h \in [0 .. n -> T] /\ h[0] = b /\ \A k \in 1 .. n : h[k] = G[k][h[k - 1]]
  BY <1>4 DEF Builds
<1>6. \A k \in 1 .. n : k - 1 \in 0 .. n
  BY <1>1
<1>7. \A k \in 1 .. n :
        h[k] = IF s[k] = c THEN Append(h[k - 1], <<>>)
               ELSE Append(Front(h[k - 1]), Append(Last(h[k - 1]), s[k]))
  <2> HIDE DEF T
  <2> QED BY <1>5, <1>6
<1>8. SplitsUp(h, s, c, S)
  BY <1>5, <1>7 DEF SplitsUp
<1> QED BY <1>8

\* The pieces are those of the whole.
LEMMA SplitUnique ==
  ASSUME NEW S, NEW s \in Seq(S), NEW c, NEW ps, SplitsUp(ps, s, c, S)
  PROVE  Split(s, c) = ps[Len(s)]
<1> DEFINE n == Len(s)
           pieces[k \in 0 .. n] ==
             IF k = 0 THEN << <<>> >>
             ELSE LET qs == pieces[k - 1]
                  IN IF s[k] = c THEN Append(qs, <<>>) ELSE Append(Front(qs), Append(Last(qs), s[k]))
<1>1. n \in Nat
  BY LenProperties
<1>2. ps = [k \in 0 .. n |->
              IF k = 0 THEN << <<>> >>
              ELSE LET qs == ps[k - 1]
                   IN IF s[k] = c THEN Append(qs, <<>>) ELSE Append(Front(qs), Append(Last(qs), s[k]))]
  <2>1. \A k \in 0 .. n : k # 0 => k \in 1 .. n
    BY <1>1
  <2> QED BY <2>1 DEF SplitsUp
<1>3. pieces = [k \in 0 .. n |->
                  IF k = 0 THEN << <<>> >>
                  ELSE LET qs == pieces[k - 1]
                       IN IF s[k] = c THEN Append(qs, <<>>)
                          ELSE Append(Front(qs), Append(Last(qs), s[k]))]
  BY <1>2
<1>4. Split(s, c) = pieces[n]
  BY DEF Split
<1> HIDE DEF pieces
<1> DEFINE Good == {k \in Nat : k <= n => pieces[k] = ps[k]}
<1>5. 0 \in Good
  BY <1>1, <1>3 DEF SplitsUp
<1>6. ASSUME NEW k \in Nat, k \in Good PROVE k + 1 \in Good
  <2> SUFFICES ASSUME k + 1 <= n PROVE pieces[k + 1] = ps[k + 1]
    OBVIOUS
  <2>1. k + 1 \in 0 .. n /\ k + 1 \in 1 .. n /\ (k + 1) - 1 = k /\ k + 1 # 0 /\ k <= n
    BY <1>1
  <2>2. pieces[k] = ps[k]
    BY <1>6, <2>1
  <2>3. pieces[k + 1] = IF s[k + 1] = c THEN Append(pieces[k], <<>>)
                        ELSE Append(Front(pieces[k]), Append(Last(pieces[k]), s[k + 1]))
    BY <1>3, <2>1
  <2>4. ps[k + 1] = IF s[k + 1] = c THEN Append(ps[k], <<>>)
                    ELSE Append(Front(ps[k]), Append(Last(ps[k]), s[k + 1]))
    BY <2>1 DEF SplitsUp
  <2> QED BY <2>2, <2>3, <2>4
<1> HIDE DEF Good
<1>7. n \in Good
  BY <1>1, <1>5, <1>6, NatInSet
<1> QED BY <1>1, <1>4, <1>7 DEF Good

\* What is cut nowhere is one piece.
LEMMA SplitNone ==
  ASSUME NEW S, NEW s \in Seq(S), NEW c, \A i \in 1 .. Len(s) : s[i] # c
  PROVE  Split(s, c) = <<s>>
<1> DEFINE n == Len(s)
<1>1. n \in Nat
  BY LenProperties
<1>2. PICK ps : SplitsUp(ps, s, c, S)
  BY SplitExists
<1> DEFINE Good == {k \in Nat : k <= n => ps[k] = << SubSeq(s, 1, k) >>}
<1>3. 0 \in Good
  <2>1. SubSeq(s, 1, 0) = <<>>
    BY SubSeqEmpty
  <2> QED BY <1>2, <2>1 DEF SplitsUp
<1>4. ASSUME NEW k \in Nat, k \in Good PROVE k + 1 \in Good
  <2> SUFFICES ASSUME k + 1 <= n PROVE ps[k + 1] = << SubSeq(s, 1, k + 1) >>
    OBVIOUS
  <2>1. k + 1 \in 1 .. n /\ (k + 1) - 1 = k /\ k <= n
    BY <1>1
  <2>2. ps[k] = << SubSeq(s, 1, k) >>
    BY <1>4, <2>1
  <2>3. ps[k + 1] = Append(Front(ps[k]), Append(Last(ps[k]), s[k + 1]))
    BY <1>2, <2>1 DEF SplitsUp
  <2>4. SubSeq(s, 1, k) \in Seq(S)
    <3>1. 1 \in 1 .. n + 1 /\ k \in 1 - 1 .. n
      BY <1>1, <2>1
    <3> QED BY <3>1, SubSeqProperties
  <2> DEFINE t == SubSeq(s, 1, k)
  <2>5. SubSeq(s, 1, k + 1) = Append(t, s[k + 1])
    <3>1. 1 \in 1 .. n + 1 /\ k + 1 \in 1 .. n
      BY <1>1, <2>1
    <3> QED BY <2>1, <3>1, SubSeqRecursiveSecond
  <2> HIDE DEF t
  <2>6. Front(<<t>>) = <<>> /\ Last(<<t>>) = t
    <3>1. SubSeq(<<t>>, 1, 0) = <<>>
      BY SubSeqEmpty
    <3> QED BY <3>1 DEF Front, Last
  <2>7. \A e : Append(<<>>, e) = <<e>>
    OBVIOUS
  <2> QED BY <2>2, <2>3, <2>5, <2>6, <2>7 DEF t
<1> HIDE DEF Good
<1>5. n \in Good
  BY <1>1, <1>3, <1>4, NatInSet
<1>6. ps[n] = << SubSeq(s, 1, n) >>
  BY <1>1, <1>5 DEF Good
<1>7. Split(s, c) = ps[n]
  BY <1>2, SplitUnique
<1>8. SubSeq(s, 1, n) = s
  BY SubSeqFull
<1> QED BY <1>6, <1>7, <1>8

\* What is appended to the end of two is appended to the end of the second.
AppendsLate(a, b, e) == Append(a \o b, e) = a \o Append(b, e)

\* It does not matter whether it is appended before or after.
LEMMA AppendLate ==
  ASSUME NEW S, NEW a \in Seq(S), NEW b \in Seq(S), NEW e \in S
  PROVE  AppendsLate(a, b, e)
<1>1. <<e>> \in Seq(S) /\ a \o b \in Seq(S)
  BY ConcatProperties
<1>2. Append(a \o b, e) = (a \o b) \o <<e>> /\ Append(b, e) = b \o <<e>>
  BY <1>1, AppendIsConcat
<1>3. (a \o b) \o <<e>> = a \o (b \o <<e>>)
  BY <1>1, ConcatAssociative
<1> QED BY <1>2, <1>3 DEF AppendsLate

\* A sequence that is not empty ends in its last element.
LEMMA FrontLast ==
  ASSUME NEW S, NEW s \in Seq(S), s # <<>>
  PROVE  Front(s) \in Seq(S) /\ Last(s) \in S /\ s = Append(Front(s), Last(s))
<1> DEFINE n == Len(s)
<1>1. n \in Nat /\ n > 0
  BY LenProperties, EmptySeq
<1>2. n \in 1 .. n /\ 1 \in 1 .. n /\ 1 \in Int /\ n - 1 \in Int /\ \A i \in 1 .. n - 1 : i \in 1 .. n
  BY <1>1
<1>3. \A i \in 1 .. n : s[i] \in S
  BY ElementOfSeq
<1>4. Front(s) \in Seq(S) /\ Last(s) \in S
  BY <1>2, <1>3, SubSeqProperties DEF Front, Last
<1>5. SubSeq(s, 1, n) = SubSeq(s, 1, n - 1) \o << s[n] >>
  BY <1>2, SubSeqRecursiveSecond
<1>6. SubSeq(s, 1, n) = s
  BY SubSeqFull
<1>7. Append(Front(s), Last(s)) = Front(s) \o << Last(s) >>
  BY <1>4, AppendIsConcat
<1> QED BY <1>4, <1>5, <1>6, <1>7 DEF Front, Last

\* What was appended is the last element, what it was appended to the rest.
LEMMA FrontLastOfAppend ==
  ASSUME NEW S, NEW s \in Seq(S), NEW e \in S
  PROVE  Front(Append(s, e)) = s /\ Last(Append(s, e)) = e
<1> DEFINE t == Append(s, e)
<1>1. t \in Seq(S) /\ t # <<>> /\ Len(t) = Len(s) + 1 /\ t[Len(s) + 1] = e
  BY AppendProperties
<1> HIDE DEF t
<1>2. t = Append(Front(t), Last(t)) /\ Front(t) \in Seq(S) /\ Last(t) \in S
  BY <1>1, FrontLast
<1>3. Append(Front(t), Last(t)) = Append(s, e) <=> Front(t) = s /\ Last(t) = e
  BY <1>2, AppendInjective
<1> QED BY <1>2, <1>3 DEF t

\* Pieces grow at their end, whatever is before them.
Grows(a, b, x) ==
  /\ Append(a \o b, <<>>) = a \o Append(b, <<>>)
  /\ Front(a \o b) = a \o Front(b) /\ Last(a \o b) = Last(b)
  /\ Append(a \o Front(b), Append(Last(b), x)) = a \o Append(Front(b), Append(Last(b), x))

\* Whatever the pieces before them are.
LEMMA GrowFact ==
  ASSUME NEW S, NEW a \in Pieces(S), NEW b \in Pieces(S), NEW x \in S
  PROVE  Grows(a, b, x)
<1> DEFINE T == Seq(S)
           f == Front(b)
           l == Last(b)
<1>1. a \in Seq(T) /\ b \in Seq(T) /\ b # <<>> /\ <<>> \in T
  BY EmptySeq DEF Pieces
<1>2. f \in Seq(T) /\ l \in T /\ b = Append(f, l)
  <2> HIDE DEF T
  <2> QED BY <1>1, FrontLast
<1>3. Append(l, x) \in T
  BY <1>2, AppendProperties
<1> HIDE DEF T, f, l
<1>4. a \o b = Append(a \o f, l)
  <2>1. AppendsLate(a, f, l)
    BY <1>1, <1>2, AppendLate
  <2> QED BY <1>2, <2>1 DEF AppendsLate
<1>5. a \o f \in Seq(T)
  BY <1>1, <1>2, ConcatProperties
<1>6. Front(a \o b) = a \o f /\ Last(a \o b) = l
  <2> DEFINE af == a \o f
  <2>1. af \in Seq(T) /\ l \in T
    BY <1>2, <1>5
  <2> HIDE DEF af
  <2>2. Front(Append(af, l)) = af /\ Last(Append(af, l)) = l
    BY <2>1, FrontLastOfAppend
  <2> QED BY <1>4, <2>2 DEF af
<1>7. Append(a \o b, <<>>) = a \o Append(b, <<>>)
  <2>1. AppendsLate(a, b, <<>>)
    BY <1>1, AppendLate
  <2> QED BY <2>1 DEF AppendsLate
<1> DEFINE g == Append(l, x)
<1>8. g \in T
  BY <1>3
<1> HIDE DEF g
<1>9. Append(a \o f, g) = a \o Append(f, g)
  <2>1. AppendsLate(a, f, g)
    BY <1>1, <1>2, <1>8, AppendLate
  <2> QED BY <2>1 DEF AppendsLate
<1> QED BY <1>6, <1>7, <1>9 DEF f, l, g, Grows

\* w is a, then c, then b.
Around(w, a, c, b, S) ==
  /\ w \in Seq(S) /\ Len(w) = Len(a) + 1 + Len(b)
  /\ \A i \in 1 .. Len(a) : w[i] = a[i]
  /\ w[Len(a) + 1] = c
  /\ \A i \in 1 .. Len(b) : w[Len(a) + 1 + i] = b[i]
  /\ SubSeq(w, 1, Len(a)) = a
  /\ SubSeq(w, Len(a) + 2, Len(w)) = b

\* What is put together around a character is found on either side of it.
LEMMA AroundFact ==
  ASSUME NEW S, NEW a \in Seq(S), NEW b \in Seq(S), NEW c \in S
  PROVE  Around(a \o <<c>> \o b, a, c, b, S)
<1> DEFINE m == Len(a)
           n == Len(b)
           w == a \o <<c>> \o b
<1>1. /\ m \in Nat /\ n \in Nat /\ w \in Seq(S) /\ Len(w) = m + 1 + n
      /\ \A i \in 1 .. m : w[i] = a[i]
      /\ w[m + 1] = c
      /\ \A i \in 1 .. n : w[m + 1 + i] = b[i]
  <2> DEFINE ac == a \o <<c>>
  <2>1. m \in Nat /\ n \in Nat /\ <<c>> \in Seq(S) /\ Len(<<c>>) = 1 /\ <<c>>[1] = c
    BY LenProperties
  <2>2. /\ ac \in Seq(S) /\ Len(ac) = m + 1
        /\ \A i \in 1 .. m + 1 : ac[i] = IF i <= m THEN a[i] ELSE <<c>>[i - m]
    <3>1. /\ ac \in Seq(S) /\ Len(ac) = Len(a) + Len(<<c>>)
          /\ \A i \in 1 .. Len(a) + Len(<<c>>) : ac[i] = IF i <= Len(a) THEN a[i] ELSE <<c>>[i - Len(a)]
      BY <2>1, ConcatProperties
    <3> HIDE DEF ac
    <3> QED BY <2>1, <3>1
  <2>3. (\A i \in 1 .. m : ac[i] = a[i]) /\ ac[m + 1] = c
    <3> HIDE DEF ac, m
    <3>1. m + 1 \in 1 .. m + 1 /\ ~(m + 1 <= m) /\ (m + 1) - m = 1
      BY <2>1
    <3>2. \A i \in 1 .. m : i \in 1 .. m + 1 /\ i <= m
      BY <2>1
    <3> QED BY <2>1, <2>2, <3>1, <3>2
  <2> HIDE DEF ac
  <2>4. /\ ac \o b \in Seq(S) /\ Len(ac \o b) = Len(ac) + Len(b)
        /\ \A i \in 1 .. Len(ac) + Len(b) : (ac \o b)[i] = IF i <= Len(ac) THEN ac[i] ELSE b[i - Len(ac)]
    BY <2>2, ConcatProperties
  <2>5. w = ac \o b
    BY DEF ac
  <2> HIDE DEF w, m, n
  <2>6. /\ w \in Seq(S) /\ Len(w) = m + 1 + n
        /\ \A i \in 1 .. m + 1 + n : w[i] = IF i <= m + 1 THEN ac[i] ELSE b[i - (m + 1)]
    BY <2>2, <2>4, <2>5 DEF n
  <2>7. \A i \in 1 .. m + 1 : i \in 1 .. m + 1 + n /\ i <= m + 1
    BY <2>1
  <2>8. \A i \in 1 .. m + 1 : w[i] = ac[i]
    BY <2>6, <2>7
  <2>9. \A i \in 1 .. n : m + 1 + i \in 1 .. m + 1 + n /\ ~(m + 1 + i <= m + 1) /\ (m + 1 + i) - (m + 1) = i
    BY <2>1
  <2>10. \A i \in 1 .. n : w[m + 1 + i] = b[i]
    BY <2>6, <2>9
  <2>11. m + 1 \in 1 .. m + 1 /\ \A i \in 1 .. m : i \in 1 .. m + 1
    BY <2>1
  <2> QED BY <2>1, <2>3, <2>6, <2>8, <2>10, <2>11
<1> HIDE DEF w, m, n
<1>2. SubSeq(w, 1, m) = a
  <2>1. \A i \in 1 .. m : w[i] \in S
    <3>1. \A i \in 1 .. m : a[i] \in S
      BY ElementOfSeq DEF m
    <3> QED BY <1>1, <3>1
  <2>2. 1 \in Int /\ m \in Int
    BY <1>1
  <2>3. /\ SubSeq(w, 1, m) \in Seq(S)
        /\ Len(SubSeq(w, 1, m)) = IF 1 <= m THEN m - 1 + 1 ELSE 0
        /\ \A i \in 1 .. m - 1 + 1 : SubSeq(w, 1, m)[i] = w[1 + i - 1]
    BY <2>1, <2>2, SubSeqProperties
  <2> DEFINE t == SubSeq(w, 1, m)
  <2> HIDE DEF t
  <2>4. t \in Seq(S) /\ Len(t) = m
    BY <1>1, <2>3 DEF t
  <2>5. \A i \in 1 .. m : i \in 1 .. m - 1 + 1 /\ 1 + i - 1 = i
    BY <1>1
  <2>6. \A i \in 1 .. m : t[i] = a[i]
    BY <1>1, <2>3, <2>5 DEF t
  <2>7. t = a
    BY <2>4, <2>6, SeqEqual DEF m
  <2> QED BY <2>7 DEF t
<1>3. SubSeq(w, m + 2, Len(w)) = b
  <2> DEFINE k == m + 1 + n
             t == SubSeq(w, m + 2, k)
  <2>1. \A i \in m + 2 .. k : w[i] \in S
    <3>1. \A i \in m + 2 .. k : i \in 1 .. k
      BY <1>1
    <3>2. k = Len(w)
      BY <1>1
    <3> QED BY <1>1, <3>1, <3>2, ElementOfSeq
  <2>2. m + 2 \in Int /\ k \in Int
    BY <1>1
  <2>3. /\ t \in Seq(S)
        /\ Len(t) = IF m + 2 <= k THEN k - (m + 2) + 1 ELSE 0
        /\ \A i \in 1 .. k - (m + 2) + 1 : t[i] = w[m + 2 + i - 1]
    <3> HIDE DEF k
    <3> QED BY <2>1, <2>2, SubSeqProperties
  <2> HIDE DEF t
  <2>4. t \in Seq(S) /\ Len(t) = n
    <3>1. (IF m + 2 <= k THEN k - (m + 2) + 1 ELSE 0) = n
      BY <1>1
    <3> QED BY <2>3, <3>1
  <2>5. \A i \in 1 .. n : i \in 1 .. k - (m + 2) + 1 /\ m + 2 + i - 1 = m + 1 + i
    BY <1>1
  <2>6. \A i \in 1 .. n : t[i] = b[i]
    <3> HIDE DEF k
    <3> QED BY <1>1, <2>3, <2>5
  <2>7. t = b
    BY <2>4, <2>6, SeqEqual DEF n
  <2>8. k = Len(w)
    BY <1>1
  <2> HIDE DEF k
  <2> QED BY <2>7, <2>8 DEF t
<1> QED BY <1>1, <1>2, <1>3 DEF Around, w, m, n

\* What is between the cuts of the parts is what is between those of the whole.
SplitsAt(a, b, c) == Split(a \o <<c>> \o b, c) = Split(a, c) \o Split(b, c)

\* A text put together around a character is split there.
LEMMA SplitAt ==
  ASSUME NEW S, NEW a \in Seq(S), NEW b \in Seq(S), NEW c \in S
  PROVE  SplitsAt(a, b, c)
<1> DEFINE m == Len(a)
           n == Len(b)
           w == a \o <<c>> \o b
<1>1. /\ m \in Nat /\ n \in Nat /\ w \in Seq(S) /\ Len(w) = m + 1 + n
      /\ \A i \in 1 .. m : w[i] = a[i]
      /\ w[m + 1] = c
      /\ \A i \in 1 .. n : w[m + 1 + i] = b[i]
  <2>1. m \in Nat /\ n \in Nat
    BY LenProperties
  <2>2. Around(w, a, c, b, S)
    BY AroundFact
  <2> HIDE DEF w
  <2> QED BY <2>1, <2>2 DEF Around
<1> HIDE DEF w
<1>2. PICK pa : SplitsUp(pa, a, c, S)
  BY SplitExists
<1>3. PICK pb : SplitsUp(pb, b, c, S)
  BY SplitExists
<1>4. PICK pw : SplitsUp(pw, w, c, S)
  BY <1>1, SplitExists
<1>5. Split(a, c) = pa[m] /\ Split(b, c) = pb[n]
  BY <1>2, <1>3, SplitUnique
<1>6. Split(w, c) = pw[m + 1 + n]
  <2>1. Split(w, c) = pw[Len(w)]
    BY <1>1, <1>4, SplitUnique
  <2> QED BY <1>1, <2>1
<1> HIDE DEF m, n
<1>7. /\ pa \in [0 .. m -> Pieces(S)] /\ pa[0] = << <<>> >>
      /\ \A k \in 1 .. m :
           pa[k] = IF a[k] = c THEN Append(pa[k - 1], <<>>)
                   ELSE Append(Front(pa[k - 1]), Append(Last(pa[k - 1]), a[k]))
  BY <1>2 DEF SplitsUp, m
<1>8. /\ pb \in [0 .. n -> Pieces(S)] /\ pb[0] = << <<>> >>
      /\ \A k \in 1 .. n :
           pb[k] = IF b[k] = c THEN Append(pb[k - 1], <<>>)
                   ELSE Append(Front(pb[k - 1]), Append(Last(pb[k - 1]), b[k]))
  BY <1>3 DEF SplitsUp, n
<1>9. /\ pw[0] = << <<>> >>
      /\ \A k \in 1 .. m + 1 + n :
           pw[k] = IF w[k] = c THEN Append(pw[k - 1], <<>>)
                   ELSE Append(Front(pw[k - 1]), Append(Last(pw[k - 1]), w[k]))
  BY <1>1, <1>4 DEF SplitsUp
<1> DEFINE A == pa[m]
<1>10. A \in Pieces(S) /\ A \in Seq(Seq(S)) /\ A # <<>>
  BY <1>1, <1>7 DEF Pieces
<1>11. pw[m] = A
  <2> DEFINE Good == {k \in Nat : k <= m => pw[k] = pa[k]}
  <2>1. 0 \in Good
    BY <1>7, <1>9
  <2>2. ASSUME NEW k \in Nat, k \in Good PROVE k + 1 \in Good
    <3> SUFFICES ASSUME k + 1 <= m PROVE pw[k + 1] = pa[k + 1]
      OBVIOUS
    <3>1. k + 1 \in 1 .. m /\ k + 1 \in 1 .. m + 1 + n /\ (k + 1) - 1 = k /\ k <= m
      BY <1>1
    <3>2. pw[k] = pa[k] /\ w[k + 1] = a[k + 1]
      BY <1>1, <2>2, <3>1
    <3> QED BY <1>7, <1>9, <3>1, <3>2
  <2> HIDE DEF Good
  <2>3. m \in Good
    BY <1>1, <2>1, <2>2, NatInSet
  <2> QED BY <1>1, <2>3 DEF Good
<1> HIDE DEF A
<1>12. pw[m + 1] = A \o << <<>> >>
  <2>1. m + 1 \in 1 .. m + 1 + n /\ (m + 1) - 1 = m
    BY <1>1
  <2>2. pw[m + 1] = Append(A, <<>>)
    BY <1>1, <1>9, <1>11, <2>1
  <2>3. <<>> \in Seq(S)
    BY EmptySeq
  <2> QED BY <1>10, <2>2, <2>3, AppendIsConcat
<1>13. pw[m + 1 + n] = A \o pb[n]
  <2> DEFINE Good == {k \in Nat : k <= n => pw[m + 1 + k] = A \o pb[k]}
  <2>1. 0 \in Good
    <3>1. m + 1 + 0 = m + 1
      BY <1>1
    <3> QED BY <1>8, <1>12, <3>1
  <2>2. ASSUME NEW k \in Nat, k \in Good PROVE k + 1 \in Good
    <3> DEFINE B == pb[k]
               x == b[k + 1]
    <3> SUFFICES ASSUME k + 1 <= n PROVE pw[m + 1 + (k + 1)] = A \o pb[k + 1]
      OBVIOUS
    <3>1. /\ k + 1 \in 1 .. n /\ (k + 1) - 1 = k /\ k <= n /\ k \in 0 .. n
          /\ m + 1 + (k + 1) \in 1 .. m + 1 + n /\ (m + 1 + (k + 1)) - 1 = m + 1 + k
      BY <1>1
    <3>2. pw[m + 1 + k] = A \o B /\ w[m + 1 + (k + 1)] = x /\ B \in Pieces(S) /\ x \in S
      <4>1. x \in S
        BY <3>1, ElementOfSeq DEF n
      <4>2. B \in Pieces(S)
        BY <1>8, <3>1
      <4>3. pw[m + 1 + k] = A \o B
        BY <2>2, <3>1
      <4> QED BY <1>1, <3>1, <4>1, <4>2, <4>3
    <3>3. pb[k + 1] = IF x = c THEN Append(B, <<>>) ELSE Append(Front(B), Append(Last(B), x))
      BY <1>8, <3>1
    <3>4. pw[m + 1 + (k + 1)] = IF x = c THEN Append(A \o B, <<>>)
                                ELSE Append(Front(A \o B), Append(Last(A \o B), x))
      BY <1>9, <3>1, <3>2
    <3> HIDE DEF B, x
    <3>5. Grows(A, B, x)
      BY <1>10, <3>2, GrowFact
    <3>6. CASE x = c
      BY <3>3, <3>4, <3>5, <3>6 DEF Grows
    <3>7. CASE x # c
      <4>1. /\ pb[k + 1] = Append(Front(B), Append(Last(B), x))
            /\ pw[m + 1 + (k + 1)] = Append(A \o Front(B), Append(Last(B), x))
        BY <3>3, <3>4, <3>5, <3>7 DEF Grows
      <4> QED BY <3>5, <4>1 DEF Grows
    <3> QED BY <3>6, <3>7
  <2> HIDE DEF Good
  <2>3. n \in Good
    BY <1>1, <2>1, <2>2, NatInSet
  <2> QED BY <1>1, <2>3 DEF Good
<1> QED BY <1>5, <1>6, <1>13 DEF A, w, SplitsAt

\* js holds what the beginnings of ss are joined to.
JoinsUp(js, ss, c, S) ==
  /\ js \in [0 .. Len(ss) -> Seq(S)] /\ js[0] = <<>>
  /\ \A k \in 1 .. Len(ss) : js[k] = IF k = 1 THEN ss[1] ELSE js[k - 1] \o <<c>> \o ss[k]

\* There are such joins.
LEMMA JoinExists ==
  ASSUME NEW S, NEW ss \in Seq(Seq(S)), NEW c \in S
  PROVE  \E js : JoinsUp(js, ss, c, S)
<1> DEFINE n == Len(ss)
           T == Seq(S)
           G == [k \in 1 .. n |-> [j \in T |-> IF k = 1 THEN ss[1] ELSE j \o <<c>> \o ss[k]]]
<1>1. n \in Nat /\ \A k \in 1 .. n : ss[k] \in T
  BY LenProperties, ElementOfSeq
<1>2. G \in [1 .. n -> [T -> T]]
  <2>1. ASSUME NEW k \in 1 .. n, NEW j \in T PROVE j \o <<c>> \o ss[k] \in T
    <3>1. <<c>> \in Seq(S) /\ ss[k] \in Seq(S)
      BY <1>1
    <3>2. j \o <<c>> \in Seq(S)
      BY <3>1, ConcatProperties
    <3> QED BY <3>1, <3>2, ConcatProperties
  <2> HIDE DEF T
  <2> QED BY <1>1, <2>1
<1>3. <<>> \in T
  BY EmptySeq
<1>4. PICK h : Builds(h, n, T, <<>>, G)
  <2> HIDE DEF n, T, G
  <2> QED BY <1>1, <1>2, <1>3, Loop
<1>5. h \in [0 .. n -> T] /\ h[0] = <<>> /\ \A k \in 1 .. n : h[k] = G[k][h[k - 1]]
  BY <1>4 DEF Builds
<1>6. \A k \in 1 .. n : k - 1 \in 0 .. n
  BY <1>1
<1>7. \A k \in 1 .. n : h[k] = IF k = 1 THEN ss[1] ELSE h[k - 1] \o <<c>> \o ss[k]
  <2> HIDE DEF T
  <2> QED BY <1>5, <1>6
<1>8. JoinsUp(h, ss, c, S)
  BY <1>5, <1>7 DEF JoinsUp
<1> QED BY <1>8

\* The last of them is the join of all.
LEMMA JoinUnique ==
  ASSUME NEW S, NEW ss \in Seq(Seq(S)), NEW c, NEW js, JoinsUp(js, ss, c, S)
  PROVE  Joined(ss, c) = js[Len(ss)] /\ Joined(ss, c) \in Seq(S)
<1> DEFINE n == Len(ss)
           joined[k \in 0 .. n] ==
             IF k = 0 THEN <<>> ELSE IF k = 1 THEN ss[1] ELSE joined[k - 1] \o <<c>> \o ss[k]
<1>1. n \in Nat
  BY LenProperties
<1>2. js = [k \in 0 .. n |->
              IF k = 0 THEN <<>> ELSE IF k = 1 THEN ss[1] ELSE js[k - 1] \o <<c>> \o ss[k]]
  <2>1. \A k \in 0 .. n : k # 0 => k \in 1 .. n
    BY <1>1
  <2>2. \A k \in 0 .. n :
          js[k] = IF k = 0 THEN <<>> ELSE IF k = 1 THEN ss[1] ELSE js[k - 1] \o <<c>> \o ss[k]
    BY <2>1, Zenon DEF JoinsUp
  <2>3. js = [k \in 0 .. n |-> js[k]]
    BY DEF JoinsUp
  <2> QED BY <2>2, <2>3, Zenon
<1>3. joined = [k \in 0 .. n |->
                  IF k = 0 THEN <<>> ELSE IF k = 1 THEN ss[1] ELSE joined[k - 1] \o <<c>> \o ss[k]]
  BY <1>2
<1>4. Joined(ss, c) = joined[n]
  BY DEF Joined
<1> HIDE DEF joined
<1> DEFINE Good == {k \in Nat : k <= n => joined[k] = js[k]}
<1>5. 0 \in Good
  BY <1>1, <1>3 DEF JoinsUp
<1>6. ASSUME NEW k \in Nat, k \in Good PROVE k + 1 \in Good
  <2> SUFFICES ASSUME k + 1 <= n PROVE joined[k + 1] = js[k + 1]
    OBVIOUS
  <2>1. k + 1 \in 0 .. n /\ (k + 1) - 1 = k /\ k + 1 # 0 /\ k <= n
    BY <1>1
  <2>2. joined[k] = js[k]
    BY <1>6, <2>1
  <2>3. joined[k + 1] = IF k + 1 = 1 THEN ss[1] ELSE joined[k] \o <<c>> \o ss[k + 1]
    <3> DEFINE l == k + 1
    <3>1. l \in 0 .. n /\ l # 0 /\ l - 1 = k
      BY <2>1
    <3> HIDE DEF l
    <3>2. joined[l] = IF l = 1 THEN ss[1] ELSE joined[l - 1] \o <<c>> \o ss[l]
      BY <1>3, <3>1, Zenon
    <3> QED BY <3>1, <3>2, Zenon DEF l
  <2>4. js[k + 1] = IF k + 1 = 1 THEN ss[1] ELSE js[k] \o <<c>> \o ss[k + 1]
    <3> DEFINE l == k + 1
    <3>1. l \in 0 .. n /\ l # 0 /\ l - 1 = k
      BY <2>1
    <3> HIDE DEF l
    <3>2. js[l] = IF l = 1 THEN ss[1] ELSE js[l - 1] \o <<c>> \o ss[l]
      BY <1>2, <3>1, Zenon
    <3> QED BY <3>1, <3>2, Zenon DEF l
  <2> QED BY <2>2, <2>3, <2>4, Zenon
<1> HIDE DEF Good
<1>7. n \in Good
  BY <1>1, <1>5, <1>6, NatInSet
<1>8. n \in 0 .. n /\ joined[n] = js[n]
  BY <1>1, <1>7 DEF Good
<1> QED BY <1>4, <1>8 DEF JoinsUp

\* What is joined is a text of the same characters; splitting gives it back if
\* it is joined by a character that is in none; and one is joined as it is.
LEMMA JoinedFact ==
  ASSUME NEW S, NEW ss \in Seq(Seq(S)), NEW c \in S
  PROVE  /\ Joined(ss, c) \in Seq(S)
         /\ Len(ss) = 1 => Joined(ss, c) = ss[1]
<1>1. PICK js : JoinsUp(js, ss, c, S)
  BY JoinExists
<1>2. Joined(ss, c) = js[Len(ss)] /\ Joined(ss, c) \in Seq(S)
  BY <1>1, JoinUnique
<1>3. Len(ss) = 1 => js[Len(ss)] = ss[1]
  BY <1>1 DEF JoinsUp
<1> QED BY <1>2, <1>3

\* What was joined by a character that is in none of the texts is split into them.
LEMMA SplitJoined ==
  ASSUME NEW S, NEW c \in S, NEW ss \in Seq(Seq(S)), ss # <<>>,
         \A i \in 1 .. Len(ss) : \A j \in 1 .. Len(ss[i]) : ss[i][j] # c
  PROVE  Split(Joined(ss, c), c) = ss
<1> DEFINE n == Len(ss)
<1>1. n \in Nat /\ n > 0 /\ \A k \in 1 .. n : ss[k] \in Seq(S)
  BY LenProperties, EmptySeq, ElementOfSeq
<1>2. PICK js : JoinsUp(js, ss, c, S)
  BY JoinExists
<1>3. Joined(ss, c) = js[n]
  BY <1>2, JoinUnique
<1>4. \A k \in 1 .. n : Split(ss[k], c) = << ss[k] >>
  BY <1>1, SplitNone
<1>5. \A k \in 1 .. n : SubSeq(ss, 1, k) = SubSeq(ss, 1, k - 1) \o << ss[k] >>
  <2> SUFFICES ASSUME NEW k \in 1 .. n PROVE SubSeq(ss, 1, k) = SubSeq(ss, 1, k - 1) \o << ss[k] >>
    OBVIOUS
  <2>1. 1 \in 1 .. n /\ k \in 1 .. n
    BY <1>1
  <2> QED BY <2>1, SubSeqRecursiveSecond
<1> DEFINE Good == {k \in Nat : k <= n => k = 0 \/ Split(js[k], c) = SubSeq(ss, 1, k)}
<1>6. 0 \in Good
  OBVIOUS
<1>7. ASSUME NEW k \in Nat, k \in Good PROVE k + 1 \in Good
  <2> DEFINE l == k + 1
  <2> SUFFICES ASSUME l <= n PROVE Split(js[l], c) = SubSeq(ss, 1, l)
    OBVIOUS
  <2>1. l \in 1 .. n /\ l - 1 = k /\ k <= n /\ k \in 0 .. n
    BY <1>1
  <2> HIDE DEF l
  <2>2. js[l] = IF l = 1 THEN ss[1] ELSE js[l - 1] \o <<c>> \o ss[l]
    BY <1>2, <2>1, Zenon DEF JoinsUp
  <2>3. CASE l = 1
    <3>1. js[l] = ss[1]
      BY <2>2, <2>3, Zenon
    <3>2. Split(js[l], c) = << ss[1] >>
      BY <1>4, <2>1, <2>3, <3>1
    <3>3. SubSeq(ss, 1, 0) = <<>> /\ <<>> \o << ss[1] >> = << ss[1] >>
      BY SubSeqEmpty
    <3>4. SubSeq(ss, 1, 1) = SubSeq(ss, 1, 0) \o << ss[1] >>
      <4>1. 1 \in 1 .. n /\ 1 - 1 = 0
        BY <1>1
      <4> QED BY <1>5, <4>1, Zenon
    <3>5. SubSeq(ss, 1, l) = << ss[1] >>
      BY <2>3, <3>3, <3>4, Zenon
    <3> QED BY <3>2, <3>5, Zenon
  <2>4. CASE l # 1
    <3>1. js[l] = js[k] \o <<c>> \o ss[l]
      BY <2>1, <2>2, <2>4, Zenon
    <3>2. js[k] \in Seq(S) /\ ss[l] \in Seq(S)
      BY <1>1, <1>2, <2>1 DEF JoinsUp
    <3>3. Split(js[k] \o <<c>> \o ss[l], c) = Split(js[k], c) \o Split(ss[l], c)
      <4>1. SplitsAt(js[k], ss[l], c)
        BY <3>2, SplitAt
      <4> QED BY <4>1 DEF SplitsAt
    <3>4. Split(js[k], c) = SubSeq(ss, 1, k)
      BY <1>7, <2>1, <2>4
    <3>5. Split(ss[l], c) = << ss[l] >>
      BY <1>4, <2>1
    <3>6. SubSeq(ss, 1, l) = SubSeq(ss, 1, k) \o << ss[l] >>
      BY <1>5, <2>1
    <3> QED BY <3>1, <3>3, <3>4, <3>5, <3>6, Zenon
  <2> QED BY <2>3, <2>4
<1> HIDE DEF Good
<1>8. n \in Good
  BY <1>1, <1>6, <1>7, NatInSet
<1>9. Split(js[n], c) = SubSeq(ss, 1, n)
  BY <1>1, <1>8 DEF Good
<1>10. SubSeq(ss, 1, n) = ss
  BY SubSeqFull
<1> QED BY <1>3, <1>9, <1>10

\* ks holds what is kept of the beginnings of ss.
KeepsUp(ks, ss, S) ==
  /\ ks \in [0 .. Len(ss) -> Seq(Seq(S))] /\ ks[0] = <<>>
  /\ \A k \in 1 .. Len(ss) :
       ks[k] = IF ss[k] = <<>> THEN ks[k - 1] ELSE Append(ks[k - 1], ss[k])

\* There is such a sequence.
LEMMA KeepExists ==
  ASSUME NEW S, NEW ss \in Seq(Seq(S))
  PROVE  \E ks : KeepsUp(ks, ss, S)
<1> DEFINE n == Len(ss)
           T == Seq(Seq(S))
           G == [k \in 1 .. n |-> [j \in T |-> IF ss[k] = <<>> THEN j ELSE Append(j, ss[k])]]
<1>1. n \in Nat /\ \A k \in 1 .. n : ss[k] \in Seq(S)
  BY LenProperties, ElementOfSeq
<1>2. G \in [1 .. n -> [T -> T]]
  <2>1. ASSUME NEW k \in 1 .. n, NEW j \in T PROVE Append(j, ss[k]) \in T
    BY <1>1, AppendProperties
  <2> HIDE DEF T
  <2> QED BY <2>1
<1>3. <<>> \in T
  BY EmptySeq
<1>4. PICK h : Builds(h, n, T, <<>>, G)
  <2> HIDE DEF n, T, G
  <2> QED BY <1>1, <1>2, <1>3, Loop
<1>5. h \in [0 .. n -> T] /\ h[0] = <<>> /\ \A k \in 1 .. n : h[k] = G[k][h[k - 1]]
  BY <1>4 DEF Builds
<1>6. \A k \in 1 .. n : k - 1 \in 0 .. n
  BY <1>1
<1>7. \A k \in 1 .. n : h[k] = IF ss[k] = <<>> THEN h[k - 1] ELSE Append(h[k - 1], ss[k])
  <2> HIDE DEF T
  <2> QED BY <1>5, <1>6
<1>8. KeepsUp(h, ss, S)
  BY <1>5, <1>7 DEF KeepsUp
<1> QED BY <1>8

\* The last of it is what is kept of all.
LEMMA KeepUnique ==
  ASSUME NEW S, NEW ss \in Seq(Seq(S)), NEW ks, KeepsUp(ks, ss, S)
  PROVE  NonEmpty(ss) = ks[Len(ss)]
<1> DEFINE n == Len(ss)
           kept[k \in 0 .. n] ==
             IF k = 0 THEN <<>> ELSE IF ss[k] = <<>> THEN kept[k - 1] ELSE Append(kept[k - 1], ss[k])
<1>1. n \in Nat
  BY LenProperties
<1>2. ks = [k \in 0 .. n |->
              IF k = 0 THEN <<>> ELSE IF ss[k] = <<>> THEN ks[k - 1] ELSE Append(ks[k - 1], ss[k])]
  <2>1. \A k \in 0 .. n : k # 0 => k \in 1 .. n
    BY <1>1
  <2>2. \A k \in 0 .. n :
          ks[k] = IF k = 0 THEN <<>> ELSE IF ss[k] = <<>> THEN ks[k - 1] ELSE Append(ks[k - 1], ss[k])
    BY <2>1, Zenon DEF KeepsUp
  <2>3. ks = [k \in 0 .. n |-> ks[k]]
    BY DEF KeepsUp
  <2> QED BY <2>2, <2>3, Zenon
<1>3. kept = [k \in 0 .. n |->
                IF k = 0 THEN <<>> ELSE IF ss[k] = <<>> THEN kept[k - 1] ELSE Append(kept[k - 1], ss[k])]
  BY <1>2
<1>4. NonEmpty(ss) = kept[n]
  BY DEF NonEmpty
<1> HIDE DEF kept
<1> DEFINE Good == {k \in Nat : k <= n => kept[k] = ks[k]}
<1>5. 0 \in Good
  BY <1>1, <1>3 DEF KeepsUp
<1>6. ASSUME NEW k \in Nat, k \in Good PROVE k + 1 \in Good
  <2> DEFINE l == k + 1
  <2> SUFFICES ASSUME l <= n PROVE kept[l] = ks[l]
    OBVIOUS
  <2>1. l \in 0 .. n /\ l # 0 /\ l - 1 = k /\ k <= n
    BY <1>1
  <2>2. kept[k] = ks[k]
    BY <1>6, <2>1
  <2> HIDE DEF l
  <2>3. kept[l] = IF ss[l] = <<>> THEN kept[l - 1] ELSE Append(kept[l - 1], ss[l])
    BY <1>3, <2>1, Zenon
  <2>4. ks[l] = IF ss[l] = <<>> THEN ks[l - 1] ELSE Append(ks[l - 1], ss[l])
    BY <1>2, <2>1, Zenon
  <2> QED BY <2>1, <2>2, <2>3, <2>4, Zenon
<1> HIDE DEF Good
<1>7. n \in Good
  BY <1>1, <1>5, <1>6, NatInSet
<1> QED BY <1>1, <1>4, <1>7 DEF Good

\* What is kept is what is not empty.
LEMMA KeptFact ==
  ASSUME NEW S, NEW ss \in Seq(Seq(S))
  PROVE  /\ NonEmpty(ss) \in Seq(Seq(S))
         /\ \A i \in 1 .. Len(NonEmpty(ss)) :
              \E k \in 1 .. Len(ss) : NonEmpty(ss)[i] = ss[k] /\ ss[k] # <<>>
         /\ \A k \in 1 .. Len(ss) :
              ss[k] # <<>> => \E i \in 1 .. Len(NonEmpty(ss)) : NonEmpty(ss)[i] = ss[k]
<1> DEFINE n == Len(ss)
<1>1. n \in Nat /\ \A k \in 1 .. n : ss[k] \in Seq(S)
  BY LenProperties, ElementOfSeq
<1>2. PICK ks : KeepsUp(ks, ss, S)
  BY KeepExists
<1>3. NonEmpty(ss) = ks[n]
  BY <1>2, KeepUnique
<1>4. \A k \in 0 .. n : ks[k] \in Seq(Seq(S))
  BY <1>2 DEF KeepsUp
<1> DEFINE From(t, m) == \A i \in 1 .. Len(t) : \E k \in 1 .. m : t[i] = ss[k] /\ ss[k] # <<>>
           All(t, m) == \A k \in 1 .. m : ss[k] # <<>> => \E i \in 1 .. Len(t) : t[i] = ss[k]
           Good == {m \in Nat : m <= n => From(ks[m], m) /\ All(ks[m], m)}
<1>5. 0 \in Good
  <2>1. ks[0] = <<>>
    BY <1>2 DEF KeepsUp
  <2>2. From(<<>>, 0) /\ All(<<>>, 0)
    OBVIOUS
  <2> QED BY <2>1, <2>2
<1>6. ASSUME NEW m \in Nat, m \in Good PROVE m + 1 \in Good
  <2> DEFINE l == m + 1
  <2> SUFFICES ASSUME l <= n PROVE From(ks[l], l) /\ All(ks[l], l)
    OBVIOUS
  <2>1. l \in 1 .. n /\ l - 1 = m /\ m <= n /\ m \in 0 .. n /\ l \in Nat /\ l \in 1 .. l
    BY <1>1
  <2>2. \A k \in 1 .. l : k \in 1 .. m \/ k = l
    OBVIOUS
  <2>3. \A k \in 1 .. m : k \in 1 .. l
    OBVIOUS
  <2>4. From(ks[m], m) /\ All(ks[m], m)
    BY <1>6, <2>1
  <2> HIDE DEF l
  <2>5. ks[l] = IF ss[l] = <<>> THEN ks[l - 1] ELSE Append(ks[l - 1], ss[l])
    BY <1>2, <2>1, Zenon DEF KeepsUp
  <2>6. CASE ss[l] = <<>>
    <3>1. ks[l] = ks[m]
      BY <2>1, <2>5, <2>6, Zenon
    <3>2. From(ks[m], l)
      BY <2>3, <2>4
    <3>3. All(ks[m], l)
      BY <2>2, <2>4, <2>6
    <3> HIDE DEF From, All
    <3> QED BY <3>1, <3>2, <3>3
  <2>7. CASE ss[l] # <<>>
    <3> DEFINE t == ks[m]
               u == Append(t, ss[l])
    <3>1. ks[l] = u
      BY <2>1, <2>5, <2>7, Zenon
    <3>2. t \in Seq(Seq(S)) /\ ss[l] \in Seq(S)
      BY <1>1, <1>4, <2>1
    <3> HIDE DEF t
    <3>3. /\ Len(t) \in Nat /\ Len(u) = Len(t) + 1
          /\ \A i \in 1 .. Len(t) : u[i] = t[i]
          /\ u[Len(t) + 1] = ss[l]
      BY <3>2, AppendProperties, LenProperties
    <3> HIDE DEF u
    <3>4. From(t, m) /\ All(t, m)
      BY <2>4 DEF t
    <3>5. /\ \A i \in 1 .. Len(u) : i \in 1 .. Len(t) \/ i = Len(t) + 1
          /\ \A i \in 1 .. Len(t) : i \in 1 .. Len(u)
          /\ Len(t) + 1 \in 1 .. Len(u)
      BY <3>3
    <3>6. From(u, l)
      <4>1. ASSUME NEW i \in 1 .. Len(t) PROVE \E k \in 1 .. l : u[i] = ss[k] /\ ss[k] # <<>>
        <5>1. PICK k \in 1 .. m : t[i] = ss[k] /\ ss[k] # <<>>
          BY <3>4
        <5> QED BY <2>3, <3>3, <5>1
      <4>2. \E k \in 1 .. l : u[Len(t) + 1] = ss[k] /\ ss[k] # <<>>
        BY <2>1, <2>7, <3>3
      <4> QED BY <3>5, <4>1, <4>2
    <3>7. All(u, l)
      <4>1. ASSUME NEW k \in 1 .. m, ss[k] # <<>> PROVE \E i \in 1 .. Len(u) : u[i] = ss[k]
        BY <3>3, <3>4, <3>5, <4>1
      <4>2. \E i \in 1 .. Len(u) : u[i] = ss[l]
        BY <3>3, <3>5
      <4> QED BY <2>2, <4>1, <4>2
    <3> HIDE DEF From, All
    <3> QED BY <3>1, <3>6, <3>7
  <2> QED BY <2>6, <2>7
<1> HIDE DEF Good
<1>7. n \in Good
  BY <1>1, <1>5, <1>6, NatInSet
<1>8. n \in 0 .. n /\ From(ks[n], n) /\ All(ks[n], n)
  BY <1>1, <1>7 DEF Good
<1> QED BY <1>3, <1>4, <1>8

\* Of an empty text and others that are not, the others are kept.
LEMMA KeptRest ==
  ASSUME NEW S, NEW ss \in Seq(Seq(S)), \A k \in 1 .. Len(ss) : ss[k] # <<>>
  PROVE  NonEmpty(<< <<>> >> \o ss) = ss
<1> DEFINE n == Len(ss)
           t == << <<>> >> \o ss
<1>1. n \in Nat /\ \A k \in 1 .. n : ss[k] \in Seq(S)
  BY LenProperties, ElementOfSeq
<1>2. t \in Seq(Seq(S)) /\ Len(t) = n + 1 /\ t[1] = <<>> /\ \A k \in 1 .. n : t[k + 1] = ss[k]
  <2> DEFINE one == << <<>> >>
  <2>1. <<>> \in Seq(S)
    BY EmptySeq
  <2>2. one \in Seq(Seq(S)) /\ Len(one) = 1 /\ one[1] = <<>>
    BY <2>1
  <2> HIDE DEF one
  <2>3. /\ one \o ss \in Seq(Seq(S)) /\ Len(one \o ss) = Len(one) + Len(ss)
        /\ \A i \in 1 .. Len(one) + Len(ss) :
             (one \o ss)[i] = IF i <= Len(one) THEN one[i] ELSE ss[i - Len(one)]
    BY <2>2, ConcatProperties
  <2>4. t = one \o ss
    BY DEF one
  <2> HIDE DEF t, n
  <2>5. /\ t \in Seq(Seq(S)) /\ Len(t) = 1 + n
        /\ \A i \in 1 .. 1 + n : t[i] = IF i <= 1 THEN one[i] ELSE ss[i - 1]
    BY <2>2, <2>3, <2>4 DEF n
  <2>6. t[1] = <<>>
    <3>1. 1 \in 1 .. 1 + n
      BY <1>1
    <3> QED BY <2>2, <2>5, <3>1
  <2>7. \A k \in 1 .. n : t[k + 1] = ss[k]
    <3>1. \A k \in 1 .. n : k + 1 \in 1 .. 1 + n /\ ~(k + 1 <= 1) /\ (k + 1) - 1 = k
      BY <1>1
    <3> QED BY <2>5, <3>1
  <2>8. 1 + n = n + 1
    BY <1>1
  <2> QED BY <2>5, <2>6, <2>7, <2>8
<1> HIDE DEF t
<1>3. PICK ks : KeepsUp(ks, t, S)
  BY <1>2, KeepExists
<1>4. NonEmpty(t) = ks[n + 1]
  <2>1. NonEmpty(t) = ks[Len(t)]
    BY <1>2, <1>3, KeepUnique
  <2> QED BY <1>2, <2>1
<1>5. \A k \in 1 .. n : SubSeq(ss, 1, k) = Append(SubSeq(ss, 1, k - 1), ss[k])
  <2> SUFFICES ASSUME NEW k \in 1 .. n PROVE SubSeq(ss, 1, k) = Append(SubSeq(ss, 1, k - 1), ss[k])
    OBVIOUS
  <2>1. 1 \in 1 .. n /\ k \in 1 .. n /\ 1 \in Int /\ k - 1 \in Int /\ \A i \in 1 .. k - 1 : i \in 1 .. n
    BY <1>1
  <2>2. SubSeq(ss, 1, k) = SubSeq(ss, 1, k - 1) \o << ss[k] >>
    BY <2>1, SubSeqRecursiveSecond
  <2>3. SubSeq(ss, 1, k - 1) \in Seq(Seq(S))
    BY <1>1, <2>1, SubSeqProperties
  <2>4. Append(SubSeq(ss, 1, k - 1), ss[k]) = SubSeq(ss, 1, k - 1) \o << ss[k] >>
    BY <1>1, <2>3, AppendIsConcat
  <2> QED BY <2>2, <2>4, Zenon
<1> DEFINE Good == {k \in Nat : k <= n => ks[k + 1] = SubSeq(ss, 1, k)}
<1>6. 0 \in Good
  <2>1. 0 + 1 = 1 /\ 1 \in 1 .. Len(t) /\ 1 - 1 = 0
    BY <1>1, <1>2
  <2>2. ks[1] = IF t[1] = <<>> THEN ks[1 - 1] ELSE Append(ks[1 - 1], t[1])
    BY <1>3, <2>1, Zenon DEF KeepsUp
  <2>3. ks[1 - 1] = <<>>
    BY <1>3, <2>1 DEF KeepsUp
  <2>4. SubSeq(ss, 1, 0) = <<>>
    BY SubSeqEmpty
  <2>5. ks[1] = SubSeq(ss, 1, 0)
    BY <1>2, <2>2, <2>3, <2>4, Zenon
  <2> QED BY <2>1, <2>5
<1>7. ASSUME NEW k \in Nat, k \in Good PROVE k + 1 \in Good
  <2> DEFINE l == k + 1
             j == l + 1
  <2> SUFFICES ASSUME l <= n PROVE ks[j] = SubSeq(ss, 1, l)
    OBVIOUS
  <2>1. l \in 1 .. n /\ l - 1 = k /\ k <= n /\ j \in 1 .. Len(t) /\ j - 1 = l /\ t[j] = ss[l]
    <3>1. n \in Nat /\ Len(t) = n + 1
      BY <1>1, <1>2
    <3>2. l \in 1 .. n /\ l - 1 = k /\ k <= n /\ j \in 1 .. n + 1 /\ j - 1 = l
      <4> HIDE DEF n
      <4> QED BY <3>1
    <3>3. t[l + 1] = ss[l]
      <4> HIDE DEF l
      <4> QED BY <1>2, <3>2
    <3> QED BY <3>1, <3>2, <3>3
  <2>2. ks[l] = SubSeq(ss, 1, k)
    BY <1>7, <2>1
  <2> HIDE DEF l, j
  <2>3. ks[j] = IF t[j] = <<>> THEN ks[j - 1] ELSE Append(ks[j - 1], t[j])
    BY <1>3, <2>1, Zenon DEF KeepsUp
  <2>4. ks[j] = Append(ks[l], ss[l])
    BY <2>1, <2>3, Zenon
  <2>5. SubSeq(ss, 1, l) = Append(SubSeq(ss, 1, k), ss[l])
    BY <1>5, <2>1, Zenon
  <2> QED BY <2>2, <2>4, <2>5, Zenon
<1> HIDE DEF Good
<1>8. n \in Good
  BY <1>1, <1>6, <1>7, NatInSet
<1>9. ks[n + 1] = SubSeq(ss, 1, n)
  BY <1>1, <1>8 DEF Good
<1>10. SubSeq(ss, 1, n) = ss
  BY SubSeqFull
<1> QED BY <1>4, <1>9, <1>10 DEF t

-----------------------------------------------------------------------------
(* Links: names, pairs, and addresses.                                       *)

\* What an encoded name is written in: the characters an address is not split
\* at, and the codes of those it is.
Plain == (Characters \ {"/", "?", "=", "&", "%"}) \cup Codes

\* No encoded name holds what an address is split at.
LEMMA PlainFact == "/" \notin Plain /\ "?" \notin Plain /\ "=" \notin Plain /\ "&" \notin Plain
BY DEF Plain, Codes

\* A character is what its code stands for.
LEMMA EscapeFact ==
  ASSUME NEW c \in Characters
  PROVE  Escape(c) \in Plain /\ Unescape(Escape(c)) = c
<1>1. CASE c \in {"/", "?", "=", "&", "%"}
  BY <1>1 DEF Escape, Unescape, Plain, Codes
<1>2. CASE c \notin {"/", "?", "=", "&", "%"}
  <2>1. c \notin Codes
    BY CharactersAssumption
  <2>2. Escape(c) = c
    BY <1>2 DEF Escape
  <2>3. Unescape(c) = c
    BY <2>1 DEF Unescape, Codes
  <2> QED BY <1>2, <2>2, <2>3 DEF Plain
<1> QED BY <1>1, <1>2

\* Of a name's encoding nothing is lost.
Encodes(e, n) == e \in Seq(Plain) /\ Len(e) = Len(n) /\ Decode(e) = n

\* Decoded, an encoded name is the name.
LEMMA EncodeFact ==
  ASSUME NEW n \in Seq(Characters)
  PROVE  Encodes(EncSeg(n), n)
<1> DEFINE m == Len(n)
           e == EncSeg(n)
<1>1. m \in Nat /\ n \in [1 .. m -> Characters] /\ DOMAIN n = 1 .. m
  BY LenProperties
<1>2. e = [i \in 1 .. m |-> Escape(n[i])]
  BY <1>1 DEF EncSeg
<1>3. \A i \in 1 .. m : Escape(n[i]) \in Plain /\ Unescape(Escape(n[i])) = n[i]
  BY <1>1, EscapeFact
<1> HIDE DEF m, e
<1>4. e \in [1 .. m -> Plain]
  BY <1>2, <1>3
<1>5. \A S : \A k \in Nat : \A f \in [1 .. k -> S] : f \in Seq(S) /\ Len(f) = k
  OBVIOUS
<1>6. e \in Seq(Plain) /\ Len(e) = m
  BY <1>1, <1>4, <1>5
<1>7. Decode(e) = [i \in 1 .. m |-> Unescape(e[i])]
  BY <1>4 DEF Decode
<1>8. \A i \in 1 .. m : Unescape(e[i]) = n[i]
  BY <1>2, <1>3
<1>9. Decode(e) = [i \in 1 .. m |-> n[i]]
  BY <1>7, <1>8
<1>10. [i \in 1 .. m |-> n[i]] = n
  BY <1>1
<1> QED BY <1>6, <1>9, <1>10 DEF m, e, Encodes

\* A word is not a code.
LEMMA WordFact ==
  ASSUME NEW w \in {"pool", "dataset", "zvol", "vdev", "volume", "disk"}
  PROVE  Decode(<<w>>) = <<w>>
<1>1. Unescape(w) = w
  BY DEF Unescape
<1>2. Decode(<<w>>) = [i \in DOMAIN <<w>> |-> Unescape(<<w>>[i])]
  BY DEF Decode
<1>3. DOMAIN <<w>> = 1 .. 1 /\ <<w>>[1] = w /\ \A i \in 1 .. 1 : i = 1
  OBVIOUS
<1>4. Decode(<<w>>) = [i \in 1 .. 1 |-> w]
  BY <1>1, <1>2, <1>3
<1>5. <<w>> = [i \in 1 .. 1 |-> w]
  OBVIOUS
<1> QED BY <1>4, <1>5, Zenon

\* A nonempty set of the numbers up to some number has a least and a greatest.
LEMMA Ends ==
  ASSUME NEW n \in Nat, NEW A \in SUBSET (1 .. n), A # {}
  PROVE  (\E i \in A : \A k \in A : i <= k) /\ (\E i \in A : \A k \in A : k <= i)
<1>1. \E i \in A : \A k \in A : i <= k
  <2>1. A \in SUBSET Nat
    OBVIOUS
  <2> QED BY <2>1, LeastNat
<1>2. \E i \in A : \A k \in A : k <= i
  <2> DEFINE B == {n - i : i \in A}
  <2>1. B \in SUBSET Nat /\ B # {}
    <3>1. \A i \in A : i \in Nat /\ n - i \in Nat
      OBVIOUS
    <3>2. PICK i \in A : TRUE
      OBVIOUS
    <3>3. n - i \in B
      OBVIOUS
    <3> QED BY <3>1, <3>3
  <2> HIDE DEF B
  <2>2. PICK b \in B : \A m \in B : b <= m
    BY <2>1, LeastNat
  <2>3. PICK i \in A : b = n - i
    BY DEF B
  <2>4. \A k \in A : n - i <= n - k
    BY <2>2, <2>3 DEF B
  <2>5. \A k \in A : k <= i
    <3>1. \A k \in A : k \in Int
      OBVIOUS
    <3> QED BY <2>4, <3>1
  <2> QED BY <2>5
<1> QED BY <1>1, <1>2

\* A number needs no codes.
AsItIs(n) == EncSeg(n) = n

\* It is written in an address as it is.
LEMMA DigitsFact ==
  ASSUME NEW n \in Seq(Digits)
  PROVE  AsItIs(n)
<1> DEFINE m == Len(n)
<1>1. DOMAIN n = 1 .. m /\ n \in [1 .. m -> Digits]
  BY LenProperties
<1>2. \A d \in Digits : Escape(d) = d
  BY DEF Digits, Escape
<1>3. n = [i \in 1 .. m |-> n[i]]
  BY <1>1
<1>4. \A i \in 1 .. m : Escape(n[i]) = n[i]
  BY <1>1, <1>2
<1> HIDE DEF m
<1>5. [i \in 1 .. m |-> Escape(n[i])] = [i \in 1 .. m |-> n[i]]
  BY <1>4
<1>6. EncSeg(n) = [i \in 1 .. m |-> Escape(n[i])]
  BY <1>1 DEF EncSeg
<1> QED BY <1>3, <1>5, <1>6, Zenon DEF AsItIs

\* What a key and its value are written as, and in what.
Pair(k, v) == <<k, "=">> \o EncSeg(v)

\* What pairs are written in.
PairChars == Plain \cup {"path", "file", "tab", "="}

\* The key and the value can be read from it.
Tells(pair, k, v) ==
  /\ pair \in Seq(PairChars) /\ pair # <<>>
  /\ Split(pair, "=")[1] = <<k>> /\ Decode(Split(pair, "=")[2]) = v

\* They can, whatever characters the value has.
LEMMA PairFact ==
  ASSUME NEW k \in {"path", "file", "tab"}, NEW v \in Seq(Characters)
  PROVE  Tells(Pair(k, v), k, v)
<1> DEFINE e == EncSeg(v)
           S == PairChars
<1>1. e \in Seq(Plain) /\ Decode(e) = v
  BY EncodeFact DEF Encodes
<1>2. Plain \subseteq S /\ k \in S /\ "=" \in S
  BY DEF PairChars
<1>3. e \in Seq(S) /\ <<k>> \in Seq(S) /\ <<"=">> \in Seq(S)
  <2> HIDE DEF S, e
  <2>1. Seq(Plain) \subseteq Seq(S)
    BY <1>2, SeqMonotonic
  <2>2. <<k>> \in Seq(S) /\ <<"=">> \in Seq(S)
    BY <1>2
  <2> QED BY <1>1, <2>1, <2>2
<1>4. \A i \in 1 .. Len(e) : e[i] # "="
  <2> HIDE DEF e
  <2> QED BY <1>1, ElementOfSeq, PlainFact
<1> HIDE DEF e, S
<1>5. <<k, "=">> = <<k>> \o <<"=">>
  OBVIOUS
<1>6. <<k, "=">> \in Seq(S) /\ Len(<<k, "=">>) = 2
  BY <1>2
<1> DEFINE p == <<k, "=">> \o e
<1>7. p \in Seq(S) /\ Len(p) = 2 + Len(e)
  <2> DEFINE ke == <<k, "=">>
  <2>1. ke \in Seq(S) /\ Len(ke) = 2
    BY <1>6
  <2> HIDE DEF ke
  <2>2. ke \o e \in Seq(S) /\ Len(ke \o e) = Len(ke) + Len(e)
    BY <1>3, <2>1, ConcatProperties
  <2> QED BY <2>1, <2>2 DEF ke
<1>8. p # <<>>
  <2>1. Len(e) \in Nat /\ Len(<<>>) = 0
    BY <1>3, LenProperties
  <2> HIDE DEF p
  <2> QED BY <1>7, <2>1
<1>9. Split(p, "=") = << <<k>> >> \o <<e>>
  <2>1. SplitsAt(<<k>>, e, "=")
    BY <1>2, <1>3, SplitAt
  <2>2. Split(<<k>> \o <<"=">> \o e, "=") = Split(<<k>>, "=") \o Split(e, "=")
    BY <2>1 DEF SplitsAt
  <2>3. Split(e, "=") = <<e>>
    BY <1>3, <1>4, SplitNone
  <2>4. Split(<<k>>, "=") = << <<k>> >>
    <3> DEFINE w == <<k>>
    <3>1. w \in Seq(S) /\ \A i \in 1 .. Len(w) : w[i] # "="
      BY <1>3
    <3> HIDE DEF w
    <3>2. Split(w, "=") = <<w>>
      BY <3>1, SplitNone
    <3> QED BY <3>2 DEF w
  <2> QED BY <1>5, <2>2, <2>3, <2>4, Zenon
<1>10. (<< <<k>> >> \o <<e>>)[1] = <<k>> /\ (<< <<k>> >> \o <<e>>)[2] = e
  <2> DEFINE a == <<k>>
  <2> HIDE DEF a
  <2>1. (<<a>> \o <<e>>)[1] = a /\ (<<a>> \o <<e>>)[2] = e
    OBVIOUS
  <2> QED BY <2>1 DEF a
<1> DEFINE two == << <<k>> >> \o <<e>>
<1> HIDE DEF p
<1>11. Split(p, "=")[1] = <<k>> /\ Split(p, "=")[2] = e
  <2>1. Split(p, "=") = two /\ two[1] = <<k>> /\ two[2] = e
    BY <1>9, <1>10
  <2> HIDE DEF two
  <2> QED BY <2>1, Zenon
<1>12. Pair(k, v) = p
  BY DEF Pair, e, p
<1> QED BY <1>1, <1>7, <1>8, <1>11, <1>12 DEF Tells, S

\* The pairs of a query.
Used(query, keys) ==
  NonEmpty([i \in DOMAIN keys |-> IF query[keys[i]] = <<>> THEN <<>> ELSE Pair(keys[i], query[keys[i]])])

\* They are read as they were written, and what is not there is empty.
LEMMA UsedFact ==
  ASSUME NEW keys \in Seq({"path", "file", "tab"}),
         NEW query \in [{"path", "file", "tab"} -> Seq(Characters)],
         \A k \in {"path", "file", "tab"} : k \in ToSet(keys) \/ query[k] = <<>>
  PROVE  /\ Used(query, keys) \in Seq(Seq(PairChars))
         /\ \A k \in {"path", "file", "tab"} : Value(Used(query, keys), k) = query[k]
<1> DEFINE K == {"path", "file", "tab"}
           m == Len(keys)
           all == [i \in 1 .. m |-> IF query[keys[i]] = <<>> THEN <<>> ELSE Pair(keys[i], query[keys[i]])]
           u == Used(query, keys)
<1>1. m \in Nat /\ DOMAIN keys = 1 .. m /\ \A i \in 1 .. m : keys[i] \in K /\ query[keys[i]] \in Seq(Characters)
  <2>1. m \in Nat /\ DOMAIN keys = 1 .. m
    BY LenProperties
  <2>2. \A i \in 1 .. m : keys[i] \in K
    BY ElementOfSeq
  <2> QED BY <2>1, <2>2
<1>2. u = NonEmpty(all)
  BY <1>1 DEF Used
<1>3. \A i \in 1 .. m : query[keys[i]] # <<>> =>
        Tells(Pair(keys[i], query[keys[i]]), keys[i], query[keys[i]])
  BY <1>1, PairFact
<1>4. \A i \in 1 .. m : all[i] = IF query[keys[i]] = <<>> THEN <<>> ELSE Pair(keys[i], query[keys[i]])
  OBVIOUS
<1>5. all \in [1 .. m -> Seq(PairChars)]
  <2>1. <<>> \in Seq(PairChars)
    BY EmptySeq
  <2>2. ASSUME NEW i \in 1 .. m PROVE all[i] \in Seq(PairChars)
    BY <1>3, <1>4, <2>1, <2>2 DEF Tells
  <2>3. all = [i \in 1 .. m |-> all[i]]
    OBVIOUS
  <2> HIDE DEF all
  <2> QED BY <2>2, <2>3
<1>6. all \in Seq(Seq(PairChars)) /\ Len(all) = m
  <2>1. \A S : \A k \in Nat : \A f \in [1 .. k -> S] : f \in Seq(S) /\ Len(f) = k
    OBVIOUS
  <2> HIDE DEF all
  <2> QED BY <1>1, <1>5, <2>1
<1> HIDE DEF all, u, m, K
<1>7. /\ u \in Seq(Seq(PairChars))
      /\ \A i \in 1 .. Len(u) : \E k \in 1 .. m : u[i] = all[k] /\ all[k] # <<>>
      /\ \A k \in 1 .. m : all[k] # <<>> => \E i \in 1 .. Len(u) : u[i] = all[k]
  BY <1>2, <1>6, KeptFact
<1>8. Len(u) \in Nat /\ DOMAIN u = 1 .. Len(u)
  BY <1>7, LenProperties
<1>9. \A i \in 1 .. Len(u) : \E k \in K : query[k] # <<>> /\ Tells(u[i], k, query[k])
  <2> TAKE i \in 1 .. Len(u)
  <2>1. PICK j \in 1 .. m : u[i] = all[j] /\ all[j] # <<>>
    BY <1>7
  <2> QED BY <1>1, <1>3, <1>4, <2>1
<1>10. \A k \in K : query[k] # <<>> => \E i \in 1 .. Len(u) : Split(u[i], "=")[1] = <<k>>
  <2> SUFFICES ASSUME NEW k \in K, query[k] # <<>>
               PROVE  \E i \in 1 .. Len(u) : Split(u[i], "=")[1] = <<k>>
    OBVIOUS
  <2>1. PICK j \in 1 .. m : keys[j] = k
    <3>1. k \in ToSet(keys)
      BY DEF K
    <3> QED BY <1>1, <3>1 DEF ToSet
  <2>2. all[j] = Pair(k, query[k]) /\ Tells(all[j], k, query[k])
    BY <1>3, <1>4, <2>1
  <2>3. PICK i \in 1 .. Len(u) : u[i] = all[j]
    BY <1>7, <2>2 DEF Tells
  <2> QED BY <2>2, <2>3 DEF Tells
<1>11. ASSUME NEW k \in K PROVE Value(u, k) = query[k]
  <2> DEFINE own == {i \in DOMAIN u : Split(u[i], "=")[1] = <<k>>}
             last == CHOOSE i \in own : \A j \in own : j <= i
  <2>1. Value(u, k) = IF own = {} THEN <<>> ELSE Decode(Split(u[last], "=")[2])
    BY DEF Value
  <2>2. ASSUME own = {} PROVE query[k] = <<>>
    BY <1>8, <1>10, <2>2
  <2>3. ASSUME own # {} PROVE Decode(Split(u[last], "=")[2]) = query[k]
    <3>1. \E i \in own : \A j \in own : j <= i
      <4>1. own \in SUBSET (1 .. Len(u))
        BY <1>8
      <4> HIDE DEF own
      <4> QED BY <1>8, <2>3, <4>1, Ends
    <3>2. last \in own
      <4> HIDE DEF own
      <4> QED BY <3>1
    <3> HIDE DEF last
    <3>3. last \in 1 .. Len(u) /\ Split(u[last], "=")[1] = <<k>>
      BY <1>8, <3>2
    <3>4. PICK l \in K : Tells(u[last], l, query[l])
      BY <1>9, <3>3
    <3>5. l = k
      <4>1. <<l>> = <<k>>
        BY <3>3, <3>4 DEF Tells
      <4>2. <<l>>[1] = l /\ <<k>>[1] = k
        OBVIOUS
      <4> QED BY <4>1, <4>2
    <3> QED BY <3>4, <3>5 DEF Tells
  <2> HIDE DEF own, last
  <2> QED BY <2>1, <2>2, <2>3
<1> QED BY <1>7, <1>11 DEF u, K

\* An address is cut at its first "?".
Cut(a, path, pairs) == Before(a) = path /\ After(a) = pairs

\* Without a "?" the address is all path.
LEMMA CutNone ==
  ASSUME NEW S, NEW a \in Seq(S), \A i \in 1 .. Len(a) : a[i] # "?"
  PROVE  Cut(a, a, <<>>)
<1>1. {i \in 1 .. Len(a) : a[i] = "?"} = {}
  OBVIOUS
<1> QED BY <1>1, Zenon DEF Cut, Before, After, SelectInSeq

\* A path without a "?" ends where the query begins.
LEMMA CutAt ==
  ASSUME NEW S, NEW path \in Seq(S), NEW q \in Seq(S), "?" \in S,
         \A i \in 1 .. Len(path) : path[i] # "?"
  PROVE  Cut(path \o <<"?">> \o q, path, Split(q, "&"))
<1> DEFINE m == Len(path)
           a == path \o <<"?">> \o q
           I == {i \in 1 .. Len(a) : a[i] = "?"}
<1>1. Around(a, path, "?", q, S)
  BY AroundFact
<1> HIDE DEF a
<1>2. m \in Nat /\ Len(q) \in Nat
  BY LenProperties
<1>3. m + 1 \in I
  BY <1>1, <1>2 DEF Around
<1>4. \A i \in I : m + 1 <= i
  <2> SUFFICES ASSUME NEW i \in 1 .. Len(a), a[i] = "?", ~(m + 1 <= i) PROVE FALSE
    OBVIOUS
  <2>1. i \in 1 .. m
    BY <1>2
  <2> QED BY <1>1, <2>1 DEF Around
<1>5. \A x \in I : (\A y \in I : x =< y) => x = m + 1
  <2>1. \A x \in I : x \in Int
    BY <1>1, <1>2 DEF Around
  <2> HIDE DEF I
  <2> QED BY <1>2, <1>3, <1>4, <2>1
<1> HIDE DEF I
<1>6. Min(I) = m + 1
  BY <1>3, <1>4, <1>5 DEF Min
<1>7. SelectInSeq(a, LAMBDA c : c = "?") = m + 1
  <2>1. SelectInSeq(a, LAMBDA c : c = "?") = IF I # {} THEN Min(I) ELSE 0
    BY DEF SelectInSeq, I
  <2> QED BY <1>3, <1>6, <2>1
<1>8. m + 1 # 0 /\ (m + 1) - 1 = m /\ (m + 1) + 1 = m + 2
  BY <1>2
<1> DEFINE k == m + 1
<1>9. Before(a) = SubSeq(a, 1, k - 1)
  <2> HIDE DEF k, m
  <2> QED BY <1>7, <1>8, Zenon DEF Before, k
<1>10. After(a) = Split(SubSeq(a, k + 1, Len(a)), "&")
  <2> HIDE DEF k, m
  <2> QED BY <1>7, <1>8, Zenon DEF After, k
<1> QED BY <1>1, <1>8, <1>9, <1>10 DEF Around, Cut, a

\* One word is another only if they are the same.
LEMMA WordsDiffer == \A a, b : <<a>> = <<b>> => a = b
<1> SUFFICES ASSUME NEW a, NEW b, <<a>> = <<b>> PROVE a = b
  OBVIOUS
<1>1. <<a>>[1] = a /\ <<b>>[1] = b
  OBVIOUS
<1> QED BY <1>1

\* What is in a pool is found by the pool's name and its own.
LEMMA RouteInPool ==
  ASSUME NEW kind \in {"dataset", "zvol", "vdev"},
         NEW x \in Seq(Characters), NEW y \in Seq(Characters), NEW query
  PROVE  Route(<< <<"pool">>, x, <<kind>>, y >>, query) = Place(kind, <<x, y>>, query)
<1> DEFINE s == << <<"pool">>, x, <<kind>>, y >>
           S == Characters \cup {"/"}
           rest == SubSeq(s, 4, 4)
<1>1. /\ s \in Seq(Seq(Characters \cup {"pool", "dataset", "zvol", "vdev"})) /\ Len(s) = 4
      /\ s[1] = <<"pool">> /\ s[2] = x /\ s[3] = <<kind>> /\ s[4] = y
  <2> DEFINE T == Characters \cup {"pool", "dataset", "zvol", "vdev"}
  <2>1. x \in Seq(T) /\ y \in Seq(T)
    <3>1. Seq(Characters) \subseteq Seq(T)
      <4>1. Characters \subseteq T
        OBVIOUS
      <4> HIDE DEF T
      <4> QED BY <4>1, SeqMonotonic
    <3> QED BY <3>1
  <2>2. <<"pool">> \in Seq(T) /\ <<kind>> \in Seq(T)
    OBVIOUS
  <2> DEFINE a == <<"pool">>
             b == <<kind>>
  <2> HIDE DEF T, a, b
  <2>3. a \in Seq(T) /\ b \in Seq(T)
    BY <2>2 DEF a, b
  <2>4. << a, x, b, y >> \in Seq(Seq(T))
    BY <2>1, <2>3
  <2>5. s = << a, x, b, y >>
    BY DEF a, b
  <2> QED BY <2>4, <2>5 DEF a, b, T
<1> HIDE DEF s
<1>2. rest = <<y>>
  <2>1. SubSeq(s, 4, 4) = SubSeq(s, 4, 4 - 1) \o << s[4] >>
    BY <1>1, SubSeqRecursiveSecond
  <2>2. SubSeq(s, 4, 4 - 1) = <<>>
    BY SubSeqEmpty
  <2>3. <<>> \o <<y>> = <<y>>
    OBVIOUS
  <2> QED BY <1>1, <2>1, <2>2, <2>3
<1>3. Joined(rest, "/") = y
  <2> DEFINE r == <<y>>
  <2>1. y \in Seq(S) /\ "/" \in S
    <3>1. Characters \subseteq S
      OBVIOUS
    <3>2. "/" \in S
      OBVIOUS
    <3> HIDE DEF S
    <3> QED BY <3>1, <3>2, SeqMonotonic
  <2>2. r \in Seq(Seq(S)) /\ Len(r) = 1 /\ r[1] = y
    <3> HIDE DEF S
    <3> QED BY <2>1
  <2> HIDE DEF r, S
  <2>3. Joined(r, "/") = r[1]
    BY <2>1, <2>2, JoinedFact
  <2> QED BY <1>2, <2>2, <2>3 DEF r
<1>4. Joined(SubSeq(s, 4, Len(s)), "/") = y
  BY <1>1, <1>3
<1>5. /\ ~(s[1] \in {<<"host">>, <<"remote">>, <<"volumes">>})
      /\ s[1] # <<"volume">> /\ s[1] # <<"disk">> /\ s[1] = <<"pool">>
  BY <1>1, WordsDiffer
<1>6. /\ s[3] # <<"disk">>
      /\ (s[3] = <<"vdev">> <=> kind = "vdev")
      /\ (s[3] = <<"dataset">> <=> kind = "dataset")
      /\ (s[3] = <<"zvol">> <=> kind = "zvol")
  BY <1>1, WordsDiffer
<1>7. Len(s) >= 1 /\ Len(s) >= 2 /\ Len(s) >= 3 /\ Len(s) >= 4 /\ Len(s) # 1
  BY <1>1
<1> DEFINE inner ==
      CASE Len(s) >= 3 /\ s[3] = <<"disk">> /\ Len(s) >= 4 ->
             Place("disk", <<Joined(SubSeq(s, 4, Len(s)), "/")>>, query)
        [] Len(s) >= 3 /\ s[3] = <<"vdev">> /\ Len(s) >= 4 -> Place("vdev", <<s[2], s[4]>>, query)
        [] Len(s) >= 3 /\ s[3] = <<"dataset">> /\ Len(s) >= 4 ->
             Place("dataset", <<s[2], Joined(SubSeq(s, 4, Len(s)), "/")>>, query)
        [] Len(s) >= 3 /\ s[3] = <<"zvol">> /\ Len(s) >= 4 ->
             Place("zvol", <<s[2], Joined(SubSeq(s, 4, Len(s)), "/")>>, query)
        [] OTHER -> Place("pool", <<s[2]>>, query)
<1>8. Route(s, query) = inner
  BY <1>5, <1>7 DEF Route
<1>9. inner = Place(kind, <<x, y>>, query)
  <2>1. CASE kind = "vdev"
    BY <1>1, <1>4, <1>6, <1>7, <2>1
  <2>2. CASE kind = "dataset"
    BY <1>1, <1>4, <1>6, <1>7, <2>2
  <2>3. CASE kind = "zvol"
    BY <1>1, <1>4, <1>6, <1>7, <2>3
  <2> QED BY <2>1, <2>2, <2>3
<1> QED BY <1>8, <1>9 DEF s

\* Pools, volumes and disks are found by their names.
LEMMA RouteOfName ==
  ASSUME NEW kind \in {"pool", "volume", "disk"}, NEW x \in Seq(Characters), NEW query
  PROVE  Route(<< <<kind>>, x >>, query) = Place(kind, <<x>>, query)
<1> DEFINE s == << <<kind>>, x >>
           S == Characters \cup {"/", "pool", "volume", "disk"}
<1>1. "/" \in S /\ x \in Seq(S) /\ <<kind>> \in Seq(S)
  <2>1. Characters \subseteq S /\ kind \in S /\ "/" \in S
    OBVIOUS
  <2> HIDE DEF S
  <2>2. <<kind>> \in Seq(S)
    BY <2>1
  <2> QED BY <2>1, <2>2, SeqMonotonic
<1>2. s \in Seq(Seq(S)) /\ Len(s) = 2 /\ s[1] = <<kind>> /\ s[2] = x
  <2> DEFINE a == <<kind>>
  <2> HIDE DEF S, a
  <2>1. a \in Seq(S)
    BY <1>1 DEF a
  <2>2. << a, x >> \in Seq(Seq(S))
    BY <1>1, <2>1
  <2> QED BY <2>2 DEF a
<1> HIDE DEF s, S
<1>3. Joined(SubSeq(s, 2, Len(s)), "/") = x
  <2> DEFINE r == <<x>>
  <2>1. SubSeq(s, 2, 2) = SubSeq(s, 2, 2 - 1) \o << s[2] >>
    BY <1>2, SubSeqRecursiveSecond
  <2>2. SubSeq(s, 2, 2 - 1) = <<>>
    BY SubSeqEmpty
  <2>3. <<>> \o <<x>> = <<x>>
    OBVIOUS
  <2>4. SubSeq(s, 2, Len(s)) = r
    BY <1>2, <2>1, <2>2, <2>3
  <2>5. r \in Seq(Seq(S)) /\ Len(r) = 1 /\ r[1] = x
    BY <1>1
  <2> HIDE DEF r
  <2>6. Joined(r, "/") = r[1]
    BY <1>1, <2>5, JoinedFact
  <2> QED BY <2>4, <2>5, <2>6
<1>4. /\ ~(s[1] \in {<<"host">>, <<"remote">>, <<"volumes">>})
      /\ (s[1] = <<"volume">> <=> kind = "volume")
      /\ (s[1] = <<"disk">> <=> kind = "disk")
      /\ (s[1] = <<"pool">> <=> kind = "pool")
  BY <1>2, WordsDiffer
<1>5. Len(s) >= 1 /\ Len(s) >= 2 /\ ~(Len(s) >= 3) /\ Len(s) # 1
  BY <1>2
<1>6. CASE kind = "pool"
  <2>1. Route(s, query) = Place("pool", <<s[2]>>, query)
    BY <1>4, <1>5, <1>6 DEF Route
  <2> QED BY <1>2, <1>6, <2>1 DEF s
<1>7. CASE kind = "volume"
  <2>1. Route(s, query) = Place("volume", <<s[2]>>, query)
    BY <1>4, <1>5, <1>7 DEF Route
  <2> QED BY <1>2, <1>7, <2>1 DEF s
<1>8. CASE kind = "disk"
  <2>1. Route(s, query) = Place("disk", <<Joined(SubSeq(s, 2, Len(s)), "/")>>, query)
    BY <1>4, <1>5, <1>8 DEF Route
  <2> QED BY <1>3, <1>8, <2>1 DEF s
<1> QED BY <1>6, <1>7, <1>8

\* What a link's words and names are written in.
PathChars == Plain \cup {"pool", "dataset", "zvol", "vdev", "volume", "disk"}

\* s is a text an address is not split in, and it is read as n.
Reads(s, n) == s \in Seq(PathChars) /\ s # <<>> /\ Decode(s) = n

\* A name's segment is read as the name.
LEMMA NameReads ==
  ASSUME NEW n \in Name
  PROVE  Reads(EncSeg(n), n)
<1>1. n \in Seq(Characters) /\ n # <<>>
  BY DEF Name
<1> DEFINE e == EncSeg(n)
<1>2. e \in Seq(Plain) /\ Len(e) = Len(n) /\ Decode(e) = n
  BY <1>1, EncodeFact DEF Encodes
<1> HIDE DEF e
<1>3. e \in Seq(PathChars)
  <2>1. Plain \subseteq PathChars
    BY DEF PathChars
  <2> QED BY <1>2, <2>1, SeqMonotonic
<1>4. e # <<>>
  BY <1>1, <1>2, EmptySeq
<1> QED BY <1>2, <1>3, <1>4 DEF Reads, e

\* A word's segment is read as the word.
LEMMA WordReads ==
  ASSUME NEW w \in {"pool", "dataset", "zvol", "vdev", "volume", "disk"}
  PROVE  Reads(<<w>>, <<w>>)
<1>1. w \in PathChars
  BY DEF PathChars
<1>2. <<w>> \in Seq(PathChars) /\ <<w>> # <<>>
  BY <1>1
<1> QED BY <1>2, WordFact DEF Reads

\* ss are texts that are read as ns.
AllRead(ss, ns) ==
  /\ ss \in Seq(Seq(PathChars)) /\ \A i \in 1 .. Len(ss) : ss[i] # <<>>
  /\ [i \in DOMAIN ss |-> Decode(ss[i])] = ns

\* Two segments, one after the other.
LEMMA TwoRead ==
  ASSUME NEW s, NEW m, Reads(s, m), NEW t, NEW n, Reads(t, n)
  PROVE  AllRead(<<s, t>>, <<m, n>>)
<1> DEFINE ss == <<s, t>>
<1>1. s \in Seq(PathChars) /\ t \in Seq(PathChars)
  BY DEF Reads
<1>2. ss \in Seq(Seq(PathChars)) /\ Len(ss) = 2 /\ ss[1] = s /\ ss[2] = t /\ DOMAIN ss = 1 .. 2
  BY <1>1
<1> HIDE DEF ss
<1>3. \A i \in 1 .. 2 : i = 1 \/ i = 2
  OBVIOUS
<1>4. \A i \in 1 .. Len(ss) : ss[i] # <<>>
  BY <1>2, <1>3 DEF Reads
<1>5. [i \in DOMAIN ss |-> Decode(ss[i])] = <<m, n>>
  <2>1. \A i \in 1 .. 2 : Decode(ss[i]) = <<m, n>>[i]
    <3>1. <<m, n>>[1] = m /\ <<m, n>>[2] = n
      OBVIOUS
    <3> QED BY <1>2, <1>3, <3>1 DEF Reads
  <2>2. <<m, n>> = [i \in 1 .. 2 |-> <<m, n>>[i]]
    OBVIOUS
  <2> QED BY <1>2, <2>1, <2>2
<1> QED BY <1>2, <1>4, <1>5 DEF AllRead, ss

\* Four segments, one after the other.
LEMMA FourRead ==
  ASSUME NEW s1, NEW n1, Reads(s1, n1), NEW s2, NEW n2, Reads(s2, n2),
         NEW s3, NEW n3, Reads(s3, n3), NEW s4, NEW n4, Reads(s4, n4)
  PROVE  AllRead(<<s1, s2, s3, s4>>, <<n1, n2, n3, n4>>)
<1> DEFINE ss == <<s1, s2, s3, s4>>
<1>1. s1 \in Seq(PathChars) /\ s2 \in Seq(PathChars) /\ s3 \in Seq(PathChars) /\ s4 \in Seq(PathChars)
  BY DEF Reads
<1>2. /\ ss \in Seq(Seq(PathChars)) /\ Len(ss) = 4 /\ DOMAIN ss = 1 .. 4
      /\ ss[1] = s1 /\ ss[2] = s2 /\ ss[3] = s3 /\ ss[4] = s4
  BY <1>1
<1> HIDE DEF ss
<1>3. \A i \in 1 .. 4 : i = 1 \/ i = 2 \/ i = 3 \/ i = 4
  OBVIOUS
<1>4. \A i \in 1 .. Len(ss) : ss[i] # <<>>
  BY <1>2, <1>3 DEF Reads
<1> DEFINE ns == <<n1, n2, n3, n4>>
<1>5. [i \in DOMAIN ss |-> Decode(ss[i])] = ns
  <2>1. \A i \in 1 .. 4 : Decode(ss[i]) = ns[i]
    <3>1. ns[1] = n1 /\ ns[2] = n2 /\ ns[3] = n3 /\ ns[4] = n4
      OBVIOUS
    <3> HIDE DEF ns
    <3> QED BY <1>2, <1>3, <3>1 DEF Reads
  <2>2. ns = [i \in 1 .. 4 |-> ns[i]]
    OBVIOUS
  <2> HIDE DEF ns
  <2> QED BY <1>2, <2>1, <2>2
<1> QED BY <1>2, <1>4, <1>5 DEF AllRead, ss, ns

\* What links are written for.
Linked(p) ==
  /\ p = Place(p.kind, p.parts, p.query)
  /\ p.kind \in {"pool", "dataset", "zvol", "vdev", "volume", "disk"}
  /\ p.parts \in Seq(Name)
  /\ Len(p.parts) = IF p.kind \in {"dataset", "zvol", "vdev"} THEN 2 ELSE 1
  /\ p.kind = "vdev" => p.parts[2] \in Seq(Digits)
  /\ p.query \in [{"path", "file", "tab"} -> Seq(Characters)]
  /\ \A k \in {"path", "file", "tab"} \ ToSet(Keys(p.kind)) : p.query[k] = <<>>

\* Read back, the segments of a link are where it leads.
LEMMA SegmentsRead ==
  ASSUME NEW p, Linked(p)
  PROVE  \E ns : /\ AllRead(Segments(p.kind, p.parts), ns)
                 /\ Route(ns, p.query) = p
<1> DEFINE parts == p.parts
           e1 == EncSeg(parts[1])
           e2 == EncSeg(parts[2])
<1>1. CASE p.kind \in {"dataset", "zvol", "vdev"}
  <2>1. /\ Len(parts) = 2 /\ parts \in Seq(Name)
        /\ parts[1] \in Name /\ parts[2] \in Name /\ parts = << parts[1], parts[2] >>
    <3>1. Len(parts) = 2 /\ parts \in Seq(Name)
      BY <1>1 DEF Linked
    <3> HIDE DEF parts
    <3>2. 1 \in 1 .. Len(parts) /\ 2 \in 1 .. Len(parts)
      BY <3>1
    <3>3. parts[1] \in Name /\ parts[2] \in Name
      BY <3>1, <3>2, ElementOfSeq
    <3> DEFINE t == << parts[1], parts[2] >>
    <3>4. t \in Seq(Name) /\ Len(t) = 2 /\ t[1] = parts[1] /\ t[2] = parts[2]
      BY <3>3
    <3> HIDE DEF t
    <3>5. \A i \in 1 .. 2 : i = 1 \/ i = 2
      OBVIOUS
    <3>6. parts = t
      BY <3>1, <3>4, <3>5, SeqEqual
    <3> QED BY <3>1, <3>3, <3>6 DEF t
  <2> DEFINE x == parts[1]
             y == parts[2]
             a == <<"pool">>
             b == <<p.kind>>
             ns == << a, x, b, y >>
  <2>2. Reads(e1, x) /\ Reads(e2, y)
    BY <2>1, NameReads
  <2>3. Reads(a, a) /\ Reads(b, b)
    BY <1>1, WordReads
  <2>4. Segments(p.kind, parts) = << a, e1, b, e2 >>
    <3>1. p.kind = "vdev" => parts[2] = e2
      BY DigitsFact DEF Linked, AsItIs
    <3> HIDE DEF e1, e2, parts
    <3> QED BY <1>1, <3>1 DEF Segments, e1, e2
  <2>5. Route(ns, p.query) = p
    <3>1. x \in Seq(Characters) /\ y \in Seq(Characters)
      BY <2>1 DEF Name
    <3> HIDE DEF x, y
    <3>2. Route(<< <<"pool">>, x, <<p.kind>>, y >>, p.query) = Place(p.kind, <<x, y>>, p.query)
      BY <1>1, <3>1, RouteInPool
    <3>3. p = Place(p.kind, << x, y >>, p.query)
      <4>1. p = Place(p.kind, parts, p.query)
        BY DEF Linked
      <4> HIDE DEF parts
      <4> QED BY <2>1, <4>1, Zenon DEF x, y
    <3> QED BY <3>2, <3>3, Zenon DEF ns, a, b
  <2> HIDE DEF parts, e1, e2, x, y, a, b
  <2>6. AllRead(<< a, e1, b, e2 >>, ns)
    BY <2>2, <2>3, FourRead
  <2> HIDE DEF ns
  <2> QED BY <2>4, <2>5, <2>6 DEF parts
<1>2. CASE p.kind \notin {"dataset", "zvol", "vdev"}
  <2>1. Len(parts) = 1 /\ parts \in Seq(Name) /\ parts[1] \in Name /\ parts = << parts[1] >>
    <3>1. Len(parts) = 1 /\ parts \in Seq(Name)
      BY <1>2 DEF Linked
    <3> HIDE DEF parts
    <3>2. 1 \in 1 .. Len(parts)
      BY <3>1
    <3>3. parts[1] \in Name
      BY <3>1, <3>2, ElementOfSeq
    <3> DEFINE t == << parts[1] >>
    <3>4. t \in Seq(Name) /\ Len(t) = 1 /\ t[1] = parts[1]
      BY <3>3
    <3> HIDE DEF t
    <3>5. \A i \in 1 .. 1 : i = 1
      OBVIOUS
    <3>6. parts = t
      BY <3>1, <3>4, <3>5, SeqEqual
    <3> QED BY <3>1, <3>3, <3>6 DEF t
  <2> DEFINE x == parts[1]
             a == <<p.kind>>
             ns == << a, x >>
  <2>2. p.kind \in {"pool", "volume", "disk"}
    BY <1>2 DEF Linked
  <2>3. Reads(e1, x) /\ Reads(a, a)
    BY <2>1, <2>2, NameReads, WordReads
  <2>4. Segments(p.kind, parts) = << a, e1 >>
    BY <2>2 DEF Segments
  <2>5. Route(ns, p.query) = p
    <3>1. x \in Seq(Characters)
      BY <2>1 DEF Name
    <3> HIDE DEF x
    <3>2. Route(<< <<p.kind>>, x >>, p.query) = Place(p.kind, <<x>>, p.query)
      BY <2>2, <3>1, RouteOfName
    <3>3. p = Place(p.kind, << x >>, p.query)
      <4>1. p = Place(p.kind, parts, p.query)
        BY DEF Linked
      <4> HIDE DEF parts
      <4> QED BY <2>1, <4>1, Zenon DEF x
    <3> QED BY <3>2, <3>3, Zenon DEF ns, a
  <2> HIDE DEF parts, e1, x, a
  <2>6. AllRead(<< a, e1 >>, ns)
    BY <2>3, TwoRead
  <2> HIDE DEF ns
  <2> QED BY <2>4, <2>5, <2>6 DEF parts
<1> QED BY <1>1, <1>2

\* The words and names of a link are found again in its path.
LEMMA PathRead ==
  ASSUME NEW ss \in Seq(Seq(PathChars)), \A i \in 1 .. Len(ss) : ss[i] # <<>>
  PROVE  /\ Joined(<< <<>> >> \o ss, "/") \in Seq(PathChars \cup {"/"})
         /\ NonEmpty(Split(Joined(<< <<>> >> \o ss, "/"), "/")) = ss
<1> DEFINE S == PathChars \cup {"/"}
           one == << <<>> >>
           t == one \o ss
<1>1. ss \in Seq(Seq(S)) /\ one \in Seq(Seq(PathChars)) /\ one # <<>> /\ one \in Seq(Seq(S))
  <2>1. PathChars \subseteq S
    OBVIOUS
  <2> HIDE DEF S
  <2>2. Seq(PathChars) \subseteq Seq(S)
    BY <2>1, SeqMonotonic
  <2>3. Seq(Seq(PathChars)) \subseteq Seq(Seq(S))
    BY <2>2, SeqMonotonic
  <2>4. <<>> \in Seq(PathChars)
    BY EmptySeq
  <2>5. one \in Seq(Seq(PathChars)) /\ one # <<>>
    BY <2>4
  <2> QED BY <2>3, <2>5
<1> HIDE DEF one
<1>2. t \in Seq(Seq(PathChars)) /\ t \in Seq(Seq(S)) /\ t # <<>>
  <2> HIDE DEF S
  <2>1. t \in Seq(Seq(PathChars)) /\ t \in Seq(Seq(S))
    BY <1>1, ConcatProperties
  <2>2. t # <<>>
    BY <1>1, ConcatEqualIffEmpty, ConcatEmptySeq, ConcatProperties, LenProperties, EmptySeq
  <2> QED BY <2>1, <2>2
<1> HIDE DEF t
<1>3. "/" \notin PathChars
  BY PlainFact DEF PathChars
<1>4. \A i \in 1 .. Len(t) : \A j \in 1 .. Len(t[i]) : t[i][j] # "/"
  <2>1. \A i \in 1 .. Len(t) : t[i] \in Seq(PathChars)
    BY <1>2, ElementOfSeq
  <2> QED BY <1>3, <2>1, ElementOfSeq
<1>5. "/" \in S
  OBVIOUS
<1>6. Split(Joined(t, "/"), "/") = t /\ Joined(t, "/") \in Seq(S)
  <2> HIDE DEF S
  <2> QED BY <1>2, <1>4, <1>5, SplitJoined, JoinedFact
<1>7. NonEmpty(<< <<>> >> \o ss) = ss
  BY KeptRest
<1> QED BY <1>6, <1>7 DEF t, one

\* Every link leads to what it was written for.
Leads(p) == ParseRoute(Href(p)) = p

\* parseRoute() finds the place a link was written for.
LEMMA LinkFact ==
  ASSUME NEW p, Linked(p)
  PROVE  Leads(p)
<1> DEFINE ss == Segments(p.kind, p.parts)
           keys == Keys(p.kind)
           used == Used(p.query, keys)
           path == Joined(<< <<>> >> \o ss, "/")
           A == PathChars \cup PairChars \cup {"/", "?", "&"}
           Q == PairChars \cup {"&"}
<1>1. PICK ns : AllRead(ss, ns) /\ Route(ns, p.query) = p
  BY SegmentsRead
<1>2. path \in Seq(PathChars \cup {"/"}) /\ NonEmpty(Split(path, "/")) = ss
  <2> HIDE DEF ss
  <2> QED BY <1>1, PathRead DEF AllRead
<1>3. /\ used \in Seq(Seq(PairChars))
      /\ \A k \in {"path", "file", "tab"} : Value(used, k) = p.query[k]
  <2>1. keys \in Seq({"path", "file", "tab"})
    <3> DEFINE K == {"path", "file", "tab"}
    <3>1. "path" \in K /\ "file" \in K /\ "tab" \in K
      OBVIOUS
    <3> HIDE DEF K
    <3>2. /\ <<"tab">> \in Seq(K) /\ <<"path", "file", "tab">> \in Seq(K)
          /\ <<"path", "file">> \in Seq(K) /\ <<>> \in Seq(K)
      BY <3>1
    <3>3. \/ keys = <<"tab">> \/ keys = <<"path", "file", "tab">>
          \/ keys = <<"path", "file">> \/ keys = <<>>
      BY DEF Linked, Keys
    <3> HIDE DEF keys
    <3>4. keys \in Seq(K)
      BY <3>2, <3>3
    <3> QED BY <3>4 DEF K
  <2>2. p.query \in [{"path", "file", "tab"} -> Seq(Characters)]
    BY DEF Linked
  <2>3. \A k \in {"path", "file", "tab"} : k \in ToSet(keys) \/ p.query[k] = <<>>
    BY DEF Linked
  <2> HIDE DEF keys
  <2> QED BY <2>1, <2>2, <2>3, UsedFact
<1>4. Href(p) = path \o (IF used = <<>> THEN <<>> ELSE <<"?">> \o Joined(used, "&"))
  BY Zenon DEF Href, QueryPart, Used, Pair
<1> HIDE DEF ss, keys, used, path
<1>5. /\ path \in Seq(A) /\ "?" \in A
      /\ \A i \in 1 .. Len(path) : path[i] # "?"
  <2>1. \A i \in 1 .. Len(path) : path[i] \in PathChars \cup {"/"}
    BY <1>2, ElementOfSeq
  <2>2. "?" \notin PathChars \cup {"/"}
    BY PlainFact DEF PathChars
  <2>3. PathChars \cup {"/"} \subseteq A /\ "?" \in A
    OBVIOUS
  <2> HIDE DEF A
  <2>4. Seq(PathChars \cup {"/"}) \subseteq Seq(A)
    BY <2>3, SeqMonotonic
  <2>5. \A i \in 1 .. Len(path) : path[i] # "?"
    BY <2>1, <2>2
  <2> QED BY <1>2, <2>3, <2>4, <2>5
<1>6. used # <<>> => Joined(used, "&") \in Seq(A) /\ Split(Joined(used, "&"), "&") = used
  <2>1. PairChars \subseteq Q /\ "&" \in Q /\ Q \subseteq A
    OBVIOUS
  <2>2. "&" \notin PairChars
    BY PlainFact DEF PairChars
  <2> HIDE DEF A, Q
  <2>3. used \in Seq(Seq(Q))
    <3>1. Seq(PairChars) \subseteq Seq(Q)
      BY <2>1, SeqMonotonic
    <3>2. Seq(Seq(PairChars)) \subseteq Seq(Seq(Q))
      BY <3>1, SeqMonotonic
    <3> QED BY <1>3, <3>2
  <2>4. \A i \in 1 .. Len(used) : \A j \in 1 .. Len(used[i]) : used[i][j] # "&"
    <3>1. \A i \in 1 .. Len(used) : used[i] \in Seq(PairChars)
      BY <1>3, ElementOfSeq
    <3> QED BY <2>2, <3>1, ElementOfSeq
  <2>5. Joined(used, "&") \in Seq(Q)
    BY <2>1, <2>3, JoinedFact
  <2>6. Seq(Q) \subseteq Seq(A)
    BY <2>1, SeqMonotonic
  <2>7. used # <<>> => Split(Joined(used, "&"), "&") = used
    BY <2>1, <2>3, <2>4, SplitJoined
  <2> QED BY <2>5, <2>6, <2>7
<1> HIDE DEF A
<1>7. Cut(Href(p), path, used)
  <2>1. CASE used = <<>>
    <3>1. Href(p) = path \o <<>>
      BY <1>4, <2>1, Zenon
    <3>2. path \o <<>> = path
      BY <1>5, ConcatEmptySeq
    <3>3. Cut(path, path, <<>>)
      BY <1>5, CutNone
    <3> QED BY <2>1, <3>1, <3>2, <3>3, Zenon
  <2>2. CASE used # <<>>
    <3> DEFINE q == Joined(used, "&")
    <3>1. q \in Seq(A) /\ Split(q, "&") = used
      BY <1>6, <2>2
    <3>2. Href(p) = path \o (<<"?">> \o q)
      BY <1>4, <2>2, Zenon
    <3> HIDE DEF q
    <3>3. path \o (<<"?">> \o q) = path \o <<"?">> \o q
      <4>1. <<"?">> \in Seq(A)
        BY <1>5
      <4> QED BY <1>5, <3>1, <4>1, ConcatAssociative
    <3>4. Cut(path \o <<"?">> \o q, path, Split(q, "&"))
      BY <1>5, <3>1, CutAt
    <3> QED BY <3>1, <3>2, <3>3, <3>4, Zenon
  <2> QED BY <2>1, <2>2
<1>8. [k \in {"path", "file", "tab"} |-> Value(After(Href(p)), k)] = p.query
  <2>1. After(Href(p)) = used
    BY <1>7 DEF Cut
  <2>2. p.query = [k \in {"path", "file", "tab"} |-> p.query[k]]
    BY DEF Linked
  <2> QED BY <1>3, <2>1, <2>2
<1>9. NonEmpty(Split(Before(Href(p)), "/")) = ss
  BY <1>2, <1>7 DEF Cut
<1>10. [i \in DOMAIN ss |-> Decode(ss[i])] = ns
  BY <1>1 DEF AllRead, ss
<1>11. ParseRoute(Href(p)) = Route([i \in DOMAIN ss |-> Decode(ss[i])], p.query)
  BY <1>8, <1>9, Zenon DEF ParseRoute
<1> QED BY <1>1, <1>10, <1>11, Zenon DEF Leads

\* A path neither of whose ends is a slash is as it is trimmed, and only that.
LEMMA TrimmedFact ==
  ASSUME NEW S, NEW p \in Seq(S), p # <<>>
  PROVE  Trimmed(p) = p <=> p[1] # "/" /\ p[Len(p)] # "/"
<1> DEFINE n == Len(p)
           rest == {i \in DOMAIN p : p[i] # "/"}
           lo == CHOOSE i \in rest : \A k \in rest : i <= k
           hi == CHOOSE i \in rest : \A k \in rest : k <= i
<1>1. n \in Nat /\ n >= 1 /\ DOMAIN p = 1 .. n /\ \A i \in 1 .. n : p[i] \in S
  BY LenProperties, EmptySeq, ElementOfSeq
<1>2. Trimmed(p) = IF rest = {} THEN <<>> ELSE SubSeq(p, lo, hi)
  BY DEF Trimmed
<1>3. \A i \in rest : i \in 1 .. n /\ p[i] # "/"
  BY <1>1
<1>4. rest # {} => /\ lo \in rest /\ \A k \in rest : lo <= k
                   /\ hi \in rest /\ \A k \in rest : k <= hi
  <2> SUFFICES ASSUME rest # {}
               PROVE  /\ lo \in rest /\ \A k \in rest : lo <= k
                      /\ hi \in rest /\ \A k \in rest : k <= hi
    OBVIOUS
  <2>1. rest \in SUBSET (1 .. n)
    BY <1>3
  <2> HIDE DEF rest
  <2>2. (\E i \in rest : \A k \in rest : i <= k) /\ (\E i \in rest : \A k \in rest : k <= i)
    BY <1>1, <2>1, Ends
  <2> QED BY <2>2
<1>5. p[1] # "/" => 1 \in rest
  BY <1>1
<1>6. p[n] # "/" => n \in rest
  BY <1>1
<1> HIDE DEF rest, lo, hi
<1>7. ASSUME p[1] # "/", p[n] # "/" PROVE Trimmed(p) = p
  <2>1. lo = 1 /\ hi = n
    BY <1>1, <1>3, <1>4, <1>5, <1>6, <1>7
  <2>2. Trimmed(p) = SubSeq(p, 1, n)
    BY <1>2, <1>5, <1>7, <2>1
  <2> QED BY <2>2, SubSeqFull
<1>8. ASSUME Trimmed(p) = p PROVE p[1] # "/" /\ p[n] # "/"
  <2>1. rest # {} /\ SubSeq(p, lo, hi) = p
    BY <1>2, <1>8
  <2>2. lo \in 1 .. n /\ hi \in 1 .. n /\ p[lo] # "/" /\ p[hi] # "/" /\ lo <= hi
    BY <1>3, <1>4, <2>1
  <2>3. Len(SubSeq(p, lo, hi)) = hi - lo + 1
    <3>1. lo \in Int /\ hi \in Int /\ \A i \in lo .. hi : p[i] \in S
      BY <1>1, <2>2
    <3> QED BY <2>2, <3>1, SubSeqProperties
  <2>4. n = hi - lo + 1
    BY <2>1, <2>3
  <2>5. lo = 1 /\ hi = n
    <3> HIDE DEF n
    <3> QED BY <1>1, <2>2, <2>4
  <2> QED BY <2>2, <2>5
<1> QED BY <1>7, <1>8

\* From an entry of a directory one gets back to it.
Returns(path, name) == BrowseParentPath(JoinBrowsePath(path, name)) = path

\* The last slash is the one the entry's name was put behind.
LEMMA PathReturns ==
  ASSUME NEW path \in Seq(Characters), Trimmed(path) = path,
         NEW name \in Seq(Characters), name # <<>>, "/" \notin ToSet(name)
  PROVE  Returns(path, name)
<1> DEFINE S == Characters \cup {"/"}
           n == Len(name)
<1>1. path \in Seq(S) /\ name \in Seq(S) /\ "/" \in S
  <2>1. Characters \subseteq S /\ "/" \in S
    OBVIOUS
  <2> HIDE DEF S
  <2> QED BY <2>1, SeqMonotonic
<1> HIDE DEF S
<1>2. n \in Nat /\ n >= 1 /\ \A i \in 1 .. n : name[i] # "/"
  <2>1. n \in Nat /\ n >= 1 /\ DOMAIN name = 1 .. n
    BY LenProperties, EmptySeq
  <2> QED BY <2>1 DEF ToSet
<1> DEFINE w == JoinBrowsePath(path, name)
           I(v) == {i \in 1 .. Len(v) : v[i] = "/"}
<1>3. CASE path = <<>>
  <2>1. w = name
    BY <1>3 DEF JoinBrowsePath
  <2>2. Trimmed(name) = name
    <3>1. name[1] # "/" /\ name[Len(name)] # "/"
      BY <1>2
    <3> QED BY <1>1, <3>1, TrimmedFact
  <2>3. I(name) = {}
    BY <1>2
  <2>4. SelectLastInSeq(name, LAMBDA c : c = "/") = 0
    BY <2>3, Zenon DEF SelectLastInSeq
  <2>5. BrowseParentPath(name) = <<>>
    BY <2>2, <2>4, Zenon DEF BrowseParentPath
  <2> QED BY <1>3, <2>1, <2>5 DEF Returns
<1>4. CASE path # <<>>
  <2> DEFINE v == path \o <<"/">> \o name
             m == Len(path)
  <2>1. w = v
    BY <1>4 DEF JoinBrowsePath
  <2>2. Around(v, path, "/", name, S)
    BY <1>1, AroundFact
  <2>3. m \in Nat /\ m >= 1
    BY LenProperties, EmptySeq, <1>4
  <2>4. path[1] # "/"
    BY <1>1, <1>4, TrimmedFact
  <2> HIDE DEF v, m, n
  <2>5. /\ v \in Seq(S) /\ Len(v) = m + 1 + n /\ SubSeq(v, 1, m) = path
        /\ \A i \in 1 .. m : v[i] = path[i]
        /\ v[m + 1] = "/"
        /\ \A i \in 1 .. n : v[m + 1 + i] = name[i]
    BY <2>2 DEF Around, m, n
  <2>6. Trimmed(v) = v
    <3>1. v[1] # "/"
      <4>1. 1 \in 1 .. m
        BY <2>3
      <4> QED BY <2>4, <2>5, <4>1
    <3>2. v[m + 1 + n] # "/"
      <4>1. n \in 1 .. n
        BY <1>2
      <4> QED BY <1>2, <2>5, <4>1
    <3>3. v # <<>>
      BY <1>2, <2>3, <2>5, EmptySeq
    <3> QED BY <2>5, <3>1, <3>2, <3>3, TrimmedFact
  <2>7. m + 1 \in I(v)
    BY <1>2, <2>3, <2>5
  <2>8. \A i \in I(v) : i \in Int /\ i <= m + 1
    <3> SUFFICES ASSUME NEW i \in 1 .. Len(v), v[i] = "/", ~(i <= m + 1) PROVE FALSE
      BY <1>2, <2>3, <2>5
    <3> DEFINE j == i - (m + 1)
    <3>1. j \in 1 .. n /\ m + 1 + j = i
      BY <1>2, <2>3, <2>5
    <3> HIDE DEF j
    <3>2. v[m + 1 + j] = name[j] /\ name[j] # "/"
      BY <1>2, <2>5, <3>1
    <3> QED BY <3>1, <3>2
  <2> DEFINE J == I(v)
  <2> HIDE DEF J
  <2>9. Max(J) = m + 1
    <3>1. m + 1 \in J /\ \A i \in J : i \in Int /\ i <= m + 1
      BY <2>7, <2>8 DEF J
    <3>2. \A x \in J : (\A y \in J : x >= y) => x = m + 1
      BY <2>3, <3>1
    <3>3. m + 1 \in J /\ \A y \in J : m + 1 >= y
      BY <2>3, <3>1
    <3> QED BY <3>2, <3>3 DEF Max
  <2>10. SelectLastInSeq(v, LAMBDA c : c = "/") = m + 1
    <3>1. SelectLastInSeq(v, LAMBDA c : c = "/") = IF J # {} THEN Max(J) ELSE 0
      BY DEF SelectLastInSeq, J
    <3> QED BY <2>7, <2>9, <3>1 DEF J
  <2> DEFINE k == m + 1
  <2>11. k # 0 /\ k - 1 = m
    BY <2>3
  <2>12. BrowseParentPath(v) = SubSeq(v, 1, k - 1)
    <3>1. SelectLastInSeq(v, LAMBDA c : c = "/") = k
      BY <2>10
    <3> HIDE DEF k
    <3> QED BY <2>6, <2>11, <3>1, Zenon DEF BrowseParentPath
  <2> HIDE DEF k
  <2>13. BrowseParentPath(v) = path
    BY <2>5, <2>11, <2>12
  <2> QED BY <2>1, <2>13 DEF Returns
<1> QED BY <1>3, <1>4

-----------------------------------------------------------------------------
(* The theorems: a case stays what it is, and what is returned is what the   *)
(* lemmas say of the function's value.                                       *)

\* A case is one of those of its kind.
Given ==
  /\ given.of = "list" => given.list \in Lists
  /\ given.of = "tree" => given.tree \in Trees
  /\ given.of = "config" => given.config \in Configs
  /\ given.of = "link" => given.place \in Places
  /\ given.of = "path" => given.path \in Paths /\ given.name \in Entries
  /\ given.of = "disk" => given.disk \in Disks
  /\ given.of = "mount" => given.mount \in Mounts
  /\ given.of = "dataset" => given.dataset \in Datasets
  /\ given.of = "history" => given.all \in Histories /\ given.limit \in IntRange

\* What was returned is the value of the function the case is for.
Returned ==
  /\ Of("list") => result = ApplyListFilter(given.list, given.typed)
  /\ Of("tree") => result = ApplyNavPoolFilter(given.tree, given.typed)
  /\ Of("config") => result = EnrichConfig(given.config)
  /\ Of("link") => result = ParseRoute(Href(given.place))
  /\ Of("path") => result = BrowseParentPath(JoinBrowsePath(given.path, given.name))
  /\ Of("disk") => result = DiskBar(given.disk.size, given.disk.parts, given.disk.own)
  /\ Of("mount") => result = MountBar(given.mount.size, given.mount.used, given.mount.avail)
  /\ Of("dataset") =>
       LET d == given.dataset
       IN result = DatasetBar(d.kids, d.snaps, d.data, d.reservation, d.free, d.total)
  /\ Of("history") => result = Pages(given.all, given.limit)

\* The inductive invariant.
IInv == Given /\ Returned

\* At first nothing has been computed.
LEMMA InitInv == Init => IInv
<1> SUFFICES ASSUME Init PROVE IInv
  OBVIOUS
<1>1. Returned
  BY DEF Init, Of, Returned
<1>2. Given
  <2>1. \/ given \in [of : {"list"}, list : Lists, typed : Typed]
        \/ given \in [of : {"tree"}, tree : Trees, typed : Typed]
        \/ given \in [of : {"config"}, config : Configs]
        \/ given \in [of : {"link"}, place : Places]
        \/ given \in [of : {"path"}, path : Paths, name : Entries]
        \/ given \in [of : {"disk"}, disk : Disks]
        \/ given \in [of : {"mount"}, mount : Mounts]
        \/ given \in [of : {"dataset"}, dataset : Datasets]
        \/ given \in [of : {"history"}, all : Histories, limit : IntRange]
    BY Zenon DEF Init
  <2> QED BY <2>1 DEF Given
<1> QED BY <1>1, <1>2 DEF IInv

\* A step computes the value of one function, or nothing.
LEMMA NextInv == IInv /\ [Next]_pvars => IInv'
<1> SUFFICES ASSUME IInv, [Next]_pvars PROVE IInv'
  OBVIOUS
<1>1. given' = given
  BY DEF Next, FilterList, FilterTree, Enrich, FollowLink, OpenAndUp, DrawDisk, DrawMount,
         DrawDataset, ReadHistory, Compute, pvars
<1>2. Given'
  BY <1>1 DEF IInv, Given
<1>3. ASSUME FilterList PROVE Returned'
  BY <1>1, <1>3 DEF IInv, FilterList, Compute, Returned, Of
<1>4. ASSUME FilterTree PROVE Returned'
  BY <1>1, <1>4 DEF IInv, FilterTree, Compute, Returned, Of
<1>5. ASSUME Enrich PROVE Returned'
  BY <1>1, <1>5 DEF IInv, Enrich, Compute, Returned, Of
<1>6. ASSUME FollowLink PROVE Returned'
  BY <1>1, <1>6 DEF IInv, FollowLink, Compute, Returned, Of
<1>7. ASSUME OpenAndUp PROVE Returned'
  BY <1>1, <1>7 DEF IInv, OpenAndUp, Compute, Returned, Of
<1>8. ASSUME DrawDisk PROVE Returned'
  BY <1>1, <1>8 DEF IInv, DrawDisk, Compute, Returned, Of
<1>9. ASSUME DrawMount PROVE Returned'
  BY <1>1, <1>9 DEF IInv, DrawMount, Compute, Returned, Of
<1>10. ASSUME DrawDataset PROVE Returned'
  BY <1>1, <1>10 DEF IInv, DrawDataset, Compute, Returned, Of
<1>11. ASSUME ReadHistory PROVE Returned'
  BY <1>1, <1>11 DEF IInv, ReadHistory, Compute, Returned, Of
<1>12. ASSUME UNCHANGED pvars PROVE Returned'
  BY <1>12 DEF IInv, pvars, Returned, Of
<1> QED BY <1>2, <1>3, <1>4, <1>5, <1>6, <1>7, <1>8, <1>9, <1>10, <1>11, <1>12 DEF Next, IInv

\* What a function is given is what it was written for, and what it returned
\* is its value: the invariant the theorems below follow from.
THEOREM Computed == Spec => []IInv
<1> QED BY InitInv, NextInv, PTL DEF Spec

\* However headings, rows and remarks follow each other and whatever is typed,
\* a browser that is filtered has its headings where there are rows.
THEOREM Headed == Spec => []HeadingsHold
<1>1. IInv => HeadingsHold
  <2> SUFFICES ASSUME IInv, Of("list") PROVE HeadingsHoldRows(given.list, given.typed, result)
    BY DEF HeadingsHold
  <2>1. given.list \in Lists /\ result = ApplyListFilter(given.list, given.typed)
    BY DEF IInv, Given, Returned, Of
  <2>2. given.list \in Seq([is : {"heading", "row", "up", "remark"}, text : SUBSET STRING])
    BY <2>1, ListsAssumption
  <2> QED BY <2>1, <2>2, ListFilterFact
<1> QED BY Computed, <1>1, PTL

\* However deep the sidebar's tree is, its filter shows what is found and what
\* leads there, and its count is of what there is to see.
THEOREM NavFound == Spec => []NavShowsFound
<1>1. IInv => NavShowsFound
  <2> SUFFICES ASSUME IInv, Of("tree")
               PROVE  /\ NavShowsWhatIsFound(given.tree, given.typed, result.shown)
                      /\ NavCountsWhatIsSeen(given.tree, result)
    BY DEF NavShowsFound
  <2>1. given.tree \in Trees /\ result = ApplyNavPoolFilter(given.tree, given.typed)
    BY DEF IInv, Given, Returned, Of
  <2>2. IsTree(given.tree)
    BY <2>1, TreesAssumption DEF IsTree, Row
  <2> QED BY <2>1, <2>2, NavFact
<1> QED BY Computed, <1>1, PTL

\* However deep devices nest and however they are indented, the page and the
\* agent see one tree.
THEOREM OneTree == Spec => []TreesAgree
<1>1. IInv => TreesAgree
  <2> SUFFICES ASSUME IInv, Of("config") PROVE SameTree(given.config, result)
    BY DEF TreesAgree
  <2>1. given.config \in Configs /\ result = EnrichConfig(given.config)
    BY DEF IInv, Given, Returned, Of
  <2>2. given.config \in Seq(Nat)
    BY <2>1, ConfigsAssumption
  <2> QED BY <2>1, <2>2, EnrichConfigFact
<1> QED BY Computed, <1>1, PTL

\* Whatever characters names, paths and files are written in, a link leads to
\* what it was written for, and ".." to where a directory was opened.
THEOREM LedBack == Spec => []LinksLeadBack
<1>1. IInv => LinksLeadBack
  <2> SUFFICES ASSUME IInv PROVE LinksLeadBack
    OBVIOUS
  <2>1. ASSUME Of("link") PROVE result = given.place
    <3>1. given.place \in Places /\ result = ParseRoute(Href(given.place))
      BY <2>1 DEF IInv, Given, Returned, Of
    <3>2. Linked(given.place)
      BY <3>1, PlacesAssumption DEF Linked
    <3>3. Leads(given.place)
      BY <3>2, LinkFact
    <3> QED BY <3>1, <3>3 DEF Leads
  <2>2. ASSUME Of("path") PROVE result = given.path
    <3>1. /\ given.path \in Paths /\ given.name \in Entries
          /\ result = BrowseParentPath(JoinBrowsePath(given.path, given.name))
      BY <2>2 DEF IInv, Given, Returned, Of
    <3>2. /\ given.path \in Seq(Characters) /\ Trimmed(given.path) = given.path
          /\ given.name \in Seq(Characters) /\ given.name # <<>> /\ "/" \notin ToSet(given.name)
      BY <3>1, PathsAssumption DEF Entries
    <3>3. Returns(given.path, given.name)
      BY <3>2, PathReturns
    <3> QED BY <3>1, <3>3 DEF Returns
  <2> QED BY <2>1, <2>2 DEF LinksLeadBack
<1> QED BY Computed, <1>1, PTL

\* Of any number of partitions, children and snapshots of any size, none is
\* missing from a usage bar.
THEOREM Accounted == Spec => []BarsAccount
<1>1. IInv => BarsAccount
  <2> SUFFICES ASSUME IInv PROVE BarsAccount
    OBVIOUS
  <2>1. ASSUME Of("disk")
        PROVE  DiskAccounted(given.disk.size, given.disk.parts, result)
    <3>1. /\ given.disk \in [size : Nat, parts : Seq(Nat), own : Nat]
          /\ result = DiskBar(given.disk.size, given.disk.parts, given.disk.own)
      BY <2>1, BarsAssumption DEF IInv, Given, Returned, Of
    <3> QED BY <3>1, DiskFact
  <2>2. ASSUME Of("mount")
        PROVE  MountAccounted(given.mount.size, given.mount.used, given.mount.avail, result)
    <3>1. /\ given.mount \in [size : Nat, used : Nat, avail : Nat]
          /\ result = MountBar(given.mount.size, given.mount.used, given.mount.avail)
      BY <2>2, BarsAssumption DEF IInv, Given, Returned, Of
    <3> QED BY <3>1, MountFact
  <2>3. ASSUME Of("dataset")
        PROVE  LET d == given.dataset
               IN SnapshotsCounted(d.kids, d.snaps, d.data, d.reservation, d.free, result)
    <3> DEFINE d == given.dataset
    <3>1. /\ d \in [kids : Seq(Nat), snaps : Seq(Nat), data : Nat, reservation : Nat,
                    free : Nat, total : Nat]
          /\ result = DatasetBar(d.kids, d.snaps, d.data, d.reservation, d.free, d.total)
      BY <2>3, BarsAssumption DEF IInv, Given, Returned, Of
    <3> QED BY <3>1, DatasetFact
  <2> QED BY <2>1, <2>2, <2>3 DEF BarsAccount
<1> QED BY Computed, <1>1, PTL

\* However long a history is and whatever page is asked for, no entry is lost
\* or repeated between two pages.
THEOREM Paged == Spec => []HistoryPaged
<1>1. IInv => HistoryPaged
  <2> SUFFICES ASSUME IInv, Of("history"), given.limit <= IntMax - Len(given.all)
               PROVE  PagesTile(given.all, result)
    BY DEF HistoryPaged
  <2>1. /\ given.all \in Histories /\ given.limit \in IntRange
        /\ result = Pages(given.all, given.limit)
    BY DEF IInv, Given, Returned, Of
  <2>2. given.all \in Seq(Nat \ {0}) /\ Len(given.all) + DefaultLimit <= IntMax
    BY <2>1, HistoriesAssumption
  <2> QED BY <2>1, <2>2, PagesFact
<1> QED BY Computed, <1>1, PTL
=============================================================================
