--------------------------- MODULE TaskWakeProofs ---------------------------
(***************************************************************************)
(* Safety of the session loop, for any number of prompts and conversations *)
(* and any jobs and delegations.  A step of the loop is described by what  *)
(* it does to the places a prompt can be in, to the wakes, and to the turn *)
(* that runs; each part of the invariant follows from these descriptions.  *)
(***************************************************************************)
EXTENDS TaskWake, FiniteSetTheorems, SequenceTheorems, WellFoundedInduction, TLAPS

-----------------------------------------------------------------------------
(* Sequences *)

LEMMA SeqIs ==
    ASSUME NEW S, NEW s \in Seq(S)
    PROVE  /\ Len(s) \in Nat /\ DOMAIN s = 1 .. Len(s) /\ \A i \in 1 .. Len(s) : s[i] \in S
           /\ s # <<>> <=> Len(s) > 0
           /\ s # <<>> => Len(s) \in 1 .. Len(s) /\ 1 \in 1 .. Len(s)
                          /\ Head(s) = s[1] /\ Head(s) \in S
OBVIOUS

LEMMA Least ==
    ASSUME NEW S \in SUBSET Nat, S # {}
    PROVE  \E x \in S : \A y \in S : x <= y
<1>. DEFINE Less == {ss \in Nat \X Nat : ss[1] < ss[2]}
<1>1. IsWellFoundedOn(Less, Nat)
  BY NatLessThanWellFounded, Zenon DEF OpToRel
<1>2. PICK x \in S : \A y \in S : ~ (<<y, x>> \in Less)
  <2>. HIDE DEF Less
  <2>. QED
    BY <1>1, WFMin
<1>3. ASSUME NEW y \in S PROVE x <= y
  <2>1. <<y, x>> \in Nat \X Nat /\ <<y, x>>[1] = y /\ <<y, x>>[2] = x
    OBVIOUS
  <2>2. ~ (y < x)
    BY <1>2, <2>1
  <2>. QED
    BY <2>2
<1>. QED
  BY <1>3

\* Sequences are what one gets by appending: a set of them that holds the empty
\* one, and is closed under appending, holds all.
LEMMA BySteps ==
    ASSUME NEW S, NEW G \in SUBSET Seq(S), <<>> \in G,
           \A s \in G, e \in S : Append(s, e) \in G
    PROVE  \A s \in Seq(S) : s \in G
<1>. DEFINE Bad == {n \in Nat : \E s \in Seq(S) : Len(s) = n /\ s \notin G}
<1>1. SUFFICES ASSUME NEW s \in Seq(S), s \notin G PROVE FALSE
  OBVIOUS
<1>2. Len(s) \in Bad
  BY <1>1
<1>3. PICK n \in Bad : \A k \in Bad : n <= k
  <2>1. Bad \subseteq Nat /\ Bad # {}
    BY <1>2
  <2>. HIDE DEF Bad
  <2>. QED
    BY <2>1, Least
<1>4. PICK t \in Seq(S) : Len(t) = n /\ t \notin G
  BY <1>3
<1>5. PICK u \in Seq(S), e \in S : t = Append(u, e)
  <2>1. t # <<>>
    BY <1>4
  <2>. QED
    BY <2>1, SequenceEmptyOrAppend
<1>6. Len(u) \in Nat /\ Len(u) < n
  <2>1. Len(Append(u, e)) = Len(u) + 1 /\ Len(u) \in Nat
    BY <1>5, AppendProperties
  <2>. QED
    BY <1>4, <1>5, <2>1
<1>7. u \notin G
  BY <1>4, <1>5
<1>8. Len(u) \in Bad
  BY <1>6, <1>7
<1>. HIDE DEF Bad
<1>9. n <= Len(u) /\ n \in Nat
  BY <1>3, <1>4, <1>8
<1>. QED
  BY <1>6, <1>9

-----------------------------------------------------------------------------
(* FlattenSeq() *)

\* The function in the definition of FlattenSeq().
Flat(f, p) == f = [i \in 1 .. Len(p) |-> IF i = 1 THEN p[i] ELSE f[i - 1] \o p[i]]

LEMMA FlatExtends ==
    ASSUME NEW X, NEW p \in Seq(Seq(X)), NEW e \in Seq(X), NEW f, Flat(f, p)
    PROVE  \E g : Flat(g, Append(p, e))
<1>. DEFINE n == Len(p) + 1
            q == Append(p, e)
            g == [i \in 1 .. n |-> IF i # n THEN f[i] ELSE IF n = 1 THEN e ELSE f[n - 1] \o e]
<1>1. Len(p) \in Nat /\ Len(q) = n /\ (\A i \in 1 .. Len(p) : q[i] = p[i]) /\ q[n] = e
  BY AppendProperties
<1>2. ASSUME NEW i \in 1 .. n
      PROVE  g[i] = IF i = 1 THEN q[i] ELSE g[i - 1] \o q[i]
  <2>1. CASE i # n
    <3>1. i \in 1 .. Len(p) /\ (i # 1 => i - 1 \in 1 .. n /\ i - 1 # n)
      BY <1>1, <2>1
    <3>2. f[i] = IF i = 1 THEN p[i] ELSE f[i - 1] \o p[i]
      BY <3>1 DEF Flat
    <3>3. g[i] = f[i] /\ (i # 1 => g[i - 1] = f[i - 1])
      BY <2>1, <3>1
    <3>4. q[i] = p[i]
      BY <1>1, <3>1
    <3>. HIDE DEF g, q, n
    <3>. QED
      BY <3>2, <3>3, <3>4
  <2>2. CASE i = n
    <3>1. i # 1 => i - 1 \in 1 .. n /\ i - 1 # n
      BY <1>1, <2>2
    <3>2. i # 1 => g[i - 1] = f[i - 1]
      BY <3>1
    <3>3. g[i] = IF i = 1 THEN e ELSE f[i - 1] \o e
      BY <2>2
    <3>4. q[i] = e
      BY <1>1, <2>2
    <3>. HIDE DEF g, q, n
    <3>. QED
      BY <3>2, <3>3, <3>4
  <2>. QED
    BY <2>1, <2>2
<1>3. g = [i \in 1 .. n |-> g[i]]
  OBVIOUS
<1>. HIDE DEF g
<1>4. g = [i \in 1 .. n |-> IF i = 1 THEN q[i] ELSE g[i - 1] \o q[i]]
  <2>. HIDE DEF q, n
  <2>. QED
    BY <1>2, <1>3
<1>5. Flat(g, q)
  BY <1>1, <1>4 DEF Flat
<1>. QED
  BY <1>5

LEMMA FlatExists ==
    ASSUME NEW X, NEW p \in Seq(Seq(X))
    PROVE  \E f : Flat(f, p)
<1>. DEFINE G == {q \in Seq(Seq(X)) : \E f : Flat(f, q)}
<1>1. <<>> \in G
  <2>1. Flat(<<>>, <<>>)
    BY DEF Flat
  <2>. QED
    BY <2>1
<1>2. ASSUME NEW q \in G, NEW e \in Seq(X) PROVE Append(q, e) \in G
  <2>1. PICK f : Flat(f, q)
    OBVIOUS
  <2>. QED
    BY <2>1, FlatExtends
<1>3. G \in SUBSET Seq(Seq(X))
  OBVIOUS
<1>4. \A q \in Seq(Seq(X)) : q \in G
  <2>. HIDE DEF G
  <2>. QED
    BY <1>1, <1>2, <1>3, BySteps
<1>. QED
  BY <1>4

\* Such functions on a sequence and on a longer one agree.
LEMMA FlatAgree ==
    ASSUME NEW p, NEW q, Len(p) \in Nat, Len(q) \in Nat, Len(p) <= Len(q),
           \A i \in 1 .. Len(p) : q[i] = p[i], NEW f, NEW g, Flat(f, p), Flat(g, q)
    PROVE  \A i \in 1 .. Len(p) : f[i] = g[i]
<1>. DEFINE Bad == {i \in 1 .. Len(p) : f[i] # g[i]}
<1>1. SUFFICES ASSUME Bad # {} PROVE FALSE
  OBVIOUS
<1>2. PICK n \in Bad : \A k \in Bad : n <= k
  <2>1. Bad \subseteq Nat
    OBVIOUS
  <2>. HIDE DEF Bad
  <2>. QED
    BY <1>1, <2>1, Least
<1>3. n \in 1 .. Len(p) /\ n \in 1 .. Len(q) /\ f[n] # g[n]
  BY <1>2
<1>4. /\ f[n] = IF n = 1 THEN p[n] ELSE f[n - 1] \o p[n]
      /\ g[n] = IF n = 1 THEN q[n] ELSE g[n - 1] \o q[n]
  BY <1>3 DEF Flat
<1>5. n # 1
  BY <1>3, <1>4
<1>6. n - 1 \in 1 .. Len(p) /\ n - 1 < n
  BY <1>3, <1>5
<1>7. f[n - 1] = g[n - 1]
  <2>1. n - 1 \notin Bad
    <3>. HIDE DEF Bad
    <3>. QED
      BY <1>2, <1>3, <1>6
  <2>. QED
    BY <1>6, <2>1
<1>. QED
  BY <1>3, <1>4, <1>5, <1>7

\* FlattenSeq() is what its function says.
LEMMA FlattenIs ==
    ASSUME NEW X, NEW p \in Seq(Seq(X)), p # <<>>, NEW f, Flat(f, p)
    PROVE  FlattenSeq(p) = f[Len(p)]
<1>1. Len(p) \in Nat /\ Len(p) # 0
  OBVIOUS
<1>. DEFINE g == CHOOSE h : h = [i \in 1 .. Len(p) |-> IF i = 1 THEN p[i] ELSE h[i - 1] \o p[i]]
<1>2. Flat(g, p)
  <2>1. \E h : h = [i \in 1 .. Len(p) |-> IF i = 1 THEN p[i] ELSE h[i - 1] \o p[i]]
    BY FlatExists DEF Flat
  <2>. QED
    BY <2>1, Zenon DEF Flat
<1>3. FlattenSeq(p) = g[Len(p)]
  BY <1>1 DEF FlattenSeq
<1>. HIDE DEF g
<1>4. \A i \in 1 .. Len(p) : f[i] = g[i]
  BY <1>1, <1>2, FlatAgree, SMTT(30)
<1>. QED
  BY <1>1, <1>3, <1>4

\* Its equations.
LEMMA FlattenNone == FlattenSeq(<<>>) = <<>>
BY DEF FlattenSeq

LEMMA FlattenAppend ==
    ASSUME NEW X, NEW p \in Seq(Seq(X)), NEW e \in Seq(X)
    PROVE  FlattenSeq(Append(p, e)) = FlattenSeq(p) \o e
<1>. DEFINE q == Append(p, e)
            n == Len(p) + 1
<1>1. /\ q \in Seq(Seq(X)) /\ q # <<>> /\ Len(q) = n /\ Len(p) \in Nat
      /\ \A i \in 1 .. Len(p) : q[i] = p[i]
      /\ q[n] = e
  BY AppendProperties
<1>. HIDE DEF q
<1>2. PICK g : Flat(g, q)
  BY <1>1, FlatExists
<1>3. FlattenSeq(q) = g[n]
  BY <1>1, <1>2, FlattenIs
<1>4. g[n] = IF n = 1 THEN e ELSE g[n - 1] \o e
  <2>1. n \in 1 .. Len(q)
    BY <1>1
  <2>. QED
    BY <1>1, <1>2, <2>1 DEF Flat
<1>5. CASE p = <<>>
  <2>1. n = 1
    BY <1>5
  <2>. QED
    BY <1>3, <1>4, <1>5, <2>1, FlattenNone, ConcatEmptySeq DEF q
<1>6. CASE p # <<>>
  <2>1. PICK f : Flat(f, p)
    BY FlatExists
  <2>2. FlattenSeq(p) = f[Len(p)]
    BY <1>6, <2>1, FlattenIs
  <2>3. Len(p) \in 1 .. Len(p) /\ Len(p) <= Len(q) /\ Len(q) \in Nat /\ n # 1 /\ n - 1 = Len(p)
    BY <1>1, <1>6
  <2>4. \A i \in 1 .. Len(p) : f[i] = g[i]
    <3>1. Len(p) \in Nat /\ Len(q) \in Nat /\ Len(p) <= Len(q) /\ \A i \in 1 .. Len(p) : q[i] = p[i]
      BY <1>1, <2>3
    <3>. QED
      BY ONLY <3>1, <1>2, <2>1, FlatAgree, SMTT(30)
  <2>5. f[Len(p)] = g[Len(p)]
    BY <2>3, <2>4
  <2>. QED
    BY <1>3, <1>4, <2>2, <2>3, <2>5 DEF q
<1>. QED
  BY <1>5, <1>6

-----------------------------------------------------------------------------
(* Concatenation, the elements of a sequence, sequences without repetition *)

LEMMA ConcatIs ==
    ASSUME NEW S, NEW s \in Seq(S), NEW t \in Seq(S)
    PROVE  /\ s \o t \in Seq(S) /\ Len(s) \in Nat /\ Len(t) \in Nat
           /\ DOMAIN s = 1 .. Len(s) /\ DOMAIN t = 1 .. Len(t)
           /\ DOMAIN (s \o t) = 1 .. Len(s) + Len(t)
           /\ \A i \in 1 .. Len(s) : (s \o t)[i] = s[i]
           /\ \A j \in 1 .. Len(t) : (s \o t)[Len(s) + j] = t[j]
<1>1. /\ s \o t \in Seq(S) /\ Len(s \o t) = Len(s) + Len(t)
      /\ \A i \in 1 .. Len(s) + Len(t) :
           (s \o t)[i] = IF i <= Len(s) THEN s[i] ELSE t[i - Len(s)]
  BY ConcatProperties
<1>2. /\ Len(s) \in Nat /\ Len(t) \in Nat /\ DOMAIN s = 1 .. Len(s) /\ DOMAIN t = 1 .. Len(t)
      /\ DOMAIN (s \o t) = 1 .. Len(s \o t)
  BY <1>1, LenProperties
<1>. DEFINE c == s \o t
<1>. HIDE DEF c
<1>3. ASSUME NEW i \in 1 .. Len(s) PROVE c[i] = s[i]
  BY <1>1, <1>2 DEF c
<1>4. ASSUME NEW j \in 1 .. Len(t) PROVE c[Len(s) + j] = t[j]
  BY <1>1, <1>2 DEF c
<1>. QED
  BY <1>1, <1>2, <1>3, <1>4 DEF c

\* A place of a concatenation is one of the first part or one of the second.
LEMMA ConcatPlaces ==
    ASSUME NEW S, NEW s \in Seq(S), NEW t \in Seq(S), NEW i \in DOMAIN (s \o t)
    PROVE  \/ i \in DOMAIN s /\ (s \o t)[i] = s[i]
           \/ \E j \in DOMAIN t : i = Len(s) + j /\ (s \o t)[i] = t[j]
<1>1. /\ Len(s) \in Nat /\ Len(t) \in Nat /\ DOMAIN s = 1 .. Len(s) /\ DOMAIN t = 1 .. Len(t)
      /\ i \in 1 .. Len(s) + Len(t)
      /\ \A k \in 1 .. Len(s) : (s \o t)[k] = s[k]
      /\ \A j \in 1 .. Len(t) : (s \o t)[Len(s) + j] = t[j]
  BY ConcatIs
<1>2. CASE i <= Len(s)
  <2>1. i \in 1 .. Len(s)
    BY <1>1, <1>2
  <2>. QED
    BY <1>1, <2>1
<1>3. CASE ~ (i <= Len(s))
  <2>1. i - Len(s) \in 1 .. Len(t) /\ i = Len(s) + (i - Len(s))
    BY <1>1, <1>3
  <2>2. (s \o t)[i] = t[i - Len(s)]
    BY <1>1, <2>1
  <2>. QED
    BY <1>1, <2>1, <2>2
<1>. QED
  BY <1>2, <1>3

LEMMA ElementsConcat ==
    ASSUME NEW S, NEW s \in Seq(S), NEW t \in Seq(S)
    PROVE  ToSet(s \o t) = ToSet(s) \cup ToSet(t)
<1>1. /\ Len(s) \in Nat /\ Len(t) \in Nat /\ DOMAIN s = 1 .. Len(s) /\ DOMAIN t = 1 .. Len(t)
      /\ DOMAIN (s \o t) = 1 .. Len(s) + Len(t)
      /\ \A k \in 1 .. Len(s) : (s \o t)[k] = s[k]
      /\ \A j \in 1 .. Len(t) : (s \o t)[Len(s) + j] = t[j]
  BY ConcatIs
<1>2. ASSUME NEW x \in ToSet(s \o t) PROVE x \in ToSet(s) \cup ToSet(t)
  <2>1. PICK i \in DOMAIN (s \o t) : x = (s \o t)[i]
    BY DEF ToSet
  <2>2. \/ i \in DOMAIN s /\ (s \o t)[i] = s[i]
        \/ \E j \in DOMAIN t : i = Len(s) + j /\ (s \o t)[i] = t[j]
    BY ConcatPlaces
  <2>. QED
    BY <2>1, <2>2 DEF ToSet
<1>3. ASSUME NEW x \in ToSet(s) PROVE x \in ToSet(s \o t)
  <2>1. PICK i \in DOMAIN s : x = s[i]
    BY DEF ToSet
  <2>2. i \in DOMAIN (s \o t) /\ (s \o t)[i] = x
    BY <1>1, <2>1
  <2>. QED
    BY <2>2 DEF ToSet
<1>4. ASSUME NEW x \in ToSet(t) PROVE x \in ToSet(s \o t)
  <2>1. PICK j \in DOMAIN t : x = t[j]
    BY DEF ToSet
  <2>2. Len(s) + j \in DOMAIN (s \o t) /\ (s \o t)[Len(s) + j] = x
    BY <1>1, <2>1
  <2>. QED
    BY <2>2 DEF ToSet
<1>. QED
  BY <1>2, <1>3, <1>4

LEMMA ElementsOne ==
    ASSUME NEW e
    PROVE  ToSet(<<e>>) = {e} /\ IsInjective(<<e>>)
<1>1. DOMAIN <<e>> = {1} /\ <<e>>[1] = e
  OBVIOUS
<1>. QED
  BY <1>1 DEF ToSet, IsInjective

LEMMA ElementsNone == ToSet(<<>>) = {} /\ IsInjective(<<>>)
<1>1. DOMAIN <<>> = {}
  OBVIOUS
<1>. QED
  BY <1>1 DEF ToSet, IsInjective

LEMMA ElementsIn ==
    ASSUME NEW S, NEW s \in Seq(S)
    PROVE  ToSet(s) \subseteq S /\ (s # <<>> => Head(s) \in ToSet(s)) /\ (ToSet(s) = {} => s = <<>>)
<1>1. DOMAIN s = 1 .. Len(s) /\ Len(s) \in Nat /\ \A i \in 1 .. Len(s) : s[i] \in S
  BY SeqIs
<1>2. s # <<>> => 1 \in DOMAIN s /\ Head(s) = s[1]
  BY SeqIs
<1>. QED
  BY <1>1, <1>2 DEF ToSet

LEMMA OnceConcat ==
    ASSUME NEW S, NEW s \in Seq(S), NEW t \in Seq(S)
    PROVE  IsInjective(s \o t) <=> IsInjective(s) /\ IsInjective(t) /\ ToSet(s) \cap ToSet(t) = {}
<1>1. /\ Len(s) \in Nat /\ Len(t) \in Nat /\ DOMAIN s = 1 .. Len(s) /\ DOMAIN t = 1 .. Len(t)
      /\ DOMAIN (s \o t) = 1 .. Len(s) + Len(t)
      /\ \A k \in 1 .. Len(s) : (s \o t)[k] = s[k]
      /\ \A j \in 1 .. Len(t) : (s \o t)[Len(s) + j] = t[j]
  BY ConcatIs
<1>2. ASSUME IsInjective(s \o t) PROVE IsInjective(s) /\ IsInjective(t) /\ ToSet(s) \cap ToSet(t) = {}
  <2>0. \A a, b \in DOMAIN (s \o t) : (s \o t)[a] = (s \o t)[b] => a = b
    BY <1>2 DEF IsInjective
  <2>1. ASSUME NEW a \in DOMAIN s, NEW b \in DOMAIN s, s[a] = s[b] PROVE a = b
    <3>1. a \in DOMAIN (s \o t) /\ b \in DOMAIN (s \o t) /\ (s \o t)[a] = (s \o t)[b]
      BY <1>1, <2>1
    <3>. QED
      BY <2>0, <3>1
  <2>2. ASSUME NEW a \in DOMAIN t, NEW b \in DOMAIN t, t[a] = t[b] PROVE a = b
    <3>1. /\ Len(s) + a \in DOMAIN (s \o t) /\ Len(s) + b \in DOMAIN (s \o t)
          /\ (s \o t)[Len(s) + a] = (s \o t)[Len(s) + b]
      BY <1>1, <2>2
    <3>2. Len(s) + a = Len(s) + b
      BY <2>0, <3>1
    <3>. QED
      BY <1>1, <3>2
  <2>3. ASSUME NEW a \in DOMAIN s, NEW b \in DOMAIN t, s[a] = t[b] PROVE FALSE
    <3>1. /\ a \in DOMAIN (s \o t) /\ Len(s) + b \in DOMAIN (s \o t)
          /\ (s \o t)[a] = (s \o t)[Len(s) + b]
      BY <1>1, <2>3
    <3>2. a = Len(s) + b
      BY <2>0, <3>1
    <3>. QED
      BY <1>1, <3>2
  <2>. QED
    BY <2>1, <2>2, <2>3 DEF IsInjective, ToSet
<1>3. ASSUME IsInjective(s), IsInjective(t), ToSet(s) \cap ToSet(t) = {} PROVE IsInjective(s \o t)
  <2>0. /\ \A a, b \in DOMAIN s : s[a] = s[b] => a = b
        /\ \A a, b \in DOMAIN t : t[a] = t[b] => a = b
        /\ \A a \in DOMAIN s, b \in DOMAIN t : s[a] # t[b]
    BY <1>3 DEF IsInjective, ToSet
  <2>1. ASSUME NEW a \in DOMAIN (s \o t), NEW b \in DOMAIN (s \o t), (s \o t)[a] = (s \o t)[b]
        PROVE  a = b
    <3>1. \/ a \in DOMAIN s /\ (s \o t)[a] = s[a]
          \/ \E j \in DOMAIN t : a = Len(s) + j /\ (s \o t)[a] = t[j]
      BY ConcatPlaces
    <3>2. \/ b \in DOMAIN s /\ (s \o t)[b] = s[b]
          \/ \E j \in DOMAIN t : b = Len(s) + j /\ (s \o t)[b] = t[j]
      BY ConcatPlaces
    <3>. QED
      BY <2>0, <2>1, <3>1, <3>2, Zenon
  <2>. QED
    BY <2>1 DEF IsInjective
<1>. QED
  BY <1>2, <1>3

LEMMA HeadTail ==
    ASSUME NEW S, NEW s \in Seq(S), s # <<>>
    PROVE  /\ s = <<Head(s)>> \o Tail(s) /\ <<Head(s)>> \in Seq(S)
           /\ Head(s) \in S /\ Tail(s) \in Seq(S)
<1>1. /\ Head(s) \in S /\ Tail(s) \in Seq(S) /\ Len(Tail(s)) = Len(s) - 1
      /\ \A i \in 1 .. Len(Tail(s)) : Tail(s)[i] = s[i + 1]
  BY HeadTailProperties
<1>2. Len(s) \in Nat /\ Len(s) > 0 /\ Head(s) = s[1]
  BY SeqIs
<1>. DEFINE h == Head(s)
            t == Tail(s)
            o == <<h>>
<1>3. o \in Seq(S) /\ Len(o) = 1 /\ o[1] = h
  BY <1>1
<1>4. t \in Seq(S) /\ Len(t) = Len(s) - 1 /\ (\A i \in 1 .. Len(t) : t[i] = s[i + 1]) /\ h = s[1]
  BY <1>1, <1>2
<1>. HIDE DEF h, t, o
<1>5. /\ o \o t \in Seq(S) /\ Len(o \o t) = Len(o) + Len(t)
      /\ \A i \in 1 .. Len(o) + Len(t) : (o \o t)[i] = IF i <= Len(o) THEN o[i] ELSE t[i - Len(o)]
  <2>1. o \in Seq(S) /\ t \in Seq(S)
    BY <1>3, <1>4
  <2>. QED
    BY ONLY <2>1, ConcatProperties
<1>6. ASSUME NEW i \in 1 .. Len(s) PROVE s[i] = (o \o t)[i]
  <2>1. i \in 1 .. Len(o) + Len(t) /\ (i <= Len(o) <=> i = 1)
    BY <1>2, <1>3, <1>4
  <2>2. CASE i = 1
    BY <1>3, <1>4, <1>5, <2>1, <2>2
  <2>3. CASE i # 1
    <3>1. i - 1 \in 1 .. Len(t) /\ (i - 1) + 1 = i
      BY <1>2, <1>4, <2>3
    <3>2. t[i - 1] = s[i]
      BY <1>4, <3>1
    <3>3. (o \o t)[i] = t[i - 1]
      BY <1>3, <1>5, <2>1, <2>3
    <3>. QED
      BY <3>2, <3>3
  <2>. QED
    BY <2>2, <2>3
<1>7. Len(s) = Len(o \o t)
  BY <1>2, <1>3, <1>4, <1>5
<1>8. s = o \o t
  BY <1>5, <1>6, <1>7, SeqEqual
<1>. QED
  BY <1>1, <1>3, <1>8 DEF h, t, o

\* Sequence of a finite set: every element once.
LEMMA SetToSeqIs ==
    ASSUME NEW S, IsFiniteSet(S)
    PROVE  SetToSeq(S) \in Seq(S) /\ ToSet(SetToSeq(S)) \subseteq S /\ IsInjective(SetToSeq(S))
<1>1. Cardinality(S) \in Nat
  BY FS_CardinalityType
<1>2. PICK f : f \in Bijection(1 .. Cardinality(S), S)
  BY FS_CardinalityType DEF ExistsBijection
<1>3. f \in [1 .. Cardinality(S) -> S] /\ IsInjective(f)
  BY <1>2 DEF Bijection, Injection, IsInjective
<1>4. SetToSeq(S) \in [1 .. Cardinality(S) -> S] /\ IsInjective(SetToSeq(S))
  BY <1>3, Zenon DEF SetToSeq
<1>5. SetToSeq(S) \in Seq(S)
  BY <1>1, <1>4, SeqDef
<1>. QED
  BY <1>4, <1>5, ElementsIn

-----------------------------------------------------------------------------
(* Each entry of a sequence turned into a sequence, and these joined *)

Joined(g, q) == FlattenSeq([i \in DOMAIN q |-> g[q[i]]])

LEMMA JoinedNone == ASSUME NEW g PROVE Joined(g, <<>>) = <<>>
<1>1. DOMAIN <<>> = {}
  OBVIOUS
<1>2. [i \in DOMAIN <<>> |-> g[<<>>[i]]] = <<>>
  BY <1>1
<1>. QED
  BY <1>2, FlattenNone DEF Joined

LEMMA JoinedAppend ==
    ASSUME NEW E, NEW X, NEW g \in [E -> Seq(X)], NEW q \in Seq(E), NEW e \in E
    PROVE  Joined(g, Append(q, e)) = Joined(g, q) \o g[e]
<1>. DEFINE r == Append(q, e)
            p == [i \in DOMAIN q |-> g[q[i]]]
            o == [i \in DOMAIN r |-> g[r[i]]]
<1>1. /\ r \in Seq(E) /\ Len(r) = Len(q) + 1 /\ (\A i \in 1 .. Len(q) : r[i] = q[i])
      /\ r[Len(q) + 1] = e
  BY AppendProperties
<1>2. Len(q) \in Nat /\ DOMAIN q = 1 .. Len(q) /\ \A i \in 1 .. Len(q) : q[i] \in E
  BY SeqIs
<1>3. DOMAIN r = 1 .. Len(q) + 1
  <2>1. DOMAIN r = 1 .. Len(r)
    BY <1>1, SeqIs
  <2>. QED
    BY <1>1, <2>1
<1>. HIDE DEF r
<1>4. p \in Seq(Seq(X)) /\ Len(p) = Len(q) /\ \A i \in 1 .. Len(q) : p[i] = g[q[i]]
  <2>1. p \in [1 .. Len(q) -> Seq(X)]
    BY <1>2
  <2>. QED
    BY <1>2, <2>1, SeqDef
<1>5. g[e] \in Seq(X)
  OBVIOUS
<1>6. /\ Append(p, g[e]) \in Seq(Seq(X)) /\ Len(Append(p, g[e])) = Len(q) + 1
      /\ (\A i \in 1 .. Len(q) : Append(p, g[e])[i] = p[i]) /\ Append(p, g[e])[Len(q) + 1] = g[e]
  <2>. HIDE DEF p
  <2>1. /\ Append(p, g[e]) \in Seq(Seq(X)) /\ Len(Append(p, g[e])) = Len(p) + 1
        /\ (\A i \in 1 .. Len(p) : Append(p, g[e])[i] = p[i]) /\ Append(p, g[e])[Len(p) + 1] = g[e]
    <3>1. p \in Seq(Seq(X))
      BY <1>4
    <3>. QED
      BY ONLY <3>1, <1>5, AppendProperties
  <2>. QED
    BY <1>4, <2>1
<1>7. o \in Seq(Seq(X)) /\ Len(o) = Len(q) + 1 /\ \A i \in 1 .. Len(q) + 1 : o[i] = g[r[i]]
  <2>1. \A i \in 1 .. Len(q) + 1 : r[i] \in E
    BY <1>1, SeqIs
  <2>2. o \in [1 .. Len(q) + 1 -> Seq(X)]
    BY <1>3, <2>1
  <2>. QED
    BY <1>2, <1>3, <2>2, SeqDef
<1>8. \A i \in 1 .. Len(q) + 1 : o[i] = Append(p, g[e])[i]
  <2>. SUFFICES ASSUME NEW i \in 1 .. Len(q) + 1 PROVE o[i] = Append(p, g[e])[i]
    OBVIOUS
  <2>1. CASE i = Len(q) + 1
    BY <1>1, <1>6, <1>7, <2>1
  <2>2. CASE i # Len(q) + 1
    <3>1. i \in 1 .. Len(q)
      BY <1>2, <2>2
    <3>2. o[i] = g[r[i]] /\ r[i] = q[i]
      BY <1>1, <1>7, <3>1
    <3>3. Append(p, g[e])[i] = g[q[i]]
      BY <1>4, <1>6, <3>1
    <3>. QED
      BY <3>2, <3>3
  <2>. QED
    BY <2>1, <2>2
<1>. HIDE DEF o, p
<1>9. o = Append(p, g[e])
  <2>1. Len(o) = Len(Append(p, g[e])) /\ \A i \in 1 .. Len(o) : o[i] = Append(p, g[e])[i]
    BY <1>6, <1>7, <1>8
  <2>. QED
    BY <2>1, <1>6, <1>7, SeqEqual
<1>10. FlattenSeq(o) = FlattenSeq(p) \o g[e]
  BY <1>4, <1>5, <1>9, FlattenAppend
<1>. QED
  BY <1>10 DEF Joined, r, p, o

LEMMA JoinedType ==
    ASSUME NEW E, NEW X, NEW g \in [E -> Seq(X)], NEW q \in Seq(E)
    PROVE  Joined(g, q) \in Seq(X)
<1>. DEFINE G == {r \in Seq(E) : Joined(g, r) \in Seq(X)}
<1>1. <<>> \in G
  <2>1. Joined(g, <<>>) = <<>>
    BY JoinedNone
  <2>2. <<>> \in Seq(E) /\ <<>> \in Seq(X)
    OBVIOUS
  <2>. QED
    BY <2>1, <2>2
<1>2. ASSUME NEW r \in G, NEW e \in E PROVE Append(r, e) \in G
  <2>1. Joined(g, Append(r, e)) = Joined(g, r) \o g[e]
    BY JoinedAppend
  <2>2. Joined(g, r) \o g[e] \in Seq(X)
    <3>1. Joined(g, r) \in Seq(X) /\ g[e] \in Seq(X)
      OBVIOUS
    <3>. QED
      BY ONLY <3>1, ConcatProperties
  <2>3. Append(r, e) \in Seq(E)
    BY AppendProperties
  <2>. QED
    BY <2>1, <2>2, <2>3
<1>3. G \in SUBSET Seq(E)
  OBVIOUS
<1>4. \A r \in Seq(E) : r \in G
  <2>. HIDE DEF G
  <2>. QED
    BY <1>1, <1>2, <1>3, BySteps
<1>. QED
  BY <1>4

LEMMA AppendToConcat ==
    ASSUME NEW E, NEW p \in Seq(E), NEW q \in Seq(E), NEW e \in E
    PROVE  p \o Append(q, e) = Append(p \o q, e)
<1>1. Append(q, e) = q \o <<e>> /\ <<e>> \in Seq(E)
  BY AppendIsConcat
<1>2. p \o q \in Seq(E)
  BY ConcatProperties
<1>3. Append(p \o q, e) = (p \o q) \o <<e>>
  BY <1>2, AppendIsConcat
<1>4. (p \o q) \o <<e>> = p \o (q \o <<e>>)
  BY <1>1, ConcatAssociative, SMTT(30)
<1>. QED
  BY <1>1, <1>3, <1>4

LEMMA JoinedConcat ==
    ASSUME NEW E, NEW X, NEW g \in [E -> Seq(X)], NEW p \in Seq(E), NEW q \in Seq(E)
    PROVE  Joined(g, p \o q) = Joined(g, p) \o Joined(g, q)
<1>. DEFINE G == {r \in Seq(E) : Joined(g, p \o r) = Joined(g, p) \o Joined(g, r)}
<1>1. <<>> \in G
  <2>1. Joined(g, p) \in Seq(X)
    BY JoinedType
  <2>2. p \o <<>> = p /\ Joined(g, p) \o <<>> = Joined(g, p)
    BY <2>1, ConcatEmptySeq
  <2>3. Joined(g, <<>>) = <<>>
    BY JoinedNone
  <2>4. <<>> \in Seq(E)
    OBVIOUS
  <2>. QED
    BY <2>2, <2>3, <2>4
<1>2. ASSUME NEW r \in G, NEW e \in E PROVE Append(r, e) \in G
  <2>1. p \o r \in Seq(E) /\ Joined(g, p \o r) = Joined(g, p) \o Joined(g, r)
    BY ConcatProperties
  <2>2. Joined(g, Append(p \o r, e)) = Joined(g, p \o r) \o g[e]
    BY <2>1, JoinedAppend
  <2>3. Joined(g, Append(r, e)) = Joined(g, r) \o g[e]
    BY JoinedAppend
  <2>4. Joined(g, p) \in Seq(X) /\ Joined(g, r) \in Seq(X) /\ g[e] \in Seq(X)
    BY JoinedType
  <2>5. (Joined(g, p) \o Joined(g, r)) \o g[e] = Joined(g, p) \o (Joined(g, r) \o g[e])
    BY ONLY <2>4, ConcatAssociative, SMTT(30)
  <2>6. p \o Append(r, e) = Append(p \o r, e)
    BY AppendToConcat, SMTT(30)
  <2>7. Append(r, e) \in Seq(E)
    BY AppendProperties
  <2>. QED
    BY <2>1, <2>2, <2>3, <2>5, <2>6, <2>7
<1>3. G \in SUBSET Seq(E)
  OBVIOUS
<1>4. \A r \in Seq(E) : r \in G
  <2>. HIDE DEF G
  <2>. QED
    BY <1>1, <1>2, <1>3, BySteps
<1>. QED
  BY <1>4

LEMMA ElementsAppend ==
    ASSUME NEW E, NEW q \in Seq(E), NEW e \in E
    PROVE  ToSet(Append(q, e)) = ToSet(q) \cup {e}
<1>1. Append(q, e) = q \o <<e>> /\ <<e>> \in Seq(E)
  BY AppendIsConcat
<1>2. ToSet(q \o <<e>>) = ToSet(q) \cup ToSet(<<e>>)
  BY <1>1, ElementsConcat, ZenonT(40)
<1>3. ToSet(<<e>>) = {e}
  BY ElementsOne
<1>. QED
  BY <1>1, <1>2, <1>3

JoinsTo(g, q) == \A x : x \in ToSet(Joined(g, q)) <=> \E e \in ToSet(q) : x \in ToSet(g[e])

LEMMA JoinedElements ==
    ASSUME NEW E, NEW X, NEW g \in [E -> Seq(X)], NEW q \in Seq(E)
    PROVE  JoinsTo(g, q)
<1>. DEFINE Of(r) == \A x : x \in ToSet(Joined(g, r)) <=> \E e \in ToSet(r) : x \in ToSet(g[e])
            G == {r \in Seq(E) : Of(r)}
<1>1. <<>> \in G
  <2>1. Joined(g, <<>>) = <<>> /\ ToSet(<<>>) = {}
    BY JoinedNone, ElementsNone
  <2>2. <<>> \in Seq(E)
    OBVIOUS
  <2>. QED
    BY <2>1, <2>2
<1>2. ASSUME NEW r \in G, NEW e \in E PROVE Append(r, e) \in G
  <2>1. Of(r)
    OBVIOUS
  <2>2. Joined(g, Append(r, e)) = Joined(g, r) \o g[e]
    BY JoinedAppend
  <2>3. Joined(g, r) \in Seq(X) /\ g[e] \in Seq(X)
    BY JoinedType
  <2>4. ToSet(Joined(g, r) \o g[e]) = ToSet(Joined(g, r)) \cup ToSet(g[e])
    BY <2>3, ElementsConcat
  <2>5. ToSet(Append(r, e)) = ToSet(r) \cup {e}
    BY ElementsAppend
  <2>6. Append(r, e) \in Seq(E)
    BY AppendProperties
  <2>7. Of(Append(r, e))
    BY <2>1, <2>2, <2>4, <2>5, Zenon
  <2>. QED
    BY <2>6, <2>7
<1>3. G \in SUBSET Seq(E)
  OBVIOUS
<1>4. \A r \in Seq(E) : r \in G
  <2>. HIDE DEF G
  <2>. QED
    BY <1>1, <1>2, <1>3, BySteps
<1>. QED
  BY <1>4 DEF JoinsTo

\* When the joined sequence repeats nothing, neither do its parts, and two
\* different entries have nothing in common.
LEMMA JoinedParts ==
    ASSUME NEW E, NEW X, NEW g \in [E -> Seq(X)], NEW q \in Seq(E), IsInjective(Joined(g, q))
    PROVE  /\ \A d \in ToSet(q) : IsInjective(g[d])
           /\ \A d, e \in ToSet(q) : d # e => ToSet(g[d]) \cap ToSet(g[e]) = {}
<1>. DEFINE Apart(r) == /\ \A d \in ToSet(r) : IsInjective(g[d])
                        /\ \A d, e \in ToSet(r) : d # e => ToSet(g[d]) \cap ToSet(g[e]) = {}
            G == {r \in Seq(E) : IsInjective(Joined(g, r)) => Apart(r)}
<1>1. <<>> \in G
  BY ElementsNone
<1>2. ASSUME NEW r \in G, NEW e \in E PROVE Append(r, e) \in G
  <2>1. Append(r, e) \in Seq(E)
    BY AppendProperties
  <2>2. ASSUME IsInjective(Joined(g, Append(r, e))) PROVE Apart(Append(r, e))
    <3>1. Joined(g, Append(r, e)) = Joined(g, r) \o g[e]
      BY JoinedAppend, SMTT(30)
    <3>2. Joined(g, r) \in Seq(X) /\ g[e] \in Seq(X)
      BY JoinedType
    <3>3. IsInjective(Joined(g, r)) /\ IsInjective(g[e]) /\ ToSet(Joined(g, r)) \cap ToSet(g[e]) = {}
      BY <2>2, <3>1, <3>2, OnceConcat
    <3>4. Apart(r)
      BY <3>3
    <3>5. \A x : x \in ToSet(Joined(g, r)) <=> \E d \in ToSet(r) : x \in ToSet(g[d])
      <4>1. r \in Seq(E)
        OBVIOUS
      <4>2. JoinsTo(g, r)
        BY ONLY <4>1, g \in [E -> Seq(X)], JoinedElements
      <4>. QED
        BY <4>2, Zenon DEF JoinsTo
    <3>6. ToSet(Append(r, e)) = ToSet(r) \cup {e}
      BY ElementsAppend
    <3>7. ASSUME NEW d \in ToSet(r) PROVE ToSet(g[d]) \cap ToSet(g[e]) = {}
      BY <3>3, <3>5
    <3>. QED
      BY <3>3, <3>4, <3>6, <3>7
  <2>. QED
    BY <2>1, <2>2
<1>3. G \in SUBSET Seq(E)
  OBVIOUS
<1>4. \A r \in Seq(E) : r \in G
  <2>. HIDE DEF G
  <2>. QED
    BY <1>1, <1>2, <1>3, BySteps
<1>. QED
  BY <1>4

-----------------------------------------------------------------------------
(* Entries; what was typed of a sequence of them; filters *)

LEMMA EntryIs ==
    ASSUME NEW e \in Entry
    PROVE  /\ e.gen \in 0 .. MaxClear
           /\ \/ IsUser(e) /\ ~IsWake(e) /\ e.of \in Seq(1 .. Prompts)
              \/ ~IsUser(e) /\ IsWake(e) /\ e.kind = "job" /\ e.of \in Task
              \/ ~IsUser(e) /\ IsWake(e) /\ e.kind = "delegation" /\ e.of \in Delegation
BY DEF Entry, IsUser, IsWake

OfUser == [e \in Entry |-> IF IsUser(e) THEN e.of ELSE <<>>]
KeepIn(S) == [e \in Entry |-> IF e \in S THEN <<e>> ELSE <<>>]

LEMMA OfUserIs == OfUser \in [Entry -> Seq(1 .. Prompts)]
<1>1. ASSUME NEW e \in Entry PROVE (IF IsUser(e) THEN e.of ELSE <<>>) \in Seq(1 .. Prompts)
  <2>1. IsUser(e) => e.of \in Seq(1 .. Prompts)
    BY EntryIs
  <2>2. <<>> \in Seq(1 .. Prompts)
    OBVIOUS
  <2>. QED
    BY <2>1, <2>2, Zenon
<1>. QED
  BY <1>1 DEF OfUser

LEMMA KeepInIs == ASSUME NEW S PROVE KeepIn(S) \in [Entry -> Seq(Entry)]
<1>1. ASSUME NEW e \in Entry PROVE (IF e \in S THEN <<e>> ELSE <<>>) \in Seq(Entry)
  OBVIOUS
<1>. QED
  BY <1>1 DEF KeepIn

LEMMA TypedIs ==
    ASSUME NEW q \in Seq(Entry)
    PROVE  Typed(q) = Joined(OfUser, q)
<1>1. \A i \in DOMAIN q : q[i] \in Entry
  BY SeqIs
<1>2. \A i \in DOMAIN q : OfUser[q[i]] = IF IsUser(q[i]) THEN q[i].of ELSE <<>>
  BY <1>1 DEF OfUser
<1>3. [i \in DOMAIN q |-> OfUser[q[i]]] = [i \in DOMAIN q |-> IF IsUser(q[i]) THEN q[i].of ELSE <<>>]
  BY <1>2
<1>. QED
  BY <1>3 DEF Typed, Joined

LEMMA OnlyIs ==
    ASSUME NEW q \in Seq(Entry), NEW S
    PROVE  Only(q, S) = Joined(KeepIn(S), q)
<1>1. \A i \in DOMAIN q : q[i] \in Entry
  BY SeqIs
<1>2. \A i \in DOMAIN q : KeepIn(S)[q[i]] = IF q[i] \in S THEN <<q[i]>> ELSE <<>>
  BY <1>1 DEF KeepIn
<1>3. [i \in DOMAIN q |-> KeepIn(S)[q[i]]] = [i \in DOMAIN q |-> IF q[i] \in S THEN <<q[i]>> ELSE <<>>]
  BY <1>2
<1>. QED
  BY <1>3 DEF Only, Joined

LEMMA TypedType == ASSUME NEW q \in Seq(Entry) PROVE Typed(q) \in Seq(1 .. Prompts)
<1>1. Joined(OfUser, q) \in Seq(1 .. Prompts)
  BY OfUserIs, JoinedType
<1>. QED
  BY <1>1, TypedIs

LEMMA TypedNone == Typed(<<>>) = <<>>
<1>1. <<>> \in Seq(Entry) /\ Joined(OfUser, <<>>) = <<>>
  BY JoinedNone
<1>. QED
  BY <1>1, TypedIs

LEMMA TypedAppend ==
    ASSUME NEW q \in Seq(Entry), NEW e \in Entry
    PROVE  Typed(Append(q, e)) = Typed(q) \o (IF IsUser(e) THEN e.of ELSE <<>>)
<1>1. Joined(OfUser, Append(q, e)) = Joined(OfUser, q) \o OfUser[e]
  BY OfUserIs, JoinedAppend
<1>2. Append(q, e) \in Seq(Entry)
  BY AppendProperties
<1>3. OfUser[e] = IF IsUser(e) THEN e.of ELSE <<>>
  BY DEF OfUser
<1>4. Typed(q) = Joined(OfUser, q) /\ Typed(Append(q, e)) = Joined(OfUser, Append(q, e))
  BY <1>2, TypedIs
<1>. QED
  BY <1>1, <1>3, <1>4

LEMMA TypedConcat ==
    ASSUME NEW p \in Seq(Entry), NEW q \in Seq(Entry)
    PROVE  Typed(p \o q) = Typed(p) \o Typed(q)
<1>1. Joined(OfUser, p \o q) = Joined(OfUser, p) \o Joined(OfUser, q)
  BY OfUserIs, JoinedConcat
<1>2. p \o q \in Seq(Entry)
  BY ConcatProperties
<1>3. /\ Typed(p) = Joined(OfUser, p) /\ Typed(q) = Joined(OfUser, q)
      /\ Typed(p \o q) = Joined(OfUser, p \o q)
  BY <1>2, TypedIs
<1>. QED
  BY <1>1, <1>3

LEMMA TypedOne ==
    ASSUME NEW e \in Entry
    PROVE  <<e>> \in Seq(Entry) /\ Typed(<<e>>) = IF IsUser(e) THEN e.of ELSE <<>>
<1>1. <<>> \in Seq(Entry) /\ Append(<<>>, e) = <<e>>
  OBVIOUS
<1>2. Typed(Append(<<>>, e)) = Typed(<<>>) \o (IF IsUser(e) THEN e.of ELSE <<>>)
  BY <1>1, TypedAppend
<1>3. (IF IsUser(e) THEN e.of ELSE <<>>) \in Seq(1 .. Prompts)
  <2>1. IsUser(e) => e.of \in Seq(1 .. Prompts)
    BY EntryIs
  <2>2. <<>> \in Seq(1 .. Prompts)
    OBVIOUS
  <2>. QED
    BY <2>1, <2>2, Zenon
<1>4. <<>> \o (IF IsUser(e) THEN e.of ELSE <<>>) = IF IsUser(e) THEN e.of ELSE <<>>
  BY ONLY <1>3, ConcatEmptySeq
<1>5. Typed(<<>>) = <<>>
  BY TypedNone
<1>6. Typed(<<e>>) = <<>> \o (IF IsUser(e) THEN e.of ELSE <<>>)
  BY <1>1, <1>2, <1>5, Zenon
<1>7. <<e>> \in Seq(Entry)
  OBVIOUS
<1>. QED
  BY <1>4, <1>6, <1>7, Zenon

LEMMA TypedTail ==
    ASSUME NEW q \in Seq(Entry), q # <<>>
    PROVE  /\ Head(q) \in Entry /\ Tail(q) \in Seq(Entry)
           /\ ToSet(q) = {Head(q)} \cup ToSet(Tail(q))
           /\ Typed(q) = (IF IsUser(Head(q)) THEN Head(q).of ELSE <<>>) \o Typed(Tail(q))
<1>1. /\ q = <<Head(q)>> \o Tail(q) /\ <<Head(q)>> \in Seq(Entry)
      /\ Head(q) \in Entry /\ Tail(q) \in Seq(Entry)
  BY HeadTail
<1>2. Typed(<<Head(q)>> \o Tail(q)) = Typed(<<Head(q)>>) \o Typed(Tail(q))
  BY ONLY <1>1, TypedConcat
<1>3. Typed(<<Head(q)>>) = IF IsUser(Head(q)) THEN Head(q).of ELSE <<>>
  BY <1>1, TypedOne
<1>4. ToSet(<<Head(q)>> \o Tail(q)) = ToSet(<<Head(q)>>) \cup ToSet(Tail(q))
  BY <1>1, ElementsConcat, ZenonT(40)
<1>5. ToSet(<<Head(q)>>) = {Head(q)}
  BY ElementsOne
<1>. QED
  BY <1>1, <1>2, <1>3, <1>4, <1>5

LEMMA TypedElements ==
    ASSUME NEW q \in Seq(Entry)
    PROVE  \A x : x \in ToSet(Typed(q)) <=> \E e \in ToSet(q) : IsUser(e) /\ x \in ToSet(e.of)
<1>1. \A x : x \in ToSet(Joined(OfUser, q)) <=> \E e \in ToSet(q) : x \in ToSet(OfUser[e])
  BY OfUserIs, JoinedElements DEF JoinsTo
<1>2. ToSet(q) \subseteq Entry
  BY ElementsIn
<1>3. ASSUME NEW e \in ToSet(q)
      PROVE  \A x : x \in ToSet(OfUser[e]) <=> IsUser(e) /\ x \in ToSet(e.of)
  <2>1. OfUser[e] = IF IsUser(e) THEN e.of ELSE <<>>
    BY <1>2 DEF OfUser
  <2>2. ToSet(<<>>) = {}
    BY ElementsNone
  <2>. QED
    BY <2>1, <2>2
<1>4. Typed(q) = Joined(OfUser, q)
  BY TypedIs
<1>. QED
  BY <1>1, <1>3, <1>4, Zenon

LEMMA TypedParts ==
    ASSUME NEW q \in Seq(Entry), IsInjective(Typed(q))
    PROVE  /\ \A d \in ToSet(q) : IsUser(d) => IsInjective(d.of)
           /\ \A d, e \in ToSet(q) : IsUser(d) /\ IsUser(e) /\ d # e => ToSet(d.of) \cap ToSet(e.of) = {}
<1>1. IsInjective(Joined(OfUser, q))
  BY TypedIs
<1>2. /\ \A d \in ToSet(q) : IsInjective(OfUser[d])
      /\ \A d, e \in ToSet(q) : d # e => ToSet(OfUser[d]) \cap ToSet(OfUser[e]) = {}
  BY <1>1, OfUserIs, JoinedParts
<1>3. \A e \in ToSet(q) : IsUser(e) => OfUser[e] = e.of
  BY ElementsIn DEF OfUser
<1>. QED
  BY <1>2, <1>3

LEMMA TypedWakes ==
    ASSUME NEW q \in Seq(Entry), \A e \in ToSet(q) : IsWake(e)
    PROVE  Typed(q) = <<>>
<1>1. \A e \in ToSet(q) : ~IsUser(e)
  BY DEF IsWake, IsUser
<1>2. ToSet(Typed(q)) = {}
  BY <1>1, TypedElements
<1>. QED
  BY <1>2, TypedType, ElementsIn

LEMMA OnlyType == ASSUME NEW q \in Seq(Entry), NEW S PROVE Only(q, S) \in Seq(Entry)
<1>1. Joined(KeepIn(S), q) \in Seq(Entry)
  BY KeepInIs, JoinedType
<1>. QED
  BY <1>1, OnlyIs

LEMMA OnlyAppend ==
    ASSUME NEW q \in Seq(Entry), NEW e \in Entry, NEW S
    PROVE  Only(Append(q, e), S) = IF e \in S THEN Append(Only(q, S), e) ELSE Only(q, S)
<1>1. Joined(KeepIn(S), Append(q, e)) = Joined(KeepIn(S), q) \o KeepIn(S)[e]
  BY KeepInIs, JoinedAppend, SMTT(30)
<1>2. Append(q, e) \in Seq(Entry)
  BY AppendProperties
<1>3. KeepIn(S)[e] = IF e \in S THEN <<e>> ELSE <<>>
  BY DEF KeepIn
<1>4. Only(q, S) = Joined(KeepIn(S), q) /\ Only(Append(q, e), S) = Joined(KeepIn(S), Append(q, e))
  BY <1>2, OnlyIs
<1>5. Only(q, S) \in Seq(Entry)
  BY OnlyType
<1>6. Only(q, S) \o <<e>> = Append(Only(q, S), e) /\ Only(q, S) \o <<>> = Only(q, S)
  BY <1>5, AppendIsConcat, ConcatEmptySeq
<1>. QED
  BY <1>1, <1>3, <1>4, <1>6

LEMMA OnlyElements ==
    ASSUME NEW q \in Seq(Entry), NEW S
    PROVE  ToSet(Only(q, S)) = ToSet(q) \cap S
<1>1. \A x : x \in ToSet(Joined(KeepIn(S), q)) <=> \E e \in ToSet(q) : x \in ToSet(KeepIn(S)[e])
  BY KeepInIs, JoinedElements DEF JoinsTo
<1>2. ToSet(q) \subseteq Entry
  BY ElementsIn
<1>3. ASSUME NEW e \in ToSet(q)
      PROVE  ToSet(KeepIn(S)[e]) = IF e \in S THEN {e} ELSE {}
  <2>1. KeepIn(S)[e] = IF e \in S THEN <<e>> ELSE <<>>
    BY <1>2 DEF KeepIn
  <2>2. ToSet(<<>>) = {} /\ ToSet(<<e>>) = {e}
    BY ElementsNone, ElementsOne
  <2>. QED
    BY <2>1, <2>2
<1>4. Only(q, S) = Joined(KeepIn(S), q)
  BY OnlyIs
<1>5. ASSUME NEW x PROVE x \in ToSet(Joined(KeepIn(S), q)) <=> x \in ToSet(q) /\ x \in S
  <2>1. \A e \in ToSet(q) : x \in ToSet(KeepIn(S)[e]) <=> e = x /\ e \in S
    BY <1>3
  <2>2. x \in ToSet(Joined(KeepIn(S), q)) <=> \E e \in ToSet(q) : x \in ToSet(KeepIn(S)[e])
    BY <1>1, Zenon
  <2>. QED
    BY <2>1, <2>2
<1>. QED
  BY <1>4, <1>5

\* A filter that keeps what the user typed keeps all of it.
LEMMA OnlyUsers ==
    ASSUME NEW q \in Seq(Entry), NEW S, \A e \in ToSet(q) : IsUser(e) => e \in S
    PROVE  Typed(Only(q, S)) = Typed(q)
<1>. DEFINE Same(r) == (\A e \in ToSet(r) : IsUser(e) => e \in S) => Typed(Only(r, S)) = Typed(r)
            G == {r \in Seq(Entry) : Same(r)}
<1>1. <<>> \in G
  <2>1. Only(<<>>, S) = <<>> /\ <<>> \in Seq(Entry)
    <3>1. <<>> \in Seq(Entry) /\ Joined(KeepIn(S), <<>>) = <<>>
      BY JoinedNone
    <3>. QED
      BY <3>1, OnlyIs
  <2>. QED
    BY <2>1
<1>2. ASSUME NEW r \in G, NEW e \in Entry PROVE Append(r, e) \in G
  <2>1. Append(r, e) \in Seq(Entry) /\ r \in Seq(Entry) /\ Same(r)
    BY AppendProperties
  <2>2. ASSUME \A d \in ToSet(Append(r, e)) : IsUser(d) => d \in S
        PROVE  Typed(Only(Append(r, e), S)) = Typed(Append(r, e))
    <3>1. ToSet(Append(r, e)) = ToSet(r) \cup {e}
      BY <2>1, ElementsAppend
    <3>2. Typed(Only(r, S)) = Typed(r) /\ (IsUser(e) => e \in S)
      BY <2>1, <2>2, <3>1
    <3>3. Typed(Append(r, e)) = Typed(r) \o (IF IsUser(e) THEN e.of ELSE <<>>)
      BY <2>1, TypedAppend
    <3>4. Only(Append(r, e), S) = IF e \in S THEN Append(Only(r, S), e) ELSE Only(r, S)
      BY <2>1, OnlyAppend
    <3>5. Only(r, S) \in Seq(Entry)
      BY <2>1, OnlyType
    <3>6. Typed(Append(Only(r, S), e)) = Typed(Only(r, S)) \o (IF IsUser(e) THEN e.of ELSE <<>>)
      BY <3>5, TypedAppend
    <3>7. Typed(r) \o <<>> = Typed(r)
      BY <2>1, TypedType, ConcatEmptySeq
    <3>. QED
      BY <3>2, <3>3, <3>4, <3>6, <3>7
  <2>. QED
    BY <2>1, <2>2
<1>3. G \in SUBSET Seq(Entry)
  OBVIOUS
<1>4. \A r \in Seq(Entry) : r \in G
  <2>. HIDE DEF G
  <2>. QED
    BY <1>1, <1>2, <1>3, BySteps
<1>. QED
  BY <1>4

\* No two wakes are for the same job or delegation.
WakesDiffer(s) ==
    \A i, j \in DOMAIN s : i # j /\ IsWake(s[i]) /\ s[i].kind = s[j].kind => s[i].of # s[j].of

Rivals(x, y) == IsWake(x) /\ x.kind = y.kind /\ x.of = y.of

LEMMA WakesConcat ==
    ASSUME NEW s \in Seq(Entry), NEW t \in Seq(Entry)
    PROVE  WakesDiffer(s \o t) <=>
             /\ WakesDiffer(s) /\ WakesDiffer(t)
             /\ \A x \in ToSet(s), y \in ToSet(t) : ~Rivals(x, y)
<1>1. /\ Len(s) \in Nat /\ Len(t) \in Nat /\ DOMAIN s = 1 .. Len(s) /\ DOMAIN t = 1 .. Len(t)
      /\ DOMAIN (s \o t) = 1 .. Len(s) + Len(t)
      /\ \A k \in 1 .. Len(s) : (s \o t)[k] = s[k]
      /\ \A j \in 1 .. Len(t) : (s \o t)[Len(s) + j] = t[j]
  BY ConcatIs
<1>2. ASSUME WakesDiffer(s \o t)
      PROVE  /\ WakesDiffer(s) /\ WakesDiffer(t)
             /\ \A x \in ToSet(s), y \in ToSet(t) : ~Rivals(x, y)
  <2>0. \A a, b \in DOMAIN (s \o t) : Rivals((s \o t)[a], (s \o t)[b]) => a = b
    BY <1>2, Zenon DEF WakesDiffer, Rivals
  <2>1. ASSUME NEW a \in DOMAIN s, NEW b \in DOMAIN s, Rivals(s[a], s[b]) PROVE a = b
    <3>1. a \in DOMAIN (s \o t) /\ b \in DOMAIN (s \o t) /\ Rivals((s \o t)[a], (s \o t)[b])
      BY <1>1, <2>1
    <3>. QED
      BY <2>0, <3>1
  <2>2. ASSUME NEW a \in DOMAIN t, NEW b \in DOMAIN t, Rivals(t[a], t[b]) PROVE a = b
    <3>1. /\ Len(s) + a \in DOMAIN (s \o t) /\ Len(s) + b \in DOMAIN (s \o t)
          /\ Rivals((s \o t)[Len(s) + a], (s \o t)[Len(s) + b])
      BY <1>1, <2>2
    <3>2. Len(s) + a = Len(s) + b
      BY <2>0, <3>1
    <3>. QED
      BY <1>1, <3>2
  <2>3. ASSUME NEW a \in DOMAIN s, NEW b \in DOMAIN t, Rivals(s[a], t[b]) PROVE FALSE
    <3>1. /\ a \in DOMAIN (s \o t) /\ Len(s) + b \in DOMAIN (s \o t)
          /\ Rivals((s \o t)[a], (s \o t)[Len(s) + b])
      BY <1>1, <2>3
    <3>2. a = Len(s) + b
      BY <2>0, <3>1
    <3>. QED
      BY <1>1, <3>2
  <2>4. WakesDiffer(s)
    BY <2>1, Zenon DEF WakesDiffer, Rivals
  <2>5. WakesDiffer(t)
    BY <2>2, Zenon DEF WakesDiffer, Rivals
  <2>. QED
    BY <2>3, <2>4, <2>5, Zenon DEF ToSet
<1>3. ASSUME WakesDiffer(s), WakesDiffer(t), \A x \in ToSet(s), y \in ToSet(t) : ~Rivals(x, y)
      PROVE  WakesDiffer(s \o t)
  <2>0. /\ \A a, b \in DOMAIN s : Rivals(s[a], s[b]) => a = b
        /\ \A a, b \in DOMAIN t : Rivals(t[a], t[b]) => a = b
        /\ \A a \in DOMAIN s, b \in DOMAIN t : ~Rivals(s[a], t[b]) /\ ~Rivals(t[b], s[a])
    <3>1. \A a, b \in DOMAIN s : Rivals(s[a], s[b]) => a = b
      BY <1>3, Zenon DEF WakesDiffer, Rivals
    <3>2. \A a, b \in DOMAIN t : Rivals(t[a], t[b]) => a = b
      BY <1>3, Zenon DEF WakesDiffer, Rivals
    <3>3. ASSUME NEW a \in DOMAIN s, NEW b \in DOMAIN t
          PROVE  ~Rivals(s[a], t[b]) /\ ~Rivals(t[b], s[a])
      <4>1. s[a] \in ToSet(s) /\ t[b] \in ToSet(t)
        BY Zenon DEF ToSet
      <4>2. ~Rivals(s[a], t[b])
        BY <1>3, <4>1
      <4>. QED
        BY <4>2 DEF Rivals, IsWake
    <3>. QED
      BY <3>1, <3>2, <3>3
  <2>1. ASSUME NEW a \in DOMAIN (s \o t), NEW b \in DOMAIN (s \o t), Rivals((s \o t)[a], (s \o t)[b])
        PROVE  a = b
    <3>1. \/ a \in DOMAIN s /\ (s \o t)[a] = s[a]
          \/ \E j \in DOMAIN t : a = Len(s) + j /\ (s \o t)[a] = t[j]
      BY ConcatPlaces
    <3>2. \/ b \in DOMAIN s /\ (s \o t)[b] = s[b]
          \/ \E j \in DOMAIN t : b = Len(s) + j /\ (s \o t)[b] = t[j]
      BY ConcatPlaces
    <3>. QED
      BY <2>0, <2>1, <3>1, <3>2, Zenon
  <2>. QED
    BY <2>1, Zenon DEF WakesDiffer, Rivals
<1>. QED
  BY <1>2, <1>3

LEMMA WakesFew ==
    /\ WakesDiffer(<<>>)
    /\ \A e : WakesDiffer(<<e>>)
<1>1. DOMAIN <<>> = {} /\ \A e : DOMAIN <<e>> = {1}
  OBVIOUS
<1>. QED
  BY <1>1 DEF WakesDiffer

LEMMA OnlyWakes ==
    ASSUME NEW q \in Seq(Entry), NEW S, WakesDiffer(q)
    PROVE  WakesDiffer(Only(q, S))
<1>. DEFINE Same(r) == WakesDiffer(r) => WakesDiffer(Only(r, S))
            G == {r \in Seq(Entry) : Same(r)}
<1>1. <<>> \in G
  <2>1. Only(<<>>, S) = <<>> /\ <<>> \in Seq(Entry)
    <3>1. <<>> \in Seq(Entry) /\ Joined(KeepIn(S), <<>>) = <<>>
      BY JoinedNone
    <3>. QED
      BY <3>1, OnlyIs
  <2>. QED
    BY <2>1
<1>2. ASSUME NEW r \in G, NEW e \in Entry PROVE Append(r, e) \in G
  <2>1. Append(r, e) \in Seq(Entry) /\ r \in Seq(Entry) /\ Same(r)
    BY AppendProperties
  <2>2. ASSUME WakesDiffer(Append(r, e)) PROVE WakesDiffer(Only(Append(r, e), S))
    <3>1. Append(r, e) = r \o <<e>> /\ <<e>> \in Seq(Entry)
      BY <2>1, AppendIsConcat
    <3>2. WakesDiffer(r) /\ \A x \in ToSet(r), y \in ToSet(<<e>>) : ~Rivals(x, y)
      BY <2>1, <2>2, <3>1, WakesConcat
    <3>3. WakesDiffer(Only(r, S)) /\ Only(r, S) \in Seq(Entry) /\ ToSet(Only(r, S)) \subseteq ToSet(r)
      BY <2>1, <3>2, OnlyType, OnlyElements
    <3>4. Only(Append(r, e), S) = IF e \in S THEN Append(Only(r, S), e) ELSE Only(r, S)
      BY <2>1, OnlyAppend
    <3>5. Append(Only(r, S), e) = Only(r, S) \o <<e>>
      BY <3>3, AppendIsConcat
    <3>6. \A x \in ToSet(Only(r, S)), y \in ToSet(<<e>>) : ~Rivals(x, y)
      BY <3>2, <3>3
    <3>7. WakesDiffer(<<e>>)
      BY WakesFew
    <3>8. WakesDiffer(Only(r, S) \o <<e>>)
      BY <3>1, <3>3, <3>6, <3>7, WakesConcat
    <3>. QED
      BY <3>3, <3>4, <3>5, <3>8
  <2>. QED
    BY <2>1, <2>2
<1>3. G \in SUBSET Seq(Entry)
  OBVIOUS
<1>4. \A r \in Seq(Entry) : r \in G
  <2>. HIDE DEF G
  <2>. QED
    BY <1>1, <1>2, <1>3, BySteps
<1>. QED
  BY <1>4

-----------------------------------------------------------------------------
(* The calls and the steps on variables that several actions share *)

LEMMA CallIs ==
    ASSUME NEW c \in Call
    PROVE  /\ c.entry \in Entry /\ c.drained \in BOOLEAN /\ c.gen \in 0 .. MaxClear
           /\ c.step \in {"expanding", "running", "winding"} /\ c.own \in SUBSET Task
BY DEF Call

\* What becomes of a call, by the step it takes.
Ran(c) == [c EXCEPT !.step = "running"]
Wound(c) == [c EXCEPT !.step = "winding"]
Saw(c, t) == [c EXCEPT !.own = @ \cup {t}]
Forgot(c) == [c EXCEPT !.own = {}]

LEMMA RanIs ==
    ASSUME NEW c \in Call
    PROVE  /\ Ran(c) \in Call /\ Ran(c).entry = c.entry /\ Ran(c).gen = c.gen
           /\ Ran(c).step = "running" /\ Ran(c).own = c.own
BY DEF Call, Ran

LEMMA WoundIs ==
    ASSUME NEW c \in Call
    PROVE  Wound(c) \in Call /\ Wound(c).step = "winding"
BY DEF Call, Wound

LEMMA SawIs ==
    ASSUME NEW c \in Call, NEW t \in Task
    PROVE  /\ Saw(c, t) \in Call /\ Saw(c, t).entry = c.entry /\ Saw(c, t).gen = c.gen
           /\ Saw(c, t).step = c.step /\ Saw(c, t).own = c.own \cup {t}
BY DEF Call, Saw

LEMMA ForgotIs ==
    ASSUME NEW c \in Call
    PROVE  /\ Forgot(c) \in Call /\ Forgot(c).entry = c.entry /\ Forgot(c).gen = c.gen
           /\ Forgot(c).step = c.step /\ Forgot(c).own = {}
BY DEF Call, Forgot

NewCall(e, q, s) == [entry |-> e, drained |-> q, gen |-> gen, step |-> s, own |-> {}]

LEMMA NewCallIs ==
    ASSUME NEW e \in Entry, NEW q \in BOOLEAN, gen \in 0 .. MaxClear,
           NEW s \in {"expanding", "running", "winding"}
    PROVE  /\ NewCall(e, q, s) \in Call /\ NewCall(e, q, s).entry = e /\ NewCall(e, q, s).gen = gen
           /\ NewCall(e, q, s).step = s /\ NewCall(e, q, s).own = {}
BY DEF Call, NewCall

LEMMA UserEntryIs ==
    ASSUME NEW s \in Seq(1 .. Prompts), NEW g \in 0 .. MaxClear
    PROVE  LET e == [kind |-> "user", of |-> s, gen |-> g]
           IN  e \in Entry /\ IsUser(e) /\ e.of = s /\ e.gen = g
BY DEF Entry, IsUser

LEMMA JobEntryIs ==
    ASSUME NEW t \in Task, NEW g \in 0 .. MaxClear
    PROVE  LET e == [kind |-> "job", of |-> t, gen |-> g]
           IN  e \in Entry /\ IsWake(e) /\ ~IsUser(e) /\ e.kind = "job" /\ e.of = t /\ e.gen = g
BY DEF Entry, IsUser, IsWake

LEMMA DelegationEntryIs ==
    ASSUME NEW d \in Delegation, NEW g \in 0 .. MaxClear
    PROVE  LET e == [kind |-> "delegation", of |-> d, gen |-> g]
           IN  e \in Entry /\ IsWake(e) /\ ~IsUser(e) /\ e.kind = "delegation" /\ e.of = d /\ e.gen = g
BY DEF Entry, IsUser, IsWake

\* submit(): the call waits for its command, or is a turn.
Waits(e, q) == /\ IsUser(e) /\ Head(e.of) \in Slash
               /\ turns' = turns \cup {NewCall(e, q, "expanding")}
               /\ UNCHANGED <<status, aborted, sent, overlapped>>
Begins(e, q) == /\ turns' = turns \cup {NewCall(e, q, "running")}
                /\ status' = "streaming" /\ aborted' = FALSE /\ sent' = Append(sent, e)
                /\ Overlaps

LEMMA SubmitIs ==
    ASSUME NEW e, NEW q, Submit(e, q)
    PROVE  Waits(e, q) \/ Begins(e, q)
<1>1. CASE IsUser(e) /\ Head(e.of) \in Slash
  BY <1>1 DEF Submit, Waits, NewCall
<1>2. CASE ~(IsUser(e) /\ Head(e.of) \in Slash)
  <2>1. StartTurn(NewCall(e, q, "expanding"))
    BY <1>2 DEF Submit, NewCall
  <2>2. [NewCall(e, q, "expanding") EXCEPT !.step = "running"] = NewCall(e, q, "running")
    BY DEF NewCall
  <2>3. NewCall(e, q, "expanding").entry = e
    BY DEF NewCall
  <2>. QED
    BY <2>1, <2>2, <2>3 DEF StartTurn, Begins
<1>. QED
  BY <1>1, <1>2

\* What AfterCall() leaves.
LEMMA AfterCallIs ==
    ASSUME NEW c, AfterCall(c)
    PROVE  turns' = turns \ {c} \/ turns' = (turns \ {c}) \cup {Wound(c)}
<1>1. {x \in {[c EXCEPT !.step = "winding"]} : x.drained} = {} \/
      {x \in {[c EXCEPT !.step = "winding"]} : x.drained} = {Wound(c)}
  BY DEF Wound
<1>. QED
  BY <1>1 DEF AfterCall

\* The wakes of delegations that settled.
DelegationWakes(q) ==
    /\ q \in Seq(Entry) /\ WakesDiffer(q)
    /\ \A e \in ToSet(q) : e.kind = "delegation" /\ e.of \in Delegation \ woken /\ e.gen = gen

LEMMA EnqueueIs ==
    ASSUME NEW L, EnqueueDelegations(L), gen \in 0 .. MaxClear
    PROVE  \E D \in SUBSET Delegation, q \in Seq(Entry) :
             /\ DelegationWakes(q) /\ woken' = woken \cup D /\ queue' = queue \o q
             /\ \A e \in ToSet(q) : e.of \in D
<1>. DEFINE due == {d \in Delegation : L[d] = "settled"} \ woken
            W == {[kind |-> "delegation", of |-> d, gen |-> gen] : d \in due}
            q == SetToSeq(W)
<1>1. woken' = woken \cup due /\ queue' = queue \o q
  BY DEF EnqueueDelegations
<1>2. due \subseteq Delegation /\ due \cap woken = {}
  OBVIOUS
<1>. HIDE DEF due
<1>3. ASSUME NEW e \in W
      PROVE  e \in Entry /\ e.kind = "delegation" /\ e.of \in due /\ e.gen = gen
  BY <1>2, DelegationEntryIs
<1>4. \A x, y \in W : x.of = y.of => x = y
  OBVIOUS
<1>5. IsFiniteSet(W)
  <2>1. IsFiniteSet(due)
    BY <1>2, DelegationAssumption, FS_Subset
  <2>2. [d \in due |-> [kind |-> "delegation", of |-> d, gen |-> gen]] \in Surjection(due, W)
    BY DEF Surjection
  <2>. QED
    BY <2>1, <2>2, FS_Surjection
<1>. HIDE DEF W
<1>6. q \in Seq(W) /\ ToSet(q) \subseteq W /\ IsInjective(q)
  BY <1>5, SetToSeqIs
<1>. HIDE DEF q
<1>7. q \in Seq(Entry)
  BY <1>3, <1>6, SeqMonotonic
<1>8. \A e \in ToSet(q) : e.kind = "delegation" /\ e.of \in due /\ e.gen = gen
  BY <1>3, <1>6
<1>9. WakesDiffer(q)
  <2>1. \A i \in DOMAIN q : q[i] \in W
    BY <1>6 DEF ToSet
  <2>2. \A i, j \in DOMAIN q : q[i] = q[j] => i = j
    BY <1>6 DEF IsInjective
  <2>. QED
    BY <1>4, <2>1, <2>2 DEF WakesDiffer
<1>10. DelegationWakes(q)
  BY <1>2, <1>7, <1>8, <1>9, Zenon DEF DelegationWakes
<1>. QED
  BY <1>1, <1>2, <1>7, <1>8, <1>10, Zenon

\* The wake of a job whose tail was read.
LEMMA TailReadIs ==
    ASSUME NEW t \in Task, TailRead(t), tail[t] \subseteq 0 .. MaxClear
    PROVE  \/ queue' = queue
           \/ \E q \in Seq(Entry) :
                /\ queue' = queue \o q /\ IsInjective(q)
                /\ \A e \in ToSet(q) : e.kind = "job" /\ e.of = t /\ e.gen \in tail[t]
                /\ \A d, e \in ToSet(q) : d.gen = e.gen => d = e
<1>. DEFINE W == {[kind |-> "job", of |-> t, gen |-> g] : g \in tail[t]}
            q == SetToSeq(W)
<1>1. queue' = queue \/ queue' = queue \o q
  BY DEF TailRead
<1>2. ASSUME NEW e \in W
      PROVE  e \in Entry /\ e.kind = "job" /\ e.of = t /\ e.gen \in tail[t]
  BY JobEntryIs
<1>3. \A d, e \in W : d.gen = e.gen => d = e
  OBVIOUS
<1>4. IsFiniteSet(W)
  <2>1. IsFiniteSet(tail[t])
    <3>1. IsFiniteSet(0 .. MaxClear)
      BY PromptsAssumption, FS_Interval
    <3>. QED
      BY <3>1, FS_Subset
  <2>2. [g \in tail[t] |-> [kind |-> "job", of |-> t, gen |-> g]] \in Surjection(tail[t], W)
    BY DEF Surjection
  <2>. QED
    BY <2>1, <2>2, FS_Surjection
<1>. HIDE DEF W
<1>5. q \in Seq(W) /\ ToSet(q) \subseteq W /\ IsInjective(q)
  BY <1>4, SetToSeqIs
<1>. HIDE DEF q
<1>6. q \in Seq(Entry)
  BY <1>2, <1>5, SeqMonotonic
<1>7. \A e \in ToSet(q) : e.kind = "job" /\ e.of = t /\ e.gen \in tail[t]
  BY <1>2, <1>5
<1>8. \A d, e \in ToSet(q) : d.gen = e.gen => d = e
  BY <1>3, <1>5
<1>. QED
  BY <1>1, <1>5, <1>6, <1>7, <1>8, Zenon

-----------------------------------------------------------------------------
(* The queue given back and the queue drained *)

LEMMA ReturnIs ==
    ASSUME NEW q \in Seq(Entry), editor \in Seq(1 .. Prompts), ReturnToEditor(q)
    PROVE  /\ queue' \in Seq(Entry) /\ ToSet(queue') = {e \in ToSet(q) : IsWake(e)}
           /\ Typed(queue') = <<>> /\ (WakesDiffer(q) => WakesDiffer(queue'))
           /\ editor' = Typed(q) \o editor /\ editor' \in Seq(1 .. Prompts)
<1>. DEFINE W == {e \in ToSet(q) : IsWake(e)}
<1>1. queue' = Only(q, W) /\ editor' = Typed(q) \o editor
  BY DEF ReturnToEditor, TakeBackDraft
<1>2. Only(q, W) \in Seq(Entry) /\ ToSet(Only(q, W)) = ToSet(q) \cap W
  BY OnlyType, OnlyElements
<1>3. ToSet(q) \cap W = W /\ \A e \in W : IsWake(e)
  OBVIOUS
<1>4. WakesDiffer(q) => WakesDiffer(Only(q, W))
  BY OnlyWakes
<1>. HIDE DEF W
<1>5. Typed(Only(q, W)) = <<>>
  BY <1>2, <1>3, TypedWakes
<1>6. Typed(q) \in Seq(1 .. Prompts)
  BY TypedType
<1>7. Typed(q) \o editor \in Seq(1 .. Prompts)
  BY <1>6, ConcatProperties
<1>. QED
  BY <1>1, <1>2, <1>3, <1>4, <1>5, <1>7, Zenon DEF W

\* What the drain does: nothing; a queue of pointless wakes emptied; or the first
\* entry that matters taken out.
DrainStays == UNCHANGED <<queue, draining, turns, status, aborted, sent, overlapped>>
DrainTakes(e, q) ==
    /\ shown = "idle" /\ asking = "nobody" /\ ~clearing /\ draining' = TRUE
    /\ e \in Entry /\ q \in Seq(Entry) /\ queue' = q
    /\ ToSet(q) \subseteq ToSet(queue) /\ e \in ToSet(queue) /\ ~Pointless(e)
    /\ Typed(queue) = (IF IsUser(e) THEN e.of ELSE <<>>) \o Typed(q)
    /\ WakesDiffer(queue) => WakesDiffer(q) /\ \A x \in ToSet(q) : ~Rivals(e, x)
    /\ Submit(e, TRUE)
DrainEmpties == /\ shown = "idle" /\ Typed(queue) = <<>> /\ queue' = <<>>
                /\ UNCHANGED <<draining, turns, status, aborted, sent, overlapped>>

LEMMA DrainIs ==
    ASSUME queue \in Seq(Entry), Drain
    PROVE  DrainStays \/ DrainEmpties \/ \E e, q : DrainTakes(e, q)
<1>. DEFINE S == {entry \in ToSet(queue) : ~Pointless(entry)}
            r == Only(queue, S)
<1>1. r \in Seq(Entry) /\ ToSet(r) = ToSet(queue) \cap S /\ (WakesDiffer(queue) => WakesDiffer(r))
  BY OnlyType, OnlyElements, OnlyWakes
<1>2. ToSet(queue) \cap S = S /\ S \subseteq ToSet(queue) /\ \A e \in S : ~Pointless(e)
  OBVIOUS
<1>3. \A e \in ToSet(queue) : IsUser(e) => e \in S
  BY DEF Pointless, IsUser
<1>4. Typed(r) = Typed(queue)
  BY <1>3, OnlyUsers
<1>5. \/ DrainStays
      \/ /\ shown = "idle" /\ r = <<>> /\ queue' = <<>>
         /\ UNCHANGED <<draining, turns, status, aborted, sent, overlapped>>
      \/ /\ ~draining /\ shown = "idle" /\ asking = "nobody" /\ ~clearing /\ r # <<>>
         /\ draining' = TRUE /\ queue' = Tail(r) /\ Submit(Head(r), TRUE)
  BY Zenon DEF Drain, DrainStays
<1>. HIDE DEF r, S
<1>6. CASE r = <<>> /\ queue' = <<>> /\ shown = "idle"
           /\ UNCHANGED <<draining, turns, status, aborted, sent, overlapped>>
  BY <1>4, <1>6, TypedNone DEF DrainEmpties
<1>7. CASE /\ ~draining /\ shown = "idle" /\ asking = "nobody" /\ ~clearing /\ r # <<>>
           /\ draining' = TRUE /\ queue' = Tail(r) /\ Submit(Head(r), TRUE)
  <2>1. /\ Head(r) \in Entry /\ Tail(r) \in Seq(Entry)
        /\ ToSet(r) = {Head(r)} \cup ToSet(Tail(r))
        /\ Typed(r) = (IF IsUser(Head(r)) THEN Head(r).of ELSE <<>>) \o Typed(Tail(r))
    BY <1>1, <1>7, TypedTail
  <2>2. ToSet(Tail(r)) \subseteq ToSet(queue) /\ Head(r) \in ToSet(queue) /\ ~Pointless(Head(r))
    BY <1>1, <1>2, <2>1
  <2>3. WakesDiffer(r) => WakesDiffer(Tail(r)) /\ \A x \in ToSet(Tail(r)) : ~Rivals(Head(r), x)
    <3>1. r = <<Head(r)>> \o Tail(r) /\ <<Head(r)>> \in Seq(Entry)
      BY <1>1, <1>7, HeadTail
    <3>2. ToSet(<<Head(r)>>) = {Head(r)}
      BY ElementsOne
    <3>3. WakesDiffer(<<Head(r)>> \o Tail(r)) <=>
            /\ WakesDiffer(<<Head(r)>>) /\ WakesDiffer(Tail(r))
            /\ \A x \in ToSet(<<Head(r)>>), y \in ToSet(Tail(r)) : ~Rivals(x, y)
      BY ONLY <2>1, <3>1, WakesConcat
    <3>. QED
      BY <3>1, <3>2, <3>3
  <2>4. DrainTakes(Head(r), Tail(r))
    BY <1>1, <1>4, <1>7, <2>1, <2>2, <2>3 DEF DrainTakes
  <2>. QED
    BY <2>4
<1>. QED
  BY <1>5, <1>6, <1>7

-----------------------------------------------------------------------------
(* The types *)

\* A conversation is only cleared while a successor is allowed.
ClearsInTime == clearing => gen < MaxClear

WakeTypes == TypeOK /\ ClearsInTime

\* What was rendered, and what is recorded of it.
Screen == /\ shown \in {"idle", "streaming"} /\ armed \in {"nothing", "sweep", "drain"}
          /\ touched \in BOOLEAN /\ overlapped \in BOOLEAN /\ unrendered \in BOOLEAN

LEMMA ConcatType ==
    ASSUME NEW S, NEW s \in Seq(S), NEW t \in Seq(S)
    PROVE  s \o t \in Seq(S)
BY ConcatProperties

LEMMA SubmitTypes ==
    ASSUME TypeOK, NEW e \in Entry, NEW q \in BOOLEAN, Submit(e, q)
    PROVE  /\ turns' \subseteq Call /\ status' \in {"idle", "streaming"} /\ aborted' \in BOOLEAN
           /\ sent' \in Seq(Entry)
<1>1. Waits(e, q) \/ Begins(e, q)
  BY SubmitIs
<1>2. NewCall(e, q, "expanding") \in Call /\ NewCall(e, q, "running") \in Call
  BY NewCallIs DEF TypeOK
<1>3. Append(sent, e) \in Seq(Entry)
  BY AppendProperties DEF TypeOK
<1>. QED
  BY <1>1, <1>2, <1>3 DEF Waits, Begins, TypeOK

LEMMA WakeInitTypes == ASSUME WakeInit PROVE WakeTypes
<1>1. <<>> \in Seq(Entry) /\ <<>> \in Seq(1 .. Prompts)
  OBVIOUS
<1>2. 0 \in 0 .. MaxClear /\ 0 \in 0 .. Prompts
  BY PromptsAssumption
<1>3. /\ state \in [Task -> {"absent", "running"} \cup Terminal]
      /\ published \in [Task -> 0 .. 1]
      /\ tail \in [Task -> SUBSET (0 .. MaxClear)]
      /\ delegation \in [Delegation -> {"none", "running", "settled", "delivered", "lost"}]
  BY DEF WakeInit, Init
<1>4. queue \in Seq(Entry) /\ sent \in Seq(Entry) /\ editor \in Seq(1 .. Prompts)
  BY <1>1 DEF WakeInit
<1>5. /\ typed \in 0 .. Prompts /\ status \in {"idle", "streaming"} /\ turns \subseteq Call
      /\ {draining, aborted, clearing, clearFailed} \subseteq BOOLEAN /\ Screen
      /\ asking \in {"nobody", "turn", "child"} /\ gen \in 0 .. MaxClear /\ ~clearing
  BY <1>2 DEF WakeInit, Screen
<1>6. /\ seen \cup delivered \subseteq Task /\ told \subseteq Task \X (0 .. MaxClear)
      /\ woken \subseteq Delegation /\ held \subseteq 1 .. Prompts /\ dropped \subseteq Entry
  BY DEF WakeInit
<1>. QED
  BY <1>3, <1>4, <1>5, <1>6 DEF Screen, WakeTypes, TypeOK, ClearsInTime

LEMMA StutterTypes == ASSUME WakeTypes, UNCHANGED vars PROVE WakeTypes'
BY DEF WakeTypes, TypeOK, ClearsInTime, vars, jobVars, sessionVars, wakeVars, history, renderVars

\* What the user does.
LEMMA UserTypes == ASSUME WakeTypes, Screen', User PROVE WakeTypes'
<1>0. TypeOK /\ ClearsInTime
  BY DEF WakeTypes
<1>1. CASE Type
  <2>1. typed' = typed + 1 /\ typed' \in 1 .. Prompts
    BY <1>0, <1>1, PromptsAssumption DEF Type, TypeOK
  <2>2. editor' = Append(editor, typed')
    BY <1>1 DEF Type
  <2>3. editor' \in Seq(1 .. Prompts)
    BY <1>0, <2>1, <2>2, AppendProperties DEF TypeOK
  <2>. QED
    BY <1>0, <1>1, <2>1, <2>3
       DEF Type, Screen, WakeTypes, TypeOK, ClearsInTime, jobVars, wakeVars, history
<1>2. CASE Enter
  <2>. DEFINE e == [kind |-> "user", of |-> editor, gen |-> gen]
  <2>1. e \in Entry
    BY <1>0, UserEntryIs DEF TypeOK
  <2>2. \/ queue' = Append(queue, e) /\ UNCHANGED <<turns, status, aborted, sent>>
        \/ Submit(e, FALSE) /\ queue' = queue
    BY <1>2 DEF Enter
  <2>. HIDE DEF e
  <2>3. /\ turns' \subseteq Call /\ status' \in {"idle", "streaming"} /\ aborted' \in BOOLEAN
        /\ sent' \in Seq(Entry)
    <3>1. CASE Submit(e, FALSE)
      BY <1>0, <2>1, <3>1, SubmitTypes
    <3>2. CASE UNCHANGED <<turns, status, aborted, sent>>
      BY <1>0, <3>2 DEF TypeOK
    <3>. QED
      BY <2>2, <3>1, <3>2
  <2>4. queue' \in Seq(Entry)
    <3>1. queue \in Seq(Entry)
      BY <1>0 DEF TypeOK
    <3>2. Append(queue, e) \in Seq(Entry)
      BY <2>1, <3>1, AppendProperties
    <3>. QED
      BY <2>2, <3>1, <3>2
  <2>5. editor' \in Seq(1 .. Prompts) /\ held' \subseteq held
    BY <1>2 DEF Enter
  <2>6. UNCHANGED <<jobVars, wakeVars, typed, draining, clearing, asking, gen, told, dropped, clearFailed>>
    BY <1>2 DEF Enter
  <2>. QED
    BY <1>0, <2>3, <2>4, <2>5, <2>6 DEF Screen, WakeTypes, TypeOK, ClearsInTime, jobVars, wakeVars
<1>3. CASE TakeBack
  <2>1. queue' \in Seq(Entry) /\ editor' \in Seq(1 .. Prompts)
    BY <1>0, <1>3, ReturnIs DEF TakeBack, TypeOK
  <2>. QED
    BY <1>0, <1>3, <2>1
       DEF TakeBack, Screen, WakeTypes, TypeOK, ClearsInTime, jobVars, wakeVars, history
<1>4. CASE Interrupt
  <2>1. ToSet(Typed(queue)) \subseteq 1 .. Prompts
    <3>1. Typed(queue) \in Seq(1 .. Prompts)
      BY <1>0, TypedType DEF TypeOK
    <3>. QED
      BY <3>1, ElementsIn
  <2>2. held' \subseteq 1 .. Prompts
    BY <1>0, <1>4, <2>1 DEF Interrupt, TypeOK
  <2>. QED
    BY <1>0, <1>4, <2>2
       DEF Interrupt, Screen, WakeTypes, TypeOK, ClearsInTime, jobVars, wakeVars, history
<1>5. CASE Answer
  <2>. QED
    BY <1>0, <1>5 DEF Answer, Screen, WakeTypes, TypeOK, ClearsInTime, jobVars, wakeVars, history
<1>6. CASE ClearBegins
  <2>. QED
    BY <1>0, <1>6 DEF ClearBegins, Screen, WakeTypes, TypeOK, ClearsInTime, jobVars, wakeVars, history
<1>. QED
  BY <1>1, <1>2, <1>3, <1>4, <1>5, <1>6 DEF User

\* What a submit() under way does.
LEMMA CallTypes ==
    ASSUME WakeTypes, Screen', NEW c \in turns,
           Expanded(c) \/ ExpansionFails(c) \/ TurnEnds(c) \/ WindUp(c) \/ Continue(c)
             \/ \E t \in Task : ModelSees(c, t)
    PROVE  WakeTypes'
<1>0. TypeOK /\ ClearsInTime /\ c \in Call
  BY DEF WakeTypes, TypeOK
<1>1. /\ Ran(c) \in Call /\ Wound(c) \in Call /\ Forgot(c) \in Call
      /\ \A t \in Task : Saw(c, t) \in Call
  BY <1>0, RanIs, WoundIs, ForgotIs, SawIs
<1>2. ASSUME AfterCall(c) PROVE turns' \subseteq Call
  BY <1>0, <1>1, <1>2, AfterCallIs DEF TypeOK
<1>3. CASE Expanded(c)
  <2>1. turns' = (turns \ {c}) \cup {Ran(c)} /\ sent' = Append(sent, c.entry)
    BY <1>3 DEF Expanded, Ran
  <2>2. turns' \subseteq Call
    BY <1>0, <1>1, <2>1 DEF TypeOK
  <2>3. sent' \in Seq(Entry)
    <3>1. c.entry \in Entry /\ sent \in Seq(Entry)
      BY <1>0, CallIs DEF TypeOK
    <3>2. Append(sent, c.entry) \in Seq(Entry)
      BY <3>1, AppendProperties
    <3>. QED
      BY <2>1, <3>2
  <2>4. /\ status' = "streaming" /\ aborted' = FALSE
        /\ UNCHANGED <<jobVars, wakeVars, queue, editor, typed, draining, clearing,
                       asking, gen, told, held, dropped, clearFailed>>
    BY <1>3 DEF Expanded
  <2>. QED
    BY <1>0, <2>2, <2>3, <2>4 DEF Screen, WakeTypes, TypeOK, ClearsInTime, jobVars, wakeVars
<1>4. CASE ExpansionFails(c)
  <2>1. AfterCall(c) /\ ReturnToEditor(<<c.entry>> \o queue)
    BY <1>4 DEF ExpansionFails
  <2>2. turns' \subseteq Call
    BY <1>2, <2>1
  <2>3. queue' \in Seq(Entry) /\ editor' \in Seq(1 .. Prompts)
    <3>1. c.entry \in Entry /\ queue \in Seq(Entry) /\ editor \in Seq(1 .. Prompts)
      BY <1>0, CallIs DEF TypeOK
    <3>2. <<c.entry>> \in Seq(Entry)
      BY <3>1, TypedOne
    <3>3. <<c.entry>> \o queue \in Seq(Entry)
      BY <3>1, <3>2, ConcatType
    <3>. QED
      BY <2>1, <3>1, <3>3, ReturnIs
  <2>4. UNCHANGED <<jobVars, wakeVars, history, typed, status, draining, aborted, clearing,
                    asking, gen>>
    BY <1>4 DEF ExpansionFails
  <2>. QED
    BY <1>0, <2>2, <2>3, <2>4 DEF Screen, WakeTypes, TypeOK, ClearsInTime, jobVars, wakeVars, history
<1>5. CASE TurnEnds(c)
  <2>1. AfterCall(c) /\ (ReturnToEditor(queue) \/ UNCHANGED <<queue, editor>>)
    BY <1>5, Zenon DEF TurnEnds
  <2>2. turns' \subseteq Call
    BY <1>2, <2>1
  <2>3. queue' \in Seq(Entry) /\ editor' \in Seq(1 .. Prompts)
    <3>1. queue \in Seq(Entry) /\ editor \in Seq(1 .. Prompts)
      BY <1>0 DEF TypeOK
    <3>. QED
      BY <2>1, <3>1, ReturnIs
  <2>4. seen' \cup delivered' \subseteq Task /\ told' \subseteq Task \X (0 .. MaxClear)
    <3>1. PICK completed \in BOOLEAN : CloseTurn(c, completed)
      BY <1>5, Zenon DEF TurnEnds
    <3>2. c.own \subseteq Task
      BY <1>0, CallIs
    <3>3. CASE c.gen # gen
      BY <1>0, <3>1, <3>3 DEF CloseTurn, TypeOK
    <3>4. CASE c.gen = gen
      <4>1. /\ seen' = {} /\ (delivered' = delivered \/ delivered' = delivered \cup seen)
            /\ (told' = told \/ told' = told \cup (c.own \X {gen}))
        BY <3>1, <3>4 DEF CloseTurn
      <4>. QED
        BY <1>0, <3>2, <4>1 DEF TypeOK
    <3>. QED
      BY <3>3, <3>4
  <2>5. /\ aborted' = FALSE /\ status' = "idle"
        /\ UNCHANGED <<jobVars, tail, delegation, woken, typed, draining, clearing,
                       asking, gen, sent, held, dropped, clearFailed>>
    BY <1>5 DEF TurnEnds
  <2>. QED
    BY <1>0, <2>2, <2>3, <2>4, <2>5 DEF Screen, WakeTypes, TypeOK, ClearsInTime, jobVars
<1>6. CASE WindUp(c)
  <2>1. turns' \subseteq Call /\ draining' = FALSE
    BY <1>0, <1>6 DEF WindUp, TypeOK
  <2>2. UNCHANGED <<jobVars, wakeVars, history, queue, editor, typed, status,
                    aborted, clearing, asking, gen>>
    BY <1>6 DEF WindUp
  <2>. QED
    BY <1>0, <2>1, <2>2 DEF Screen, WakeTypes, TypeOK, ClearsInTime, jobVars, wakeVars, history
<1>7. CASE Continue(c) \/ \E t \in Task : ModelSees(c, t)
  <2>1. turns' \subseteq Call /\ seen' \subseteq Task
    <3>1. CASE Continue(c)
      <4>1. turns' = (turns \ {c}) \cup {Forgot(c)} /\ seen' = {}
        BY <3>1 DEF Continue, Forgot
      <4>. QED
        BY <1>0, <1>1, <4>1 DEF TypeOK
    <3>2. ASSUME NEW t \in Task, ModelSees(c, t) PROVE turns' \subseteq Call /\ seen' \subseteq Task
      <4>1. turns' = (turns \ {c}) \cup {Saw(c, t)} /\ seen' = seen \cup {t}
        BY <3>2 DEF ModelSees, Saw
      <4>. QED
        BY <1>0, <1>1, <4>1 DEF TypeOK
    <3>. QED
      BY <1>7, <3>1, <3>2
  <2>2. UNCHANGED <<jobVars, history, tail, delegation, delivered, woken, queue,
                    editor, typed, status, draining, aborted, clearing, asking, gen>>
    BY <1>7, Zenon DEF Continue, ModelSees
  <2>. QED
    BY <1>0, <2>1, <2>2 DEF Screen, WakeTypes, TypeOK, ClearsInTime, jobVars, history
<1>. QED
  BY <1>3, <1>4, <1>5, <1>6, <1>7

LEMMA DrainTypes == ASSUME WakeTypes, Screen', Drain PROVE WakeTypes'
<1>0. TypeOK /\ ClearsInTime /\ queue \in Seq(Entry)
  BY DEF WakeTypes, TypeOK
<1>1. DrainStays \/ DrainEmpties \/ \E e, q : DrainTakes(e, q)
  BY <1>0, DrainIs
<1>2. /\ turns' \subseteq Call /\ status' \in {"idle", "streaming"} /\ aborted' \in BOOLEAN
      /\ sent' \in Seq(Entry) /\ queue' \in Seq(Entry) /\ draining' \in BOOLEAN
  <2>1. CASE DrainStays
    BY <1>0, <2>1 DEF DrainStays, TypeOK
  <2>2. CASE DrainEmpties
    <3>1. <<>> \in Seq(Entry)
      OBVIOUS
    <3>. QED
      BY <1>0, <2>2, <3>1 DEF DrainEmpties, TypeOK
  <2>3. ASSUME NEW e, NEW q, DrainTakes(e, q)
        PROVE  /\ turns' \subseteq Call /\ status' \in {"idle", "streaming"} /\ aborted' \in BOOLEAN
               /\ sent' \in Seq(Entry) /\ queue' \in Seq(Entry) /\ draining' \in BOOLEAN
    <3>1. /\ e \in Entry /\ q \in Seq(Entry) /\ queue' = q /\ draining' = TRUE /\ Submit(e, TRUE)
      BY <2>3 DEF DrainTakes
    <3>2. /\ turns' \subseteq Call /\ status' \in {"idle", "streaming"} /\ aborted' \in BOOLEAN
          /\ sent' \in Seq(Entry)
      BY <1>0, <3>1, SubmitTypes
    <3>. QED
      BY <3>1, <3>2
  <2>. QED
    BY <1>1, <2>1, <2>2, <2>3
<1>3. UNCHANGED <<jobVars, wakeVars, editor, typed, clearing, asking, gen,
                  told, held, dropped, clearFailed>>
  BY DEF Drain
<1>. QED
  BY <1>0, <1>2, <1>3 DEF Screen, WakeTypes, TypeOK, ClearsInTime, jobVars, wakeVars

\* Jobs, their wakes, delegations and questions.
LEMMA JobTypes ==
    ASSUME WakeTypes, Screen', NEW t \in Task,
           JobStarts(t) \/ JobSettles(t) \/ JobPublished(t) \/ TailRead(t)
    PROVE  WakeTypes'
<1>0. TypeOK /\ ClearsInTime
  BY DEF WakeTypes
<1>1. CASE JobStarts(t) \/ JobSettles(t)
  <2>1. state' \in [Task -> {"absent", "running"} \cup Terminal] /\ published' = published
    BY <1>0, <1>1 DEF TypeOK, JobStarts, JobSettles, Register, Settle
  <2>2. UNCHANGED <<sessionVars, wakeVars, history>>
    BY <1>1, Zenon DEF JobStarts, JobSettles
  <2>. QED
    BY <1>0, <2>1, <2>2 DEF Screen, WakeTypes, TypeOK, ClearsInTime, sessionVars, wakeVars, history
<1>2. CASE JobPublished(t)
  <2>1. state' = state /\ published' \in [Task -> 0 .. 1] /\ tail' \in [Task -> SUBSET (0 .. MaxClear)]
    BY <1>0, <1>2 DEF TypeOK, JobPublished, Publish
  <2>2. UNCHANGED <<sessionVars, history, delegation, seen, delivered, woken>>
    BY <1>2 DEF JobPublished
  <2>. QED
    BY <1>0, <2>1, <2>2 DEF Screen, WakeTypes, TypeOK, ClearsInTime, sessionVars, history
<1>3. CASE TailRead(t)
  <2>1. tail[t] \subseteq 0 .. MaxClear /\ queue \in Seq(Entry)
    BY <1>0 DEF TypeOK
  <2>2. queue' = queue \/ \E q \in Seq(Entry) : queue' = queue \o q
    BY <1>3, <2>1, TailReadIs
  <2>3. queue' \in Seq(Entry)
    BY <2>1, <2>2, ConcatType
  <2>4. tail' \in [Task -> SUBSET (0 .. MaxClear)]
    BY <1>0, <1>3 DEF TypeOK, TailRead
  <2>5. UNCHANGED <<jobVars, history, delegation, seen, delivered, woken,
                    editor, typed, status, turns, draining, aborted, clearing, asking, gen>>
    BY <1>3 DEF TailRead
  <2>. QED
    BY <1>0, <2>3, <2>4, <2>5 DEF Screen, WakeTypes, TypeOK, ClearsInTime, jobVars, history
<1>. QED
  BY <1>1, <1>2, <1>3

LEMMA EnqueueTypes ==
    ASSUME TypeOK, NEW L, EnqueueDelegations(L)
    PROVE  queue' \in Seq(Entry) /\ woken' \subseteq Delegation
<1>1. gen \in 0 .. MaxClear /\ queue \in Seq(Entry) /\ woken \subseteq Delegation
  BY DEF TypeOK
<1>2. PICK D \in SUBSET Delegation, q \in Seq(Entry) : woken' = woken \cup D /\ queue' = queue \o q
  BY <1>1, EnqueueIs
<1>3. queue \o q \in Seq(Entry)
  BY <1>1, ConcatType
<1>. QED
  BY <1>1, <1>2, <1>3

LEMMA DelegationTypes ==
    ASSUME WakeTypes, Screen', NEW d \in Delegation,
           Dispatch(d) \/ DelegationSettles(d) \/ Deliver(d)
    PROVE  WakeTypes'
<1>0. TypeOK /\ ClearsInTime
  BY DEF WakeTypes
<1>1. delegation' \in [Delegation -> {"none", "running", "settled", "delivered", "lost"}]
  BY <1>0 DEF TypeOK, Dispatch, DelegationSettles, Deliver
<1>2. CASE Dispatch(d) \/ Deliver(d)
  <2>1. UNCHANGED <<jobVars, sessionVars, history, tail, seen, delivered, woken>>
    BY <1>2, Zenon DEF Dispatch, Deliver
  <2>. QED
    BY <1>0, <1>1, <2>1 DEF Screen, WakeTypes, TypeOK, ClearsInTime, jobVars, sessionVars, history
<1>3. CASE DelegationSettles(d)
  <2>1. queue' \in Seq(Entry) /\ woken' \subseteq Delegation
    <3>1. PICK L : L = delegation'
      OBVIOUS
    <3>2. EnqueueDelegations(L) \/ UNCHANGED <<queue, woken>>
      BY <1>3, <3>1 DEF DelegationSettles
    <3>3. CASE UNCHANGED <<queue, woken>>
      BY <1>0, <3>3 DEF TypeOK
    <3>4. CASE EnqueueDelegations(L)
      BY <1>0, <3>4, EnqueueTypes
    <3>. QED
      BY <3>2, <3>3, <3>4
  <2>2. UNCHANGED <<jobVars, history, tail, seen, delivered, editor, typed,
                    status, turns, draining, aborted, clearing, asking, gen>>
    BY <1>3 DEF DelegationSettles
  <2>. QED
    BY <1>0, <1>1, <2>1, <2>2 DEF Screen, WakeTypes, TypeOK, ClearsInTime, jobVars, history
<1>. QED
  BY <1>2, <1>3

LEMMA OtherTypes ==
    ASSUME WakeTypes, Screen', Commit \/ IdleSweep \/ Ask \/ ClearEnds \/ ClearFails
    PROVE  WakeTypes'
<1>0. TypeOK /\ ClearsInTime
  BY DEF WakeTypes
<1>1. CASE IdleSweep
  <2>1. queue' \in Seq(Entry) /\ woken' \subseteq Delegation
    BY <1>0, <1>1, EnqueueTypes DEF IdleSweep
  <2>2. UNCHANGED <<jobVars, history, tail, delegation, seen, delivered, editor,
                    typed, status, turns, draining, aborted, clearing, asking, gen>>
    BY <1>1 DEF IdleSweep
  <2>. QED
    BY <1>0, <2>1, <2>2 DEF Screen, WakeTypes, TypeOK, ClearsInTime, jobVars, history
<1>2. CASE Ask
  <2>1. asking' \in {"turn", "child"}
    BY <1>2 DEF Ask
  <2>2. UNCHANGED <<jobVars, wakeVars, history, queue, editor, typed, status,
                    turns, draining, aborted, clearing, gen>>
    BY <1>2 DEF Ask
  <2>. QED
    BY <1>0, <2>1, <2>2 DEF Screen, WakeTypes, TypeOK, ClearsInTime, jobVars, wakeVars, history
<1>3. CASE ClearFails
  <2>1. UNCHANGED <<jobVars, wakeVars, queue, editor, typed, status, turns,
                    draining, aborted, asking, gen, sent, told, held, dropped>>
    BY <1>3 DEF ClearFails
  <2>2. clearing' = FALSE /\ clearFailed' = TRUE
    BY <1>3 DEF ClearFails
  <2>. QED
    BY <1>0, <2>1, <2>2 DEF Screen, WakeTypes, TypeOK, ClearsInTime, jobVars, wakeVars
<1>4. CASE ClearEnds
  <2>1. gen' = gen + 1 /\ gen' \in 0 .. MaxClear
    BY <1>0, <1>4, PromptsAssumption DEF ClearEnds, ClearsInTime, TypeOK
  <2>2. queue' = <<>> /\ <<>> \in Seq(Entry)
    BY <1>4 DEF ClearEnds
  <2>3. dropped' \subseteq Entry
    <3>1. dropped' = dropped \cup ToSet(queue)
                       \cup {[kind |-> "job", of |-> t, gen |-> gen] : t \in {u \in Task : tail[u] # {}}}
      BY <1>4 DEF ClearEnds
    <3>2. ToSet(queue) \subseteq Entry
      BY <1>0, ElementsIn DEF TypeOK
    <3>3. ASSUME NEW t \in Task PROVE [kind |-> "job", of |-> t, gen |-> gen] \in Entry
      <4>1. gen \in 0 .. MaxClear
        BY <1>0 DEF TypeOK
      <4>. QED
        BY ONLY <4>1, t \in Task, JobEntryIs
    <3>. QED
      BY <1>0, <3>1, <3>2, <3>3 DEF TypeOK
  <2>4. /\ tail' \in [Task -> SUBSET (0 .. MaxClear)]
        /\ delegation' \in [Delegation -> {"none", "running", "settled", "delivered", "lost"}]
    BY <1>0, <1>4 DEF ClearEnds, TypeOK
  <2>5. /\ clearing' = FALSE /\ seen' = {} /\ delivered' = {}
        /\ UNCHANGED <<jobVars, woken, editor, typed, status, turns, draining,
                       aborted, asking, sent, told, held, clearFailed>>
    BY <1>4 DEF ClearEnds
  <2>. QED
    BY <1>0, <2>1, <2>2, <2>3, <2>4, <2>5 DEF Screen, WakeTypes, TypeOK, ClearsInTime, jobVars
<1>5. CASE Commit
  BY <1>0, <1>5 DEF Commit, Screen, WakeTypes, TypeOK, ClearsInTime, jobVars, sessionVars, wakeVars, history
<1>. QED
  BY <1>1, <1>2, <1>3, <1>4, <1>5

\* The actions of the program, one by one.
LEMMA WakeSteps ==
    ASSUME WakeNext
    PROVE  \/ User \/ Commit \/ Drain \/ IdleSweep \/ Ask \/ ClearEnds \/ ClearFails
           \/ \E c \in turns : Expanded(c) \/ ExpansionFails(c) \/ TurnEnds(c) \/ WindUp(c)
                                \/ Continue(c) \/ \E t \in Task : ModelSees(c, t)
           \/ \E t \in Task : JobStarts(t) \/ JobSettles(t) \/ JobPublished(t) \/ TailRead(t)
           \/ \E d \in Delegation : Dispatch(d) \/ DelegationSettles(d) \/ Deliver(d)
BY Zenon DEF WakeNext, Outside, Progress, Calls, Clears, Wakes

\* A turn, or a /clear, that begins is compared with the turns that run.
LEMMA LatchStep ==
    ASSUME WakeNext
    PROVE  /\ overlapped' = overlapped \/ Overlaps
           /\ unrendered' = unrendered \/ unrendered' = (unrendered \/ shown = "idle")
<1>1. ASSUME NEW e, NEW q, Submit(e, q) PROVE overlapped' = overlapped \/ Overlaps
  BY <1>1, SubmitIs DEF Waits, Begins
<1>2. CASE Type \/ TakeBack \/ Answer \/ Ask
  BY <1>2, Zenon DEF Type, TakeBack, Answer, Ask, history
<1>3. CASE Enter
  <2>1. unrendered' = unrendered /\ (overlapped' = overlapped \/ \E e : Submit(e, FALSE))
    BY <1>3, Zenon DEF Enter
  <2>. QED
    BY <1>1, <2>1, Zenon
<1>4. CASE Interrupt \/ ClearBegins
  BY <1>4, Zenon DEF Interrupt, ClearBegins
<1>5. CASE Drain
  <2>1. unrendered' = unrendered /\ (overlapped' = overlapped \/ \E e : Submit(e, TRUE))
    BY <1>5, Zenon DEF Drain
  <2>. QED
    BY <1>1, <2>1, Zenon
<1>6. CASE Commit \/ IdleSweep \/ ClearEnds \/ ClearFails
  BY <1>6, Zenon DEF Commit, IdleSweep, ClearEnds, ClearFails, history
<1>7. CASE \E t \in Task : JobStarts(t) \/ JobSettles(t) \/ JobPublished(t) \/ TailRead(t)
  BY <1>7, Zenon DEF JobStarts, JobSettles, JobPublished, TailRead, history
<1>8. CASE \E d \in Delegation : Dispatch(d) \/ DelegationSettles(d) \/ Deliver(d)
  BY <1>8, Zenon DEF Dispatch, DelegationSettles, Deliver, history
<1>9. ASSUME NEW c \in turns, Expanded(c) \/ TurnEnds(c)
      PROVE  /\ overlapped' = overlapped \/ Overlaps
             /\ unrendered' = unrendered \/ unrendered' = (unrendered \/ shown = "idle")
  BY <1>9, Zenon DEF Expanded, TurnEnds
<1>10. ASSUME NEW c \in turns,
              ExpansionFails(c) \/ WindUp(c) \/ Continue(c) \/ \E t \in Task : ModelSees(c, t)
       PROVE  overlapped' = overlapped /\ unrendered' = unrendered
  BY <1>10, Zenon DEF ExpansionFails, WindUp, Continue, ModelSees, history
<1>. QED
  BY <1>2, <1>3, <1>4, <1>5, <1>6, <1>7, <1>8, <1>9, <1>10, WakeSteps, Zenon DEF User

LEMMA ScreenStep == ASSUME TypeOK, WakeNext PROVE Screen'
<1>0. Screen /\ status \in {"idle", "streaming"}
  BY DEF TypeOK, Screen
<1>1. overlapped' \in BOOLEAN /\ unrendered' \in BOOLEAN
  <2>1. overlapped \in BOOLEAN /\ unrendered \in BOOLEAN
    BY <1>0 DEF Screen
  <2>. QED
    BY <2>1, LatchStep, Zenon DEF Overlaps
<1>2. SUFFICES /\ shown' \in {"idle", "streaming"} /\ armed' \in {"nothing", "sweep", "drain"}
               /\ touched' \in BOOLEAN
  BY <1>1 DEF Screen
<1>3. ASSUME Touches PROVE touched' \in BOOLEAN
  BY <1>0, <1>3 DEF Touches, Screen
<1>4. CASE Renders
  BY <1>0, <1>3, <1>4 DEF Renders, Screen
<1>5. CASE Commit \/ ClearEnds
  BY <1>0, <1>5 DEF Commit, ClearEnds, Screen
<1>6. CASE IdleSweep
  BY <1>0, <1>3, <1>6 DEF IdleSweep, Screen
<1>7. CASE Drain
  BY <1>0, <1>3, <1>7 DEF Drain, Screen
<1>8. CASE User \/ Ask \/ ClearFails
  BY <1>4, <1>8, Zenon DEF User, Type, Enter, TakeBack, Interrupt, Answer, ClearBegins, Ask, ClearFails
<1>9. CASE \/ \E t \in Task : JobStarts(t) \/ JobSettles(t) \/ JobPublished(t) \/ TailRead(t)
           \/ \E d \in Delegation : Dispatch(d) \/ DelegationSettles(d) \/ Deliver(d)
  BY <1>4, <1>9, Zenon
     DEF JobStarts, JobSettles, JobPublished, TailRead, Dispatch, DelegationSettles, Deliver
<1>10. CASE \E c \in turns : \/ Expanded(c) \/ ExpansionFails(c) \/ TurnEnds(c) \/ WindUp(c)
                             \/ Continue(c) \/ \E t \in Task : ModelSees(c, t)
  BY <1>4, <1>10, Zenon DEF Expanded, ExpansionFails, TurnEnds, WindUp, Continue, ModelSees
<1>. QED
  BY <1>5, <1>6, <1>7, <1>8, <1>9, <1>10, WakeSteps, Zenon

LEMMA WakeTypeStep == ASSUME WakeTypes, [WakeNext]_vars PROVE WakeTypes'
<1>1. CASE UNCHANGED vars
  BY <1>1, StutterTypes
<1>2. CASE WakeNext
  <2>1. Screen'
    BY <1>2, ScreenStep DEF WakeTypes
  <2>. QED
    BY <1>2, <2>1, WakeSteps, UserTypes, CallTypes, DrainTypes, JobTypes, DelegationTypes, OtherTypes, Zenon
<1>. QED
  BY <1>1, <1>2

-----------------------------------------------------------------------------
(* Where a prompt is *)

Loading == {c \in turns : c.step = "expanding"}
Dropped == {e \in dropped : IsUser(e)}

\* The sets of prompts in the draft, the queue, the turns, the calls of L and the
\* entries of D have nothing in common, and are the prompts typed.
Placed(e, q, s, L, D, n) ==
    /\ e \cap q = {} /\ e \cap s = {} /\ q \cap s = {}
    /\ \A c \in L : \A x \in ToSet(c.entry.of) : x \notin e /\ x \notin q /\ x \notin s
    /\ \A d \in D : \A x \in ToSet(d.of) : x \notin e /\ x \notin q /\ x \notin s
    /\ \A c \in L, d \in D : ToSet(c.entry.of) \cap ToSet(d.of) = {}
    /\ \A c, d \in L : c # d => ToSet(c.entry.of) \cap ToSet(d.entry.of) = {}
    /\ \A c, d \in D : c # d => ToSet(c.of) \cap ToSet(d.of) = {}
    /\ \A x : x \in 1 .. n <=> \/ x \in e \/ x \in q \/ x \in s
                               \/ \E c \in L : x \in ToSet(c.entry.of)
                               \/ \E d \in D : x \in ToSet(d.of)

\* And nothing is in one of these twice.
Singly(E, Q, S, L, D) ==
    /\ IsInjective(E) /\ IsInjective(Q) /\ IsInjective(S)
    /\ \A c \in L : IsUser(c.entry) /\ IsInjective(c.entry.of)
    /\ \A d \in D : IsInjective(d.of)

Kept(E, Q, S, L, D, n) ==
    Singly(E, Q, S, L, D) /\ Placed(ToSet(E), ToSet(Q), ToSet(S), L, D, n)

\* What one step may do to them.
Rest(E, Q, S, L, D, n, T) ==
    \/ T = <<E, Q, S, L, D, n>>
    \/ T = <<Append(E, n + 1), Q, S, L, D, n + 1>>
    \/ T = <<<<>>, Q \o E, S, L, D, n>>
    \/ T = <<<<>>, Q, S \o E, L, D, n>>
    \/ \E c : IsUser(c.entry) /\ c.entry.of = E /\ T = <<<<>>, Q, S, L \cup {c}, D, n>>
    \/ T = <<Q \o E, <<>>, S, L, D, n>>

\* The entries of B have the prompts of q between them.
Splits(q, B) == /\ \A c, d \in B : c # d => ToSet(c.of) \cap ToSet(d.of) = {}
                /\ \A x : x \in q <=> \E d \in B : x \in ToSet(d.of)

Moved(E, Q, S, L, D, n, T) ==
    \/ \E h, q \in Seq(Nat) : Q = h \o q /\ T = <<E, q, S \o h, L, D, n>>
    \/ \E h, q \in Seq(Nat) : \E c : /\ Q = h \o q /\ IsUser(c.entry) /\ c.entry.of = h
                                        /\ T = <<E, q, S, L \cup {c}, D, n>>
    \/ \E c \in L : c.entry.of \in Seq(Nat) /\ T = <<E, Q, S \o c.entry.of, L \ {c}, D, n>>
    \/ \E c \in L : /\ c.entry.of \in Seq(Nat)
                    /\ T = <<(c.entry.of \o Q) \o E, <<>>, S, L \ {c}, D, n>>
    \/ \E B : /\ \A d \in B : IsInjective(d.of)
              /\ Splits(ToSet(Q), B)
              /\ T = <<E, <<>>, S, L, D \cup B, n>>

KeptAt(T) == Kept(T[1], T[2], T[3], T[4], T[5], T[6])

\* From the draft to the end of another place, and back: sets.
LEMMA PlacedType ==
    ASSUME NEW e, NEW q, NEW s, NEW L, NEW D, NEW n \in Nat, Placed(e, q, s, L, D, n)
    PROVE  Placed(e \cup {n + 1}, q, s, L, D, n + 1)
<1>1. \A x : x \in 1 .. n + 1 <=> x \in 1 .. n \/ x = n + 1
  OBVIOUS
<1>2. n + 1 \notin 1 .. n
  OBVIOUS
<1>. DEFINE m == n + 1
<1>. HIDE DEF m
<1>3. Placed(e \cup {m}, q, s, L, D, m)
  <2>1. (\A x : x \in 1 .. m <=> x \in 1 .. n \/ x = m) /\ m \notin 1 .. n
    BY <1>1, <1>2 DEF m
  <2>. QED
    BY <2>1 DEF Placed
<1>. QED
  BY <1>3 DEF m

LEMMA PlacedMoves ==
    ASSUME NEW e, NEW q, NEW s, NEW L, NEW D, NEW n, Placed(e, q, s, L, D, n)
    PROVE  /\ Placed({}, q \cup e, s, L, D, n)
           /\ Placed({}, q, s \cup e, L, D, n)
           /\ Placed(q \cup e, {}, s, L, D, n)
           /\ \A c : ToSet(c.entry.of) = e => Placed({}, q, s, L \cup {c}, D, n)
           /\ \A c \in L : Placed(e, q, s \cup ToSet(c.entry.of), L \ {c}, D, n)
           /\ \A c \in L : Placed((ToSet(c.entry.of) \cup q) \cup e, {}, s, L \ {c}, D, n)
<1>1. /\ Placed({}, q \cup e, s, L, D, n)
      /\ Placed({}, q, s \cup e, L, D, n)
      /\ Placed(q \cup e, {}, s, L, D, n)
  BY DEF Placed
<1>2. ASSUME NEW c, ToSet(c.entry.of) = e PROVE Placed({}, q, s, L \cup {c}, D, n)
  BY <1>2 DEF Placed
<1>3. ASSUME NEW c \in L
      PROVE  /\ Placed(e, q, s \cup ToSet(c.entry.of), L \ {c}, D, n)
             /\ Placed((ToSet(c.entry.of) \cup q) \cup e, {}, s, L \ {c}, D, n)
  BY <1>3 DEF Placed
<1>. QED
  BY <1>1, <1>2, <1>3

LEMMA PlacedTakes ==
    ASSUME NEW e, NEW q, NEW h, NEW s, NEW L, NEW D, NEW n, h \cap q = {},
           Placed(e, h \cup q, s, L, D, n)
    PROVE  /\ Placed(e, q, s \cup h, L, D, n)
           /\ \A c : ToSet(c.entry.of) = h => Placed(e, q, s, L \cup {c}, D, n)
<1>1. Placed(e, q, s \cup h, L, D, n)
  BY DEF Placed
<1>2. ASSUME NEW c, ToSet(c.entry.of) = h PROVE Placed(e, q, s, L \cup {c}, D, n)
  BY <1>2 DEF Placed
<1>. QED
  BY <1>1, <1>2

LEMMA PlacedDrops ==
    ASSUME NEW e, NEW q, NEW s, NEW L, NEW D, NEW n, NEW B, Placed(e, q, s, L, D, n),
           Splits(q, B)
    PROVE  Placed(e, {}, s, L, D \cup B, n)
BY DEF Placed, Splits

\* One step keeps every prompt in one place.
LEMMA KeptRest ==
    ASSUME NEW E \in Seq(Nat), NEW Q \in Seq(Nat), NEW S \in Seq(Nat), NEW L, NEW D, NEW n \in Nat,
           NEW T, Kept(E, Q, S, L, D, n), Rest(E, Q, S, L, D, n, T)
    PROVE  KeptAt(T)
<1>0. /\ Singly(E, Q, S, L, D) /\ Placed(ToSet(E), ToSet(Q), ToSet(S), L, D, n)
      /\ ToSet(<<>>) = {} /\ IsInjective(<<>>)
  BY ElementsNone DEF Kept
<1>1. IsInjective(E) /\ IsInjective(Q) /\ IsInjective(S)
  BY <1>0 DEF Singly
<1>2. ToSet(E) \cap ToSet(Q) = {} /\ ToSet(E) \cap ToSet(S) = {} /\ ToSet(Q) \cap ToSet(S) = {}
  BY <1>0 DEF Placed
<1>3. ToSet(Q \o E) = ToSet(Q) \cup ToSet(E) /\ IsInjective(Q \o E)
  BY <1>1, <1>2, ElementsConcat, OnceConcat
<1>4. ToSet(S \o E) = ToSet(S) \cup ToSet(E) /\ IsInjective(S \o E)
  BY <1>1, <1>2, ElementsConcat, OnceConcat
<1>5. CASE T = <<E, Q, S, L, D, n>>
  BY <1>0, <1>5 DEF KeptAt, Kept
<1>6. CASE T = <<Append(E, n + 1), Q, S, L, D, n + 1>>
  <2>1. Placed(ToSet(E) \cup {n + 1}, ToSet(Q), ToSet(S), L, D, n + 1)
    BY <1>0, PlacedType
  <2>2. ToSet(Append(E, n + 1)) = ToSet(E) \cup {n + 1}
    BY ElementsAppend
  <2>3. n + 1 \notin ToSet(E)
    <3>1. \A x : x \in ToSet(E) => x \in 1 .. n
      BY <1>0 DEF Placed
    <3>. QED
      BY <3>1
  <2>4. IsInjective(Append(E, n + 1))
    <3>1. n + 1 \in Nat
      OBVIOUS
    <3>2. Append(E, n + 1) = E \o <<n + 1>> /\ <<n + 1>> \in Seq(Nat)
      BY <3>1, AppendIsConcat
    <3>3. ToSet(<<n + 1>>) = {n + 1} /\ IsInjective(<<n + 1>>)
      BY ElementsOne
    <3>4. /\ IsInjective(E) /\ IsInjective(<<n + 1>>) /\ ToSet(E) \cap ToSet(<<n + 1>>) = {}
          /\ <<n + 1>> \in Seq(Nat)
      BY <1>1, <2>3, <3>2, <3>3
    <3>5. IsInjective(E \o <<n + 1>>)
      BY ONLY <3>4, E \in Seq(Nat), OnceConcat
    <3>. QED
      BY <3>2, <3>5
  <2>5. Kept(Append(E, n + 1), Q, S, L, D, n + 1)
    BY <1>0, <2>1, <2>2, <2>4 DEF Kept, Singly
  <2>. QED
    BY <1>6, <2>5 DEF KeptAt
<1>7. CASE T = <<<<>>, Q \o E, S, L, D, n>>
  <2>1. Placed({}, ToSet(Q) \cup ToSet(E), ToSet(S), L, D, n)
    BY <1>0, PlacedMoves
  <2>2. Kept(<<>>, Q \o E, S, L, D, n)
    BY <1>0, <1>3, <2>1 DEF Kept, Singly
  <2>. QED
    BY <1>7, <2>2 DEF KeptAt
<1>8. CASE T = <<<<>>, Q, S \o E, L, D, n>>
  <2>1. Placed({}, ToSet(Q), ToSet(S) \cup ToSet(E), L, D, n)
    BY <1>0, PlacedMoves
  <2>2. Kept(<<>>, Q, S \o E, L, D, n)
    BY <1>0, <1>4, <2>1 DEF Kept, Singly
  <2>. QED
    BY <1>8, <2>2 DEF KeptAt
<1>9. ASSUME NEW c, IsUser(c.entry), c.entry.of = E, T = <<<<>>, Q, S, L \cup {c}, D, n>>
      PROVE  KeptAt(T)
  <2>1. Placed({}, ToSet(Q), ToSet(S), L \cup {c}, D, n)
    BY <1>0, <1>9, PlacedMoves
  <2>2. Kept(<<>>, Q, S, L \cup {c}, D, n)
    BY <1>0, <1>1, <1>9, <2>1 DEF Kept, Singly
  <2>. QED
    BY <1>9, <2>2 DEF KeptAt
<1>10. CASE T = <<Q \o E, <<>>, S, L, D, n>>
  <2>1. Placed(ToSet(Q) \cup ToSet(E), {}, ToSet(S), L, D, n)
    BY <1>0, PlacedMoves
  <2>2. Kept(Q \o E, <<>>, S, L, D, n)
    BY <1>0, <1>3, <2>1 DEF Kept, Singly
  <2>. QED
    BY <1>10, <2>2 DEF KeptAt
<1>. QED
  BY <1>5, <1>6, <1>7, <1>8, <1>9, <1>10 DEF Rest

LEMMA KeptMoved ==
    ASSUME NEW E \in Seq(Nat), NEW Q \in Seq(Nat), NEW S \in Seq(Nat), NEW L, NEW D, NEW n \in Nat,
           NEW T, Kept(E, Q, S, L, D, n), Moved(E, Q, S, L, D, n, T)
    PROVE  KeptAt(T)
<1>0. /\ Singly(E, Q, S, L, D) /\ Placed(ToSet(E), ToSet(Q), ToSet(S), L, D, n)
      /\ ToSet(<<>>) = {} /\ IsInjective(<<>>)
  BY ElementsNone DEF Kept
<1>1. IsInjective(E) /\ IsInjective(Q) /\ IsInjective(S)
  BY <1>0 DEF Singly
<1>2. ToSet(E) \cap ToSet(Q) = {} /\ ToSet(E) \cap ToSet(S) = {} /\ ToSet(Q) \cap ToSet(S) = {}
  BY <1>0 DEF Placed
<1>3. ASSUME NEW h \in Seq(Nat), NEW q \in Seq(Nat), Q = h \o q
      PROVE  /\ IsInjective(h) /\ IsInjective(q) /\ ToSet(h) \cap ToSet(q) = {}
             /\ ToSet(Q) = ToSet(h) \cup ToSet(q)
             /\ IsInjective(S \o h) /\ ToSet(S \o h) = ToSet(S) \cup ToSet(h)
  <2>1. IsInjective(h) /\ IsInjective(q) /\ ToSet(h) \cap ToSet(q) = {}
    BY <1>1, <1>3, OnceConcat
  <2>2. ToSet(Q) = ToSet(h) \cup ToSet(q)
    BY <1>3, ElementsConcat
  <2>3. ToSet(S) \cap ToSet(h) = {}
    BY <1>2, <2>2
  <2>4. IsInjective(S \o h) /\ ToSet(S \o h) = ToSet(S) \cup ToSet(h)
    BY <1>1, <2>1, <2>3, OnceConcat, ElementsConcat
  <2>. QED
    BY <2>1, <2>2, <2>4
<1>4. ASSUME NEW h \in Seq(Nat), NEW q \in Seq(Nat), Q = h \o q, T = <<E, q, S \o h, L, D, n>>
      PROVE  KeptAt(T)
  <2>1. /\ IsInjective(h) /\ IsInjective(q) /\ ToSet(h) \cap ToSet(q) = {}
        /\ ToSet(Q) = ToSet(h) \cup ToSet(q)
        /\ IsInjective(S \o h) /\ ToSet(S \o h) = ToSet(S) \cup ToSet(h)
    BY <1>3, <1>4
  <2>2. Placed(ToSet(E), ToSet(h) \cup ToSet(q), ToSet(S), L, D, n)
    BY <1>0, <2>1
  <2>3. Placed(ToSet(E), ToSet(q), ToSet(S) \cup ToSet(h), L, D, n)
    BY <2>1, <2>2, PlacedTakes
  <2>4. Kept(E, q, S \o h, L, D, n)
    BY <1>0, <2>1, <2>3 DEF Kept, Singly
  <2>. QED
    BY <1>4, <2>4 DEF KeptAt
<1>5. ASSUME NEW h \in Seq(Nat), NEW q \in Seq(Nat), Q = h \o q, NEW c, IsUser(c.entry),
             c.entry.of = h, T = <<E, q, S, L \cup {c}, D, n>>
      PROVE  KeptAt(T)
  <2>1. /\ IsInjective(h) /\ IsInjective(q) /\ ToSet(h) \cap ToSet(q) = {}
        /\ ToSet(Q) = ToSet(h) \cup ToSet(q)
    BY <1>3, <1>5
  <2>2. Placed(ToSet(E), ToSet(h) \cup ToSet(q), ToSet(S), L, D, n)
    BY <1>0, <2>1
  <2>3. Placed(ToSet(E), ToSet(q), ToSet(S), L \cup {c}, D, n)
    BY <1>5, <2>1, <2>2, PlacedTakes
  <2>4. Kept(E, q, S, L \cup {c}, D, n)
    BY <1>0, <1>5, <2>1, <2>3 DEF Kept, Singly
  <2>. QED
    BY <1>5, <2>4 DEF KeptAt
<1>6. ASSUME NEW c \in L, c.entry.of \in Seq(Nat), T = <<E, Q, S \o c.entry.of, L \ {c}, D, n>>
      PROVE  KeptAt(T)
  <2>1. IsInjective(c.entry.of) /\ ToSet(S) \cap ToSet(c.entry.of) = {}
    BY <1>0 DEF Singly, Placed
  <2>2. /\ IsInjective(S \o c.entry.of)
        /\ ToSet(S \o c.entry.of) = ToSet(S) \cup ToSet(c.entry.of)
    BY <1>1, <1>6, <2>1, OnceConcat, ElementsConcat
  <2>3. Placed(ToSet(E), ToSet(Q), ToSet(S) \cup ToSet(c.entry.of), L \ {c}, D, n)
    BY <1>0, PlacedMoves
  <2>4. Kept(E, Q, S \o c.entry.of, L \ {c}, D, n)
    BY <1>0, <2>2, <2>3 DEF Kept, Singly
  <2>. QED
    BY <1>6, <2>4 DEF KeptAt
<1>7. ASSUME NEW c \in L, c.entry.of \in Seq(Nat),
             T = <<(c.entry.of \o Q) \o E, <<>>, S, L \ {c}, D, n>>
      PROVE  KeptAt(T)
  <2>. DEFINE o == c.entry.of
  <2>1. /\ IsInjective(o) /\ o \in Seq(Nat)
        /\ ToSet(o) \cap ToSet(Q) = {} /\ ToSet(o) \cap ToSet(E) = {}
    BY <1>0, <1>7 DEF Singly, Placed
  <2>2. Placed((ToSet(o) \cup ToSet(Q)) \cup ToSet(E), {}, ToSet(S), L \ {c}, D, n)
    BY <1>0, PlacedMoves
  <2>3. T = <<(o \o Q) \o E, <<>>, S, L \ {c}, D, n>>
    BY <1>7
  <2>. HIDE DEF o
  <2>4. IsInjective(o \o Q) /\ ToSet(o \o Q) = ToSet(o) \cup ToSet(Q) /\ o \o Q \in Seq(Nat)
    BY <1>1, <2>1, OnceConcat, ElementsConcat, ConcatType
  <2>5. ToSet(o \o Q) \cap ToSet(E) = {}
    BY <1>2, <2>1, <2>4
  <2>6. IsInjective((o \o Q) \o E) /\ ToSet((o \o Q) \o E) = (ToSet(o) \cup ToSet(Q)) \cup ToSet(E)
    <3>. DEFINE p == o \o Q
    <3>1. p \in Seq(Nat) /\ IsInjective(p) /\ ToSet(p) \cap ToSet(E) = {}
      BY <2>4, <2>5
    <3>. HIDE DEF p
    <3>2. IsInjective(p \o E) /\ ToSet(p \o E) = ToSet(p) \cup ToSet(E)
      BY <1>1, <3>1, OnceConcat, ElementsConcat
    <3>. QED
      BY <2>4, <3>2 DEF p
  <2>7. Kept((o \o Q) \o E, <<>>, S, L \ {c}, D, n)
    BY <1>0, <2>2, <2>6 DEF Kept, Singly
  <2>. QED
    BY <2>3, <2>7 DEF KeptAt
<1>8. ASSUME NEW B, \A d \in B : IsInjective(d.of),
             Splits(ToSet(Q), B),
             T = <<E, <<>>, S, L, D \cup B, n>>
      PROVE  KeptAt(T)
  <2>1. Placed(ToSet(E), {}, ToSet(S), L, D \cup B, n)
    BY <1>0, <1>8, PlacedDrops
  <2>2. Kept(E, <<>>, S, L, D \cup B, n)
    BY <1>0, <1>8, <2>1 DEF Kept, Singly
  <2>. QED
    BY <1>8, <2>2 DEF KeptAt
<1>. QED
  BY <1>4, <1>5, <1>6, <1>7, <1>8, Zenon DEF Moved

\* What the queue and the draft read one after the other: a step takes something
\* off one end of it, or adds something to it.
RestTakes(W, V, n, m) ==
    \/ V = Append(W, n + 1) /\ m = n + 1
    \/ m = n /\ \E h \in Seq(Nat) : W = V \o h

MovedTakes(W, V, L, n, m) ==
    /\ m = n
    /\ \/ \E h \in Seq(Nat) : W = h \o V
       \/ L # {} /\ \E h \in Seq(Nat) : V = h \o W

LEMMA RestEnds ==
    ASSUME NEW E \in Seq(Nat), NEW Q \in Seq(Nat), NEW S, NEW L, NEW D, NEW n \in Nat, NEW T,
           Rest(E, Q, S, L, D, n, T)
    PROVE  RestTakes(Q \o E, T[2] \o T[1], n, T[6])
<1>. USE DEF RestTakes
<1>0. /\ Q \o E \in Seq(Nat) /\ <<>> \in Seq(Nat) /\ Q \o <<>> = Q /\ (Q \o E) \o <<>> = Q \o E
      /\ <<>> \o (Q \o E) = Q \o E
  BY ConcatType, ConcatEmptySeq
<1>1. CASE T = <<E, Q, S, L, D, n>>
  BY <1>0, <1>1
<1>2. CASE T = <<Append(E, n + 1), Q, S, L, D, n + 1>>
  <2>1. Q \o Append(E, n + 1) = Append(Q \o E, n + 1)
    BY AppendToConcat
  <2>. QED
    BY <1>2, <2>1
<1>3. CASE T[6] = n /\ ((T[1] = <<>> /\ T[2] = Q \o E) \/ (T[1] = Q \o E /\ T[2] = <<>>))
  <2>1. T[2] \o T[1] = Q \o E
    BY <1>0, <1>3
  <2>. QED
    BY <1>0, <1>3, <2>1
<1>4. CASE T[1] = <<>> /\ T[2] = Q /\ T[6] = n
  BY <1>0, <1>4
<1>5. \/ T = <<E, Q, S, L, D, n>>
      \/ T = <<Append(E, n + 1), Q, S, L, D, n + 1>>
      \/ T[6] = n /\ ((T[1] = <<>> /\ T[2] = Q \o E) \/ (T[1] = Q \o E /\ T[2] = <<>>))
      \/ T[1] = <<>> /\ T[2] = Q /\ T[6] = n
  <2>0. \/ T = <<E, Q, S, L, D, n>>
        \/ T = <<Append(E, n + 1), Q, S, L, D, n + 1>>
        \/ T = <<<<>>, Q \o E, S, L, D, n>>
        \/ T = <<<<>>, Q, S \o E, L, D, n>>
        \/ \E c : T = <<<<>>, Q, S, L \cup {c}, D, n>>
        \/ T = <<Q \o E, <<>>, S, L, D, n>>
    BY Zenon DEF Rest
  <2>1. CASE T = <<<<>>, Q \o E, S, L, D, n>>
    BY <2>1
  <2>2. CASE T = <<<<>>, Q, S \o E, L, D, n>>
    BY <2>2
  <2>3. CASE \E c : T = <<<<>>, Q, S, L \cup {c}, D, n>>
    BY <2>3
  <2>4. CASE T = <<Q \o E, <<>>, S, L, D, n>>
    BY <2>4
  <2>. QED
    BY <2>0, <2>1, <2>2, <2>3, <2>4
<1>. QED
  BY <1>1, <1>2, <1>3, <1>4, <1>5

LEMMA Regroup ==
    ASSUME NEW r \in Seq(Nat), NEW s \in Seq(Nat), NEW t \in Seq(Nat)
    PROVE  (r \o s) \o t = r \o (s \o t)
BY ConcatAssociative, SMTT(30)

LEMMA MovedEnds ==
    ASSUME NEW E \in Seq(Nat), NEW Q \in Seq(Nat), NEW S, NEW L, NEW D, NEW n \in Nat, NEW T,
           Moved(E, Q, S, L, D, n, T)
    PROVE  MovedTakes(Q \o E, T[2] \o T[1], L, n, T[6])
<1>. USE DEF MovedTakes
<1>0. /\ Q \o E \in Seq(Nat) /\ <<>> \in Seq(Nat) /\ <<>> \o (Q \o E) = Q \o E /\ <<>> \o E = E
  BY ConcatType, ConcatEmptySeq
<1>1. ASSUME NEW h \in Seq(Nat), NEW q \in Seq(Nat), Q = h \o q
      PROVE  Q \o E = h \o (q \o E)
  BY <1>1, ConcatAssociative, SMTT(30)
<1>2. ASSUME NEW h \in Seq(Nat), NEW q \in Seq(Nat), Q = h \o q, T[1] = E, T[2] = q, T[6] = n
      PROVE  T[6] = n /\ \E g \in Seq(Nat) : Q \o E = g \o (T[2] \o T[1])
  BY <1>1, <1>2
<1>3. CASE T[1] = E /\ T[2] = Q /\ T[6] = n
  BY <1>0, <1>3
<1>4. CASE T[1] = E /\ T[2] = <<>> /\ T[6] = n
  BY <1>0, <1>4
<1>5. ASSUME NEW c \in L, c.entry.of \in Seq(Nat), T[1] = (c.entry.of \o Q) \o E, T[2] = <<>>, T[6] = n
      PROVE  T[6] = n /\ L # {} /\ \E h \in Seq(Nat) : T[2] \o T[1] = h \o (Q \o E)
  <2>1. (c.entry.of \o Q) \o E = c.entry.of \o (Q \o E)
    <3>. DEFINE o == c.entry.of
    <3>1. o \in Seq(Nat)
      BY <1>5
    <3>. HIDE DEF o
    <3>2. (o \o Q) \o E = o \o (Q \o E)
      BY <3>1, Regroup
    <3>. QED
      BY <3>2 DEF o
  <2>2. c.entry.of \o (Q \o E) \in Seq(Nat)
    BY <1>0, <1>5, ConcatType
  <2>3. <<>> \o (c.entry.of \o (Q \o E)) = c.entry.of \o (Q \o E)
    BY <2>2, ConcatEmptySeq
  <2>. QED
    BY <1>5, <2>1, <2>3
<1>6. CASE \/ \E h, q \in Seq(Nat) : Q = h \o q /\ T = <<E, q, S \o h, L, D, n>>
           \/ \E h, q \in Seq(Nat) : \E c : /\ Q = h \o q /\ IsUser(c.entry) /\ c.entry.of = h
                                            /\ T = <<E, q, S, L \cup {c}, D, n>>
  <2>1. PICK h \in Seq(Nat), q \in Seq(Nat) :
          Q = h \o q /\ (T = <<E, q, S \o h, L, D, n>> \/ \E c : T = <<E, q, S, L \cup {c}, D, n>>)
    BY <1>6, Zenon
  <2>2. T[1] = E /\ T[2] = q /\ T[6] = n
    <3>1. CASE T = <<E, q, S \o h, L, D, n>>
      BY <3>1
    <3>2. CASE \E c : T = <<E, q, S, L \cup {c}, D, n>>
      BY <3>2
    <3>. QED
      BY <2>1, <3>1, <3>2
  <2>. QED
    BY <1>2, <2>1, <2>2
<1>7. CASE \E c \in L : /\ c.entry.of \in Seq(Nat)
                        /\ T = <<(c.entry.of \o Q) \o E, <<>>, S, L \ {c}, D, n>>
  <2>1. PICK c \in L : /\ c.entry.of \in Seq(Nat)
                       /\ T = <<(c.entry.of \o Q) \o E, <<>>, S, L \ {c}, D, n>>
    BY <1>7
  <2>2. T[1] = (c.entry.of \o Q) \o E /\ T[2] = <<>> /\ T[6] = n
    BY <2>1
  <2>. QED
    BY <1>5, <2>1, <2>2
<1>8. CASE \E c \in L : c.entry.of \in Seq(Nat) /\ T = <<E, Q, S \o c.entry.of, L \ {c}, D, n>>
  <2>1. T[1] = E /\ T[2] = Q /\ T[6] = n
    BY <1>8
  <2>. QED
    BY <1>3, <2>1
<1>9. CASE \E B : T = <<E, <<>>, S, L, D \cup B, n>>
  <2>1. T[1] = E /\ T[2] = <<>> /\ T[6] = n
    BY <1>9
  <2>. QED
    BY <1>4, <2>1
<1>. QED
  BY <1>6, <1>7, <1>8, <1>9, Zenon DEF Moved

\* What is in both of two sequences, one of which continues the other, comes in
\* the same order in both.
Ordered(W, V) ==
    \A i, j \in DOMAIN W, k, l \in DOMAIN V : i < j /\ V[k] = W[i] /\ V[l] = W[j] => k < l

LEMMA OrderKept ==
    ASSUME NEW s \in Seq(Nat), NEW t \in Seq(Nat), IsInjective(s \o t)
    PROVE  Ordered(s \o t, s) /\ Ordered(s, s \o t) /\ Ordered(s \o t, t) /\ Ordered(t, s \o t)
<1>1. /\ Len(s) \in Nat /\ Len(t) \in Nat /\ DOMAIN s = 1 .. Len(s) /\ DOMAIN t = 1 .. Len(t)
      /\ DOMAIN (s \o t) = 1 .. Len(s) + Len(t)
      /\ \A k \in 1 .. Len(s) : (s \o t)[k] = s[k]
      /\ \A j \in 1 .. Len(t) : (s \o t)[Len(s) + j] = t[j]
  BY ConcatIs
<1>. DEFINE c == s \o t
<1>2. \A a, b \in DOMAIN c : c[a] = c[b] => a = b
  BY DEF IsInjective
<1>3. /\ DOMAIN c = 1 .. Len(s) + Len(t)
      /\ \A k \in DOMAIN s : k \in DOMAIN c /\ c[k] = s[k]
      /\ \A j \in DOMAIN t : Len(s) + j \in DOMAIN c /\ c[Len(s) + j] = t[j]
  BY <1>1
<1>. HIDE DEF c
<1>4. Ordered(c, s)
  BY <1>2, <1>3 DEF Ordered
<1>5. Ordered(s, c)
  BY <1>2, <1>3 DEF Ordered
<1>6. Ordered(c, t)
  <2>. SUFFICES ASSUME NEW i \in DOMAIN c, NEW j \in DOMAIN c, NEW k \in DOMAIN t, NEW l \in DOMAIN t,
                       i < j, t[k] = c[i], t[l] = c[j]
                PROVE  k < l
    BY DEF Ordered
  <2>1. i = Len(s) + k /\ j = Len(s) + l
    BY <1>2, <1>3
  <2>. QED
    BY <1>1, <2>1
<1>7. Ordered(t, c)
  <2>. SUFFICES ASSUME NEW i \in DOMAIN t, NEW j \in DOMAIN t, NEW k \in DOMAIN c, NEW l \in DOMAIN c,
                       i < j, c[k] = t[i], c[l] = t[j]
                PROVE  k < l
    BY DEF Ordered
  <2>1. k = Len(s) + i /\ l = Len(s) + j
    BY <1>2, <1>3
  <2>. QED
    BY <1>1, <2>1
<1>. QED
  BY <1>4, <1>5, <1>6, <1>7 DEF c

Rises(s) == \A i, j \in DOMAIN s : i < j => s[i] < s[j]

LEMMA RisesParts ==
    ASSUME NEW s \in Seq(Nat), NEW t \in Seq(Nat), Rises(s \o t)
    PROVE  Rises(s) /\ Rises(t)
<1>1. /\ Len(s) \in Nat /\ Len(t) \in Nat /\ DOMAIN s = 1 .. Len(s) /\ DOMAIN t = 1 .. Len(t)
      /\ DOMAIN (s \o t) = 1 .. Len(s) + Len(t)
      /\ \A k \in 1 .. Len(s) : (s \o t)[k] = s[k]
      /\ \A j \in 1 .. Len(t) : (s \o t)[Len(s) + j] = t[j]
  BY ConcatIs
<1>. DEFINE c == s \o t
<1>5. /\ DOMAIN c = 1 .. Len(s) + Len(t)
      /\ \A k \in DOMAIN s : k \in DOMAIN c /\ c[k] = s[k]
      /\ \A j \in DOMAIN t : Len(s) + j \in DOMAIN c /\ c[Len(s) + j] = t[j]
  BY <1>1
<1>6. \A i, j \in DOMAIN c : i < j => c[i] < c[j]
  BY Zenon DEF Rises
<1>. HIDE DEF c
<1>3. Rises(s)
  BY <1>5, <1>6 DEF Rises
<1>4. ASSUME NEW i \in DOMAIN t, NEW j \in DOMAIN t, i < j PROVE t[i] < t[j]
  <2>1. Len(s) + i < Len(s) + j
    BY <1>1, <1>4
  <2>2. c[Len(s) + i] < c[Len(s) + j]
    BY <1>5, <1>6, <2>1
  <2>. QED
    BY <1>5, <2>2
<1>. QED
  BY <1>3, <1>4 DEF Rises

LEMMA RisesOn ==
    ASSUME NEW s \in Seq(Nat), NEW m \in Nat, Rises(s), \A x \in ToSet(s) : x < m
    PROVE  Rises(Append(s, m))
<1>1. /\ Len(s) \in Nat /\ DOMAIN s = 1 .. Len(s) /\ DOMAIN Append(s, m) = 1 .. Len(s) + 1
      /\ (\A i \in 1 .. Len(s) : Append(s, m)[i] = s[i]) /\ Append(s, m)[Len(s) + 1] = m
  OBVIOUS
<1>2. \A i \in DOMAIN s : s[i] < m
  BY DEF ToSet
<1>. QED
  BY <1>1, <1>2 DEF Rises

-----------------------------------------------------------------------------
(* What each action does to the places of the prompts *)

Now == <<editor, Typed(queue), Typed(sent), Loading, Dropped, typed>>

KeptPart == KeptAt(Now)

Moves == \/ Rest(editor, Typed(queue), Typed(sent), Loading, Dropped, typed, Now')
         \/ Moved(editor, Typed(queue), Typed(sent), Loading, Dropped, typed, Now')

LEMMA NowIs ==
    Now' = <<editor', Typed(queue'), Typed(sent'), Loading', Dropped', typed'>>
BY DEF Now

LEMMA Stays == ASSUME Now' = Now PROVE Moves
BY Zenon DEF Moves, Rest, Now

LEMMA LoadingIs ==
    ASSUME WakeTypes
    PROVE  /\ \A e \in Entry, q \in BOOLEAN :
                turns' = turns \cup {NewCall(e, q, "running")} => Loading' = Loading
           /\ \A e \in Entry, q \in BOOLEAN :
                turns' = turns \cup {NewCall(e, q, "expanding")}
                  => Loading' = Loading \cup {NewCall(e, q, "expanding")}
           /\ \A c \in turns :
                turns' = (turns \ {c}) \cup {Ran(c)} => Loading' = Loading \ {c}
           /\ \A c \in turns :
                turns' = turns \ {c} \/ turns' = (turns \ {c}) \cup {Wound(c)}
                  => Loading' = Loading \ {c}
           /\ \A c \in turns :
                turns' = (turns \ {c}) \cup {Forgot(c)} /\ c.step = "running" => Loading' = Loading
           /\ \A c \in turns, t \in Task :
                turns' = (turns \ {c}) \cup {Saw(c, t)} /\ c.step = "running" => Loading' = Loading
<1>0. turns \subseteq Call /\ gen \in 0 .. MaxClear
  BY DEF WakeTypes, TypeOK
<1>1. ASSUME NEW e \in Entry, NEW q \in BOOLEAN
      PROVE  /\ turns' = turns \cup {NewCall(e, q, "running")} => Loading' = Loading
             /\ turns' = turns \cup {NewCall(e, q, "expanding")}
                  => Loading' = Loading \cup {NewCall(e, q, "expanding")}
  <2>1. NewCall(e, q, "running").step = "running" /\ NewCall(e, q, "expanding").step = "expanding"
    BY <1>0, NewCallIs
  <2>. QED
    BY <2>1 DEF Loading
<1>2. ASSUME NEW c \in turns
      PROVE  /\ turns' = (turns \ {c}) \cup {Ran(c)} => Loading' = Loading \ {c}
             /\ turns' = turns \ {c} \/ turns' = (turns \ {c}) \cup {Wound(c)} => Loading' = Loading \ {c}
             /\ turns' = (turns \ {c}) \cup {Forgot(c)} /\ c.step = "running" => Loading' = Loading
             /\ \A t \in Task :
                  turns' = (turns \ {c}) \cup {Saw(c, t)} /\ c.step = "running" => Loading' = Loading
  <2>1. Ran(c).step = "running" /\ Wound(c).step = "winding" /\ Forgot(c).step = c.step
    BY <1>0, RanIs, WoundIs, ForgotIs
  <2>2. \A t \in Task : Saw(c, t).step = c.step
    BY <1>0, SawIs
  <2>. QED
    BY <2>1, <2>2 DEF Loading
<1>. QED
  BY <1>1, <1>2

LEMMA SeqsAre ==
    ASSUME WakeTypes
    PROVE  /\ queue \in Seq(Entry) /\ sent \in Seq(Entry) /\ editor \in Seq(1 .. Prompts)
           /\ editor \in Seq(Nat) /\ Typed(queue) \in Seq(Nat) /\ Typed(sent) \in Seq(Nat)
           /\ typed \in Nat
<1>1. /\ queue \in Seq(Entry) /\ sent \in Seq(Entry) /\ editor \in Seq(1 .. Prompts)
      /\ typed \in Nat
  BY PromptsAssumption DEF WakeTypes, TypeOK
<1>2. Typed(queue) \in Seq(1 .. Prompts) /\ Typed(sent) \in Seq(1 .. Prompts)
  BY <1>1, TypedType
<1>3. 1 .. Prompts \subseteq Nat
  BY PromptsAssumption
<1>4. editor \in Seq(Nat) /\ Typed(queue) \in Seq(Nat) /\ Typed(sent) \in Seq(Nat)
  BY <1>1, <1>2, <1>3, SeqMonotonic
<1>. QED
  BY <1>1, <1>4

LEMMA OfIs ==
    ASSUME NEW e \in Entry, IsUser(e)
    PROVE  e.of \in Seq(Nat)
<1>1. e.of \in Seq(1 .. Prompts)
  BY EntryIs
<1>2. 1 .. Prompts \subseteq Nat
  BY PromptsAssumption
<1>. QED
  BY <1>1, <1>2, SeqMonotonic

\* An entry that is submitted is loaded first, if it was typed, or becomes a turn.
LEMMA SubmitPlaces ==
    ASSUME WakeTypes, NEW e \in Entry, NEW q \in BOOLEAN, Submit(e, q)
    PROVE  \/ /\ IsUser(e) /\ Typed(sent') = Typed(sent)
              /\ \E c : c.entry = e /\ Loading' = Loading \cup {c}
           \/ /\ Typed(sent') = Typed(sent) \o (IF IsUser(e) THEN e.of ELSE <<>>)
              /\ Loading' = Loading
<1>1. Waits(e, q) \/ Begins(e, q)
  BY SubmitIs
<1>2. CASE Waits(e, q)
  <2>1. IsUser(e) /\ sent' = sent /\ turns' = turns \cup {NewCall(e, q, "expanding")}
    BY <1>2 DEF Waits
  <2>2. Loading' = Loading \cup {NewCall(e, q, "expanding")}
    BY <2>1, LoadingIs
  <2>3. NewCall(e, q, "expanding").entry = e
    BY DEF NewCall
  <2>. QED
    BY <2>1, <2>2, <2>3
<1>3. CASE Begins(e, q)
  <2>1. sent' = Append(sent, e) /\ turns' = turns \cup {NewCall(e, q, "running")}
    BY <1>3 DEF Begins
  <2>2. Loading' = Loading
    BY <2>1, LoadingIs
  <2>3. Typed(Append(sent, e)) = Typed(sent) \o (IF IsUser(e) THEN e.of ELSE <<>>)
    BY SeqsAre, TypedAppend
  <2>. QED
    BY <2>1, <2>2, <2>3
<1>. QED
  BY <1>1, <1>2, <1>3

LEMMA UserMoves == ASSUME WakeTypes, User PROVE Moves
<1>0. /\ queue \in Seq(Entry) /\ sent \in Seq(Entry) /\ editor \in Seq(1 .. Prompts)
      /\ gen \in 0 .. MaxClear
  BY SeqsAre DEF WakeTypes, TypeOK
<1>1. CASE Type
  <2>1. /\ typed' = typed + 1 /\ editor' = Append(editor, typed + 1)
        /\ queue' = queue /\ sent' = sent /\ turns' = turns /\ dropped' = dropped
    BY <1>1 DEF Type, history
  <2>2. Now' = <<Append(editor, typed + 1), Typed(queue), Typed(sent), Loading, Dropped, typed + 1>>
    BY <2>1, NowIs DEF Loading, Dropped
  <2>. QED
    BY <2>2, Zenon DEF Moves, Rest
<1>2. CASE Enter
  <2>. DEFINE e == [kind |-> "user", of |-> editor, gen |-> gen]
  <2>1. e \in Entry /\ IsUser(e) /\ e.of = editor
    BY <1>0, UserEntryIs
  <2>2. \/ queue' = Append(queue, e) /\ UNCHANGED <<turns, status, aborted, sent>>
        \/ Submit(e, FALSE) /\ queue' = queue
    BY <1>2 DEF Enter
  <2>3. editor' = <<>> /\ typed' = typed /\ dropped' = dropped
    BY <1>2 DEF Enter
  <2>. HIDE DEF e
  <2>4. CASE queue' = Append(queue, e) /\ UNCHANGED <<turns, status, aborted, sent>>
    <3>1. Typed(Append(queue, e)) = Typed(queue) \o editor
      BY <1>0, <2>1, TypedAppend
    <3>2. Now' = <<<<>>, Typed(queue) \o editor, Typed(sent), Loading, Dropped, typed>>
      BY <2>3, <2>4, <3>1, NowIs DEF Loading, Dropped
    <3>. QED
      BY <3>2, Zenon DEF Moves, Rest
  <2>5. CASE Submit(e, FALSE) /\ queue' = queue
    <3>1. \/ /\ Typed(sent') = Typed(sent)
             /\ \E c : c.entry = e /\ Loading' = Loading \cup {c}
          \/ /\ Typed(sent') = Typed(sent) \o editor
             /\ Loading' = Loading
      BY <2>1, <2>5, SubmitPlaces
    <3>2. CASE Typed(sent') = Typed(sent) \o editor /\ Loading' = Loading
      <4>1. Now' = <<<<>>, Typed(queue), Typed(sent) \o editor, Loading, Dropped, typed>>
        BY <2>3, <2>5, <3>2, NowIs DEF Dropped
      <4>. QED
        BY <4>1, Zenon DEF Moves, Rest
    <3>3. ASSUME Typed(sent') = Typed(sent), NEW c, c.entry = e, Loading' = Loading \cup {c}
          PROVE  Moves
      <4>1. Now' = <<<<>>, Typed(queue), Typed(sent), Loading \cup {c}, Dropped, typed>>
        BY <2>3, <2>5, <3>3, NowIs DEF Dropped
      <4>2. IsUser(c.entry) /\ c.entry.of = editor
        BY <2>1, <3>3
      <4>. QED
        BY <4>1, <4>2, Zenon DEF Moves, Rest
    <3>. QED
      BY <3>1, <3>2, <3>3
  <2>. QED
    BY <2>2, <2>4, <2>5
<1>3. CASE TakeBack
  <2>1. ReturnToEditor(queue) /\ typed' = typed /\ sent' = sent /\ turns' = turns /\ dropped' = dropped
    BY <1>3 DEF TakeBack, history
  <2>2. Typed(queue') = <<>> /\ editor' = Typed(queue) \o editor
    BY <1>0, <2>1, ReturnIs
  <2>3. Now' = <<Typed(queue) \o editor, <<>>, Typed(sent), Loading, Dropped, typed>>
    BY <2>1, <2>2, NowIs DEF Loading, Dropped
  <2>. QED
    BY <2>3, Zenon DEF Moves, Rest
<1>4. CASE Interrupt \/ Answer \/ ClearBegins
  <2>1. UNCHANGED <<editor, queue, sent, turns, dropped, typed>>
    BY <1>4, Zenon DEF Interrupt, Answer, ClearBegins, history
  <2>. QED
    BY <2>1, Stays DEF Now, Loading, Dropped
<1>. QED
  BY <1>1, <1>2, <1>3, <1>4 DEF User

LEMMA CallMoves ==
    ASSUME WakeTypes, KeptPart, NEW c \in turns,
           Expanded(c) \/ ExpansionFails(c) \/ TurnEnds(c) \/ WindUp(c) \/ Continue(c)
             \/ \E t \in Task : ModelSees(c, t)
    PROVE  Moves
<1>0. /\ queue \in Seq(Entry) /\ sent \in Seq(Entry) /\ editor \in Seq(1 .. Prompts)
      /\ c \in Call /\ c.entry \in Entry
  BY SeqsAre, CallIs DEF WakeTypes, TypeOK
<1>1. \A d \in Loading : IsUser(d.entry)
  BY DEF KeptPart, KeptAt, Now, Kept, Singly
<1>2. c.step = "expanding" => c \in Loading /\ IsUser(c.entry) /\ c.entry.of \in Seq(Nat)
  BY <1>0, <1>1, OfIs DEF Loading
<1>3. CASE Expanded(c)
  <2>1. /\ turns' = (turns \ {c}) \cup {Ran(c)} /\ sent' = Append(sent, c.entry) /\ c.step = "expanding"
        /\ UNCHANGED <<editor, queue, dropped, typed>>
    BY <1>3 DEF Expanded, Ran
  <2>2. Loading' = Loading \ {c}
    BY <2>1, LoadingIs
  <2>3. Typed(Append(sent, c.entry)) = Typed(sent) \o c.entry.of
    BY <1>0, <1>2, <2>1, TypedAppend
  <2>4. Now' = <<editor, Typed(queue), Typed(sent) \o c.entry.of, Loading \ {c}, Dropped, typed>>
    BY <2>1, <2>2, <2>3, NowIs DEF Dropped
  <2>. QED
    BY <1>2, <2>1, <2>4, Zenon DEF Moves, Moved
<1>4. CASE ExpansionFails(c)
  <2>1. /\ AfterCall(c) /\ ReturnToEditor(<<c.entry>> \o queue) /\ c.step = "expanding"
        /\ UNCHANGED <<sent, dropped, typed>>
    BY <1>4 DEF ExpansionFails, history
  <2>2. Loading' = Loading \ {c}
    BY <2>1, AfterCallIs, LoadingIs
  <2>3. <<c.entry>> \in Seq(Entry) /\ Typed(<<c.entry>>) = c.entry.of
    BY <1>0, <1>2, <2>1, TypedOne
  <2>4. <<c.entry>> \o queue \in Seq(Entry) /\ Typed(<<c.entry>> \o queue) = c.entry.of \o Typed(queue)
    BY <1>0, <2>3, ConcatType, TypedConcat
  <2>5. Typed(queue') = <<>> /\ editor' = (c.entry.of \o Typed(queue)) \o editor
    BY <1>0, <2>1, <2>4, ReturnIs
  <2>6. Now' = <<(c.entry.of \o Typed(queue)) \o editor, <<>>, Typed(sent), Loading \ {c}, Dropped, typed>>
    BY <2>1, <2>2, <2>5, NowIs DEF Dropped
  <2>. QED
    BY <1>2, <2>1, <2>6, Zenon DEF Moves, Moved
<1>5. CASE TurnEnds(c)
  <2>1. /\ AfterCall(c) /\ (ReturnToEditor(queue) \/ UNCHANGED <<queue, editor>>)
        /\ c.step = "running" /\ UNCHANGED <<sent, dropped, typed>>
    BY <1>5, Zenon DEF TurnEnds
  <2>2. Loading' = Loading
    <3>1. Loading' = Loading \ {c}
      BY <2>1, AfterCallIs, LoadingIs
    <3>. QED
      BY <2>1, <3>1 DEF Loading
  <2>3. CASE UNCHANGED <<queue, editor>>
    <3>1. Now' = Now
      BY <2>1, <2>2, <2>3, NowIs DEF Dropped, Now
    <3>. QED
      BY <3>1, Stays
  <2>4. CASE ReturnToEditor(queue)
    <3>1. Typed(queue') = <<>> /\ editor' = Typed(queue) \o editor
      BY <1>0, <2>4, ReturnIs
    <3>2. Now' = <<Typed(queue) \o editor, <<>>, Typed(sent), Loading, Dropped, typed>>
      BY <2>1, <2>2, <3>1, NowIs DEF Dropped
    <3>. QED
      BY <3>2, Zenon DEF Moves, Rest
  <2>. QED
    BY <2>1, <2>3, <2>4
<1>6. CASE WindUp(c) \/ Continue(c) \/ \E t \in Task : ModelSees(c, t)
  <2>1. UNCHANGED <<editor, queue, sent, dropped, typed>>
    BY <1>6, Zenon DEF WindUp, Continue, ModelSees, history
  <2>2. CASE WindUp(c)
    <3>1. turns' = turns \ {c} /\ c.step = "winding"
      BY <2>2 DEF WindUp
    <3>2. Loading' = Loading \ {c}
      BY <3>1, LoadingIs
    <3>. QED
      BY <2>1, <3>1, <3>2, Stays, NowIs DEF Now, Loading, Dropped
  <2>3. CASE Continue(c)
    <3>1. turns' = (turns \ {c}) \cup {Forgot(c)} /\ c.step = "running"
      BY <2>3 DEF Continue, Forgot
    <3>2. Loading' = Loading
      BY <3>1, LoadingIs
    <3>. QED
      BY <2>1, <3>2, Stays, NowIs DEF Now, Dropped
  <2>4. ASSUME NEW t \in Task, ModelSees(c, t) PROVE Moves
    <3>1. turns' = (turns \ {c}) \cup {Saw(c, t)} /\ c.step = "running"
      BY <2>4 DEF ModelSees, Saw
    <3>2. Loading' = Loading
      BY <3>1, LoadingIs
    <3>. QED
      BY <2>1, <3>2, Stays, NowIs DEF Now, Dropped
  <2>. QED
    BY <1>6, <2>2, <2>3, <2>4
<1>. QED
  BY <1>3, <1>4, <1>5, <1>6

LEMMA DrainMoves == ASSUME WakeTypes, Drain PROVE Moves
<1>0. queue \in Seq(Entry) /\ sent \in Seq(Entry)
  BY SeqsAre
<1>1. DrainStays \/ DrainEmpties \/ \E e, q : DrainTakes(e, q)
  BY <1>0, DrainIs
<1>2. UNCHANGED <<editor, typed, dropped>>
  BY DEF Drain
<1>3. CASE DrainStays \/ DrainEmpties
  <2>1. Typed(queue') = Typed(queue) /\ UNCHANGED <<sent, turns>>
    BY <1>3, TypedNone DEF DrainStays, DrainEmpties
  <2>. QED
    BY <1>2, <2>1, Stays, NowIs DEF Now, Loading, Dropped
<1>4. ASSUME NEW e, NEW q, DrainTakes(e, q) PROVE Moves
  <2>. DEFINE h == IF IsUser(e) THEN e.of ELSE <<>>
  <2>1. /\ e \in Entry /\ q \in Seq(Entry) /\ queue' = q /\ Submit(e, TRUE)
        /\ Typed(queue) = h \o Typed(q)
    BY <1>4 DEF DrainTakes
  <2>2. h \in Seq(Nat)
    <3>1. <<>> \in Seq(Nat)
      OBVIOUS
    <3>. QED
      BY <2>1, <3>1, OfIs
  <2>3. Typed(q) \in Seq(Nat)
    <3>1. Typed(q) \in Seq(1 .. Prompts) /\ 1 .. Prompts \subseteq Nat
      BY <2>1, TypedType, PromptsAssumption
    <3>. QED
      BY <3>1, SeqMonotonic
  <2>4. \/ /\ IsUser(e) /\ Typed(sent') = Typed(sent)
           /\ \E c : c.entry = e /\ Loading' = Loading \cup {c}
        \/ Typed(sent') = Typed(sent) \o h /\ Loading' = Loading
    BY <2>1, SubmitPlaces
  <2>5. IsUser(e) => h = e.of
    OBVIOUS
  <2>. HIDE DEF h
  <2>6. CASE Typed(sent') = Typed(sent) \o h /\ Loading' = Loading
    <3>1. Now' = <<editor, Typed(q), Typed(sent) \o h, Loading, Dropped, typed>>
      BY <1>2, <2>1, <2>6, NowIs DEF Dropped
    <3>. QED
      BY <2>1, <2>2, <2>3, <3>1, Zenon DEF Moves, Moved
  <2>7. ASSUME IsUser(e), Typed(sent') = Typed(sent), NEW c, c.entry = e, Loading' = Loading \cup {c}
        PROVE  Moves
    <3>1. Now' = <<editor, Typed(q), Typed(sent), Loading \cup {c}, Dropped, typed>>
      BY <1>2, <2>1, <2>7, NowIs DEF Dropped
    <3>2. IsUser(c.entry) /\ c.entry.of = h
      BY <2>5, <2>7
    <3>. QED
      BY <2>1, <2>2, <2>3, <3>1, <3>2, Zenon DEF Moves, Moved
  <2>. QED
    BY <2>4, <2>6, <2>7
<1>. QED
  BY <1>1, <1>3, <1>4

\* Wakes put behind the queue are not prompts.
LEMMA WakesJoin ==
    ASSUME WakeTypes, NEW q \in Seq(Entry), \A e \in ToSet(q) : ~IsUser(e), queue' = queue \o q
    PROVE  Typed(queue') = Typed(queue)
<1>1. Typed(q) = <<>>
  <2>1. \A e \in ToSet(q) : IsWake(e)
    BY DEF IsUser, IsWake
  <2>. QED
    BY <2>1, TypedWakes
<1>2. Typed(queue \o q) = Typed(queue) \o Typed(q)
  BY SeqsAre, TypedConcat
<1>3. Typed(queue) \o <<>> = Typed(queue)
  BY SeqsAre, ConcatEmptySeq
<1>. QED
  BY <1>1, <1>2, <1>3

LEMMA EnqueueMoves ==
    ASSUME WakeTypes, NEW L, EnqueueDelegations(L)
    PROVE  Typed(queue') = Typed(queue)
<1>1. gen \in 0 .. MaxClear
  BY DEF WakeTypes, TypeOK
<1>2. PICK D \in SUBSET Delegation, q \in Seq(Entry) : DelegationWakes(q) /\ queue' = queue \o q
  BY <1>1, EnqueueIs
<1>3. \A e \in ToSet(q) : ~IsUser(e)
  BY <1>2 DEF DelegationWakes, IsUser
<1>. QED
  BY <1>2, <1>3, WakesJoin

LEMMA OtherMoves ==
    ASSUME WakeTypes, KeptPart,
           \/ IdleSweep \/ Ask \/ ClearEnds \/ ClearFails
           \/ \E t \in Task : JobStarts(t) \/ JobSettles(t) \/ JobPublished(t) \/ TailRead(t)
           \/ \E d \in Delegation : Dispatch(d) \/ DelegationSettles(d) \/ Deliver(d)
    PROVE  Moves
<1>0. queue \in Seq(Entry) /\ sent \in Seq(Entry)
  BY SeqsAre
<1>1. ASSUME Typed(queue') = Typed(queue), UNCHANGED <<editor, sent, turns, dropped, typed>>
      PROVE  Moves
  BY <1>1, Stays, NowIs DEF Now, Loading, Dropped
<1>2. CASE Ask \/ ClearFails \/ \E d \in Delegation : Dispatch(d) \/ Deliver(d)
  <2>1. UNCHANGED <<queue, editor, sent, turns, dropped, typed>>
    BY <1>2, Zenon DEF Ask, ClearFails, Dispatch, Deliver, history, sessionVars
  <2>. QED
    BY <1>1, <2>1
<1>3. CASE \E t \in Task : JobStarts(t) \/ JobSettles(t) \/ JobPublished(t)
  <2>1. UNCHANGED <<queue, editor, sent, turns, dropped, typed>>
    BY <1>3, Zenon DEF JobStarts, JobSettles, JobPublished, history, sessionVars
  <2>. QED
    BY <1>1, <2>1
<1>4. ASSUME NEW t \in Task, TailRead(t) PROVE Moves
  <2>1. UNCHANGED <<editor, sent, turns, dropped, typed>>
    BY <1>4 DEF TailRead, history
  <2>2. \/ queue' = queue
        \/ \E q \in Seq(Entry) : queue' = queue \o q /\ \A e \in ToSet(q) : e.kind = "job"
    <3>1. tail[t] \subseteq 0 .. MaxClear
      BY DEF WakeTypes, TypeOK
    <3>. QED
      BY <1>4, <3>1, TailReadIs
  <2>3. Typed(queue') = Typed(queue)
    <3>1. ASSUME NEW q \in Seq(Entry), queue' = queue \o q, \A e \in ToSet(q) : e.kind = "job"
          PROVE  Typed(queue') = Typed(queue)
      <4>1. \A e \in ToSet(q) : ~IsUser(e)
        BY <3>1 DEF IsUser
      <4>. QED
        BY <3>1, <4>1, WakesJoin
    <3>. QED
      BY <2>2, <3>1
  <2>. QED
    BY <1>1, <2>1, <2>3
<1>5. ASSUME NEW d \in Delegation, DelegationSettles(d) PROVE Moves
  <2>1. UNCHANGED <<editor, sent, turns, dropped, typed>>
    BY <1>5 DEF DelegationSettles, history
  <2>2. PICK L : L = delegation'
    OBVIOUS
  <2>3. EnqueueDelegations(L) \/ UNCHANGED <<queue, woken>>
    BY <1>5, <2>2 DEF DelegationSettles
  <2>4. Typed(queue') = Typed(queue)
    BY <2>3, EnqueueMoves
  <2>. QED
    BY <1>1, <2>1, <2>4
<1>6. CASE IdleSweep
  <2>1. UNCHANGED <<editor, sent, turns, dropped, typed>> /\ EnqueueDelegations(delegation)
    BY <1>6 DEF IdleSweep, history
  <2>2. Typed(queue') = Typed(queue)
    BY <2>1, EnqueueMoves
  <2>. QED
    BY <1>1, <2>1, <2>2
<1>7. CASE ClearEnds
  <2>. DEFINE B == {e \in ToSet(queue) : IsUser(e)}
  <2>1. /\ UNCHANGED <<editor, sent, turns, typed>> /\ queue' = <<>>
        /\ dropped' = dropped \cup ToSet(queue)
                        \cup {[kind |-> "job", of |-> t, gen |-> gen] : t \in {u \in Task : tail[u] # {}}}
    BY <1>7 DEF ClearEnds
  <2>2. Dropped' = Dropped \cup B
    <3>. DEFINE J == {[kind |-> "job", of |-> t, gen |-> gen] : t \in {u \in Task : tail[u] # {}}}
    <3>1. \A e \in J : e.kind = "job"
      OBVIOUS
    <3>2. dropped' = dropped \cup ToSet(queue) \cup J
      BY <2>1
    <3>. HIDE DEF J
    <3>3. \A e \in J : ~IsUser(e)
      BY <3>1 DEF IsUser
    <3>. QED
      BY <3>2, <3>3 DEF Dropped
  <2>3. IsInjective(Typed(queue))
    BY DEF KeptPart, KeptAt, Now, Kept, Singly
  <2>4. /\ \A d \in B : IsInjective(d.of)
        /\ \A d, e \in B : d # e => ToSet(d.of) \cap ToSet(e.of) = {}
    BY <1>0, <2>3, TypedParts
  <2>5. \A x : x \in ToSet(Typed(queue)) <=> \E e \in B : x \in ToSet(e.of)
    BY <1>0, TypedElements, Zenon
  <2>. HIDE DEF B
  <2>6. Splits(ToSet(Typed(queue)), B)
    BY <2>4, <2>5, Zenon DEF Splits
  <2>7. Now' = <<editor, <<>>, Typed(sent), Loading, Dropped \cup B, typed>>
    BY <2>1, <2>2, TypedNone, NowIs DEF Loading
  <2>. QED
    BY <2>4, <2>6, <2>7, Zenon DEF Moves, Moved
<1>. QED
  BY <1>2, <1>3, <1>4, <1>5, <1>6, <1>7

LEMMA MovesStep == ASSUME WakeTypes, KeptPart, [WakeNext]_vars PROVE Moves
<1>1. CASE UNCHANGED vars \/ Commit
  <2>1. UNCHANGED <<queue, editor, sent, turns, dropped, typed>>
    BY <1>1 DEF Commit, vars, sessionVars, history
  <2>. QED
    BY <2>1, Stays, NowIs DEF Now, Loading, Dropped
<1>2. CASE WakeNext
  BY <1>1, <1>2, WakeSteps, UserMoves, CallMoves, DrainMoves, OtherMoves, Zenon
<1>. QED
  BY <1>1, <1>2

-----------------------------------------------------------------------------
(* Each prompt once, and in its order *)

LEMMA KeptInit == ASSUME WakeInit PROVE KeptPart
<1>1. /\ editor = <<>> /\ queue = <<>> /\ sent = <<>> /\ turns = {} /\ dropped = {} /\ typed = 0
  BY DEF WakeInit
<1>2. Now = <<<<>>, <<>>, <<>>, {}, {}, 0>>
  BY <1>1, TypedNone DEF Now, Loading, Dropped
<1>3. ToSet(<<>>) = {} /\ IsInjective(<<>>)
  BY ElementsNone
<1>4. 1 .. 0 = {}
  OBVIOUS
<1>5. Singly(<<>>, <<>>, <<>>, {}, {})
  BY <1>3 DEF Singly
<1>6. Placed({}, {}, {}, {}, {}, 0)
  BY <1>4, Zenon DEF Placed
<1>7. Kept(<<>>, <<>>, <<>>, {}, {}, 0)
  BY <1>3, <1>5, <1>6 DEF Kept
<1>. QED
  BY <1>2, <1>7 DEF KeptPart, KeptAt

LEMMA KeptStep == ASSUME WakeTypes, KeptPart, [WakeNext]_vars PROVE KeptPart'
<1>1. Moves
  BY MovesStep
<1>2. Kept(editor, Typed(queue), Typed(sent), Loading, Dropped, typed)
  BY DEF KeptPart, KeptAt, Now
<1>3. /\ editor \in Seq(Nat) /\ Typed(queue) \in Seq(Nat) /\ Typed(sent) \in Seq(Nat)
      /\ typed \in Nat
  BY SeqsAre
<1>4. PICK T : T = Now'
  OBVIOUS
<1>5. \/ Rest(editor, Typed(queue), Typed(sent), Loading, Dropped, typed, T)
      \/ Moved(editor, Typed(queue), Typed(sent), Loading, Dropped, typed, T)
  BY <1>1, <1>4 DEF Moves
<1>6. KeptAt(T)
  BY <1>2, <1>3, <1>5, KeptRest, KeptMoved
<1>. QED
  BY <1>4, <1>6 DEF KeptPart

\* The property the runs check, from this part.
LEMMA KeptIs == ASSUME KeptPart PROVE EveryPromptOnce
<1>. DEFINE E == editor
            Q == Typed(queue)
            S == Typed(sent)
            L == {c \in turns : c.step = "expanding"}
            D == {e \in dropped : IsUser(e)}
            places == {<<"draft", E>>, <<"queue", Q>>, <<"sent", S>>}
                        \cup {<<"loading", call.entry.of, call>> : call \in L}
                        \cup {<<"dropped", entry.of, entry>> : entry \in D}
<1>1. Singly(E, Q, S, L, D) /\ Placed(ToSet(E), ToSet(Q), ToSet(S), L, D, typed)
  BY DEF KeptPart, KeptAt, Kept, Now, Loading, Dropped
<1>2. SUFFICES /\ \A p \in places : IsInjective(p[2])
               /\ \A p, q \in places : p # q => ToSet(p[2]) \cap ToSet(q[2]) = {}
               /\ UNION {ToSet(p[2]) : p \in places} = 1 .. typed
  BY DEF EveryPromptOnce
<1>. HIDE DEF E, Q, S, L, D
<1>3. ASSUME NEW p \in places
      PROVE  \/ p = <<"draft", E>> /\ p[1] = "draft" /\ p[2] = E
             \/ p = <<"queue", Q>> /\ p[1] = "queue" /\ p[2] = Q
             \/ p = <<"sent", S>> /\ p[1] = "sent" /\ p[2] = S
             \/ /\ p[1] = "loading"
                /\ \E c \in L : p = <<"loading", c.entry.of, c>> /\ p[2] = c.entry.of
             \/ /\ p[1] = "dropped"
                /\ \E d \in D : p = <<"dropped", d.of, d>> /\ p[2] = d.of
  OBVIOUS
<1>4. /\ <<"draft", E>> \in places /\ <<"queue", Q>> \in places /\ <<"sent", S>> \in places
      /\ \A c \in L : <<"loading", c.entry.of, c>> \in places
      /\ \A d \in D : <<"dropped", d.of, d>> \in places
  OBVIOUS
<1>5. /\ \A c \in L : <<"loading", c.entry.of, c>>[2] = c.entry.of
      /\ \A d \in D : <<"dropped", d.of, d>>[2] = d.of
  OBVIOUS
<1>. HIDE DEF places
<1>6. ASSUME NEW p \in places PROVE IsInjective(p[2])
  BY <1>1, <1>3 DEF Singly
<1>7. ASSUME NEW p \in places, NEW q \in places, p # q PROVE ToSet(p[2]) \cap ToSet(q[2]) = {}
  <2>1. CASE p[1] = q[1]
    <3>2. ~ (p[1] \in {"draft", "queue", "sent"})
      BY <1>3, <1>7, <2>1
    <3>3. CASE p[1] = "loading"
      <4>1. PICK c \in L : p = <<"loading", c.entry.of, c>> /\ p[2] = c.entry.of
        BY <1>3, <3>3
      <4>2. PICK d \in L : q = <<"loading", d.entry.of, d>> /\ q[2] = d.entry.of
        BY <1>3, <2>1, <3>3
      <4>3. c # d
        BY <1>7, <4>1, <4>2
      <4>. QED
        BY <1>1, <4>1, <4>2, <4>3 DEF Placed
    <3>4. CASE p[1] = "dropped"
      <4>1. PICK c \in D : p = <<"dropped", c.of, c>> /\ p[2] = c.of
        BY <1>3, <3>4
      <4>2. PICK d \in D : q = <<"dropped", d.of, d>> /\ q[2] = d.of
        BY <1>3, <2>1, <3>4
      <4>3. c # d
        BY <1>7, <4>1, <4>2
      <4>. QED
        BY <1>1, <4>1, <4>2, <4>3 DEF Placed
    <3>. QED
      BY <1>3, <3>2, <3>3, <3>4
  <2>2. CASE p[1] # q[1]
    <3>1. \/ p[2] = E \/ p[2] = Q \/ p[2] = S
          \/ \E c \in L : p[2] = c.entry.of
          \/ \E d \in D : p[2] = d.of
      BY <1>3
    <3>2. ToSet(E) \cap ToSet(Q) = {} /\ ToSet(E) \cap ToSet(S) = {} /\ ToSet(Q) \cap ToSet(S) = {}
      BY <1>1 DEF Placed
    <3>3. \A c \in L : /\ ToSet(c.entry.of) \cap ToSet(E) = {}
                       /\ ToSet(c.entry.of) \cap ToSet(Q) = {}
                       /\ ToSet(c.entry.of) \cap ToSet(S) = {}
      BY <1>1 DEF Placed
    <3>4. \A d \in D : /\ ToSet(d.of) \cap ToSet(E) = {}
                       /\ ToSet(d.of) \cap ToSet(Q) = {}
                       /\ ToSet(d.of) \cap ToSet(S) = {}
      BY <1>1 DEF Placed
    <3>5. \A c \in L, d \in D : ToSet(c.entry.of) \cap ToSet(d.of) = {}
      BY <1>1, Zenon DEF Placed
    <3>6. \A x, y : x \cap y = {} => y \cap x = {}
      OBVIOUS
    <3>7. CASE p[1] \in {"draft", "queue", "sent"}
      BY <1>3, <2>2, <3>2, <3>3, <3>4, <3>6, <3>7
    <3>8. CASE p[1] = "loading"
      <4>1. PICK c \in L : p[2] = c.entry.of
        BY <1>3, <3>8
      <4>. QED
        BY <1>3, <2>2, <3>3, <3>5, <3>8, <4>1
    <3>9. CASE p[1] = "dropped"
      <4>1. PICK d \in D : p[2] = d.of
        BY <1>3, <3>9
      <4>2. CASE q[2] = E \/ q[2] = Q \/ q[2] = S
        BY <3>4, <4>1, <4>2
      <4>3. CASE \E c \in L : q[2] = c.entry.of
        BY <3>5, <3>6, <4>1, <4>3
      <4>4. ~ (q[1] = "dropped")
        BY <2>2, <3>9
      <4>. QED
        BY <1>3, <4>2, <4>3, <4>4
    <3>. QED
      BY <1>3, <3>7, <3>8, <3>9
  <2>. QED
    BY <2>1, <2>2
<1>8. UNION {ToSet(p[2]) : p \in places} = 1 .. typed
  <2>1. ASSUME NEW x PROVE (\E p \in places : x \in ToSet(p[2])) <=> x \in 1 .. typed
    <3>1. x \in 1 .. typed <=> \/ x \in ToSet(E) \/ x \in ToSet(Q) \/ x \in ToSet(S)
                               \/ \E c \in L : x \in ToSet(c.entry.of)
                               \/ \E d \in D : x \in ToSet(d.of)
      BY <1>1, Zenon DEF Placed
    <3>2. ASSUME NEW p \in places, x \in ToSet(p[2]) PROVE x \in 1 .. typed
      BY <1>3, <3>1, <3>2
    <3>3. /\ x \in ToSet(E) => \E p \in places : x \in ToSet(p[2])
          /\ x \in ToSet(Q) => \E p \in places : x \in ToSet(p[2])
          /\ x \in ToSet(S) => \E p \in places : x \in ToSet(p[2])
      BY <1>4
    <3>4. ASSUME NEW c \in L, x \in ToSet(c.entry.of) PROVE \E p \in places : x \in ToSet(p[2])
      BY <1>4, <3>4
    <3>5. ASSUME NEW d \in D, x \in ToSet(d.of) PROVE \E p \in places : x \in ToSet(p[2])
      BY <1>4, <3>5
    <3>. QED
      BY <3>1, <3>2, <3>3, <3>4, <3>5
  <2>. QED
    BY <2>1
<1>. QED
  BY <1>6, <1>7, <1>8

\* What waits before a step and after it.
LEMMA WaitingEnds ==
    ASSUME Moves, WakeTypes
    PROVE  /\ Waiting \in Seq(Nat)
           /\ \/ /\ typed' = typed + 1 /\ Waiting' = Append(Waiting, typed + 1)
              \/ /\ typed' = typed
                 /\ \/ \E h \in Seq(Nat) : Waiting = Waiting' \o h \/ Waiting = h \o Waiting'
                    \/ Loading # {} /\ \E h \in Seq(Nat) : Waiting' = h \o Waiting
<1>1. /\ editor \in Seq(Nat) /\ Typed(queue) \in Seq(Nat) /\ Typed(sent) \in Seq(Nat)
      /\ typed \in Nat
  BY SeqsAre
<1>2. Waiting \in Seq(Nat)
  BY <1>1, ConcatType DEF Waiting
<1>3. PICK T : T = Now'
  OBVIOUS
<1>4. T[2] \o T[1] = Waiting' /\ T[6] = typed'
  BY <1>3, NowIs DEF Waiting
<1>5. \/ Rest(editor, Typed(queue), Typed(sent), Loading, Dropped, typed, T)
      \/ Moved(editor, Typed(queue), Typed(sent), Loading, Dropped, typed, T)
  BY <1>3 DEF Moves
<1>6. CASE Rest(editor, Typed(queue), Typed(sent), Loading, Dropped, typed, T)
  <2>1. \/ T[2] \o T[1] = Append(Waiting, typed + 1) /\ T[6] = typed + 1
        \/ T[6] = typed /\ \E h \in Seq(Nat) : Waiting = (T[2] \o T[1]) \o h
    <3>1. RestTakes(Typed(queue) \o editor, T[2] \o T[1], typed, T[6])
      BY ONLY <1>1, <1>6, RestEnds
    <3>. QED
      BY <3>1 DEF Waiting, RestTakes
  <2>. QED
    BY <1>2, <1>4, <2>1, Zenon
<1>7. CASE Moved(editor, Typed(queue), Typed(sent), Loading, Dropped, typed, T)
  <2>1. /\ T[6] = typed
        /\ \/ \E h \in Seq(Nat) : Waiting = h \o (T[2] \o T[1])
           \/ Loading # {} /\ \E h \in Seq(Nat) : T[2] \o T[1] = h \o Waiting
    <3>1. MovedTakes(Typed(queue) \o editor, T[2] \o T[1], Loading, typed, T[6])
      BY ONLY <1>1, <1>7, MovedEnds
    <3>. QED
      BY <3>1 DEF Waiting, MovedTakes
  <2>. QED
    BY <1>2, <1>4, <2>1, Zenon
<1>. QED
  BY <1>5, <1>6, <1>7

LEMMA WaitsOnce ==
    ASSUME NEW E \in Seq(Nat), NEW Q \in Seq(Nat), NEW S, NEW L, NEW D, NEW n, Kept(E, Q, S, L, D, n)
    PROVE  /\ Q \o E \in Seq(Nat) /\ IsInjective(Q \o E)
           /\ \A x \in ToSet(Q \o E) : x \in 1 .. n
<1>1. /\ IsInjective(E) /\ IsInjective(Q) /\ ToSet(E) \cap ToSet(Q) = {}
      /\ \A x : x \in ToSet(E) \/ x \in ToSet(Q) => x \in 1 .. n
  BY DEF Kept, Singly, Placed
<1>2. ToSet(Q) \cap ToSet(E) = {}
  BY <1>1
<1>3. Q \o E \in Seq(Nat)
  BY ConcatType
<1>4. IsInjective(Q \o E) /\ ToSet(Q \o E) = ToSet(Q) \cup ToSet(E)
  BY <1>1, <1>2, OnceConcat, ElementsConcat
<1>. QED
  BY <1>1, <1>3, <1>4

LEMMA NeverReorderedStep ==
    ASSUME WakeTypes, KeptPart, WakeTypes', KeptPart', [WakeNext]_vars
    PROVE  Ordered(Waiting, Waiting')
<1>1. Waiting \in Seq(Nat) /\ IsInjective(Waiting) /\ \A x \in ToSet(Waiting) : x \in 1 .. typed
  <2>1. Kept(editor, Typed(queue), Typed(sent), Loading, Dropped, typed)
    BY DEF KeptPart, KeptAt, Now
  <2>2. editor \in Seq(Nat) /\ Typed(queue) \in Seq(Nat)
    BY SeqsAre
  <2>. QED
    BY <2>1, <2>2, WaitsOnce DEF Waiting
<1>2. Waiting' \in Seq(Nat) /\ IsInjective(Waiting')
  <2>1. Kept(editor', Typed(queue'), Typed(sent'), Loading', Dropped', typed')
    BY DEF KeptPart, KeptAt, Now
  <2>2. editor' \in Seq(Nat) /\ Typed(queue') \in Seq(Nat)
    <3>1. editor' \in Seq(1 .. Prompts) /\ queue' \in Seq(Entry) /\ 1 .. Prompts \subseteq Nat
      BY PromptsAssumption DEF WakeTypes, TypeOK
    <3>2. PICK r : r = queue'
      OBVIOUS
    <3>3. Typed(r) \in Seq(1 .. Prompts)
      BY <3>1, <3>2, TypedType
    <3>. QED
      BY <3>1, <3>2, <3>3, SeqMonotonic
  <2>3. PICK e, q, s, l, d, n : e = editor' /\ q = Typed(queue') /\ s = Typed(sent') /\ l = Loading'
                                /\ d = Dropped' /\ n = typed'
    OBVIOUS
  <2>4. q \o e \in Seq(Nat) /\ IsInjective(q \o e)
    BY <2>1, <2>2, <2>3, WaitsOnce
  <2>. QED
    BY <2>3, <2>4 DEF Waiting
<1>3. PICK v : v = Waiting'
  OBVIOUS
<1>4. v \in Seq(Nat) /\ IsInjective(v)
  BY <1>2, <1>3
<1>5. \/ v = Append(Waiting, typed + 1)
      \/ \E h \in Seq(Nat) : Waiting = v \o h \/ Waiting = h \o v \/ v = h \o Waiting
  BY <1>3, MovesStep, WaitingEnds
<1>6. CASE v = Append(Waiting, typed + 1)
  <2>1. typed + 1 \in Nat
    BY SeqsAre
  <2>2. v = Waiting \o <<typed + 1>> /\ <<typed + 1>> \in Seq(Nat)
    BY <1>1, <1>6, <2>1, AppendIsConcat
  <2>. QED
    BY <1>1, <1>3, <1>4, <2>2, OrderKept
<1>7. ASSUME NEW h \in Seq(Nat), Waiting = v \o h \/ Waiting = h \o v \/ v = h \o Waiting
      PROVE  Ordered(Waiting, v)
  BY <1>1, <1>4, <1>7, OrderKept
<1>. QED
  BY <1>3, <1>5, <1>6, <1>7

-----------------------------------------------------------------------------
(* One wake for each job and each delegation *)

Apart(s, q) == /\ WakesDiffer(s) /\ WakesDiffer(q)
               /\ \A x \in ToSet(s), y \in ToSet(q) : ~Rivals(x, y)

\* A wake in the queue or in a turn is of a job whose snapshot was published and
\* whose tail was read, or of a delegation that was announced.
Backed(e) == /\ e.kind = "job" => published[e.of] = 1 /\ tail[e.of] = {}
             /\ e.kind = "delegation" => e.of \in woken

TailsOwed == \A t \in Task : tail[t] \subseteq {gen} /\ (tail[t] # {} => published[t] = 1)

Announced == /\ Apart(sent, queue)
             /\ \A e \in ToSet(sent) \cup ToSet(queue) : Backed(e)
             /\ TailsOwed

\* Steps that add no wake.
Shuffled(s, q, v, r) ==
    \/ v = s /\ ToSet(r) \subseteq ToSet(q) /\ (WakesDiffer(q) => WakesDiffer(r))
    \/ r = q /\ \E e \in Entry : IsUser(e) /\ v = Append(s, e)
    \/ v = s /\ \E e \in Entry : IsUser(e) /\ r = Append(q, e)
    \/ \E e \in ToSet(q) : /\ v = Append(s, e) /\ ToSet(r) \subseteq ToSet(q)
                           /\ WakesDiffer(q) => /\ WakesDiffer(r)
                                                /\ \A x \in ToSet(r) : ~Rivals(e, x)

LEMMA WakesAppend ==
    ASSUME NEW s \in Seq(Entry), NEW e \in Entry, WakesDiffer(s), \A x \in ToSet(s) : ~Rivals(x, e)
    PROVE  WakesDiffer(Append(s, e)) /\ ToSet(Append(s, e)) = ToSet(s) \cup {e}
<1>1. Append(s, e) = s \o <<e>> /\ <<e>> \in Seq(Entry)
  BY AppendIsConcat
<1>2. WakesDiffer(<<e>>) /\ ToSet(<<e>>) = {e}
  BY WakesFew, ElementsOne
<1>3. \A x \in ToSet(s), y \in ToSet(<<e>>) : ~Rivals(x, y)
  BY <1>2
<1>4. WakesDiffer(s \o <<e>>)
  BY <1>1, <1>2, <1>3, WakesConcat
<1>5. ToSet(s \o <<e>>) = ToSet(s) \cup ToSet(<<e>>)
  BY <1>1, ElementsConcat, ZenonT(40)
<1>. QED
  BY <1>1, <1>2, <1>4, <1>5

LEMMA ShuffledApart ==
    ASSUME NEW s \in Seq(Entry), NEW q \in Seq(Entry), NEW v, NEW r, Apart(s, q), Shuffled(s, q, v, r)
    PROVE  /\ Apart(v, r)
           /\ \A x \in ToSet(v) \cup ToSet(r) : x \in ToSet(s) \cup ToSet(q) \/ IsUser(x)
<1>0. /\ WakesDiffer(s) /\ WakesDiffer(q) /\ (\A x \in ToSet(s), y \in ToSet(q) : ~Rivals(x, y))
      /\ ToSet(s) \subseteq Entry /\ ToSet(q) \subseteq Entry
  BY ElementsIn DEF Apart
<1>1. CASE v = s /\ ToSet(r) \subseteq ToSet(q) /\ (WakesDiffer(q) => WakesDiffer(r))
  BY <1>0, <1>1 DEF Apart
<1>2. ASSUME NEW e \in Entry, IsUser(e) PROVE \A x : ~Rivals(x, e) /\ ~Rivals(e, x)
  BY <1>2 DEF Rivals, IsUser, IsWake
<1>3. ASSUME NEW e \in Entry, IsUser(e), v = Append(s, e), r = q
      PROVE  /\ Apart(v, r)
             /\ \A x \in ToSet(v) \cup ToSet(r) : x \in ToSet(s) \cup ToSet(q) \/ IsUser(x)
  <2>1. WakesDiffer(v) /\ ToSet(v) = ToSet(s) \cup {e}
    BY <1>0, <1>2, <1>3, WakesAppend
  <2>. QED
    BY <1>0, <1>2, <1>3, <2>1 DEF Apart
<1>4. ASSUME NEW e \in Entry, IsUser(e), v = s, r = Append(q, e)
      PROVE  /\ Apart(v, r)
             /\ \A x \in ToSet(v) \cup ToSet(r) : x \in ToSet(s) \cup ToSet(q) \/ IsUser(x)
  <2>1. WakesDiffer(r) /\ ToSet(r) = ToSet(q) \cup {e}
    BY <1>0, <1>2, <1>4, WakesAppend
  <2>. QED
    BY <1>0, <1>2, <1>4, <2>1 DEF Apart
<1>5. ASSUME NEW e \in ToSet(q), v = Append(s, e), ToSet(r) \subseteq ToSet(q), WakesDiffer(r),
             \A x \in ToSet(r) : ~Rivals(e, x)
      PROVE  /\ Apart(v, r)
             /\ \A x \in ToSet(v) \cup ToSet(r) : x \in ToSet(s) \cup ToSet(q) \/ IsUser(x)
  <2>1. WakesDiffer(v) /\ ToSet(v) = ToSet(s) \cup {e}
    <3>1. \A x \in ToSet(s) : ~Rivals(x, e)
      BY <1>0
    <3>. QED
      BY <1>0, <1>5, <3>1, WakesAppend
  <2>. QED
    BY <1>0, <1>5, <2>1 DEF Apart
<1>. QED
  BY <1>0, <1>1, <1>3, <1>4, <1>5, Zenon DEF Shuffled

LEMMA SubmitShuffles ==
    ASSUME NEW e \in Entry, NEW q, Submit(e, q)
    PROVE  (IsUser(e) /\ sent' = sent) \/ sent' = Append(sent, e)
<1>1. Waits(e, q) \/ Begins(e, q)
  BY SubmitIs
<1>. QED
  BY <1>1 DEF Waits, Begins

\* Everything but a publication, a tail read, a settlement and a /clear.
LEMMA ShuffleStep ==
    ASSUME WakeTypes, KeptPart, Apart(sent, queue),
           \/ User \/ Drain \/ Ask \/ ClearFails
           \/ \E c \in turns : Expanded(c) \/ ExpansionFails(c) \/ TurnEnds(c) \/ WindUp(c)
                                \/ Continue(c) \/ \E t \in Task : ModelSees(c, t)
           \/ \E t \in Task : JobStarts(t) \/ JobSettles(t)
           \/ \E d \in Delegation : Dispatch(d) \/ Deliver(d)
    PROVE  Shuffled(sent, queue, sent', queue') /\ UNCHANGED <<published, tail, woken, gen>>
<1>0. /\ queue \in Seq(Entry) /\ sent \in Seq(Entry) /\ editor \in Seq(1 .. Prompts)
      /\ gen \in 0 .. MaxClear
  BY SeqsAre DEF WakeTypes, TypeOK
<1>1. ASSUME sent' = sent, queue' = queue PROVE Shuffled(sent, queue, sent', queue')
  BY <1>1 DEF Shuffled
<1>2. ASSUME sent' = sent, ReturnToEditor(queue) PROVE Shuffled(sent, queue, sent', queue')
  <2>1. ToSet(queue') \subseteq ToSet(queue) /\ (WakesDiffer(queue) => WakesDiffer(queue'))
    BY <1>0, <1>2, ReturnIs
  <2>. QED
    BY <1>2, <2>1, Zenon DEF Shuffled
<1>3. CASE Type \/ Interrupt \/ Answer \/ ClearBegins \/ Ask \/ ClearFails
           \/ \E d \in Delegation : Dispatch(d) \/ Deliver(d)
  <2>1. UNCHANGED <<sent, queue, published, tail, woken, gen>>
    <3>1. CASE Type \/ Interrupt \/ Answer
      BY <3>1, Zenon DEF Type, Interrupt, Answer, jobVars, wakeVars, history
    <3>2. CASE ClearBegins \/ Ask \/ ClearFails
      BY <3>2, Zenon DEF ClearBegins, Ask, ClearFails, jobVars, wakeVars, history
    <3>3. CASE \E d \in Delegation : Dispatch(d) \/ Deliver(d)
      BY <3>3, Zenon DEF Dispatch, Deliver, jobVars, sessionVars, history
    <3>. QED
      BY <1>3, <3>1, <3>2, <3>3
  <2>. QED
    BY <1>1, <2>1
<1>4. CASE \/ \E c \in turns : WindUp(c) \/ Continue(c) \/ \E t \in Task : ModelSees(c, t)
           \/ \E t \in Task : JobStarts(t) \/ JobSettles(t)
  <2>1. UNCHANGED <<sent, queue, published, tail, woken, gen>>
    <3>1. CASE \E c \in turns : WindUp(c) \/ Continue(c) \/ \E t \in Task : ModelSees(c, t)
      BY <3>1, Zenon DEF WindUp, Continue, ModelSees, jobVars, wakeVars, history
    <3>2. CASE \E t \in Task : JobStarts(t) \/ JobSettles(t)
      BY <3>2, Zenon DEF JobStarts, JobSettles, Register, Settle, sessionVars, wakeVars, history
    <3>. QED
      BY <1>4, <3>1, <3>2
  <2>. QED
    BY <1>1, <2>1
<1>5. CASE TakeBack
  <2>1. ReturnToEditor(queue) /\ UNCHANGED <<sent, published, tail, woken, gen>>
    BY <1>5 DEF TakeBack, jobVars, wakeVars, history
  <2>. QED
    BY <1>2, <2>1
<1>6. ASSUME NEW c \in turns, TurnEnds(c)
      PROVE  Shuffled(sent, queue, sent', queue') /\ UNCHANGED <<published, tail, woken, gen>>
  <2>1. /\ ReturnToEditor(queue) \/ UNCHANGED <<queue, editor>>
        /\ UNCHANGED <<sent, published, tail, woken, gen>>
    BY <1>6, Zenon DEF TurnEnds, jobVars
  <2>. QED
    BY <1>1, <1>2, <2>1
<1>7. ASSUME NEW c \in turns, Expanded(c) \/ ExpansionFails(c)
      PROVE  Shuffled(sent, queue, sent', queue') /\ UNCHANGED <<published, tail, woken, gen>>
  <2>1. c.entry \in Entry /\ IsUser(c.entry)
    <3>1. c \in Call
      BY DEF WakeTypes, TypeOK
    <3>2. \A d \in Loading : IsUser(d.entry)
      BY DEF KeptPart, KeptAt, Now, Kept, Singly
    <3>3. c \in Loading
      BY <1>7 DEF Expanded, ExpansionFails, Loading
    <3>. QED
      BY <3>1, <3>2, <3>3, CallIs
  <2>2. CASE Expanded(c)
    <3>1. queue' = queue /\ sent' = Append(sent, c.entry) /\ UNCHANGED <<published, tail, woken, gen>>
      BY <2>2 DEF Expanded, jobVars, wakeVars
    <3>. QED
      BY <2>1, <3>1, Zenon DEF Shuffled
  <2>3. CASE ExpansionFails(c)
    <3>1. ReturnToEditor(<<c.entry>> \o queue) /\ UNCHANGED <<sent, published, tail, woken, gen>>
      BY <2>3 DEF ExpansionFails, jobVars, wakeVars, history
    <3>2. <<c.entry>> \in Seq(Entry) /\ ToSet(<<c.entry>>) = {c.entry}
      BY <2>1, TypedOne, ElementsOne
    <3>3. <<c.entry>> \o queue \in Seq(Entry) /\ ToSet(<<c.entry>> \o queue) = {c.entry} \cup ToSet(queue)
      <4>1. queue \in Seq(Entry) /\ <<c.entry>> \in Seq(Entry)
        BY <1>0, <3>2
      <4>2. <<c.entry>> \o queue \in Seq(Entry)
        BY ONLY <4>1, ConcatType
      <4>3. ToSet(<<c.entry>> \o queue) = ToSet(<<c.entry>>) \cup ToSet(queue)
        BY ONLY <4>1, ElementsConcat, ZenonT(40)
      <4>. QED
        BY <3>2, <4>2, <4>3
    <3>4. /\ ToSet(queue') = {e \in ToSet(<<c.entry>> \o queue) : IsWake(e)}
          /\ WakesDiffer(<<c.entry>> \o queue) => WakesDiffer(queue')
      BY <1>0, <3>1, <3>3, ReturnIs
    <3>5. WakesDiffer(<<c.entry>> \o queue)
      <4>1. WakesDiffer(<<c.entry>>) /\ WakesDiffer(queue)
        BY WakesFew DEF Apart
      <4>2. \A x \in ToSet(<<c.entry>>), y \in ToSet(queue) : ~Rivals(x, y)
        BY <2>1, <3>2 DEF Rivals, IsUser, IsWake
      <4>. QED
        BY <1>0, <3>2, <4>1, <4>2, WakesConcat
    <3>6. ~IsWake(c.entry)
      BY <2>1 DEF IsUser, IsWake
    <3>7. ToSet(queue') \subseteq ToSet(queue)
      BY <3>3, <3>4, <3>6
    <3>. QED
      BY <3>1, <3>4, <3>5, <3>7, Zenon DEF Shuffled
  <2>. QED
    BY <1>7, <2>2, <2>3
<1>8. CASE Enter
  <2>. DEFINE e == [kind |-> "user", of |-> editor, gen |-> gen]
  <2>1. e \in Entry /\ IsUser(e)
    BY <1>0, UserEntryIs
  <2>2. /\ \/ queue' = Append(queue, e) /\ UNCHANGED <<turns, status, aborted, sent>>
           \/ Submit(e, FALSE) /\ queue' = queue
        /\ UNCHANGED <<published, tail, woken, gen>>
    BY <1>8 DEF Enter, jobVars, wakeVars
  <2>. HIDE DEF e
  <2>3. CASE queue' = Append(queue, e) /\ UNCHANGED <<turns, status, aborted, sent>>
    BY <2>1, <2>2, <2>3 DEF Shuffled
  <2>4. CASE Submit(e, FALSE) /\ queue' = queue
    <3>1. sent' = sent \/ sent' = Append(sent, e)
      BY <2>1, <2>4, SubmitShuffles
    <3>. QED
      BY <2>1, <2>2, <2>4, <3>1 DEF Shuffled
  <2>. QED
    BY <2>2, <2>3, <2>4
<1>9. CASE Drain
  <2>1. UNCHANGED <<published, tail, woken, gen>>
    BY <1>9 DEF Drain, jobVars, wakeVars
  <2>2. DrainStays \/ DrainEmpties \/ \E e, q : DrainTakes(e, q)
    BY <1>0, <1>9, DrainIs
  <2>3. CASE DrainStays
    BY <1>1, <2>1, <2>3 DEF DrainStays
  <2>4. CASE DrainEmpties
    <3>1. sent' = sent /\ queue' = <<>> /\ ToSet(<<>>) = {} /\ WakesDiffer(<<>>)
      BY <2>4, ElementsNone, WakesFew DEF DrainEmpties
    <3>2. ToSet(queue') \subseteq ToSet(queue) /\ WakesDiffer(queue')
      BY <3>1
    <3>. QED
      BY <2>1, <3>1, <3>2, Zenon DEF Shuffled
  <2>5. ASSUME NEW e, NEW q, DrainTakes(e, q) PROVE Shuffled(sent, queue, sent', queue')
    <3>1. /\ e \in Entry /\ queue' = q /\ ToSet(q) \subseteq ToSet(queue) /\ e \in ToSet(queue)
          /\ Submit(e, TRUE) /\ (WakesDiffer(queue) => WakesDiffer(q) /\ \A x \in ToSet(q) : ~Rivals(e, x))
      BY <2>5 DEF DrainTakes
    <3>2. sent' = sent \/ sent' = Append(sent, e)
      BY <3>1, SubmitShuffles
    <3>. QED
      BY <3>1, <3>2 DEF Shuffled
  <2>. QED
    BY <2>1, <2>2, <2>3, <2>4, <2>5
<1>. QED
  BY <1>3, <1>4, <1>5, <1>6, <1>7, <1>8, <1>9 DEF User

LEMMA AnnouncedShuffle ==
    ASSUME WakeTypes, Announced, Shuffled(sent, queue, sent', queue'),
           UNCHANGED <<published, tail, woken, gen>>
    PROVE  Announced'
<1>1. sent \in Seq(Entry) /\ queue \in Seq(Entry) /\ Apart(sent, queue)
  BY SeqsAre DEF Announced
<1>2. PICK v, r : v = sent' /\ r = queue'
  OBVIOUS
<1>3. /\ Apart(v, r)
      /\ \A x \in ToSet(v) \cup ToSet(r) : x \in ToSet(sent) \cup ToSet(queue) \/ IsUser(x)
  BY <1>1, <1>2, ShuffledApart
<1>4. \A e \in ToSet(sent) \cup ToSet(queue) : Backed(e)'
  BY DEF Announced, Backed
<1>5. \A e : IsUser(e) => Backed(e)'
  BY DEF Backed, IsUser
<1>6. \A e \in ToSet(v) \cup ToSet(r) : Backed(e)'
  BY <1>3, <1>4, <1>5
<1>7. TailsOwed'
  BY DEF Announced, TailsOwed
<1>. QED
  BY <1>2, <1>3, <1>6, <1>7 DEF Announced

\* Wakes put behind the queue.
LEMMA AnnouncedJoins ==
    ASSUME NEW s \in Seq(Entry), NEW q \in Seq(Entry), NEW w \in Seq(Entry), Apart(s, q), WakesDiffer(w),
           \A x \in ToSet(s) \cup ToSet(q), y \in ToSet(w) : ~Rivals(x, y)
    PROVE  Apart(s, q \o w) /\ ToSet(q \o w) = ToSet(q) \cup ToSet(w)
<1>1. ToSet(q \o w) = ToSet(q) \cup ToSet(w)
  BY ElementsConcat
<1>2. WakesDiffer(s) /\ WakesDiffer(q) /\ \A x \in ToSet(s), y \in ToSet(q) : ~Rivals(x, y)
  BY DEF Apart
<1>3. WakesDiffer(q \o w)
  BY <1>2, WakesConcat
<1>. QED
  BY <1>1, <1>2, <1>3 DEF Apart

LEMMA AnnouncedEnqueue ==
    ASSUME WakeTypes, Announced, NEW L, EnqueueDelegations(L),
           UNCHANGED <<sent, published, tail, gen>>
    PROVE  Announced'
<1>1. sent \in Seq(Entry) /\ queue \in Seq(Entry) /\ Apart(sent, queue) /\ gen \in 0 .. MaxClear
  BY SeqsAre DEF Announced, WakeTypes, TypeOK
<1>2. PICK D \in SUBSET Delegation, w \in Seq(Entry) :
        /\ DelegationWakes(w) /\ woken' = woken \cup D /\ queue' = queue \o w
        /\ \A e \in ToSet(w) : e.of \in D
  BY <1>1, EnqueueIs
<1>3. \A e \in ToSet(w) : e.kind = "delegation" /\ e.of \notin woken
  BY <1>2 DEF DelegationWakes
<1>4. \A x \in ToSet(sent) \cup ToSet(queue), y \in ToSet(w) : ~Rivals(x, y)
  BY <1>3 DEF Announced, Backed, Rivals
<1>5. Apart(sent, queue \o w) /\ ToSet(queue \o w) = ToSet(queue) \cup ToSet(w)
  BY <1>1, <1>2, <1>4, AnnouncedJoins, SMTT(30) DEF DelegationWakes
<1>6. \A e \in ToSet(sent) \cup ToSet(queue) : Backed(e)'
  BY <1>2 DEF Announced, Backed
<1>7. \A e \in ToSet(w) : Backed(e)'
  BY <1>2, <1>3 DEF Backed
<1>8. \A e \in ToSet(sent) \cup ToSet(queue \o w) : Backed(e)'
  BY <1>5, <1>6, <1>7
<1>9. TailsOwed'
  BY DEF Announced, TailsOwed
<1>. QED
  BY <1>2, <1>5, <1>8, <1>9 DEF Announced

LEMMA AnnouncedStep == ASSUME WakeTypes, KeptPart, Announced, [WakeNext]_vars PROVE Announced'
<1>0. /\ sent \in Seq(Entry) /\ queue \in Seq(Entry) /\ Apart(sent, queue) /\ gen \in 0 .. MaxClear
      /\ published \in [Task -> 0 .. 1] /\ tail \in [Task -> SUBSET (0 .. MaxClear)]
      /\ (\A e \in ToSet(sent) \cup ToSet(queue) : Backed(e)) /\ TailsOwed
      /\ \A e \in ToSet(sent) \cup ToSet(queue) : e \in Entry
  BY SeqsAre, ElementsIn DEF Announced, WakeTypes, TypeOK
<1>1. CASE UNCHANGED vars \/ Commit
  <2>1. UNCHANGED <<sent, queue, published, tail, woken, gen>>
    BY <1>1 DEF Commit, vars, jobVars, sessionVars, wakeVars, history
  <2>2. Shuffled(sent, queue, sent', queue')
    BY <2>1 DEF Shuffled
  <2>. QED
    BY <2>1, <2>2, AnnouncedShuffle
<1>2. CASE \/ User \/ Drain \/ Ask \/ ClearFails
           \/ \E c \in turns : Expanded(c) \/ ExpansionFails(c) \/ TurnEnds(c) \/ WindUp(c)
                                \/ Continue(c) \/ \E t \in Task : ModelSees(c, t)
           \/ \E t \in Task : JobStarts(t) \/ JobSettles(t)
           \/ \E d \in Delegation : Dispatch(d) \/ Deliver(d)
  <2>1. Shuffled(sent, queue, sent', queue') /\ UNCHANGED <<published, tail, woken, gen>>
    BY <1>0, <1>2, ShuffleStep
  <2>. QED
    BY <2>1, AnnouncedShuffle
<1>3. CASE IdleSweep
  <2>1. EnqueueDelegations(delegation) /\ UNCHANGED <<sent, published, tail, gen>>
    BY <1>3 DEF IdleSweep, jobVars, history
  <2>. QED
    BY <2>1, AnnouncedEnqueue
<1>4. ASSUME NEW d \in Delegation, DelegationSettles(d) PROVE Announced'
  <2>1. PICK L : L = delegation'
    OBVIOUS
  <2>2. /\ EnqueueDelegations(L) \/ UNCHANGED <<queue, woken>>
        /\ UNCHANGED <<sent, published, tail, gen>>
    BY <1>4, <2>1 DEF DelegationSettles, jobVars, history
  <2>3. CASE UNCHANGED <<queue, woken>>
    <3>1. Shuffled(sent, queue, sent', queue')
      BY <2>2, <2>3 DEF Shuffled
    <3>. QED
      BY <2>2, <2>3, <3>1, AnnouncedShuffle
  <2>. QED
    BY <2>2, <2>3, AnnouncedEnqueue
<1>5. ASSUME NEW t \in Task, JobPublished(t) PROVE Announced'
  <2>1. /\ published[t] = 0 /\ published' = [published EXCEPT ![t] = 1] /\ tail' = [tail EXCEPT ![t] = {gen}]
        /\ UNCHANGED <<sent, queue, woken, gen>>
    BY <1>5 DEF JobPublished, Publish, sessionVars, history
  <2>2. ASSUME NEW e \in ToSet(sent) \cup ToSet(queue) PROVE Backed(e)'
    <3>1. Backed(e) /\ e \in Entry
      BY <1>0
    <3>2. e.kind = "job" => e.of \in Task /\ e.of # t
      <4>1. e.kind = "job" => e.of \in Task
        BY <3>1, EntryIs DEF IsUser
      <4>. QED
        BY <2>1, <3>1, <4>1 DEF Backed
    <3>3. e.kind = "job" => published'[e.of] = published[e.of] /\ tail'[e.of] = tail[e.of]
      BY <1>0, <2>1, <3>2
    <3>. QED
      BY <2>1, <3>1, <3>3 DEF Backed
  <2>3. TailsOwed'
    BY <1>0, <2>1 DEF TailsOwed
  <2>. QED
    BY <1>0, <2>1, <2>2, <2>3 DEF Announced
<1>6. ASSUME NEW t \in Task, TailRead(t) PROVE Announced'
  <2>1. /\ tail[t] # {} /\ tail' = [tail EXCEPT ![t] = {}]
        /\ UNCHANGED <<sent, published, woken, gen>>
    BY <1>6 DEF TailRead, jobVars, history
  <2>2. tail[t] = {gen} /\ published[t] = 1
    BY <1>0, <2>1 DEF TailsOwed
  <2>3. \/ queue' = queue
        \/ \E w \in Seq(Entry) :
             /\ queue' = queue \o w /\ IsInjective(w)
             /\ \A e \in ToSet(w) : e.kind = "job" /\ e.of = t /\ e.gen \in tail[t]
             /\ \A d, e \in ToSet(w) : d.gen = e.gen => d = e
    <3>1. tail[t] \subseteq 0 .. MaxClear
      BY <1>0
    <3>. QED
      BY <1>6, <3>1, TailReadIs
  <2>4. ASSUME NEW e \in ToSet(sent) \cup ToSet(queue)
        PROVE  Backed(e)' /\ ~(e.kind = "job" /\ e.of = t)
    <3>1. Backed(e) /\ e \in Entry
      BY <1>0
    <3>2. e.kind = "job" => e.of \in Task
      BY <3>1, EntryIs DEF IsUser
    <3>3. e.kind = "job" => tail[e.of] = {} /\ published[e.of] = 1
      BY <3>1 DEF Backed
    <3>4. e.kind = "job" => tail'[e.of] = {}
      BY <1>0, <2>1, <3>2, <3>3
    <3>. QED
      BY <2>1, <3>1, <3>3, <3>4 DEF Backed
  <2>5. TailsOwed'
    BY <1>0, <2>1 DEF TailsOwed
  <2>6. CASE queue' = queue
    BY <1>0, <2>1, <2>4, <2>5, <2>6 DEF Announced
  <2>7. ASSUME NEW w \in Seq(Entry), queue' = queue \o w, IsInjective(w),
               \A e \in ToSet(w) : e.kind = "job" /\ e.of = t /\ e.gen \in tail[t],
               \A d, e \in ToSet(w) : d.gen = e.gen => d = e
        PROVE  Announced'
    <3>1. WakesDiffer(w)
      <4>1. \A i \in DOMAIN w : w[i] \in ToSet(w)
        BY DEF ToSet
      <4>2. \A i, j \in DOMAIN w : w[i] = w[j] => i = j
        BY <2>7 DEF IsInjective
      <4>3. \A i, j \in DOMAIN w : w[i] = w[j]
        BY <2>2, <2>7, <4>1, ZenonT(60)
      <4>. QED
        BY <4>2, <4>3 DEF WakesDiffer
    <3>2. \A x \in ToSet(sent) \cup ToSet(queue), y \in ToSet(w) : ~Rivals(x, y)
      BY <2>4, <2>7 DEF Rivals
    <3>3. Apart(sent, queue \o w) /\ ToSet(queue \o w) = ToSet(queue) \cup ToSet(w)
      BY <1>0, <3>1, <3>2, AnnouncedJoins, SMTT(30)
    <3>4. \A e \in ToSet(w) : Backed(e)'
      <4>1. published'[t] = 1 /\ tail'[t] = {}
        BY <1>0, <2>1, <2>2
      <4>. QED
        BY <2>7, <4>1 DEF Backed
    <3>5. \A e \in ToSet(sent) \cup ToSet(queue \o w) : Backed(e)'
      BY <2>4, <3>3, <3>4
    <3>. QED
      BY <2>1, <2>5, <2>7, <3>3, <3>5 DEF Announced
  <2>. QED
    BY <2>3, <2>6, <2>7
<1>7. CASE ClearEnds
  <2>1. /\ queue' = <<>> /\ tail' = [t \in Task |-> {}]
        /\ UNCHANGED <<sent, published, woken>>
    BY <1>7 DEF ClearEnds, jobVars
  <2>2. ToSet(<<>>) = {} /\ WakesDiffer(<<>>)
    BY ElementsNone, WakesFew
  <2>3. ASSUME NEW e \in ToSet(sent) PROVE Backed(e)'
    <3>1. Backed(e) /\ e \in Entry
      BY <1>0
    <3>2. e.kind = "job" => e.of \in Task
      BY <3>1, EntryIs DEF IsUser
    <3>. QED
      BY <2>1, <3>1, <3>2 DEF Backed
  <2>4. TailsOwed'
    BY <2>1 DEF TailsOwed
  <2>5. Apart(sent, <<>>)
    BY <1>0, <2>2 DEF Apart
  <2>. QED
    BY <2>1, <2>2, <2>3, <2>4, <2>5 DEF Announced
<1>8. CASE WakeNext
  BY <1>1, <1>2, <1>3, <1>4, <1>5, <1>6, <1>7, <1>8, WakeSteps, Zenon
<1>. QED
  BY <1>1, <1>8

LEMMA AnnouncedInit == ASSUME WakeInit PROVE Announced
<1>1. sent = <<>> /\ queue = <<>> /\ tail = [t \in Task |-> {}]
  BY DEF WakeInit
<1>2. ToSet(<<>>) = {} /\ WakesDiffer(<<>>)
  BY ElementsNone, WakesFew
<1>. QED
  BY <1>1, <1>2 DEF Announced, Apart, TailsOwed

LEMMA AnnouncedIs == ASSUME WakeTypes, Announced PROVE WokenOnce
<1>1. sent \in Seq(Entry) /\ queue \in Seq(Entry) /\ Apart(sent, queue)
  BY SeqsAre DEF Announced
<1>2. WakesDiffer(sent \o queue)
  BY <1>1, WakesConcat DEF Apart
<1>. QED
  BY <1>2, Zenon DEF WakesDiffer, WokenOnce

-----------------------------------------------------------------------------
(* Turns that do not overlap *)

\* Until a turn begins beside another the session is busy while its one turn runs.
OneTurn ==
    /\ \A c, d \in Running : c = d
    /\ Running # {} <=> status = "streaming"

Single == ~overlapped => OneTurn

LEMMA RunningIs ==
    ASSUME WakeTypes
    PROVE  /\ \A e \in Entry, q \in BOOLEAN :
                turns' = turns \cup {NewCall(e, q, "running")}
                  => Running' = Running \cup {NewCall(e, q, "running")}
           /\ \A c \in turns :
                turns' = turns \ {c} \/ turns' = (turns \ {c}) \cup {Wound(c)}
                  => Running' = Running \ {c}
           /\ \A c \in turns :
                turns' = (turns \ {c}) \cup {Forgot(c)} /\ c.step = "running"
                  => Running' = (Running \ {c}) \cup {Forgot(c)}
           /\ \A c \in turns, t \in Task :
                turns' = (turns \ {c}) \cup {Saw(c, t)} /\ c.step = "running"
                  => Running' = (Running \ {c}) \cup {Saw(c, t)}
<1>0. turns \subseteq Call /\ gen \in 0 .. MaxClear
  BY DEF WakeTypes, TypeOK
<1>1. ASSUME NEW e \in Entry, NEW q \in BOOLEAN, turns' = turns \cup {NewCall(e, q, "running")}
      PROVE  Running' = Running \cup {NewCall(e, q, "running")}
  <2>1. NewCall(e, q, "running").step = "running"
    BY <1>0, NewCallIs
  <2>. QED
    BY <1>1, <2>1 DEF Running
<1>2. ASSUME NEW c \in turns
      PROVE  /\ turns' = turns \ {c} \/ turns' = (turns \ {c}) \cup {Wound(c)} => Running' = Running \ {c}
             /\ turns' = (turns \ {c}) \cup {Forgot(c)} /\ c.step = "running"
                  => Running' = (Running \ {c}) \cup {Forgot(c)}
             /\ \A t \in Task : turns' = (turns \ {c}) \cup {Saw(c, t)} /\ c.step = "running"
                  => Running' = (Running \ {c}) \cup {Saw(c, t)}
  <2>1. Wound(c).step = "winding" /\ Forgot(c).step = c.step
    BY <1>0, WoundIs, ForgotIs
  <2>2. \A t \in Task : Saw(c, t).step = c.step
    BY <1>0, SawIs
  <2>. QED
    BY <2>1, <2>2 DEF Running
<1>. QED
  BY <1>1, <1>2

\* An overlap is never forgotten.
LEMMA OverlapStays == ASSUME [WakeNext]_vars, overlapped PROVE overlapped'
<1>1. CASE UNCHANGED vars
  BY <1>1 DEF vars, history
<1>2. CASE WakeNext
  BY <1>2, LatchStep, Zenon DEF Overlaps
<1>. QED
  BY <1>1, <1>2

\* submit(), if it enters runTurn(), finds no turn running, or is an overlap.
LEMMA SingleSubmit ==
    ASSUME WakeTypes, Single, ~overlapped, ~overlapped', NEW e \in Entry, NEW q \in BOOLEAN, Submit(e, q)
    PROVE  OneTurn'
<1>1. Waits(e, q) \/ Begins(e, q)
  BY SubmitIs
<1>2. CASE Waits(e, q)
  <2>1. turns' = turns \cup {NewCall(e, q, "expanding")} /\ status' = status
    BY <1>2 DEF Waits
  <2>2. NewCall(e, q, "expanding").step = "expanding"
    BY NewCallIs DEF WakeTypes, TypeOK
  <2>3. Running' = Running
    BY <2>1, <2>2 DEF Running
  <2>. QED
    BY <2>1, <2>3 DEF Single, OneTurn
<1>3. CASE Begins(e, q)
  <2>1. turns' = turns \cup {NewCall(e, q, "running")} /\ status' = "streaming" /\ Running = {}
    BY <1>3, Zenon DEF Begins, Overlaps
  <2>2. Running' = {NewCall(e, q, "running")}
    BY <2>1, RunningIs
  <2>. QED
    BY <2>1, <2>2 DEF OneTurn
<1>. QED
  BY <1>1, <1>2, <1>3

LEMMA SingleStep == ASSUME WakeTypes, Single, [WakeNext]_vars PROVE Single'
<1>. SUFFICES ASSUME ~overlapped' PROVE OneTurn'
  BY DEF Single
<1>0. ~overlapped /\ OneTurn /\ gen \in 0 .. MaxClear /\ editor \in Seq(1 .. Prompts) /\ queue \in Seq(Entry)
  BY OverlapStays DEF Single, WakeTypes, TypeOK
<1>1. CASE UNCHANGED <<turns, status>>
  BY <1>0, <1>1 DEF OneTurn, Running
<1>2. CASE Enter
  <2>. DEFINE e == [kind |-> "user", of |-> editor, gen |-> gen]
  <2>1. UNCHANGED <<turns, status>> \/ Submit(e, FALSE)
    BY <1>2, Zenon DEF Enter
  <2>2. e \in Entry
    BY <1>0, UserEntryIs
  <2>. HIDE DEF e
  <2>. QED
    BY <1>0, <1>1, <2>1, <2>2, SingleSubmit
<1>3. CASE Drain
  <2>1. DrainStays \/ DrainEmpties \/ \E e, q : DrainTakes(e, q)
    BY <1>0, <1>3, DrainIs
  <2>2. ASSUME NEW e, NEW q, DrainTakes(e, q) PROVE OneTurn'
    <3>1. e \in Entry /\ Submit(e, TRUE)
      BY <2>2 DEF DrainTakes
    <3>. QED
      BY <1>0, <3>1, SingleSubmit
  <2>. QED
    BY <1>1, <2>1, <2>2 DEF DrainStays, DrainEmpties
<1>4. CASE (User /\ ~Enter) \/ Commit \/ IdleSweep \/ Ask \/ ClearEnds \/ ClearFails
  <2>1. CASE (User /\ ~Enter) \/ Commit
    <3>1. UNCHANGED <<turns, status>>
      BY <2>1, Zenon DEF User, Type, TakeBack, Interrupt, Answer, ClearBegins, Commit, sessionVars
    <3>. QED
      BY <1>1, <3>1
  <2>2. CASE IdleSweep \/ Ask \/ ClearEnds \/ ClearFails
    <3>1. UNCHANGED <<turns, status>>
      BY <2>2, Zenon DEF IdleSweep, Ask, ClearEnds, ClearFails
    <3>. QED
      BY <1>1, <3>1
  <2>. QED
    BY <1>4, <2>1, <2>2
<1>5. CASE \/ \E t \in Task : JobStarts(t) \/ JobSettles(t) \/ JobPublished(t) \/ TailRead(t)
           \/ \E d \in Delegation : Dispatch(d) \/ DelegationSettles(d) \/ Deliver(d)
  <2>1. UNCHANGED <<turns, status>>
    BY <1>5, Zenon DEF JobStarts, JobSettles, JobPublished, TailRead,
                       Dispatch, DelegationSettles, Deliver, sessionVars
  <2>. QED
    BY <1>1, <2>1
<1>6. ASSUME NEW c \in turns,
             Expanded(c) \/ ExpansionFails(c) \/ TurnEnds(c) \/ WindUp(c) \/ Continue(c)
               \/ \E t \in Task : ModelSees(c, t)
      PROVE  OneTurn'
  <2>0. c \in Call
    BY DEF WakeTypes, TypeOK
  <2>1. CASE Expanded(c)
    <3>1. turns' = (turns \ {c}) \cup {Ran(c)} /\ status' = "streaming" /\ Running = {}
      BY <1>0, <2>1, Zenon DEF Expanded, Ran, Overlaps
    <3>2. Ran(c).step = "running"
      BY <2>0, RanIs
    <3>3. Running' = {Ran(c)}
      BY <3>1, <3>2 DEF Running
    <3>. QED
      BY <3>1, <3>3 DEF OneTurn
  <2>2. CASE TurnEnds(c)
    <3>1. c \in Running /\ AfterCall(c) /\ status' = "idle"
      BY <2>2 DEF TurnEnds, Running
    <3>2. turns' = turns \ {c} \/ turns' = (turns \ {c}) \cup {Wound(c)}
      BY <3>1, AfterCallIs
    <3>3. Running' = Running \ {c}
      BY <3>2, RunningIs
    <3>4. Running' = {}
      BY <1>0, <3>1, <3>3 DEF OneTurn
    <3>. QED
      BY <3>1, <3>4 DEF OneTurn
  <2>3. CASE ExpansionFails(c) \/ WindUp(c)
    <3>1. c \notin Running /\ (AfterCall(c) \/ turns' = turns \ {c}) /\ status' = status
      BY <2>3, Zenon DEF ExpansionFails, WindUp, Running
    <3>2. turns' = turns \ {c} \/ turns' = (turns \ {c}) \cup {Wound(c)}
      BY <3>1, AfterCallIs
    <3>3. Running' = Running \ {c}
      BY <3>2, RunningIs
    <3>4. Running' = Running
      BY <3>1, <3>3
    <3>. QED
      BY <1>0, <3>1, <3>4 DEF OneTurn
  <2>4. CASE Continue(c) \/ \E t \in Task : ModelSees(c, t)
    <3>1. /\ c.step = "running" /\ status' = status
          /\ \E x : turns' = (turns \ {c}) \cup {x} /\ (x = Forgot(c) \/ \E t \in Task : x = Saw(c, t))
      BY <2>4, Zenon DEF Continue, ModelSees, Forgot, Saw
    <3>2. \E x : Running' = (Running \ {c}) \cup {x}
      BY <3>1, RunningIs
    <3>3. c \in Running
      BY <3>1 DEF Running
    <3>4. (\A d, e \in Running' : d = e) /\ Running' # {} /\ Running # {}
      BY <1>0, <3>2, <3>3 DEF OneTurn
    <3>. QED
      BY <1>0, <3>1, <3>4 DEF OneTurn
  <2>. QED
    BY <1>6, <2>1, <2>2, <2>3, <2>4
<1>7. CASE UNCHANGED vars
  BY <1>1, <1>7 DEF vars, sessionVars
<1>8. CASE WakeNext
  BY <1>2, <1>3, <1>4, <1>5, <1>6, <1>8, WakeSteps, Zenon
<1>. QED
  BY <1>7, <1>8

\* A turn or a /clear that begins beside a turn acts on a render older than it,
\* or is a command whose loading took until now.
LEMMA OverlapStep ==
    ASSUME WakeTypes, Single, WakeNext, ~overlapped, overlapped'
    PROVE  shown # status \/ \E call \in turns : call.step = "expanding"
<1>0. OneTurn /\ queue \in Seq(Entry)
  BY DEF Single, WakeTypes, TypeOK
<1>1. Running # {}
  BY LatchStep, Zenon DEF Overlaps
<1>2. status = "streaming"
  BY <1>0, <1>1 DEF OneTurn
<1>3. CASE Enter
  <2>1. shown = "idle"
    BY <1>3, Zenon DEF Enter
  <2>. QED
    BY <1>2, <2>1
<1>4. CASE Drain
  <2>1. DrainStays \/ DrainEmpties \/ \E e, q : DrainTakes(e, q)
    BY <1>0, <1>4, DrainIs
  <2>2. shown = "idle"
    BY <2>1 DEF DrainStays, DrainEmpties, DrainTakes
  <2>. QED
    BY <1>2, <2>2
<1>5. CASE ClearBegins
  BY <1>2, <1>5 DEF ClearBegins
<1>6. ASSUME NEW c \in turns, Expanded(c) PROVE \E call \in turns : call.step = "expanding"
  BY <1>6 DEF Expanded
<1>7. CASE Type \/ TakeBack \/ Interrupt \/ Answer \/ Commit \/ IdleSweep
  <2>1. overlapped' = overlapped
    BY <1>7, Zenon DEF Type, TakeBack, Interrupt, Answer, Commit, IdleSweep, history
  <2>. QED
    BY <2>1
<1>8. CASE Ask \/ ClearEnds \/ ClearFails
           \/ \E t \in Task : JobStarts(t) \/ JobSettles(t) \/ JobPublished(t) \/ TailRead(t)
  <2>1. overlapped' = overlapped
    BY <1>8, Zenon DEF Ask, ClearEnds, ClearFails, JobStarts, JobSettles, JobPublished, TailRead, history
  <2>. QED
    BY <2>1
<1>9. CASE \/ \E d \in Delegation : Dispatch(d) \/ DelegationSettles(d) \/ Deliver(d)
           \/ \E c \in turns : ExpansionFails(c) \/ TurnEnds(c) \/ WindUp(c)
  <2>1. overlapped' = overlapped
    BY <1>9, Zenon DEF Dispatch, DelegationSettles, Deliver, ExpansionFails, TurnEnds, WindUp, history
  <2>. QED
    BY <2>1
<1>10. CASE \E c \in turns : Continue(c) \/ \E t \in Task : ModelSees(c, t)
  <2>1. overlapped' = overlapped
    BY <1>10, Zenon DEF Continue, ModelSees, history
  <2>. QED
    BY <2>1
<1>. QED
  BY <1>3, <1>4, <1>5, <1>6, <1>7, <1>8, <1>9, <1>10, WakeSteps, Zenon DEF User

-----------------------------------------------------------------------------
(* Sessions without commands to load: what a step does to the running turn, to *)
(* what a cancel held back and to what a completed turn reported               *)

OwnQueue == \A e \in ToSet(queue) : e.gen = gen

OwnTurn == \A c \in Running : c.gen = gen /\ c.entry.gen = gen

\* A /clear assembles its successor with no turn running.
Quiesced == clearing => Running = {}

\* A held prompt is in the queue only until the cancelled turn ends.
Holds == /\ held \cap ToSet(Typed(sent)) = {}
         /\ held \cap ToSet(Typed(queue)) = {} \/ (aborted /\ status = "streaming")

\* The ledger knows what a completed turn of this conversation reported.
Heard == /\ \A p \in told : p[2] <= gen /\ (p[2] = gen => p[1] \in delivered)
         /\ \A c \in Running : c.own \subseteq seen

\* A call that becomes a turn at once: alone, or an overlap.
Begun(e, q) ==
    /\ e \in Entry /\ q \in BOOLEAN /\ e.gen = gen
    /\ ~clearing /\ Begins(e, q)
    /\ e.kind = "job" => e.of \notin delivered
    /\ ToSet(queue') \subseteq ToSet(queue) /\ ToSet(Typed(queue')) \subseteq ToSet(Typed(queue))
    /\ held' \subseteq held
    /\ ~overlapped' => Running = {} /\ (IsUser(e) => ToSet(e.of) \cap held' = {})
    /\ UNCHANGED <<clearing, gen, seen, delivered, told>>

Ended(c) ==
    /\ c \in Running /\ Running' = Running \ {c} /\ Loading' = Loading /\ status' = "idle"
    /\ ToSet(queue') \subseteq ToSet(queue)
    /\ ToSet(Typed(queue')) = {} \/ (queue' = queue /\ ~aborted)
    /\ delivered \subseteq delivered'
    /\ \A p \in told' : p \in told \/ (p[2] = gen /\ p[1] \in c.own /\ seen \subseteq delivered')
    /\ UNCHANGED <<clearing, gen, sent, held>>

Went(c, x) ==
    /\ c \in Running /\ Running' = (Running \ {c}) \cup {x} /\ Loading' = Loading
    /\ x.gen = c.gen /\ x.entry = c.entry
    /\ x.own = {} \/ (seen \subseteq seen' /\ x.own \subseteq c.own \cup seen')
    /\ UNCHANGED <<status, clearing, gen, sent, queue, held, aborted, told, delivered>>

Aside ==
    /\ Running' = Running /\ Loading' = Loading
    /\ UNCHANGED <<status, gen, sent, seen, delivered, told>>
    /\ clearing' => clearing \/ overlapped' \/ Running = {}
    /\ \A e \in ToSet(queue') : e \in ToSet(queue) \/ e.gen = gen
    /\ held' \subseteq held \cup ToSet(Typed(queue)) /\ (aborted => aborted')
    /\ \/ held' \cap ToSet(Typed(queue')) \subseteq held \cap ToSet(Typed(queue))
       \/ aborted' /\ status = "streaming"

Cleared ==
    /\ clearing /\ ~clearing' /\ gen' = gen + 1 /\ queue' = <<>>
    /\ Running' = Running /\ Loading' = Loading
    /\ UNCHANGED <<status, sent, held, told, aborted>>

Does == \/ Aside \/ Cleared
        \/ (\E e, q : Begun(e, q)) \/ (\E c : Ended(c)) \/ (\E c, x : Went(c, x))

LEMMA SubmitBegins ==
    ASSUME Slash = {}, NEW e, NEW q, Submit(e, q)
    PROVE  Begins(e, q)
BY SubmitIs DEF Waits

LEMMA ReturnTyped ==
    ASSUME WakeTypes, ReturnToEditor(queue)
    PROVE  ToSet(queue') \subseteq ToSet(queue) /\ ToSet(Typed(queue')) = {}
<1>1. ToSet(queue') = {e \in ToSet(queue) : IsWake(e)} /\ Typed(queue') = <<>>
  BY SeqsAre, ReturnIs
<1>. QED
  BY <1>1, ElementsNone

LEMMA UserDoes ==
    ASSUME Slash = {}, WakeTypes, User
    PROVE  Does
<1>0. /\ queue \in Seq(Entry) /\ sent \in Seq(Entry) /\ editor \in Seq(1 .. Prompts)
      /\ gen \in 0 .. MaxClear /\ status \in {"idle", "streaming"} /\ Typed(queue) \in Seq(Nat)
      /\ editor \in Seq(Nat)
  BY SeqsAre DEF WakeTypes, TypeOK
<1>1. CASE Type \/ Answer \/ ClearBegins
  <2>1. /\ UNCHANGED <<turns, status, gen, sent, seen, delivered, told, queue, held, aborted>>
        /\ clearing' => clearing \/ overlapped' \/ Running = {}
    <3>1. CASE Type \/ Answer
      <4>1. UNCHANGED <<turns, status, gen, sent, seen, delivered, told, queue, held, aborted, clearing>>
        BY <3>1, Zenon DEF Type, Answer, wakeVars, history
      <4>. QED
        BY <4>1
    <3>2. CASE ClearBegins
      <4>1. UNCHANGED <<turns, status, gen, sent, seen, delivered, told, queue, held, aborted>>
        BY <3>2, Zenon DEF ClearBegins, wakeVars
      <4>2. overlapped' \/ Running = {}
        BY <3>2 DEF ClearBegins, Overlaps
      <4>. QED
        BY <4>1, <4>2
    <3>. QED
      BY <1>1, <3>1, <3>2
  <2>2. Aside
    BY <2>1 DEF Aside, Running, Loading
  <2>. QED
    BY <2>2 DEF Does
<1>2. CASE Enter
  <2>. DEFINE e == [kind |-> "user", of |-> editor, gen |-> gen]
  <2>1. e \in Entry /\ IsUser(e) /\ e.of = editor /\ e.gen = gen
    BY <1>0, UserEntryIs
  <2>2. /\ \/ queue' = Append(queue, e) /\ UNCHANGED <<turns, status, aborted, sent>>
           \/ Submit(e, FALSE) /\ queue' = queue
        /\ ~clearing /\ held' = held \ ToSet(editor)
        /\ UNCHANGED <<clearing, gen, seen, delivered, told>>
    BY <1>2 DEF Enter, wakeVars
  <2>. HIDE DEF e
  <2>3. CASE queue' = Append(queue, e) /\ UNCHANGED <<turns, status, aborted, sent>>
    <3>1. ToSet(Append(queue, e)) = ToSet(queue) \cup {e}
      BY <1>0, <2>1, ElementsAppend
    <3>2. Typed(Append(queue, e)) = Typed(queue) \o editor
      BY <1>0, <2>1, TypedAppend
    <3>3. ToSet(Typed(queue) \o editor) = ToSet(Typed(queue)) \cup ToSet(editor)
      BY <1>0, ElementsConcat
    <3>4. ToSet(Typed(queue')) = ToSet(Typed(queue)) \cup ToSet(editor)
      BY <2>3, <3>2, <3>3
    <3>5. Aside
      BY <2>1, <2>2, <2>3, <3>1, <3>4 DEF Aside, Running, Loading
    <3>. QED
      BY <3>5 DEF Does
  <2>4. CASE Submit(e, FALSE) /\ queue' = queue
    <3>1. Begins(e, FALSE) /\ (~overlapped' => Running = {})
      BY <2>4, SubmitBegins, Zenon DEF Begins, Overlaps
    <3>2. e.kind # "job"
      BY <2>1 DEF IsUser
    <3>3. Begun(e, FALSE)
      BY <2>1, <2>2, <2>4, <3>1, <3>2 DEF Begun
    <3>. QED
      BY <3>3 DEF Does
  <2>. QED
    BY <2>2, <2>3, <2>4
<1>3. CASE TakeBack
  <2>1. /\ ReturnToEditor(queue)
        /\ UNCHANGED <<turns, status, gen, sent, seen, delivered, told, held, aborted, clearing>>
    BY <1>3 DEF TakeBack, wakeVars, history
  <2>2. ToSet(queue') \subseteq ToSet(queue) /\ ToSet(Typed(queue')) = {}
    BY <2>1, ReturnTyped
  <2>3. Aside
    BY <2>1, <2>2 DEF Aside, Running, Loading
  <2>. QED
    BY <2>3 DEF Does
<1>4. CASE Interrupt
  <2>1. /\ aborted' = TRUE
        /\ held' = IF status = "idle" THEN held ELSE held \cup ToSet(Typed(queue))
        /\ UNCHANGED <<turns, status, gen, sent, seen, delivered, told, queue, clearing>>
    BY <1>4 DEF Interrupt, wakeVars
  <2>2. Aside
    BY <1>0, <2>1 DEF Aside, Running, Loading
  <2>. QED
    BY <2>2 DEF Does
<1>. QED
  BY <1>1, <1>2, <1>3, <1>4 DEF User

LEMMA CallDoes ==
    ASSUME WakeTypes, Loading = {}, NEW c \in turns,
           Expanded(c) \/ ExpansionFails(c) \/ TurnEnds(c) \/ WindUp(c) \/ Continue(c)
             \/ \E t \in Task : ModelSees(c, t)
    PROVE  Does
<1>0. c \in Call /\ queue \in Seq(Entry)
  BY DEF WakeTypes, TypeOK
<1>1. ~Expanded(c) /\ ~ExpansionFails(c)
  BY DEF Expanded, ExpansionFails, Loading
<1>2. CASE TurnEnds(c)
  <2>1. /\ c.step = "running" /\ AfterCall(c) /\ aborted' = FALSE /\ status' = "idle"
        /\ UNCHANGED <<clearing, gen, sent, held>>
    BY <1>2 DEF TurnEnds
  <2>2. PICK completed \in BOOLEAN, thrown \in BOOLEAN :
          /\ CloseTurn(c, completed)
          /\ IF aborted \/ thrown THEN ReturnToEditor(queue) ELSE UNCHANGED <<queue, editor>>
    BY <1>2 DEF TurnEnds
  <2>3. ReturnToEditor(queue) \/ (queue' = queue /\ ~aborted)
    BY <2>2
  <2>4. ToSet(queue') \subseteq ToSet(queue) /\ (ToSet(Typed(queue')) = {} \/ (queue' = queue /\ ~aborted))
    BY <2>3, ReturnTyped
  <2>5. /\ delivered \subseteq delivered'
        /\ \A p \in told' : p \in told \/ (p[2] = gen /\ p[1] \in c.own /\ seen \subseteq delivered')
    <3>1. CASE delivered' = delivered /\ told' = told
      BY <3>1
    <3>2. CASE delivered' = delivered \cup seen /\ told' = told \cup (c.own \X {gen})
      BY <3>2
    <3>. QED
      BY <2>2, <3>1, <3>2 DEF CloseTurn
  <2>6. turns' = turns \ {c} \/ turns' = (turns \ {c}) \cup {Wound(c)}
    BY <2>1, AfterCallIs
  <2>7. Running' = Running \ {c} /\ Loading' = Loading \ {c} /\ c \in Running /\ c \notin Loading
    BY <2>1, <2>6, RunningIs, LoadingIs DEF Running, Loading
  <2>8. Ended(c)
    BY <2>1, <2>4, <2>5, <2>7 DEF Ended
  <2>. QED
    BY <2>8 DEF Does
<1>3. CASE WindUp(c)
  <2>1. /\ c.step = "winding" /\ turns' = turns \ {c}
        /\ UNCHANGED <<status, gen, sent, seen, delivered, told, queue, held, aborted, clearing>>
    BY <1>3 DEF WindUp, wakeVars, history
  <2>2. Running' = Running \ {c} /\ Loading' = Loading \ {c}
    BY <2>1, RunningIs, LoadingIs
  <2>3. c \notin Running /\ c \notin Loading
    BY <2>1 DEF Running, Loading
  <2>4. Aside
    BY <2>1, <2>2, <2>3 DEF Aside
  <2>. QED
    BY <2>4 DEF Does
<1>4. CASE Continue(c)
  <2>1. /\ c.step = "running" /\ turns' = (turns \ {c}) \cup {Forgot(c)}
        /\ UNCHANGED <<status, clearing, gen, sent, queue, held, aborted, told, delivered>>
    BY <1>4 DEF Continue, Forgot, history
  <2>2. Running' = (Running \ {c}) \cup {Forgot(c)} /\ Loading' = Loading /\ c \in Running
    BY <2>1, RunningIs, LoadingIs DEF Running
  <2>3. Forgot(c).gen = c.gen /\ Forgot(c).entry = c.entry /\ Forgot(c).own = {}
    BY <1>0, ForgotIs
  <2>4. Went(c, Forgot(c))
    BY <2>1, <2>2, <2>3 DEF Went
  <2>. QED
    BY <2>4 DEF Does
<1>5. ASSUME NEW t \in Task, ModelSees(c, t) PROVE Does
  <2>1. /\ c.step = "running" /\ turns' = (turns \ {c}) \cup {Saw(c, t)} /\ seen' = seen \cup {t}
        /\ UNCHANGED <<status, clearing, gen, sent, queue, held, aborted, told, delivered>>
    BY <1>5 DEF ModelSees, Saw, history
  <2>2. Running' = (Running \ {c}) \cup {Saw(c, t)} /\ Loading' = Loading /\ c \in Running
    BY <2>1, RunningIs, LoadingIs DEF Running
  <2>3. Saw(c, t).gen = c.gen /\ Saw(c, t).entry = c.entry /\ Saw(c, t).own = c.own \cup {t}
    BY <1>0, SawIs
  <2>4. Went(c, Saw(c, t))
    BY <2>1, <2>2, <2>3 DEF Went
  <2>. QED
    BY <2>4 DEF Does
<1>. QED
  BY <1>1, <1>2, <1>3, <1>4, <1>5

LEMMA DrainDoes ==
    ASSUME Slash = {}, WakeTypes, OwnQueue, Single, ~overlapped => Holds, Drain
    PROVE  Does
<1>0. queue \in Seq(Entry) /\ ToSet(<<>>) = {}
  BY SeqsAre, ElementsNone
<1>1. DrainStays \/ DrainEmpties \/ \E e, q : DrainTakes(e, q)
  BY <1>0, DrainIs
<1>2. UNCHANGED <<clearing, gen, seen, delivered, told, held>>
  BY DEF Drain, wakeVars
<1>3. CASE DrainStays \/ DrainEmpties
  <2>1. /\ UNCHANGED <<turns, status, aborted, sent>>
        /\ ToSet(queue') \subseteq ToSet(queue) /\ Typed(queue') = Typed(queue)
    BY <1>0, <1>3, TypedNone DEF DrainStays, DrainEmpties
  <2>2. Aside
    BY <1>2, <2>1 DEF Aside, Running, Loading
  <2>. QED
    BY <2>2 DEF Does
<1>4. ASSUME NEW e, NEW q, DrainTakes(e, q) PROVE Does
  <2>1. /\ ~clearing /\ e \in Entry /\ queue' = q /\ e \in ToSet(queue)
        /\ q \in Seq(Entry) /\ ToSet(q) \subseteq ToSet(queue) /\ ~Pointless(e)
        /\ Typed(queue) = (IF IsUser(e) THEN e.of ELSE <<>>) \o Typed(q)
    BY <1>4 DEF DrainTakes
  <2>2. Begins(e, TRUE)
    BY <1>4, SubmitBegins DEF DrainTakes
  <2>3. e.gen = gen
    BY <2>1 DEF OwnQueue
  <2>4. e.kind = "job" => e.of \notin delivered
    BY <2>1 DEF Pointless
  <2>5. ~overlapped' => Running = {} /\ held \cap ToSet(Typed(queue)) = {}
    <3>1. ~overlapped' => ~overlapped /\ Running = {}
      BY <2>2, Zenon DEF Begins, Overlaps
    <3>. QED
      BY <3>1 DEF Single, OneTurn, Holds
  <2>6. /\ ToSet(Typed(q)) \subseteq ToSet(Typed(queue))
        /\ IsUser(e) => ToSet(e.of) \subseteq ToSet(Typed(queue))
    BY <1>0, <2>1, TypedElements
  <2>7. Begun(e, TRUE)
    BY <1>2, <2>1, <2>2, <2>3, <2>4, <2>5, <2>6 DEF Begun
  <2>. QED
    BY <2>7 DEF Does
<1>. QED
  BY <1>1, <1>3, <1>4

\* Wakes put behind the queue by the conversation that is live.
LEMMA JoinDoes ==
    ASSUME WakeTypes, NEW w \in Seq(Entry), \A e \in ToSet(w) : ~IsUser(e) /\ e.gen = gen,
           queue' = queue \o w,
           UNCHANGED <<turns, status, gen, sent, seen, delivered, told, held, aborted, clearing>>
    PROVE  Does
<1>1. Typed(queue') = Typed(queue)
  BY WakesJoin
<1>2. ToSet(queue \o w) = ToSet(queue) \cup ToSet(w)
  BY SeqsAre, ElementsConcat
<1>3. Aside
  BY <1>1, <1>2 DEF Aside, Running, Loading
<1>. QED
  BY <1>3 DEF Does

LEMMA QueueStays ==
    ASSUME UNCHANGED <<turns, status, gen, sent, seen, delivered, told, held, aborted, queue>>,
           clearing' => clearing
    PROVE  Does
<1>1. Aside
  BY DEF Aside, Running, Loading
<1>. QED
  BY <1>1 DEF Does

LEMMA EnqueueDoes ==
    ASSUME WakeTypes, NEW L, EnqueueDelegations(L),
           UNCHANGED <<turns, status, gen, sent, seen, delivered, told, held, aborted, clearing>>
    PROVE  Does
<1>1. gen \in 0 .. MaxClear
  BY DEF WakeTypes, TypeOK
<1>2. PICK D \in SUBSET Delegation, q \in Seq(Entry) : DelegationWakes(q) /\ queue' = queue \o q
  BY <1>1, EnqueueIs
<1>3. \A e \in ToSet(q) : ~IsUser(e) /\ e.gen = gen
  BY <1>2 DEF DelegationWakes, IsUser
<1>. QED
  BY <1>2, <1>3, JoinDoes

LEMMA OtherDoes ==
    ASSUME WakeTypes, Announced,
           \/ Commit \/ IdleSweep \/ Ask \/ ClearEnds \/ ClearFails
           \/ \E t \in Task : JobStarts(t) \/ JobSettles(t) \/ JobPublished(t) \/ TailRead(t)
           \/ \E d \in Delegation : Dispatch(d) \/ DelegationSettles(d) \/ Deliver(d)
    PROVE  Does
<1>1. CASE IdleSweep
  <2>1. /\ EnqueueDelegations(delegation)
        /\ UNCHANGED <<turns, status, gen, sent, seen, delivered, told, held, aborted, clearing>>
    BY <1>1 DEF IdleSweep, history
  <2>. QED
    BY <2>1, EnqueueDoes
<1>2. ASSUME NEW d \in Delegation, DelegationSettles(d) PROVE Does
  <2>1. PICK L : L = delegation'
    OBVIOUS
  <2>2. /\ EnqueueDelegations(L) \/ UNCHANGED <<queue, woken>>
        /\ UNCHANGED <<turns, status, gen, sent, seen, delivered, told, held, aborted, clearing>>
    BY <1>2, <2>1 DEF DelegationSettles, history
  <2>3. CASE UNCHANGED <<queue, woken>>
    BY <2>2, <2>3, QueueStays
  <2>. QED
    BY <2>2, <2>3, EnqueueDoes
<1>3. ASSUME NEW t \in Task, TailRead(t) PROVE Does
  <2>1. /\ tail[t] # {}
        /\ UNCHANGED <<turns, status, gen, sent, seen, delivered, told, held, aborted, clearing>>
    BY <1>3 DEF TailRead, history
  <2>2. tail[t] \subseteq {gen} /\ gen \in 0 .. MaxClear
    BY DEF Announced, TailsOwed, WakeTypes, TypeOK
  <2>3. \/ queue' = queue
        \/ \E q \in Seq(Entry) :
             /\ queue' = queue \o q /\ IsInjective(q)
             /\ \A e \in ToSet(q) : e.kind = "job" /\ e.of = t /\ e.gen \in tail[t]
             /\ \A d, e \in ToSet(q) : d.gen = e.gen => d = e
    <3>1. tail[t] \subseteq 0 .. MaxClear
      BY <2>2
    <3>. QED
      BY <1>3, <3>1, TailReadIs
  <2>4. CASE queue' = queue
    BY <2>1, <2>4, QueueStays
  <2>5. ASSUME NEW q \in Seq(Entry), queue' = queue \o q,
               \A e \in ToSet(q) : e.kind = "job" /\ e.of = t /\ e.gen \in tail[t]
        PROVE  Does
    <3>1. \A e \in ToSet(q) : ~IsUser(e) /\ e.gen = gen
      BY <2>2, <2>5 DEF IsUser
    <3>. QED
      BY <2>1, <2>5, <3>1, JoinDoes
  <2>. QED
    BY <2>3, <2>4, <2>5
<1>4. CASE \/ Commit \/ Ask \/ ClearFails
           \/ \E t \in Task : JobStarts(t) \/ JobSettles(t) \/ JobPublished(t)
           \/ \E d \in Delegation : Dispatch(d) \/ Deliver(d)
  <2>1. /\ UNCHANGED <<turns, status, gen, sent, seen, delivered, told, held, aborted, queue>>
        /\ clearing' => clearing
    <3>1. CASE Ask
      BY <3>1, Zenon DEF Ask, wakeVars, history
    <3>2. CASE ClearFails
      BY <3>2, Zenon DEF ClearFails, wakeVars
    <3>3. CASE \E t \in Task : JobStarts(t) \/ JobSettles(t) \/ JobPublished(t)
      <4>1. /\ UNCHANGED <<sessionVars, history, seen, delivered>>
        BY <3>3, Zenon DEF JobStarts, JobSettles, JobPublished, wakeVars
      <4>. QED
        BY <4>1 DEF sessionVars, history
    <3>4. CASE \E d \in Delegation : Dispatch(d) \/ Deliver(d)
      <4>1. /\ UNCHANGED <<sessionVars, history, seen, delivered>>
        BY <3>4, Zenon DEF Dispatch, Deliver
      <4>. QED
        BY <4>1 DEF sessionVars, history
    <3>5. CASE Commit
      BY <3>5, Zenon DEF Commit, sessionVars, wakeVars, history
    <3>. QED
      BY <1>4, <3>1, <3>2, <3>3, <3>4, <3>5
  <2>. QED
    BY <2>1, QueueStays
<1>5. CASE ClearEnds
  <2>1. /\ clearing /\ ~clearing' /\ gen' = gen + 1 /\ queue' = <<>>
        /\ UNCHANGED <<turns, status, sent, held, told, aborted>>
    BY <1>5 DEF ClearEnds
  <2>2. Cleared
    BY <2>1 DEF Cleared, Running, Loading
  <2>. QED
    BY <2>2 DEF Does
<1>. QED
  BY <1>1, <1>2, <1>3, <1>4, <1>5

LEMMA DoesStep ==
    ASSUME Slash = {}, WakeTypes, Announced, Single, Loading = {}, OwnQueue,
           ~overlapped => Holds, [WakeNext]_vars
    PROVE  Does
<1>1. CASE UNCHANGED vars
  <2>1. UNCHANGED <<turns, status, gen, sent, seen, delivered, told, held, aborted, queue, clearing>>
    BY <1>1 DEF vars, sessionVars, wakeVars, history
  <2>. QED
    BY <2>1, QueueStays
<1>2. CASE WakeNext
  BY <1>2, WakeSteps, UserDoes, CallDoes, DrainDoes, OtherDoes, Zenon
<1>. QED
  BY <1>1, <1>2

\* What a turn that begins does to the calls.
LEMMA BegunIs ==
    ASSUME WakeTypes, NEW e, NEW q, Begun(e, q)
    PROVE  /\ Loading' = Loading
           /\ \E c : Running' = Running \cup {c} /\ c.gen = gen /\ c.entry = e /\ c.own = {}
           /\ status' = "streaming" /\ sent' = Append(sent, e)
<1>1. /\ e \in Entry /\ q \in BOOLEAN /\ turns' = turns \cup {NewCall(e, q, "running")}
      /\ status' = "streaming" /\ sent' = Append(sent, e) /\ gen \in 0 .. MaxClear
  BY DEF Begun, Begins, WakeTypes, TypeOK
<1>2. Loading' = Loading /\ Running' = Running \cup {NewCall(e, q, "running")}
  BY <1>1, LoadingIs, RunningIs
<1>3. /\ NewCall(e, q, "running").gen = gen /\ NewCall(e, q, "running").entry = e
      /\ NewCall(e, q, "running").own = {}
  BY <1>1, NewCallIs
<1>. QED
  BY <1>1, <1>2, <1>3

LEMMA QueueDoes ==
    ASSUME WakeTypes, Loading = {}, OwnQueue, Does
    PROVE  Loading' = {} /\ OwnQueue'
<1>1. CASE Aside
  BY <1>1 DEF OwnQueue, Aside
<1>2. CASE Cleared
  BY <1>2, ElementsNone DEF OwnQueue, Cleared
<1>3. ASSUME NEW e, NEW q, Begun(e, q) PROVE Loading' = {} /\ OwnQueue'
  <2>1. Loading' = Loading
    BY <1>3, BegunIs
  <2>. QED
    BY <1>3, <2>1 DEF OwnQueue, Begun
<1>4. ASSUME NEW c, Ended(c) PROVE Loading' = {} /\ OwnQueue'
  BY <1>4 DEF OwnQueue, Ended
<1>5. ASSUME NEW c, NEW x, Went(c, x) PROVE Loading' = {} /\ OwnQueue'
  BY <1>5 DEF OwnQueue, Went
<1>. QED
  BY <1>1, <1>2, <1>3, <1>4, <1>5 DEF Does

LEMMA QuiescedDoes ==
    ASSUME Quiesced, ~overlapped', Does
    PROVE  Quiesced'
<1>1. CASE Aside \/ Cleared
  BY <1>1 DEF Quiesced, Aside, Cleared
<1>2. ASSUME NEW e, NEW q, Begun(e, q) PROVE Quiesced'
  BY <1>2 DEF Quiesced, Begun
<1>3. ASSUME NEW c, Ended(c) PROVE Quiesced'
  BY <1>3 DEF Quiesced, Ended
<1>4. ASSUME NEW c, NEW x, Went(c, x) PROVE Quiesced'
  BY <1>4 DEF Quiesced, Went
<1>. QED
  BY <1>1, <1>2, <1>3, <1>4 DEF Does

LEMMA OwnTurnDoes ==
    ASSUME WakeTypes, Quiesced, OwnTurn, Does
    PROVE  OwnTurn'
<1>1. CASE Aside
  BY <1>1 DEF OwnTurn, Aside
<1>2. CASE Cleared
  BY <1>2 DEF Cleared, Quiesced, OwnTurn
<1>3. ASSUME NEW e, NEW q, Begun(e, q) PROVE OwnTurn'
  <2>1. \E c : Running' = Running \cup {c} /\ c.gen = gen /\ c.entry = e
    BY <1>3, BegunIs
  <2>2. e.gen = gen /\ gen' = gen
    BY <1>3 DEF Begun
  <2>. QED
    BY <2>1, <2>2 DEF OwnTurn
<1>4. ASSUME NEW c, Ended(c) PROVE OwnTurn'
  BY <1>4 DEF OwnTurn, Ended
<1>5. ASSUME NEW c, NEW x, Went(c, x) PROVE OwnTurn'
  BY <1>5 DEF OwnTurn, Went
<1>. QED
  BY <1>1, <1>2, <1>3, <1>4, <1>5 DEF Does

LEMMA HoldsDoes ==
    ASSUME WakeTypes, KeptPart, OneTurn, Holds, ~overlapped', Does
    PROVE  Holds'
<1>0. /\ ToSet(Typed(sent)) \cap ToSet(Typed(queue)) = {} /\ sent \in Seq(Entry)
      /\ ToSet(Typed(<<>>)) = {}
  BY SeqsAre, TypedNone, ElementsNone DEF KeptPart, KeptAt, Now, Kept, Placed
<1>1. CASE Aside
  <2>1. sent' = sent /\ status' = status
    BY <1>1 DEF Aside
  <2>2. held' \cap ToSet(Typed(sent)) = {}
    BY <1>0, <1>1 DEF Aside, Holds
  <2>3. held' \cap ToSet(Typed(queue')) = {} \/ (aborted' /\ status = "streaming")
    BY <1>1 DEF Aside, Holds
  <2>. QED
    BY <2>1, <2>2, <2>3 DEF Holds
<1>2. CASE Cleared
  <2>1. sent' = sent /\ held' = held /\ queue' = <<>>
    BY <1>2 DEF Cleared
  <2>. QED
    BY <1>0, <2>1 DEF Holds
<1>3. ASSUME NEW e, NEW q, Begun(e, q) PROVE Holds'
  <2>1. /\ e \in Entry /\ sent' = Append(sent, e) /\ Running = {}
        /\ held' \subseteq held /\ (IsUser(e) => ToSet(e.of) \cap held' = {})
        /\ ToSet(Typed(queue')) \subseteq ToSet(Typed(queue))
    BY <1>3 DEF Begun, Begins
  <2>2. ToSet(Append(sent, e)) = ToSet(sent) \cup {e} /\ Append(sent, e) \in Seq(Entry)
    BY <1>0, <2>1, ElementsAppend, AppendProperties
  <2>3. \A y : y \in ToSet(Typed(Append(sent, e)))
                 => y \in ToSet(Typed(sent)) \/ (IsUser(e) /\ y \in ToSet(e.of))
    <3>1. \A y : y \in ToSet(Typed(Append(sent, e)))
                 <=> \E d \in ToSet(sent) \cup {e} : IsUser(d) /\ y \in ToSet(d.of)
      BY <2>2, TypedElements
    <3>2. \A y : y \in ToSet(Typed(sent)) <=> \E d \in ToSet(sent) : IsUser(d) /\ y \in ToSet(d.of)
      BY <1>0, TypedElements
    <3>. QED
      BY <3>1, <3>2
  <2>4. held' \cap ToSet(Typed(sent')) = {}
    BY <2>1, <2>3 DEF Holds
  <2>5. held' \cap ToSet(Typed(queue')) = {}
    BY <2>1 DEF Holds, OneTurn
  <2>. QED
    BY <2>4, <2>5 DEF Holds
<1>4. ASSUME NEW c, Ended(c) PROVE Holds'
  <2>1. /\ ToSet(Typed(queue')) = {} \/ (queue' = queue /\ ~aborted)
        /\ sent' = sent /\ held' = held
    BY <1>4 DEF Ended
  <2>. QED
    BY <2>1 DEF Holds
<1>5. ASSUME NEW c, NEW x, Went(c, x) PROVE Holds'
  BY <1>5 DEF Holds, Went
<1>. QED
  BY <1>1, <1>2, <1>3, <1>4, <1>5 DEF Does

LEMMA HeardDoes ==
    ASSUME WakeTypes, OneTurn, Quiesced, Heard, Does
    PROVE  Heard'
<1>0. gen \in Nat /\ \A p \in told : p[2] \in Nat
  BY PromptsAssumption DEF WakeTypes, TypeOK
<1>1. CASE Aside
  BY <1>1 DEF Heard, Aside
<1>2. CASE Cleared
  <2>1. Running' = {} /\ gen' = gen + 1 /\ told' = told
    BY <1>2 DEF Cleared, Quiesced
  <2>2. \A p \in told : p[2] <= gen
    BY DEF Heard
  <2>3. \A p \in told : p[2] <= gen + 1 /\ p[2] # gen + 1
    BY <1>0, <2>2
  <2>. QED
    BY <2>1, <2>3 DEF Heard
<1>3. ASSUME NEW e, NEW q, Begun(e, q) PROVE Heard'
  <2>1. \E c : Running' = Running \cup {c} /\ c.own = {}
    BY <1>3, BegunIs
  <2>2. UNCHANGED <<gen, seen, delivered, told>>
    BY <1>3 DEF Begun
  <2>. QED
    BY <2>1, <2>2 DEF Heard
<1>4. ASSUME NEW c, Ended(c) PROVE Heard'
  <2>1. /\ c \in Running /\ Running' = {} /\ gen' = gen /\ delivered \subseteq delivered'
        /\ \A p \in told' : p \in told \/ (p[2] = gen /\ p[1] \in c.own /\ seen \subseteq delivered')
    BY <1>4 DEF Ended, OneTurn
  <2>2. c.own \subseteq seen
    BY <2>1 DEF Heard
  <2>3. \A p \in told' : p[2] <= gen /\ (p[2] = gen => p[1] \in delivered')
    BY <1>0, <2>1, <2>2 DEF Heard
  <2>. QED
    BY <2>1, <2>3 DEF Heard
<1>5. ASSUME NEW c, NEW x, Went(c, x) PROVE Heard'
  <2>1. /\ c \in Running /\ Running' = {x} /\ gen' = gen /\ told' = told /\ delivered' = delivered
        /\ x.own = {} \/ (seen \subseteq seen' /\ x.own \subseteq c.own \cup seen')
    BY <1>5 DEF Went, OneTurn
  <2>2. c.own \subseteq seen
    BY <2>1 DEF Heard
  <2>3. x.own \subseteq seen'
    BY <2>1, <2>2
  <2>. QED
    BY <2>1, <2>3 DEF Heard
<1>. QED
  BY <1>1, <1>2, <1>3, <1>4, <1>5 DEF Does

\* What waits reads in the order it was typed.
LEMMA RisesStep ==
    ASSUME WakeTypes, KeptPart, Loading = {}, Rises(Waiting), [WakeNext]_vars
    PROVE  Rises(Waiting')
<1>1. PICK v : v = Waiting'
  OBVIOUS
<1>2. /\ Waiting \in Seq(Nat)
      /\ \/ v = Append(Waiting, typed + 1)
         \/ \E h \in Seq(Nat) : Waiting = v \o h \/ Waiting = h \o v
  BY <1>1, MovesStep, WaitingEnds
<1>3. \A x \in ToSet(Waiting) : x \in 1 .. typed
  <2>1. Kept(editor, Typed(queue), Typed(sent), Loading, Dropped, typed)
    BY DEF KeptPart, KeptAt, Now
  <2>2. editor \in Seq(Nat) /\ Typed(queue) \in Seq(Nat)
    BY SeqsAre
  <2>. QED
    BY <2>1, <2>2, WaitsOnce DEF Waiting
<1>4. v \in Seq(Nat)
  <2>1. Waiting' \in Seq(Nat)
    <3>1. WakeTypes'
      BY WakeTypeStep
    <3>2. editor' \in Seq(1 .. Prompts) /\ queue' \in Seq(Entry) /\ 1 .. Prompts \subseteq Nat
      BY <3>1, PromptsAssumption DEF WakeTypes, TypeOK
    <3>3. PICK r, d : r = queue' /\ d = editor'
      OBVIOUS
    <3>4. Typed(r) \in Seq(1 .. Prompts)
      BY <3>2, <3>3, TypedType
    <3>5. Typed(r) \in Seq(Nat) /\ d \in Seq(Nat)
      BY <3>2, <3>3, <3>4, SeqMonotonic
    <3>6. Typed(r) \o d \in Seq(Nat)
      BY <3>5, ConcatType
    <3>. QED
      BY <3>3, <3>6 DEF Waiting
  <2>. QED
    BY <1>1, <2>1
<1>5. CASE v = Append(Waiting, typed + 1)
  <2>1. typed + 1 \in Nat /\ \A x \in ToSet(Waiting) : x < typed + 1
    BY <1>3, SeqsAre
  <2>2. Rises(Append(Waiting, typed + 1))
    BY <1>2, <2>1, RisesOn
  <2>. QED
    BY <1>1, <1>5, <2>2
<1>6. ASSUME NEW h \in Seq(Nat), Waiting = v \o h \/ Waiting = h \o v PROVE Rises(v)
  BY <1>4, <1>6, RisesParts
<1>. QED
  BY <1>1, <1>2, <1>5, <1>6

\* A /clear that has begun finds no delegation that is still tracked: none starts
\* while no turn runs.
Spared == (\A d \in Delegation : delegation[d] # "lost") /\ (clearing => Tracked = {})

LEMMA SparedStep ==
    ASSUME WakeTypes, Quiesced, Spared, [WakeNext]_vars
    PROVE  Spared'
<1>0. /\ delegation \in [Delegation -> {"none", "running", "settled", "delivered", "lost"}]
      /\ \A d \in Delegation : delegation[d] # "lost"
      /\ clearing => \A d \in Delegation : delegation[d] # "running" /\ delegation[d] # "settled"
  BY DEF WakeTypes, TypeOK, Spared, Tracked
<1>1. SUFFICES /\ \A d \in Delegation : delegation'[d] # "lost"
               /\ clearing' => \A d \in Delegation : delegation'[d] \notin {"running", "settled"}
  BY DEF Spared, Tracked
<1>2. clearing => Running = {}
  BY DEF Quiesced
<1>3. CASE delegation' = delegation /\ (clearing' => clearing)
  BY <1>0, <1>3
<1>4. CASE ClearBegins
  <2>1. delegation' = delegation /\ \A d \in Delegation : delegation[d] \notin {"running", "settled"}
    BY <1>4 DEF ClearBegins, Tracked, wakeVars
  <2>. QED
    BY <1>0, <2>1
<1>5. CASE ClearEnds
  <2>1. /\ clearing /\ ~clearing'
        /\ delegation' = [d \in Delegation |-> IF d \in Tracked THEN "lost" ELSE delegation[d]]
    BY <1>5 DEF ClearEnds
  <2>2. Tracked = {}
    BY <2>1 DEF Spared
  <2>. QED
    BY <1>0, <2>1, <2>2
<1>6. ASSUME NEW d \in Delegation, Dispatch(d) \/ Deliver(d)
      PROVE  /\ \A c \in Delegation : delegation'[c] # "lost"
             /\ clearing' => \A c \in Delegation : delegation'[c] \notin {"running", "settled"}
  <2>1. /\ Running # {} /\ clearing' = clearing
        /\ \E s \in {"running", "delivered"} : delegation' = [delegation EXCEPT ![d] = s]
    BY <1>6 DEF Dispatch, Deliver, Running, sessionVars
  <2>. QED
    BY <1>0, <1>2, <2>1
<1>7. ASSUME NEW d \in Delegation, DelegationSettles(d)
      PROVE  /\ \A c \in Delegation : delegation'[c] # "lost"
             /\ clearing' => \A c \in Delegation : delegation'[c] \notin {"running", "settled"}
  <2>1. /\ delegation[d] = "running" /\ clearing' = clearing
        /\ delegation' = [delegation EXCEPT ![d] = "settled"]
    BY <1>7 DEF DelegationSettles
  <2>. QED
    BY <1>0, <2>1
<1>8. CASE UNCHANGED vars \/ Commit
  BY <1>3, <1>8 DEF Commit, vars, sessionVars, wakeVars
<1>9. CASE User /\ ~ClearBegins
  <2>1. delegation' = delegation /\ clearing' = clearing
    BY <1>9, Zenon DEF User, Type, Enter, TakeBack, Interrupt, Answer, wakeVars
  <2>. QED
    BY <1>3, <2>1
<1>10. CASE \/ Drain \/ IdleSweep \/ Ask \/ ClearFails
            \/ \E t \in Task : JobStarts(t) \/ JobSettles(t) \/ JobPublished(t) \/ TailRead(t)
  <2>1. CASE Drain \/ IdleSweep \/ Ask \/ ClearFails
    <3>1. CASE Drain \/ IdleSweep \/ Ask
      <4>1. delegation' = delegation /\ clearing' = clearing
        BY <3>1, Zenon DEF Drain, IdleSweep, Ask, wakeVars
      <4>. QED
        BY <1>3, <4>1
    <3>2. CASE ClearFails
      <4>1. delegation' = delegation /\ ~clearing'
        BY <3>2 DEF ClearFails, wakeVars
      <4>. QED
        BY <1>3, <4>1
    <3>. QED
      BY <2>1, <3>1, <3>2
  <2>2. CASE \E t \in Task : JobStarts(t) \/ JobSettles(t) \/ JobPublished(t) \/ TailRead(t)
    <3>1. delegation' = delegation /\ clearing' = clearing
      BY <2>2, Zenon DEF JobStarts, JobSettles, JobPublished, TailRead, wakeVars, sessionVars
    <3>. QED
      BY <1>3, <3>1
  <2>. QED
    BY <1>10, <2>1, <2>2
<1>11. CASE \E c \in turns : \/ Expanded(c) \/ ExpansionFails(c) \/ TurnEnds(c) \/ WindUp(c)
                             \/ Continue(c) \/ \E t \in Task : ModelSees(c, t)
  <2>1. CASE \E c \in turns : Expanded(c) \/ ExpansionFails(c) \/ TurnEnds(c)
    <3>1. delegation' = delegation /\ clearing' = clearing
      BY <2>1, Zenon DEF Expanded, ExpansionFails, TurnEnds, wakeVars
    <3>. QED
      BY <1>3, <3>1
  <2>2. CASE \E c \in turns : WindUp(c) \/ Continue(c) \/ \E t \in Task : ModelSees(c, t)
    <3>1. delegation' = delegation /\ clearing' = clearing
      BY <2>2, Zenon DEF WindUp, Continue, ModelSees, wakeVars
    <3>. QED
      BY <1>3, <3>1
  <2>. QED
    BY <1>11, <2>1, <2>2
<1>12. CASE WakeNext
  BY <1>4, <1>5, <1>6, <1>7, <1>8, <1>9, <1>10, <1>11, <1>12, WakeSteps, Zenon
<1>. QED
  BY <1>8, <1>12

-----------------------------------------------------------------------------
(* The inductive invariant, and the properties from it *)

WakeInv == WakeTypes /\ KeptPart /\ Announced /\ Single

\* What holds besides when no prompt is a command that has to be loaded: part of
\* it until turns overlap, part of it whatever they do.
Aligned == Quiesced /\ OwnTurn /\ Holds /\ Heard /\ Spared
PlainInv == Loading = {} /\ OwnQueue /\ Rises(Waiting) /\ (~overlapped => Aligned)

LEMMA WakeInvInit == ASSUME WakeInit PROVE WakeInv
<1>1. Single
  BY DEF WakeInit, Single, OneTurn, Running
<1>. QED
  BY <1>1, WakeInitTypes, KeptInit, AnnouncedInit DEF WakeInv

LEMMA WakeInvStep == ASSUME WakeInv, [WakeNext]_vars PROVE WakeInv'
<1>1. WakeTypes'
  BY WakeTypeStep DEF WakeInv
<1>2. KeptPart'
  BY KeptStep DEF WakeInv
<1>3. Announced'
  BY AnnouncedStep DEF WakeInv
<1>4. Single'
  BY SingleStep DEF WakeInv
<1>. QED
  BY <1>1, <1>2, <1>3, <1>4 DEF WakeInv

LEMMA PlainInit == ASSUME WakeInit PROVE PlainInv
<1>1. /\ turns = {} /\ status = "idle" /\ ~clearing /\ queue = <<>> /\ editor = <<>> /\ held = {} /\ told = {}
  BY DEF WakeInit
<1>2. ToSet(<<>>) = {} /\ Typed(<<>>) = <<>>
  BY ElementsNone, TypedNone
<1>3. Loading = {} /\ Running = {}
  BY <1>1 DEF Loading, Running
<1>4. OwnQueue /\ OwnTurn /\ Heard /\ Quiesced
  BY <1>1, <1>2, <1>3 DEF OwnQueue, OwnTurn, Heard, Quiesced
<1>5. Holds
  BY <1>1 DEF Holds
<1>6. Rises(Waiting)
  <2>1. Waiting = <<>>
    BY <1>1, <1>2, ConcatEmptySeq DEF Waiting
  <2>. QED
    BY <2>1 DEF Rises
<1>7. Spared
  BY <1>1 DEF WakeInit, Spared
<1>. QED
  BY <1>3, <1>4, <1>5, <1>6, <1>7 DEF PlainInv, Aligned

LEMMA PlainStep == ASSUME Slash = {}, WakeInv, PlainInv, [WakeNext]_vars PROVE PlainInv'
<1>1. /\ WakeTypes /\ KeptPart /\ Announced /\ Single /\ Loading = {} /\ OwnQueue /\ Rises(Waiting)
      /\ ~overlapped => Aligned
  BY DEF WakeInv, PlainInv
<1>2. Does
  BY <1>1, DoesStep DEF Aligned
<1>3. Loading' = {} /\ OwnQueue'
  BY <1>1, <1>2, QueueDoes
<1>4. Rises(Waiting)'
  BY <1>1, RisesStep DEF Rises
<1>5. ASSUME ~overlapped' PROVE Aligned'
  <2>1. OneTurn /\ Quiesced /\ OwnTurn /\ Holds /\ Heard /\ Spared
    BY <1>1, <1>5, OverlapStays DEF Single, Aligned
  <2>2. Quiesced' /\ OwnTurn' /\ Heard'
    BY <1>1, <1>2, <1>5, <2>1, QuiescedDoes, OwnTurnDoes, HeardDoes
  <2>3. Holds'
    BY <1>1, <1>2, <1>5, <2>1, HoldsDoes
  <2>4. Spared'
    BY <1>1, <2>1, SparedStep
  <2>. QED
    BY <2>2, <2>3, <2>4 DEF Aligned
<1>. QED
  BY <1>3, <1>4, <1>5 DEF PlainInv

LEMMA PlainKeeps == ASSUME WakeInv, PlainInv PROVE PromptsKept
<1>1. EveryPromptOnce
  BY KeptIs DEF WakeInv
<1>2. WaitingInOrder
  BY DEF PlainInv, Rises, WaitingInOrder
<1>3. CancelHolds
  BY DEF PlainInv, Aligned, Holds, CancelHolds
<1>4. NoForeignEntry
  <2>1. \A i \in DOMAIN queue : queue[i] \in ToSet(queue)
    BY DEF ToSet
  <2>. QED
    BY <2>1 DEF PlainInv, Aligned, OwnQueue, OwnTurn, NoForeignEntry
<1>. QED
  BY <1>1, <1>2, <1>3, <1>4 DEF PromptsKept

\* Steps of a session without commands send no wake of a job that was reported.
LEMMA NotToldTwiceStep ==
    ASSUME Slash = {}, WakeInv, PlainInv, [WakeNext]_vars, ~overlapped', NEW t \in Task,
           <<t, gen>> \in told, NEW w \in ToSet(sent'), w.kind = "job", w.of = t
    PROVE  w \in ToSet(sent)
<1>1. /\ WakeTypes /\ Announced /\ Single /\ OwnQueue /\ Loading = {} /\ sent \in Seq(Entry)
      /\ ~overlapped => Holds
  BY SeqsAre DEF WakeInv, PlainInv, Aligned
<1>2. t \in delivered
  BY OverlapStays DEF PlainInv, Aligned, Heard
<1>3. Does
  BY <1>1, DoesStep
<1>4. CASE sent' = sent
  BY <1>4
<1>5. ASSUME NEW e, NEW q, Begun(e, q) PROVE w \in ToSet(sent)
  <2>1. sent' = Append(sent, e) /\ e \in Entry /\ (e.kind = "job" => e.of \notin delivered)
    BY <1>5 DEF Begun, Begins
  <2>2. ToSet(Append(sent, e)) = ToSet(sent) \cup {e}
    BY <1>1, <2>1, ElementsAppend
  <2>. QED
    BY <1>2, <2>1, <2>2
<1>. QED
  BY <1>3, <1>4, <1>5 DEF Does, Aside, Cleared, Ended, Went

\* Every reachable state satisfies the invariant, whatever the commands, the
\* jobs, the delegations and the number of prompts.
THEOREM Invariance == WakeSpec => []WakeInv
<1>1. WakeInit => WakeInv
  BY WakeInvInit
<1>2. WakeInv /\ [WakeNext]_vars => WakeInv'
  BY WakeInvStep
<1>. QED
  BY <1>1, <1>2, PTL DEF WakeSpec

\* The session loop keeps its types.
THEOREM TypeCorrect == WakeSpec => []TypeOK
<1>1. WakeInv => TypeOK
  BY DEF WakeInv, WakeTypes
<1>. QED
  BY <1>1, Invariance, PTL

\* A turn, or a /clear, that begins while a turn runs was let in by a render that
\* does not show that turn yet, or is a command that was still being loaded: the
\* checks of submit() and of the drain leave no third way.
THEOREM OverlapHasCauseHolds == WakeSpec => OverlapHasCause
<1>1. WakeInv /\ [WakeNext]_vars =>
        [~overlapped /\ overlapped' =>
           \/ shown # status
           \/ \E call \in turns : call.step = "expanding"]_vars
  <2>1. ASSUME WakeInv, WakeNext, ~overlapped, overlapped'
        PROVE  shown # status \/ \E call \in turns : call.step = "expanding"
    BY <2>1, OverlapStep DEF WakeInv
  <2>. QED
    BY <2>1
<1>. QED
  BY <1>1, Invariance, PTL DEF WakeSpec, OverlapHasCause

\* No prompt is lost, sent twice or put on either side of another that waits with
\* it: returnQueuedToEditor(), submit() and the drain of the interactive driver,
\* with commands that are loaded first and may fail to load.
THEOREM KeptInOrderHolds == WakeSpec => KeptInOrder
<1>1. WakeInv => EveryPromptOnce
  BY KeptIs DEF WakeInv
<1>2. WakeInv /\ WakeInv' /\ [WakeNext]_vars =>
        \A i, j \in DOMAIN Waiting, k, l \in DOMAIN Waiting' :
          i < j /\ Waiting'[k] = Waiting[i] /\ Waiting'[l] = Waiting[j] => k < l
  BY NeverReorderedStep, Zenon DEF WakeInv, Ordered
<1>3. WakeInv /\ WakeInv' /\ [WakeNext]_vars =>
        [\A i, j \in DOMAIN Waiting, k, l \in DOMAIN Waiting' :
           i < j /\ Waiting'[k] = Waiting[i] /\ Waiting'[l] = Waiting[j] => k < l]_vars
  BY <1>2
<1>. QED
  BY <1>1, <1>3, Invariance, PTL DEF WakeSpec, KeptInOrder, NeverReordered

\* A finished job or delegation starts one turn at most: one entry for it in the
\* queue and the turns together, with slash commands or without, and however the
\* turns overlap.
THEOREM WokenOnceHolds == WakeSpec => []WokenOnce
<1>1. WakeInv => WokenOnce
  BY AnnouncedIs DEF WakeInv
<1>. QED
  BY <1>1, Invariance, PTL

\* Without such commands the second invariant holds too.
THEOREM PlainInvariance == Slash = {} => (WakeSpec => []PlainInv)
<1>. SUFFICES ASSUME Slash = {} PROVE WakeSpec => []PlainInv
  OBVIOUS
<1>1. WakeInit => PlainInv
  BY PlainInit
<1>2. WakeInv /\ PlainInv /\ [WakeNext]_vars => PlainInv'
  BY PlainStep
<1>. QED
  BY <1>1, <1>2, Invariance, PTL DEF WakeSpec

\* Then what waits is in the order it was typed and nothing queued reaches a
\* later conversation; and until turns overlap, what was queued at a cancel is
\* not sent before it is submitted again, and no turn outlives its conversation.
THEOREM PromptsKeptHolds == Slash = {} => (WakeSpec => []PromptsKept)
<1>. SUFFICES ASSUME Slash = {} PROVE WakeSpec => []PromptsKept
  OBVIOUS
<1>1. WakeInv /\ PlainInv => PromptsKept
  BY PlainKeeps
<1>2. WakeSpec => []PlainInv
  BY PlainInvariance
<1>. QED
  BY <1>1, <1>2, Invariance, PTL

\* And until turns overlap the model is not told again, by a turn of its own, of
\* a job that a completed turn of the conversation reported: the drain asks the
\* ledger.
THEOREM ToldOnceHolds == Slash = {} => (WakeSpec => ToldOnce)
<1>. SUFFICES ASSUME Slash = {} PROVE WakeSpec => ToldOnce
  OBVIOUS
<1>. DEFINE Again == \A t \in Task : <<t, gen>> \in told =>
                       \A g \in 0 .. MaxClear :
                         LET wake == [kind |-> "job", of |-> t, gen |-> g]
                         IN  wake \in ToSet(sent') => wake \in ToSet(sent)
<1>1. WakeInv => WokenOnce
  BY AnnouncedIs DEF WakeInv
<1>2. WakeInv /\ PlainInv /\ [WakeNext]_vars => (~overlapped' => Again)
  <2>1. ASSUME WakeInv, PlainInv, [WakeNext]_vars, ~overlapped', NEW t \in Task, <<t, gen>> \in told,
               NEW g \in 0 .. MaxClear, [kind |-> "job", of |-> t, gen |-> g] \in ToSet(sent')
        PROVE  [kind |-> "job", of |-> t, gen |-> g] \in ToSet(sent)
    BY <2>1, NotToldTwiceStep
  <2>. QED
    BY <2>1
<1>3. WakeInv /\ PlainInv /\ [WakeNext]_vars => [~overlapped' => Again]_vars
  BY <1>2
<1>4. WakeSpec => []PlainInv
  BY PlainInvariance
<1>. QED
  BY <1>1, <1>3, <1>4, Invariance, PTL DEF WakeSpec, ToldOnce, NotToldTwice

\* And no /clear, which closes the runtime, cancels a background delegation,
\* unless turns overlapped.
THEOREM ClearSparesDelegationsHolds == Slash = {} => (WakeSpec => []ClearSparesDelegations)
<1>. SUFFICES ASSUME Slash = {} PROVE WakeSpec => []ClearSparesDelegations
  OBVIOUS
<1>1. PlainInv => ClearSparesDelegations
  BY DEF PlainInv, Aligned, Spared, ClearSparesDelegations
<1>2. WakeSpec => []PlainInv
  BY PlainInvariance
<1>. QED
  BY <1>1, <1>2, PTL
=============================================================================
