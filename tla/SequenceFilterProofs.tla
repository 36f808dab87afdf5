------------------------ MODULE SequenceFilterProofs ------------------------
(* What Keep does with the empty sequence and with one more element, how the *)
(* sequences it is used on are put together, and the induction that takes.    *)
EXTENDS SequenceFilter, SequenceTheorems, WellFoundedInduction, TLAPS

-----------------------------------------------------------------------------
(* Induction with a set for the property, since a least element needs no more. *)

Less == {ss \in Nat \X Nat : ss[1] < ss[2]}

LEMMA LessWellFounded == IsWellFoundedOn(Less, Nat)
BY NatLessThanWellFounded DEF OpToRel, Less

LEMMA Least ==
  ASSUME NEW S \in SUBSET Nat, S # {}
  PROVE  \E n \in S : \A m \in S : n <= m
<1>1. PICK n \in S : \A m \in S : <<m, n>> \notin Less
  BY LessWellFounded, WFMin
<1>2. ASSUME NEW m \in S
      PROVE  n <= m
  <2>1. m \in Nat /\ n \in Nat /\ ~(m < n)
    BY <1>1 DEF Less
  <2>2. QED
    BY <2>1
<1>3. QED
  BY <1>2

LEMMA InductionTo ==
  ASSUME NEW k \in Nat, NEW G, 0 \in G,
         \A n \in 1 .. k : n - 1 \in G => n \in G
  PROVE  0 .. k \subseteq G
<1> DEFINE B == {n \in 0 .. k : n \notin G}
<1>1. SUFFICES ASSUME B # {} PROVE FALSE
  OBVIOUS
<1>2. B \in SUBSET Nat
  OBVIOUS
<1>3. PICK n \in B : \A m \in B : n <= m
  BY <1>1, <1>2, Least
<1>4. n \in 1 .. k /\ n - 1 \in 0 .. k /\ n - 1 \notin B
  BY <1>3
<1>5. QED
  BY <1>3, <1>4

-----------------------------------------------------------------------------
(* The function Keep is the last value of. *)

\* f[i] is what is kept of the first i elements, as far as n.
Follows(s, S, f, n) ==
  /\ f[0] = << >>
  /\ \A i \in 1 .. n : f[i] = IF s[i] \in S THEN Append(f[i - 1], s[i]) ELSE f[i - 1]

LEMMA FollowsExists ==
  ASSUME NEW s, NEW S, NEW k \in Nat
  PROVE  \E f \in [0 .. k -> Seq(S)] : Follows(s, S, f, k)
<1> DEFINE G == {n \in Nat : \E f \in [0 .. n -> Seq(S)] : Follows(s, S, f, n)}
<1>1. 0 \in G
  <2> DEFINE f == [i \in 0 .. 0 |-> << >>]
  <2>1. f \in [0 .. 0 -> Seq(S)] /\ f[0] = << >>
    BY EmptySeq
  <2>2. Follows(s, S, f, 0)
    BY <2>1 DEF Follows
  <2>3. QED
    BY <2>1, <2>2
<1>2. ASSUME NEW n \in 1 .. k, n - 1 \in G
      PROVE  n \in G
  <2>1. PICK f \in [0 .. n - 1 -> Seq(S)] : Follows(s, S, f, n - 1)
    BY <1>2
  <2> DEFINE l == IF s[n] \in S THEN Append(f[n - 1], s[n]) ELSE f[n - 1]
             g == [i \in 0 .. n |-> IF i = n THEN l ELSE f[i]]
  <2>2. n \in Nat /\ n # 0 /\ n - 1 \in 0 .. n - 1
    OBVIOUS
  <2>3. f[n - 1] \in Seq(S)
    BY <2>1, <2>2
  <2>4. l \in Seq(S)
    BY <2>3, AppendProperties
  <2> HIDE DEF l
  <2>5. g \in [0 .. n -> Seq(S)] /\ g[n] = l /\ \A i \in 0 .. n - 1 : g[i] = f[i]
    BY <2>1, <2>2, <2>4
  <2> HIDE DEF g
  <2>6. g[0] = << >>
    BY <2>1, <2>2, <2>5 DEF Follows
  <2>7. ASSUME NEW i \in 1 .. n
        PROVE  g[i] = IF s[i] \in S THEN Append(g[i - 1], s[i]) ELSE g[i - 1]
    <3>1. CASE i = n
      <4>1. g[i - 1] = f[n - 1] /\ g[i] = l
        BY <3>1, <2>2, <2>5
      <4>2. QED
        BY <3>1, <4>1 DEF l
    <3>2. CASE i # n
      <4>1. i \in 1 .. n - 1 /\ i \in 0 .. n - 1 /\ i - 1 \in 0 .. n - 1
        BY <3>2, <2>2
      <4>2. g[i] = f[i] /\ g[i - 1] = f[i - 1]
        BY <4>1, <2>5
      <4>3. QED
        BY <2>1, <4>1, <4>2 DEF Follows
    <3>3. QED
      BY <3>1, <3>2
  <2>8. Follows(s, S, g, n)
    BY <2>6, <2>7 DEF Follows
  <2>9. QED
    BY <2>2, <2>5, <2>8
<1> HIDE DEF G
<1>3. 0 .. k \subseteq G
  BY <1>1, <1>2, InductionTo
<1>4. k \in G
  BY <1>3
<1>5. QED
  BY <1>4 DEF G

\* What is kept of the first k elements depends on nothing but them.
LEMMA FollowsUnique ==
  ASSUME NEW s, NEW t, NEW S, NEW k \in Nat, \A i \in 1 .. k : s[i] = t[i],
         NEW f, NEW g, Follows(s, S, f, k), Follows(t, S, g, k)
  PROVE  f[k] = g[k]
<1> DEFINE G == {n \in Nat : f[n] = g[n]}
<1>1. 0 \in G
  BY DEF Follows
<1>2. ASSUME NEW n \in 1 .. k, n - 1 \in G
      PROVE  n \in G
  BY <1>2 DEF Follows
<1> HIDE DEF G
<1>3. 0 .. k \subseteq G
  BY <1>1, <1>2, InductionTo
<1>4. k \in G
  BY <1>3
<1>5. QED
  BY <1>4 DEF G

LEMMA KeepFollows ==
  ASSUME NEW T, NEW s \in Seq(T), NEW S
  PROVE  \E f : Follows(s, S, f, Len(s)) /\ f[Len(s)] \in Seq(S) /\ Keep(s, S) = f[Len(s)]
<1> DEFINE Step(f, n) == IF n = 0 THEN << >>
                         ELSE IF s[n] \in S THEN Append(f[n - 1], s[n]) ELSE f[n - 1]
           kept == CHOOSE f : f = [n \in 0 .. Len(s) |-> Step(f, n)]
<1>1. Len(s) \in Nat
  BY LenProperties
<1>2. Keep(s, S) = kept[Len(s)]
  BY DEF Keep
<1>3. \E f \in [0 .. Len(s) -> Seq(S)] : Follows(s, S, f, Len(s))
  <2> HIDE DEF kept
  <2>1. QED
    BY <1>1, FollowsExists
<1>4. PICK f \in [0 .. Len(s) -> Seq(S)] : Follows(s, S, f, Len(s))
  BY <1>3
<1>5. f = [n \in 0 .. Len(s) |-> Step(f, n)]
  <2> HIDE DEF kept
  <2>1. ASSUME NEW n \in 0 .. Len(s)
        PROVE  f[n] = Step(f, n)
    <3>1. n = 0 \/ n \in 1 .. Len(s)
      BY <1>1
    <3>2. QED
      BY <1>4, <3>1 DEF Follows
  <2>2. QED
    BY <2>1
<1>6. kept = [n \in 0 .. Len(s) |-> Step(kept, n)]
  BY <1>5
<1> HIDE DEF kept
<1>7. ASSUME NEW n \in 0 .. Len(s)
      PROVE  kept[n] = Step(kept, n)
  BY <1>6
<1>8. Follows(s, S, kept, Len(s))
  <2>1. kept[0] = << >>
    BY <1>1, <1>7
  <2>2. ASSUME NEW n \in 1 .. Len(s)
        PROVE  kept[n] = IF s[n] \in S THEN Append(kept[n - 1], s[n]) ELSE kept[n - 1]
    <3>1. n \in 0 .. Len(s) /\ n # 0
      BY <1>1
    <3>2. QED
      BY <1>7, <3>1
  <2>3. QED
    BY <2>1, <2>2 DEF Follows
<1>9. kept[Len(s)] = f[Len(s)]
  BY <1>1, <1>4, <1>8, FollowsUnique
<1>10. f[Len(s)] \in Seq(S)
  BY <1>1
<1>11. QED
  BY <1>2, <1>8, <1>9, <1>10

-----------------------------------------------------------------------------
(* What the models' proofs cite. *)

LEMMA KeepType ==
  ASSUME NEW T, NEW s \in Seq(T), NEW S
  PROVE  Keep(s, S) \in Seq(S)
BY KeepFollows

LEMMA KeepEmpty ==
  ASSUME NEW S
  PROVE  Keep(<< >>, S) = << >>
<1>1. << >> \in Seq({}) /\ Len(<< >>) = 0
  BY EmptySeq
<1>2. PICK f : Follows(<< >>, S, f, Len(<< >>)) /\ Keep(<< >>, S) = f[Len(<< >>)]
  BY <1>1, KeepFollows
<1>3. QED
  BY <1>1, <1>2 DEF Follows

\* An element more is kept after what is kept already, or not at all.
LEMMA KeepAppend ==
  ASSUME NEW T, NEW s \in Seq(T), NEW e \in T, NEW S
  PROVE  Keep(Append(s, e), S) = IF e \in S THEN Append(Keep(s, S), e) ELSE Keep(s, S)
<1> DEFINE t == Append(s, e)
<1>1. /\ t \in Seq(T) /\ Len(t) = Len(s) + 1 /\ t[Len(t)] = e /\ Len(s) \in Nat
      /\ \A i \in 1 .. Len(s) : t[i] = s[i]
  BY AppendProperties, LenProperties
<1> HIDE DEF t
<1>2. PICK f : Follows(s, S, f, Len(s)) /\ Keep(s, S) = f[Len(s)]
  BY KeepFollows
<1>3. PICK g : Follows(t, S, g, Len(t)) /\ Keep(t, S) = g[Len(t)]
  BY <1>1, KeepFollows
<1>4. Follows(t, S, g, Len(s))
  BY <1>1, <1>3 DEF Follows
<1>5. g[Len(s)] = f[Len(s)]
  BY <1>1, <1>2, <1>4, FollowsUnique
<1>6. Len(t) \in 1 .. Len(t) /\ Len(t) - 1 = Len(s)
  BY <1>1
<1>7. g[Len(t)] = IF e \in S THEN Append(g[Len(s)], e) ELSE g[Len(s)]
  BY <1>1, <1>3, <1>6 DEF Follows
<1>8. QED
  BY <1>2, <1>3, <1>5, <1>7 DEF t

LEMMA AppendConcat ==
  ASSUME NEW T, NEW s \in Seq(T), NEW t \in Seq(T), NEW e \in T
  PROVE  s \o Append(t, e) = Append(s \o t, e)
<1>1. << e >> \in Seq(T) /\ s \o t \in Seq(T)
  BY ConcatProperties
<1>2. Append(t, e) = t \o << e >> /\ Append(s \o t, e) = (s \o t) \o << e >>
  BY <1>1, AppendIsConcat
<1>3. QED
  BY <1>1, <1>2, ConcatAssociative

\* The head of the second sequence may be appended to the first.
LEMMA ConcatMove ==
  ASSUME NEW T, NEW s \in Seq(T), NEW t \in Seq(T), t # << >>
  PROVE  Append(s, Head(t)) \o Tail(t) = s \o t
<1> DEFINE h == Head(t)
           r == Tail(t)
           o == << h >>
<1>1. /\ h \in T /\ r \in Seq(T) /\ Len(r) = Len(t) - 1 /\ h = t[1]
      /\ \A i \in 1 .. Len(r) : r[i] = t[i + 1]
  BY HeadTailProperties
<1>2. o \in Seq(T) /\ Len(o) = 1 /\ o[1] = h
  BY <1>1
<1>3. Append(s, h) = s \o o
  BY <1>1, AppendIsConcat
<1> HIDE DEF h, r, o
<1>4. /\ o \o r \in Seq(T) /\ Len(o \o r) = Len(o) + Len(r)
      /\ \A i \in 1 .. Len(o) + Len(r) :
           (o \o r)[i] = IF i <= Len(o) THEN o[i] ELSE r[i - Len(o)]
  <2>1. ASSUME NEW x \in Seq(T), NEW y \in Seq(T)
        PROVE  /\ x \o y \in Seq(T) /\ Len(x \o y) = Len(x) + Len(y)
               /\ \A i \in 1 .. Len(x) + Len(y) :
                    (x \o y)[i] = IF i <= Len(x) THEN x[i] ELSE y[i - Len(x)]
    BY ConcatProperties
  <2>2. QED
    BY <1>1, <1>2, <2>1
<1>5. Len(t) \in Nat /\ Len(r) \in Nat /\ Len(o \o r) = Len(t)
  BY <1>1, <1>2, <1>4, LenProperties
<1>6. \A i \in 1 .. Len(t) : (o \o r)[i] = t[i]
  <2> TAKE i \in 1 .. Len(t)
  <2>1. CASE i = 1
    BY <1>1, <1>2, <1>4, <1>5, <2>1
  <2>2. CASE i # 1
    <3>1. i - 1 \in 1 .. Len(r) /\ (o \o r)[i] = r[i - 1] /\ i - 1 + 1 = i
      BY <1>1, <1>2, <1>4, <1>5, <2>2
    <3>2. QED
      BY <1>1, <3>1
  <2>3. QED
    BY <2>1, <2>2
<1>7. o \o r = t
  BY <1>4, <1>5, <1>6, SeqEqual
<1>8. (s \o o) \o r = s \o (o \o r)
  BY <1>1, <1>2, ConcatAssociative
<1>9. QED
  BY <1>3, <1>7, <1>8 DEF h, r

\* A sequence whose last element changes is what is before it and an element.
LEMMA ExceptLast ==
  ASSUME NEW T, NEW s \in Seq(T), s # << >>
  PROVE  \E v \in Seq(T) : /\ s = Append(v, s[Len(s)])
                           /\ \A e \in T : [s EXCEPT ![Len(s)] = e] = Append(v, e)
<1>1. \E v \in Seq(T), l \in T : s = Append(v, l)
  BY SequenceEmptyOrAppend
<1>2. PICK v \in Seq(T), l \in T : s = Append(v, l)
  BY <1>1
<1>3. /\ Len(v) \in Nat /\ Len(s) = Len(v) + 1 /\ s[Len(s)] = l
      /\ \A i \in 1 .. Len(v) : s[i] = v[i]
  BY <1>2, AppendProperties, LenProperties
<1>4. ASSUME NEW e \in T
      PROVE  [s EXCEPT ![Len(s)] = e] = Append(v, e)
  <2> DEFINE t == [s EXCEPT ![Len(s)] = e]
             u == Append(v, e)
  <2>1. /\ t \in Seq(T) /\ Len(t) = Len(s)
        /\ \A i \in 1 .. Len(s) : t[i] = IF i = Len(s) THEN e ELSE s[i]
    <3>1. Len(s) \in 1 .. Len(s)
      BY <1>3
    <3>2. QED
      BY <3>1, ExceptSeq
  <2>2. /\ u \in Seq(T) /\ Len(u) = Len(s) /\ u[Len(s)] = e
        /\ \A i \in 1 .. Len(v) : u[i] = v[i]
    BY <1>3, AppendProperties
  <2> HIDE DEF t, u
  <2>3. \A i \in 1 .. Len(t) : t[i] = u[i]
    BY <1>3, <2>1, <2>2
  <2>4. t = u
    BY <2>1, <2>2, <2>3, SeqEqual
  <2>5. QED
    BY <2>4 DEF t, u
<1>5. QED
  BY <1>2, <1>3, <1>4
=============================================================================
