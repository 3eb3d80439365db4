--------------------------- MODULE SequenceLemmas ---------------------------
(***************************************************************************)
(* What the proofs about queues and streams need of sequences: induction   *)
(* over the naturals, for sets in place of predicates, and from it what    *)
(* FlattenSeq computes for every sequence of sequences.                    *)
(***************************************************************************)
EXTENDS Integers, Sequences, SequencesExt, SequenceTheorems, WellFoundedInduction, TLAPS

LEMMA NatLess == IsWellFoundedOn({ss \in Nat \X Nat : ss[1] < ss[2]}, Nat)
  BY NatLessThanWellFounded, Zenon DEF OpToRel

(* A set of numbers that has 0 and with each number the next has them all. *)
LEMMA Induction ==
    ASSUME NEW S, 0 \in S, \A n \in Nat : n \in S => n + 1 \in S
    PROVE  Nat \subseteq S
<1> DEFINE R == {ss \in Nat \X Nat : ss[1] < ss[2]}
           Bad == Nat \ S
<1>1. SUFFICES ASSUME Bad # {} PROVE FALSE
  OBVIOUS
<1>2. IsWellFoundedOn(R, Nat)
  BY NatLess
<1> HIDE DEF R
<1>3. Bad \subseteq Nat
  OBVIOUS
<1>4. PICK x \in Bad : \A y \in Bad : <<y, x>> \notin R
  <2> HIDE DEF Bad
  <2>1. QED
    BY <1>1, <1>2, <1>3, WFMin
<1>5. x \in Nat /\ x # 0 /\ x - 1 \in Nat /\ x - 1 \notin S
  OBVIOUS
<1>6. <<x - 1, x>> \in R
  BY <1>5 DEF R
<1>7. QED
  BY <1>4, <1>5, <1>6

(* Associativity under a name, by which the provers find the instance. *)
Grouped(s, t, u) == (s \o t) \o u = s \o (t \o u)

LEMMA Regroup ==
    ASSUME NEW S, NEW s \in Seq(S), NEW t \in Seq(S), NEW u \in Seq(S)
    PROVE  Grouped(s, t, u)
  BY ConcatAssociative DEF Grouped

Chained(s, t, r) ==
    /\ Len(r) = Len(s) + Len(t)
    /\ \A i \in 1..(Len(s) + Len(t)) : r[i] = IF i <= Len(s) THEN s[i] ELSE t[i - Len(s)]

LEMMA Chain ==
    ASSUME NEW S, NEW s \in Seq(S), NEW t \in Seq(S) PROVE Chained(s, t, s \o t)
  BY ConcatProperties DEF Chained

LEMMA SameSeq ==
    ASSUME NEW S, NEW g \in Seq(S), NEW n, Len(g) = n, NEW f, f = [i \in 1..n |-> g[i]]
    PROVE  f = g
  OBVIOUS

(* A sequence is its first element and the rest. *)
Begins(s, x, t) ==
    /\ x = Head(s) /\ t = Tail(s) /\ s = <<x>> \o t
    /\ Len(t) \in Nat /\ Len(s) = Len(t) + 1 /\ s[1] = x
    /\ \A i \in 1..Len(t) : t[i] = s[i + 1]

LEMMA FirstAndRest ==
    ASSUME NEW S, NEW s \in Seq(S), s # <<>>
    PROVE  \E x \in S, t \in Seq(S) : Begins(s, x, t)
<1>1. PICK x \in S, t \in Seq(S) :
        /\ x = Head(s) /\ t = Tail(s) /\ Len(t) = Len(s) - 1
        /\ \A i \in 1..Len(t) : t[i] = s[i + 1]
  <2>1. /\ Head(s) \in S /\ Tail(s) \in Seq(S) /\ Len(Tail(s)) = Len(s) - 1
        /\ \A i \in 1..Len(Tail(s)) : Tail(s)[i] = s[i + 1]
    BY HeadTailProperties
  <2>2. QED
    BY <2>1, Zenon
<1>2. s[1] = x /\ Len(s) \in Nat /\ Len(t) \in Nat /\ Len(s) = Len(t) + 1
  <2>1. Len(s) \in Nat /\ Len(t) \in Nat
    OBVIOUS
  <2>2. Head(s) = s[1]
    OBVIOUS
  <2>3. QED
    BY <1>1, <2>1, <2>2
<1>3. PICK one \in Seq(S) : one = <<x>> /\ Len(one) = 1 /\ one[1] = x
  <2>1. <<x>> \in Seq(S) /\ Len(<<x>>) = 1 /\ <<x>>[1] = x
    OBVIOUS
  <2>2. QED
    BY <2>1
<1>4. PICK r \in Seq(S) : r = one \o t
  BY ConcatProperties
<1>5. Chained(one, t, r)
  BY <1>4, Chain
<1>6. Len(r) = Len(s)
  BY <1>2, <1>3, <1>5 DEF Chained
<1>7. ASSUME NEW i \in 1..Len(r) PROVE r[i] = s[i]
  <2>1. r[i] = IF i <= 1 THEN one[i] ELSE t[i - 1]
    BY <1>3, <1>5, <1>7 DEF Chained
  <2>2. CASE i <= 1
    <3>1. i = 1
      BY <2>2
    <3>2. QED
      BY <1>2, <1>3, <2>1, <3>1
  <2>3. CASE ~(i <= 1)
    <3>1. i - 1 \in 1..Len(t) /\ (i - 1) + 1 = i
      BY <1>2, <1>6, <2>3
    <3>2. QED
      BY <1>1, <2>1, <2>3, <3>1
  <2>4. QED
    BY <2>2, <2>3
<1>8. r = s
  BY <1>6, <1>7, SeqEqual
<1>9. QED
  BY <1>1, <1>2, <1>3, <1>4, <1>8 DEF Begins

(* The first n elements of t move across to s. *)
Across(S, s, t, n) ==
    /\ SubSeq(t, 1, n) \in Seq(S) /\ SubSeq(t, n + 1, Len(t)) \in Seq(S)
    /\ (s \o SubSeq(t, 1, n)) \o SubSeq(t, n + 1, Len(t)) = (s \o <<>>) \o t

LEMMA MovedAcross ==
    ASSUME NEW S, NEW s \in Seq(S), NEW t \in Seq(S), NEW n \in 0..Len(t)
    PROVE  Across(S, s, t, n)
<1>1. /\ n \in Int /\ n + 1 \in Int /\ Len(t) \in Int
      /\ \A i \in 1..Len(t) : t[i] \in S
  BY ElementOfSeq
<1>2. PICK a \in Seq(S), b \in Seq(S) :
         a = SubSeq(t, 1, n) /\ b = SubSeq(t, n + 1, Len(t))
  <2>1. \A i \in 1..n : t[i] \in S
    BY <1>1
  <2>2. \A i \in (n + 1)..Len(t) : t[i] \in S
    BY <1>1
  <2>3. SubSeq(t, 1, n) \in Seq(S)
    BY <1>1, <2>1, SubSeqProperties
  <2>4. SubSeq(t, n + 1, Len(t)) \in Seq(S)
    BY <1>1, <2>2, SubSeqProperties
  <2>5. QED
    BY <2>3, <2>4
<1>3. a \o b = t
  <2>1. 1 \in 1..(Len(t) + 1) /\ n \in (1 - 1)..Len(t) /\ Len(t) \in n..Len(t)
    BY <1>1
  <2>2. SubSeq(t, 1, n) \o SubSeq(t, n + 1, Len(t)) = SubSeq(t, 1, Len(t))
    BY <2>1, ConcatAdjacentSubSeq
  <2>3. QED
    BY <1>2, <2>2, SubSeqFull
<1>4. Grouped(s, a, b)
  BY Regroup
<1>5. s \o <<>> = s
  BY ConcatEmptySeq
<1>6. QED
  BY <1>2, <1>3, <1>4, <1>5 DEF Grouped, Across

-----------------------------------------------------------------------------
(* FlattenSeq. *)

(* f is the function by which FlattenSeq runs over the first n of s. *)
Flattens(f, s, n) == f = [i \in 1..n |-> IF i = 1 THEN s[i] ELSE f[i-1] \o s[i]]

LEMMA FlattensNext ==
    ASSUME NEW s, NEW n \in Nat, NEW f, Flattens(f, s, n)
    PROVE  \E g : Flattens(g, s, n + 1)
<1> DEFINE g == [i \in 1..(n + 1) |->
                   IF i \in 1..n THEN f[i] ELSE IF i = 1 THEN s[i] ELSE f[i-1] \o s[i]]
<1>1. f = [i \in 1..n |-> IF i = 1 THEN s[i] ELSE f[i-1] \o s[i]]
  BY DEF Flattens
<1>2. \A i \in 1..n : f[i] = IF i = 1 THEN s[i] ELSE f[i-1] \o s[i]
  BY <1>1
<1>3. \A i \in 1..n : g[i] = f[i]
  OBVIOUS
<1>4. \A i \in 1..(n + 1) : i # 1 => i - 1 \in 1..n
  OBVIOUS
<1>5. \A i \in 1..(n + 1) : g[i] = IF i = 1 THEN s[i] ELSE g[i-1] \o s[i]
  <2>1. SUFFICES ASSUME NEW i \in 1..(n + 1)
                 PROVE  g[i] = IF i = 1 THEN s[i] ELSE g[i-1] \o s[i]
    OBVIOUS
  <2>2. CASE i \in 1..n
    BY <1>2, <1>3, <1>4, <2>2
  <2>3. CASE i \notin 1..n
    BY <1>3, <1>4, <2>3
  <2>4. QED
    BY <2>2, <2>3
<1>6. Flattens(g, s, n + 1)
  BY <1>5 DEF Flattens
<1>7. QED
  BY <1>6

LEMMA FlattensExists == ASSUME NEW s, NEW n \in Nat PROVE \E f : Flattens(f, s, n)
<1> DEFINE S == {m \in Nat : \E f : Flattens(f, s, m)}
<1>1. Flattens([i \in 1..0 |-> 0], s, 0)
  BY DEF Flattens
<1>2. 0 \in S
  BY <1>1
<1>3. \A m \in Nat : m \in S => m + 1 \in S
  BY FlattensNext
<1>4. Nat \subseteq S
  <2> HIDE DEF S
  <2>1. QED
    BY <1>2, <1>3, Induction
<1>5. QED
  BY <1>4

LEMMA FlattenSeqIs ==
    ASSUME NEW s, Len(s) \in Nat, Len(s) # 0
    PROVE  \E f : Flattens(f, s, Len(s)) /\ FlattenSeq(s) = f[Len(s)]
<1> DEFINE f == CHOOSE g : Flattens(g, s, Len(s))
<1>1. Flattens(f, s, Len(s))
  BY FlattensExists
<1>2. FlattenSeq(s) = f[Len(s)]
  BY DEF FlattenSeq, Flattens
<1>3. QED
  BY <1>1, <1>2

(* It does not look beyond the place it is at. *)
Agree(s, t, n) == \A i \in 1..n : s[i] = t[i]

LEMMA FlattensPrefix ==
    ASSUME NEW s, NEW t, NEW n \in Nat, NEW m \in Nat, n <= m,
           NEW f, NEW g, Flattens(f, s, n), Flattens(g, t, m),
           Agree(s, t, n)
    PROVE  Agree(f, g, n)
<1> USE DEF Agree
<1> DEFINE S == {i \in Nat : i \in 1..n => f[i] = g[i]}
<1>1. \A i \in 1..n : f[i] = IF i = 1 THEN s[i] ELSE f[i-1] \o s[i]
  BY DEF Flattens
<1>2. \A i \in 1..n : g[i] = IF i = 1 THEN t[i] ELSE g[i-1] \o t[i]
  <2>1. \A i \in 1..m : g[i] = IF i = 1 THEN t[i] ELSE g[i-1] \o t[i]
    BY DEF Flattens
  <2>2. \A i \in 1..n : i \in 1..m
    OBVIOUS
  <2>3. QED
    BY <2>1, <2>2
<1>3. 0 \in S
  OBVIOUS
<1>4. ASSUME NEW i \in Nat, i \in S PROVE i + 1 \in S
  <2>1. SUFFICES ASSUME i + 1 \in 1..n PROVE f[i + 1] = g[i + 1]
    OBVIOUS
  <2>2. CASE i = 0
    BY <1>1, <1>2, <2>1, <2>2
  <2>3. CASE i # 0
    <3>1. i \in 1..n /\ (i + 1) - 1 = i /\ i + 1 # 1
      BY <2>1, <2>3
    <3>2. f[i] = g[i]
      BY <1>4, <3>1
    <3>3. QED
      BY <1>1, <1>2, <2>1, <3>1, <3>2
  <2>4. QED
    BY <2>2, <2>3
<1>5. Nat \subseteq S
  <2> HIDE DEF S
  <2>1. QED
    BY <1>3, <1>4, Induction
<1>6. QED
  BY <1>5

LEMMA FlattensType ==
    ASSUME NEW S, NEW s \in Seq(Seq(S)), NEW f, Flattens(f, s, Len(s))
    PROVE  \A i \in 1..Len(s) : f[i] \in Seq(S)
<1> DEFINE T == {i \in Nat : i \in 1..Len(s) => f[i] \in Seq(S)}
<1>1. \A i \in 1..Len(s) : f[i] = IF i = 1 THEN s[i] ELSE f[i-1] \o s[i]
  BY DEF Flattens
<1>2. 0 \in T
  OBVIOUS
<1>3. ASSUME NEW i \in Nat, i \in T PROVE i + 1 \in T
  <2>1. SUFFICES ASSUME i + 1 \in 1..Len(s) PROVE f[i + 1] \in Seq(S)
    OBVIOUS
  <2>2. s[i + 1] \in Seq(S)
    BY <2>1, ElementOfSeq
  <2>3. CASE i = 0
    BY <1>1, <2>1, <2>2, <2>3
  <2>4. CASE i # 0
    <3>1. i \in 1..Len(s) /\ (i + 1) - 1 = i /\ i + 1 # 1
      BY <2>1, <2>4
    <3>2. f[i] \in Seq(S)
      BY <1>3, <3>1
    <3>3. f[i + 1] = f[i] \o s[i + 1]
      BY <1>1, <2>1, <3>1
    <3>4. QED
      BY <2>2, <3>2, <3>3, ConcatProperties
  <2>5. QED
    BY <2>3, <2>4
<1>4. Nat \subseteq T
  <2> HIDE DEF T
  <2>1. QED
    BY <1>2, <1>3, Induction
<1>5. QED
  BY <1>4

LEMMA FlattenNothing == FlattenSeq(<<>>) = <<>>
  BY DEF FlattenSeq

LEMMA FlattenType ==
    ASSUME NEW S, NEW s \in Seq(Seq(S)) PROVE FlattenSeq(s) \in Seq(S)
<1>1. CASE Len(s) = 0
  BY <1>1, FlattenNothing, EmptySeq
<1>2. CASE Len(s) # 0
  <2>1. Len(s) \in Nat /\ Len(s) \in 1..Len(s)
    BY <1>2
  <2>2. PICK f : Flattens(f, s, Len(s)) /\ FlattenSeq(s) = f[Len(s)]
    BY <1>2, <2>1, FlattenSeqIs
  <2>3. QED
    BY <2>1, <2>2, FlattensType
<1>3. QED
  BY <1>1, <1>2

(* One more sequence is appended. *)
LEMMA FlattenAppend ==
    ASSUME NEW S, NEW s \in Seq(Seq(S)), NEW x \in Seq(S)
    PROVE  FlattenSeq(Append(s, x)) = FlattenSeq(s) \o x
<1> DEFINE t == Append(s, x)
           n == Len(s)
<1>1. /\ t \in Seq(Seq(S)) /\ Len(t) = n + 1 /\ t[n + 1] = x
      /\ \A i \in 1..n : t[i] = s[i]
      /\ n \in Nat
  BY AppendProperties
<1> HIDE DEF t, n
<1>2. PICK g : Flattens(g, t, Len(t)) /\ FlattenSeq(t) = g[Len(t)]
  <2>1. Len(t) \in Nat /\ Len(t) # 0
    BY <1>1
  <2>2. QED
    BY <2>1, FlattenSeqIs
<1>3. g[n + 1] = IF n + 1 = 1 THEN t[n + 1] ELSE g[(n + 1) - 1] \o t[n + 1]
  <2>1. n + 1 \in 1..Len(t)
    BY <1>1
  <2>2. QED
    BY <1>2, <2>1 DEF Flattens
<1>4. CASE n = 0
  <2>1. s = <<>>
    BY <1>4 DEF n
  <2>2. FlattenSeq(s) \o x = x
    BY <2>1, FlattenNothing, ConcatEmptySeq
  <2>3. FlattenSeq(t) = x
    BY <1>1, <1>2, <1>3, <1>4
  <2>4. QED
    BY <2>2, <2>3 DEF t
<1>5. CASE n # 0
  <2>1. PICK f : Flattens(f, s, n) /\ FlattenSeq(s) = f[n]
    BY <1>1, <1>5, FlattenSeqIs DEF n
  <2>2. \A i \in 1..n : f[i] = g[i]
    <3>1. n \in Nat /\ n + 1 \in Nat /\ n <= n + 1
      BY <1>1
    <3>2. Flattens(f, s, n) /\ Flattens(g, t, n + 1)
      BY <1>1, <1>2, <2>1
    <3>3. Agree(s, t, n)
      BY <1>1 DEF Agree
    <3>4. Agree(f, g, n)
      BY <3>1, <3>2, <3>3, FlattensPrefix
    <3>5. QED
      BY <3>4 DEF Agree
  <2>3. n \in 1..n /\ (n + 1) - 1 = n /\ n + 1 # 1
    BY <1>1, <1>5
  <2>4. FlattenSeq(t) = f[n] \o x
    BY <1>1, <1>2, <1>3, <2>2, <2>3
  <2>5. QED
    BY <2>1, <2>4 DEF t
<1>6. QED
  BY <1>4, <1>5

LEMMA FlattenConcat ==
    ASSUME NEW S, NEW s \in Seq(Seq(S)), NEW t \in Seq(Seq(S))
    PROVE  FlattenSeq(s \o t) = FlattenSeq(s) \o FlattenSeq(t)
<1> DEFINE T == {n \in Nat : \A u \in Seq(Seq(S)) :
                   Len(u) = n => FlattenSeq(s \o u) = FlattenSeq(s) \o FlattenSeq(u)}
<1>1. 0 \in T
  <2>1. SUFFICES ASSUME NEW u \in Seq(Seq(S)), Len(u) = 0
                 PROVE  FlattenSeq(s \o u) = FlattenSeq(s) \o FlattenSeq(u)
    OBVIOUS
  <2>2. u = <<>> /\ s \o u = s
    BY <2>1, ConcatEmptySeq
  <2>3. FlattenSeq(u) = <<>>
    BY <2>2, FlattenNothing
  <2>4. FlattenSeq(s) \in Seq(S)
    BY FlattenType
  <2>5. QED
    BY <2>2, <2>3, <2>4, ConcatEmptySeq
<1>2. ASSUME NEW n \in Nat, n \in T PROVE n + 1 \in T
  <2>1. SUFFICES ASSUME NEW u \in Seq(Seq(S)), Len(u) = n + 1
                 PROVE  FlattenSeq(s \o u) = FlattenSeq(s) \o FlattenSeq(u)
    OBVIOUS
  <2>2. u # <<>>
    BY <2>1, EmptySeq
  <2>3. PICK v \in Seq(Seq(S)), x \in Seq(S) : u = Append(v, x)
    BY <2>2, SequenceEmptyOrAppend
  <2>4. Len(v) = n
    BY <2>1, <2>3, AppendProperties
  <2>5. FlattenSeq(s \o v) = FlattenSeq(s) \o FlattenSeq(v)
    BY <1>2, <2>4
  <2>6. s \o u = Append(s \o v, x)
    <3>1. u = v \o <<x>> /\ <<x>> \in Seq(Seq(S))
      BY <2>3, AppendIsConcat
    <3>2. s \o v \in Seq(Seq(S))
      BY ConcatProperties
    <3>3. QED
      BY SMTT(30), <3>1, <3>2, AppendIsConcat, ConcatAssociative
  <2>7. FlattenSeq(s \o u) = FlattenSeq(s \o v) \o x
    BY <2>6, FlattenAppend, ConcatProperties
  <2>8. FlattenSeq(u) = FlattenSeq(v) \o x
    BY <2>3, FlattenAppend
  <2>9. FlattenSeq(s) \in Seq(S) /\ FlattenSeq(v) \in Seq(S)
    BY FlattenType
  <2>10. QED
    BY SMTT(30), <2>5, <2>7, <2>8, <2>9, ConcatAssociative
<1>3. Nat \subseteq T
  <2> HIDE DEF T
  <2>1. QED
    BY <1>1, <1>2, Induction
<1>4. QED
  BY <1>3
=============================================================================
