------------------------ MODULE CRCWorkClientProofs -------------------------
(***************************************************************************)
(* The buffers, the framing and the two loops of a connection, for any     *)
(* sizes and any number of requests: the messages of each direction        *)
(* arrive whole, once and in order (ClientInv), from which the             *)
(* refinement of RequestReply; and the bytes on their way are never so     *)
(* many that both ends can sleep in send() (Amounts).                      *)
(***************************************************************************)
EXTENDS CRCWorkClient, SequenceLemmas

(* Messages and their bytes. *)

Pairs == Nat \X Nat

(* The bytes of message m are m with their places. *)
Msg(m) == [i \in 1..Size |-> <<m, i>>]
Parts(ms) == [i \in 1..Len(ms) |-> Msg(ms[i])]
(* The bytes of these messages, one after the other. *)
Whole(ms) == FlattenSeq(Parts(ms))

LEMMA SizePositive == Size \in Nat /\ Size > 0 /\ Header \in Nat /\ Header > 0 /\ Header <= Size
  BY ClientAssumption

LEMMA MsgType ==
    ASSUME NEW m \in Nat
    PROVE  Msg(m) \in Seq(Pairs) /\ Len(Msg(m)) = Size /\ \A i \in 1..Size : Msg(m)[i] = <<m, i>>
<1>1. Size \in Nat
  BY SizePositive
<1>2. \A i \in 1..Size : <<m, i>> \in Pairs
  BY <1>1 DEF Pairs
<1>3. QED
  BY <1>1, <1>2 DEF Msg

LEMMA PartsType ==
    ASSUME NEW ms \in Seq(Nat) PROVE Parts(ms) \in Seq(Seq(Pairs)) /\ Len(Parts(ms)) = Len(ms)
<1>1. \A i \in 1..Len(ms) : Msg(ms[i]) \in Seq(Pairs)
  <2>1. \A i \in 1..Len(ms) : ms[i] \in Nat
    BY ElementOfSeq
  <2>2. QED
    BY <2>1, MsgType
<1>2. QED
  BY <1>1 DEF Parts

LEMMA WholeType == ASSUME NEW ms \in Seq(Nat) PROVE Whole(ms) \in Seq(Pairs)
  BY PartsType, FlattenType DEF Whole

LEMMA WholeNone == Whole(<<>>) = <<>>
<1>1. Parts(<<>>) = <<>>
  BY DEF Parts
<1>2. QED
  BY <1>1, FlattenNothing DEF Whole

LEMMA PartsAppend ==
    ASSUME NEW ms \in Seq(Nat), NEW m \in Nat
    PROVE  Parts(Append(ms, m)) = Append(Parts(ms), Msg(m))
<1>1. PICK p \in Seq(Seq(Pairs)) : p = Parts(ms) /\ Len(p) = Len(ms)
  BY PartsType
<1>2. PICK n \in Nat : n = Len(ms)
  OBVIOUS
<1>3. Msg(m) \in Seq(Pairs)
  BY MsgType
<1>4. PICK q \in Seq(Seq(Pairs)) : q = Append(p, Msg(m))
  BY <1>3, AppendProperties
<1>5. Len(q) = n + 1 /\ q[n + 1] = Msg(m) /\ \A i \in 1..n : q[i] = p[i]
  BY <1>1, <1>2, <1>3, <1>4, AppendProperties
<1>6. PICK all \in Seq(Nat) :
         /\ all = Append(ms, m) /\ Len(all) = n + 1 /\ all[n + 1] = m
         /\ \A i \in 1..n : all[i] = ms[i]
  <2>1. /\ Append(ms, m) \in Seq(Nat) /\ Len(Append(ms, m)) = n + 1
        /\ Append(ms, m)[n + 1] = m /\ \A i \in 1..n : Append(ms, m)[i] = ms[i]
    BY <1>2, AppendProperties
  <2>2. QED
    BY <2>1
<1>7. Parts(all) \in Seq(Seq(Pairs)) /\ Len(Parts(all)) = n + 1
  BY <1>6, PartsType
<1>8. ASSUME NEW i \in 1..(n + 1) PROVE q[i] = Parts(all)[i]
  <2>1. Parts(all)[i] = Msg(all[i])
    BY <1>6 DEF Parts
  <2>2. CASE i \in 1..n
    <3>1. p[i] = Msg(ms[i])
      BY <1>1, <1>2, <2>2 DEF Parts
    <3>2. QED
      BY <1>5, <1>6, <2>1, <2>2, <3>1
  <2>3. CASE i \notin 1..n
    <3>1. i = n + 1
      BY SMTT(30), <1>2, <2>3
    <3>2. QED
      BY <1>5, <1>6, <2>1, <3>1
  <2>4. QED
    BY <2>2, <2>3
<1>9. q = Parts(all)
  BY <1>5, <1>7, <1>8, SeqEqual
<1>10. QED
  BY <1>1, <1>4, <1>6, <1>9

LEMMA WholeAppend ==
    ASSUME NEW ms \in Seq(Nat), NEW m \in Nat
    PROVE  Whole(Append(ms, m)) = Whole(ms) \o Msg(m)
<1>1. PICK p \in Seq(Seq(Pairs)), x \in Seq(Pairs) : p = Parts(ms) /\ x = Msg(m)
  BY PartsType, MsgType
<1>2. FlattenSeq(Append(p, x)) = FlattenSeq(p) \o x
  BY FlattenAppend
<1>3. QED
  BY <1>1, <1>2, PartsAppend DEF Whole

(* By induction over the messages that follow. *)
Joined(a, b) == Whole(a \o b) = Whole(a) \o Whole(b)

LEMMA WholeConcat == ASSUME NEW a \in Seq(Nat), NEW b \in Seq(Nat) PROVE Joined(a, b)
<1> DEFINE T == {n \in Nat : \A u \in Seq(Nat) : Len(u) = n => Joined(a, u)}
<1>1. 0 \in T
  <2>1. SUFFICES ASSUME NEW u \in Seq(Nat), Len(u) = 0 PROVE Joined(a, u)
    OBVIOUS
  <2>2. u = <<>>
    BY <2>1
  <2>3. a \o <<>> = a
    BY ConcatEmptySeq
  <2>4. PICK x \in Seq(Pairs) : x = Whole(a)
    BY WholeType
  <2>5. x \o <<>> = x
    BY ConcatEmptySeq
  <2>6. QED
    BY <2>2, <2>3, <2>4, <2>5, WholeNone DEF Joined
<1>2. ASSUME NEW n \in Nat, n \in T PROVE n + 1 \in T
  <2>1. SUFFICES ASSUME NEW u \in Seq(Nat), Len(u) = n + 1 PROVE Joined(a, u)
    OBVIOUS
  <2>2. u # <<>>
    BY <2>1, EmptySeq
  <2>3. PICK v \in Seq(Nat), m \in Nat : u = Append(v, m)
    BY <2>2, SequenceEmptyOrAppend
  <2>4. Len(v) = n
    BY <2>1, <2>3, AppendProperties
  <2>5. Joined(a, v)
    BY <1>2, <2>4
  <2>6. PICK one \in Seq(Nat) : one = <<m>> /\ u = v \o one
    <3>1. <<m>> \in Seq(Nat) /\ Append(v, m) = v \o <<m>>
      BY AppendIsConcat
    <3>2. QED
      BY <2>3, <3>1
  <2>7. PICK av \in Seq(Nat) : av = a \o v
    BY ConcatProperties
  <2>8. Grouped(a, v, one)
    BY Regroup
  <2>9. av \o one = Append(av, m)
    BY <2>6, AppendIsConcat
  <2>10. a \o u = Append(av, m)
    BY <2>6, <2>7, <2>8, <2>9 DEF Grouped
  <2>11. PICK x \in Seq(Pairs), y \in Seq(Pairs), z \in Seq(Pairs) :
           x = Whole(a) /\ y = Whole(v) /\ z = Msg(m)
    BY WholeType, MsgType
  <2>12. Whole(a \o u) = (x \o y) \o z
    BY <2>5, <2>7, <2>10, <2>11, WholeAppend DEF Joined
  <2>13. Whole(u) = y \o z
    BY <2>3, <2>11, WholeAppend
  <2>14. Grouped(x, y, z)
    BY Regroup
  <2>15. QED
    BY <2>11, <2>12, <2>13, <2>14 DEF Grouped, Joined
<1>3. Nat \subseteq T
  <2> HIDE DEF T
  <2>1. QED
    BY <1>1, <1>2, Induction
<1>4. QED
  BY <1>3

LEMMA WholeLen == ASSUME NEW ms \in Seq(Nat) PROVE Len(Whole(ms)) = Len(ms) * Size
<1> DEFINE T == {n \in Nat : \A u \in Seq(Nat) : Len(u) = n => Len(Whole(u)) = n * Size}
<1>1. 0 \in T
  <2>1. SUFFICES ASSUME NEW u \in Seq(Nat), Len(u) = 0 PROVE Len(Whole(u)) = 0 * Size
    OBVIOUS
  <2>2. u = <<>>
    BY <2>1
  <2>3. QED
    BY <2>2, WholeNone, EmptySeq, SizePositive
<1>2. ASSUME NEW n \in Nat, n \in T PROVE n + 1 \in T
  <2>1. SUFFICES ASSUME NEW u \in Seq(Nat), Len(u) = n + 1
                 PROVE  Len(Whole(u)) = (n + 1) * Size
    OBVIOUS
  <2>2. u # <<>>
    BY <2>1, EmptySeq
  <2>3. PICK v \in Seq(Nat), m \in Nat : u = Append(v, m)
    BY <2>2, SequenceEmptyOrAppend
  <2>4. Len(v) = n
    BY <2>1, <2>3, AppendProperties
  <2>5. Len(Whole(v)) = n * Size
    BY <1>2, <2>4
  <2>6. PICK y \in Seq(Pairs), z \in Seq(Pairs) : y = Whole(v) /\ z = Msg(m) /\ Len(z) = Size
    BY WholeType, MsgType
  <2>7. Len(y \o z) = n * Size + Size
    BY <2>5, <2>6, ConcatProperties
  <2>8. n * Size + Size = (n + 1) * Size
    BY SizePositive
  <2>9. QED
    BY <2>3, <2>6, <2>7, <2>8, WholeAppend
<1>3. Nat \subseteq T
  <2> HIDE DEF T
  <2>1. QED
    BY <1>1, <1>2, Induction
<1>4. QED
  BY <1>3

-----------------------------------------------------------------------------

(* The messages after the n-th up to the m-th. *)
From(n, m) == [i \in 1..(m - n) |-> n + i]

LEMMA FromType ==
    ASSUME NEW n \in Nat, NEW m \in Nat, n <= m
    PROVE  From(n, m) \in Seq(Nat) /\ Len(From(n, m)) = m - n
<1>1. m - n \in Nat /\ \A i \in 1..(m - n) : n + i \in Nat
  OBVIOUS
<1>2. QED
  BY <1>1 DEF From

LEMMA FromMore ==
    ASSUME NEW n \in Nat, NEW m \in Nat, n <= m PROVE From(n, m + 1) = Append(From(n, m), m + 1)
<1>1. PICK f \in Seq(Nat) : f = From(n, m) /\ Len(f) = m - n
  BY FromType
<1>2. PICK g \in Seq(Nat) : g = From(n, m + 1) /\ Len(g) = (m - n) + 1
  <2>1. PICK o \in Nat : o = m + 1 /\ n <= o
    OBVIOUS
  <2>2. From(n, o) \in Seq(Nat) /\ Len(From(n, o)) = o - n
    BY <2>1, FromType
  <2>3. QED
    BY <2>1, <2>2
<1>3. PICK h \in Seq(Nat) :
        /\ h = Append(f, m + 1) /\ Len(h) = (m - n) + 1 /\ h[(m - n) + 1] = m + 1
        /\ \A i \in 1..(m - n) : h[i] = f[i]
  <2>1. /\ Append(f, m + 1) \in Seq(Nat) /\ Len(Append(f, m + 1)) = Len(f) + 1
        /\ Append(f, m + 1)[Len(f) + 1] = m + 1
        /\ \A i \in 1..Len(f) : Append(f, m + 1)[i] = f[i]
    BY AppendProperties
  <2>2. QED
    BY <1>1, <2>1
<1>4. ASSUME NEW i \in 1..((m - n) + 1) PROVE g[i] = h[i]
  <2>1. g[i] = n + i
    BY <1>2 DEF From
  <2>2. CASE i \in 1..(m - n)
    BY <1>1, <1>3, <2>1, <2>2 DEF From
  <2>3. CASE i \notin 1..(m - n)
    <3>1. i = (m - n) + 1
      BY <2>3
    <3>2. QED
      BY <1>3, <2>1, <3>1
  <2>4. QED
    BY <2>2, <2>3
<1>5. g = h
  BY <1>2, <1>3, <1>4, SeqEqual
<1>6. QED
  BY <1>1, <1>2, <1>3, <1>5

LEMMA FromFirst ==
    ASSUME NEW n \in Nat, NEW m \in Nat, n < m
    PROVE  From(n, m) = <<n + 1>> \o From(n + 1, m)
<1>1. PICK f \in Seq(Nat) : f = From(n, m) /\ Len(f) = m - n
  BY FromType
<1>2. PICK g \in Seq(Nat) : g = From(n + 1, m) /\ Len(g) = m - (n + 1)
  <2>1. PICK o \in Nat : o = n + 1 /\ o <= m
    OBVIOUS
  <2>2. From(o, m) \in Seq(Nat) /\ Len(From(o, m)) = m - o
    BY <2>1, FromType
  <2>3. QED
    BY <2>1, <2>2
<1>3. PICK one \in Seq(Nat) : one = <<n + 1>> /\ Len(one) = 1 /\ one[1] = n + 1
  <2>1. <<n + 1>> \in Seq(Nat) /\ Len(<<n + 1>>) = 1 /\ <<n + 1>>[1] = n + 1
    OBVIOUS
  <2>2. QED
    BY <2>1
<1>4. PICK h \in Seq(Nat) : h = one \o g
  BY ConcatProperties
<1>5. Chained(one, g, h)
  BY <1>4, Chain
<1>6. /\ Len(h) = m - n
      /\ \A i \in 1..(m - n) : h[i] = IF i <= 1 THEN one[i] ELSE g[i - 1]
  BY <1>2, <1>3, <1>5 DEF Chained
<1>7. ASSUME NEW i \in 1..(m - n) PROVE f[i] = h[i]
  <2>1. f[i] = n + i
    BY <1>1 DEF From
  <2>2. CASE i = 1
    BY <1>3, <1>6, <2>1, <2>2
  <2>3. CASE i # 1
    <3>1. i - 1 \in 1..(m - (n + 1)) /\ (n + 1) + (i - 1) = n + i
      BY <2>3
    <3>2. g[i - 1] = (n + 1) + (i - 1)
      BY <1>2, <3>1 DEF From
    <3>3. QED
      BY <1>6, <2>1, <2>3, <3>1, <3>2
  <2>4. QED
    BY <2>2, <2>3
<1>8. f = h
  BY <1>1, <1>6, <1>7, SeqEqual
<1>9. QED
  BY <1>1, <1>2, <1>3, <1>4, <1>8

(* Division by the size of a message. *)
LEMMA InMessage ==
    ASSUME NEW q \in Nat, NEW r \in 0..(Size - 1)
    PROVE  (q * Size + r) \div Size = q /\ (q * Size + r) % Size = r
  BY SizePositive

(* The bytes one push() copies are those of its messages. *)
LEMMA BytesWhole ==
    ASSUME NEW n \in Nat, NEW k \in Nat PROVE Bytes(n + 1, n + k) = Whole(From(n, n + k))
<1> DEFINE T == {j \in Nat : Bytes(n + 1, n + j) = Whole(From(n, n + j))}
<1>0. Size \in Nat /\ Size > 0
  BY SizePositive
<1>1. 0 \in T
  <2>1. From(n, n + 0) = <<>>
    BY DEF From
  <2>2. ((n + 0) - (n + 1) + 1) * Size = 0
    BY <1>0
  <2>3. Bytes(n + 1, n + 0) = <<>>
    BY <2>2 DEF Bytes
  <2>4. QED
    BY <2>1, <2>3, WholeNone
<1>2. ASSUME NEW j \in Nat, j \in T PROVE j + 1 \in T
  <2>1. PICK b \in Seq(Pairs) : b = Whole(From(n, n + j)) /\ Len(b) = j * Size
    <3>1. From(n, n + j) \in Seq(Nat) /\ Len(From(n, n + j)) = j
      <4>1. PICK a \in Nat : a = n + j /\ n <= a /\ a - n = j
        OBVIOUS
      <4>2. From(n, a) \in Seq(Nat) /\ Len(From(n, a)) = a - n
        BY <4>1, FromType
      <4>3. QED
        BY <4>1, <4>2
    <3>2. QED
      BY <3>1, WholeType, WholeLen
  <2>2. b = [i \in 1..(j * Size) |-> <<(n + 1) + ((i - 1) \div Size), ((i - 1) % Size) + 1>>]
    <3>1. (n + j) - (n + 1) + 1 = j
      OBVIOUS
    <3>2. QED
      BY <1>2, <2>1, <3>1 DEF Bytes
  <2>3. PICK s \in Seq(Pairs) :
          /\ s = Msg(n + j + 1) /\ Len(s) = Size
          /\ \A i \in 1..Size : s[i] = <<n + j + 1, i>>
    BY MsgType
  <2>4. Whole(From(n, n + j + 1)) = b \o s
    <3>1. PICK a \in Nat : a = n + j /\ n <= a
      OBVIOUS
    <3>2. PICK f \in Seq(Nat) : f = From(n, a)
      BY <3>1, FromType
    <3>3. From(n, a + 1) = Append(f, a + 1)
      BY <3>1, <3>2, FromMore
    <3>4. Whole(Append(f, a + 1)) = Whole(f) \o Msg(a + 1)
      <4>1. PICK o \in Nat : o = a + 1
        OBVIOUS
      <4>2. QED
        BY <4>1, WholeAppend
    <3>5. QED
      BY <2>1, <2>3, <3>1, <3>2, <3>3, <3>4
  <2>5. PICK c \in Seq(Pairs) : c = b \o s
    BY ConcatProperties
  <2>6. Chained(b, s, c)
    BY <2>5, Chain
  <2>7. /\ j * Size \in Nat /\ j * Size + Size = (j + 1) * Size
        /\ (n + (j + 1)) - (n + 1) + 1 = j + 1
    BY <1>0
  <2>8. PICK e \in Nat : e = j * Size
    BY <2>7
  <2>9. Len(c) = e + Size
    BY <2>1, <2>3, <2>6, <2>8 DEF Chained
  <2>10. ASSUME NEW i \in 1..(e + Size)
         PROVE  c[i] = <<(n + 1) + ((i - 1) \div Size), ((i - 1) % Size) + 1>>
    <3>1. c[i] = IF i <= e THEN b[i] ELSE s[i - e]
      BY <2>1, <2>3, <2>6, <2>8 DEF Chained
    <3>2. CASE i <= e
      BY <2>2, <2>8, <3>1, <3>2
    <3>3. CASE ~(i <= e)
      <4>1. PICK r \in 0..(Size - 1) : i = e + r + 1
        <5>1. i - e - 1 \in 0..(Size - 1) /\ i = e + (i - e - 1) + 1
          BY <1>0, <3>3
        <5>2. QED
          BY <5>1
      <4>2. i - 1 = j * Size + r
        BY <2>8, <4>1
      <4>3. (i - 1) \div Size = j /\ (i - 1) % Size = r
        BY <4>2, InMessage
      <4>4. r + 1 \in 1..Size /\ i - e = r + 1 /\ (n + 1) + j = n + j + 1
        BY <1>0, <4>1
      <4>5. c[i] = <<n + j + 1, r + 1>>
        BY <2>3, <3>1, <3>3, <4>4
      <4>6. QED
        BY <4>3, <4>4, <4>5
    <3>4. QED
      BY <3>2, <3>3
  <2>11. c = Bytes(n + 1, n + (j + 1))
    <3>1. c = [i \in 1..(e + Size) |-> c[i]]
      BY <2>9
    <3>2. c = [i \in 1..(e + Size) |-> <<(n + 1) + ((i - 1) \div Size), ((i - 1) % Size) + 1>>]
      BY <2>10, <3>1
    <3>3. (n + (j + 1) - (n + 1) + 1) * Size = e + Size
      BY <2>7, <2>8
    <3>4. QED
      BY <3>2, <3>3 DEF Bytes
  <2>12. n + (j + 1) = n + j + 1
    OBVIOUS
  <2>13. QED
    BY <2>4, <2>5, <2>11, <2>12
<1>3. Nat \subseteq T
  <2> HIDE DEF T
  <2>1. QED
    BY <1>1, <1>2, Induction
<1>4. QED
  BY <1>3

-----------------------------------------------------------------------------

(* Whole messages in front of a stream: the first is cut off. *)
CutOff(s, t, m, ns) ==
    /\ s[1] = <<m, 1>>
    /\ Len(s) >= Size => SubSeq(s, Size + 1, Len(s)) \o t = Whole(ns)

LEMMA WholeOne == ASSUME NEW m \in Nat PROVE Whole(<<m>>) = Msg(m)
<1>1. Append(<<>>, m) = <<m>> /\ <<>> \in Seq(Nat)
  OBVIOUS
<1>2. Whole(<<m>>) = Whole(<<>>) \o Msg(m)
  BY <1>1, WholeAppend
<1>3. Msg(m) \in Seq(Pairs)
  BY MsgType
<1>4. QED
  BY <1>2, <1>3, WholeNone, ConcatEmptySeq

LEMMA CutWhole ==
    ASSUME NEW s \in Seq(Pairs), NEW t \in Seq(Pairs), NEW ms \in Seq(Nat),
           s \o t = Whole(ms), Len(s) >= 1
    PROVE  \E m \in Nat, ns \in Seq(Nat) : ms = <<m>> \o ns /\ CutOff(s, t, m, ns)
<1>0. Size \in Nat /\ Size > 0
  BY SizePositive
<1>1. PICK w \in Seq(Pairs) : w = s \o t /\ w = Whole(ms)
  <2>1. s \o t \in Seq(Pairs)
    BY ConcatProperties
  <2>2. QED
    BY <2>1
<1>2. Chained(s, t, w)
  BY <1>1, Chain
<1>3. ms # <<>>
  <2>1. Len(w) >= 1
    BY <1>2 DEF Chained
  <2>2. SUFFICES ASSUME ms = <<>> PROVE FALSE
    OBVIOUS
  <2>3. w = <<>>
    BY <1>1, <2>2, WholeNone
  <2>4. QED
    BY <2>1, <2>3, EmptySeq
<1>4. PICK m \in Nat, ns \in Seq(Nat) : ms = <<m>> \o ns
  <2>1. PICK m \in Nat, ns \in Seq(Nat) : Begins(ms, m, ns)
    BY <1>3, FirstAndRest
  <2>2. QED
    BY <2>1, Zenon DEF Begins
<1>5. PICK g \in Seq(Pairs) : g = Msg(m) /\ Len(g) = Size /\ g[1] = <<m, 1>>
  <2>1. Msg(m) \in Seq(Pairs) /\ Len(Msg(m)) = Size /\ Msg(m)[1] = <<m, 1>>
    BY <1>0, MsgType
  <2>2. QED
    BY <2>1
<1>6. PICK rest \in Seq(Pairs) : rest = Whole(ns)
  BY WholeType
<1>7. w = g \o rest
  <2>1. PICK one \in Seq(Nat) : one = <<m>>
    <3>1. <<m>> \in Seq(Nat)
      OBVIOUS
    <3>2. QED
      BY <3>1, Zenon
  <2>2. Joined(one, ns)
    BY WholeConcat
  <2>3. Whole(one \o ns) = Whole(one) \o Whole(ns)
    BY <2>2 DEF Joined
  <2>4. QED
    BY <1>1, <1>4, <1>5, <1>6, <2>1, <2>3, WholeOne
<1>8. Chained(g, rest, w)
  BY <1>7, Chain
<1>9. s[1] = <<m, 1>>
  <2>1. w[1] = s[1]
    BY <1>2 DEF Chained
  <2>2. w[1] = g[1]
    BY <1>0, <1>5, <1>8 DEF Chained
  <2>3. QED
    BY <1>5, <2>1, <2>2
<1>10. ASSUME Len(s) >= Size PROVE SubSeq(s, Size + 1, Len(s)) \o t = rest
  <2>1. PICK n \in Nat : n = Len(s) /\ n >= Size
    BY <1>10
  <2>2. PICK d \in Seq(Pairs) :
          /\ d = SubSeq(s, Size + 1, Len(s)) /\ Len(d) = n - Size
          /\ \A i \in 1..(n - Size) : d[i] = s[Size + i]
    <3>1. \A i \in (Size + 1)..n : s[i] \in Pairs
      <4>1. \A i \in 1..n : s[i] \in Pairs
        BY <2>1, ElementOfSeq
      <4>2. QED
        BY <1>0, <4>1
    <3>2. /\ SubSeq(s, Size + 1, n) \in Seq(Pairs)
          /\ Len(SubSeq(s, Size + 1, n)) = IF Size + 1 <= n THEN n - (Size + 1) + 1 ELSE 0
          /\ \A i \in 1..(n - (Size + 1) + 1) :
               SubSeq(s, Size + 1, n)[i] = s[(Size + 1) + i - 1]
      BY <1>0, <2>1, <3>1, SubSeqProperties
    <3>3. PICK d \in Seq(Pairs) :
            /\ d = SubSeq(s, Size + 1, n)
            /\ Len(d) = IF Size + 1 <= n THEN n - (Size + 1) + 1 ELSE 0
            /\ \A i \in 1..(n - (Size + 1) + 1) : d[i] = s[(Size + 1) + i - 1]
      BY <3>2
    <3>4. Len(d) = n - Size
      BY <1>0, <2>1, <3>3
    <3>5. ASSUME NEW i \in 1..(n - Size) PROVE d[i] = s[Size + i]
      <4>1. i \in 1..(n - (Size + 1) + 1) /\ (Size + 1) + i - 1 = Size + i
        BY <1>0
      <4>2. QED
        BY <3>3, <4>1
    <3>6. QED
      BY <2>1, <3>3, <3>4, <3>5
  <2>3. PICK r \in Seq(Pairs) : r = d \o t
    BY ConcatProperties
  <2>4. Chained(d, t, r)
    BY <2>3, Chain
  <2>5. PICK k \in Nat : k = Len(t)
    OBVIOUS
  <2>6. Len(w) = n + k /\ \A i \in 1..(n + k) : w[i] = IF i <= n THEN s[i] ELSE t[i - n]
    BY <1>2, <2>1, <2>5 DEF Chained
  <2>7. Len(r) = n - Size + k
        /\ \A i \in 1..(n - Size + k) :
             r[i] = IF i <= n - Size THEN d[i] ELSE t[i - (n - Size)]
    BY <2>1, <2>2, <2>4, <2>5 DEF Chained
  <2>8. PICK l \in Nat : l = Len(rest)
    OBVIOUS
  <2>9. Len(w) = Size + l /\ \A i \in 1..(Size + l) : w[i] = IF i <= Size THEN g[i] ELSE rest[i - Size]
    BY <1>5, <1>8, <2>8 DEF Chained
  <2>10. l = n - Size + k
    <3>1. Len(w) = n + k /\ Len(w) = Size + l
      BY <2>6, <2>9
    <3>2. n + k = Size + l
      BY <3>1
    <3>3. QED
      BY <1>0, <3>2
  <2>11. ASSUME NEW i \in 1..l PROVE r[i] = rest[i]
    <3>1. Size + i \in 1..(Size + l) /\ ~(Size + i <= Size) /\ (Size + i) - Size = i
      BY <1>0
    <3>2. w[Size + i] = rest[i]
      BY <2>9, <3>1
    <3>3. CASE i <= n - Size
      <4>1. i \in 1..(n - Size) /\ Size + i <= n /\ Size + i \in 1..(n + k)
        BY <1>0, <2>1, <3>3
      <4>2. QED
        BY <2>2, <2>6, <2>7, <2>10, <3>2, <3>3, <4>1
    <3>4. CASE ~(i <= n - Size)
      <4>1. ~(Size + i <= n) /\ Size + i \in 1..(n + k) /\ (Size + i) - n = i - (n - Size)
        BY <1>0, <2>1, <2>10, <3>4
      <4>2. QED
        BY <2>6, <2>7, <2>10, <3>2, <3>4, <4>1
    <3>5. QED
      BY <2>1, <3>3, <3>4
  <2>12. r = rest
    BY <2>7, <2>8, <2>10, <2>11, SeqEqual
  <2>13. QED
    BY <2>2, <2>3, <2>12
<1>11. CutOff(s, t, m, ns)
  BY <1>6, <1>9, <1>10 DEF CutOff
<1>12. QED
  BY <1>4, <1>11

-----------------------------------------------------------------------------

(* What is on its way: received, in two kernels, and unsent. *)
Flow(r, q, s, u) == r \o q \o s \o u

FlowFacts(r, q, s, u) ==
    /\ Flow(r, q, s, u) \in Seq(Pairs)
    /\ (q \o s) \o u \in Seq(Pairs)
    /\ Flow(r, q, s, u) = r \o ((q \o s) \o u)

LEMMA FlowType ==
    ASSUME NEW r \in Seq(Pairs), NEW q \in Seq(Pairs), NEW s \in Seq(Pairs), NEW u \in Seq(Pairs)
    PROVE  FlowFacts(r, q, s, u)
<1>1. PICK rq \in Seq(Pairs) : rq = r \o q
  BY ConcatProperties
<1>2. PICK rqs \in Seq(Pairs) : rqs = rq \o s
  BY ConcatProperties
<1>3. PICK qs \in Seq(Pairs) : qs = q \o s
  BY ConcatProperties
<1>4. rqs \o u \in Seq(Pairs) /\ qs \o u \in Seq(Pairs)
  BY ConcatProperties
<1>5. Grouped(r, q, s)
  BY Regroup
<1>6. rqs = r \o qs
  BY <1>1, <1>2, <1>3, <1>5 DEF Grouped
<1>7. Grouped(r, qs, u)
  BY Regroup
<1>8. QED
  BY <1>1, <1>2, <1>3, <1>4, <1>6, <1>7 DEF Grouped, Flow, FlowFacts

(* Bytes are added at the end. *)
FlowAdds(r, q, s, u, b) == Flow(r, q, s, u \o b) = Flow(r, q, s, u) \o b

LEMMA FlowAdd ==
    ASSUME NEW r \in Seq(Pairs), NEW q \in Seq(Pairs), NEW s \in Seq(Pairs), NEW u \in Seq(Pairs),
           NEW b \in Seq(Pairs)
    PROVE  FlowAdds(r, q, s, u, b)
<1>1. PICK rq \in Seq(Pairs) : rq = r \o q
  BY ConcatProperties
<1>2. PICK rqs \in Seq(Pairs) : rqs = rq \o s
  BY ConcatProperties
<1>3. Grouped(rqs, u, b)
  BY Regroup
<1>4. QED
  BY <1>1, <1>2, <1>3 DEF Grouped, Flow, FlowAdds

(* recv() moves bytes. *)
FlowRecvs(r, q, s, u, k) ==
    /\ SubSeq(q, 1, k) \in Seq(Pairs) /\ SubSeq(q, k + 1, Len(q)) \in Seq(Pairs)
    /\ Flow(r \o SubSeq(q, 1, k), SubSeq(q, k + 1, Len(q)), s, u) = Flow(r, q, s, u)

LEMMA FlowRecv ==
    ASSUME NEW r \in Seq(Pairs), NEW q \in Seq(Pairs), NEW s \in Seq(Pairs), NEW u \in Seq(Pairs),
           NEW k \in 0..Len(q)
    PROVE  FlowRecvs(r, q, s, u, k)
<1>1. Across(Pairs, r, q, k)
  BY MovedAcross
<1>2. r \o <<>> = r
  BY ConcatEmptySeq
<1>3. QED
  BY <1>1, <1>2 DEF Across, Flow, FlowRecvs

(* The network delivers bytes. *)
FlowDelivers(r, q, s, u, k) ==
    /\ SubSeq(s, 1, k) \in Seq(Pairs) /\ SubSeq(s, k + 1, Len(s)) \in Seq(Pairs)
    /\ Flow(r, q \o SubSeq(s, 1, k), SubSeq(s, k + 1, Len(s)), u) = Flow(r, q, s, u)

LEMMA FlowDeliver ==
    ASSUME NEW r \in Seq(Pairs), NEW q \in Seq(Pairs), NEW s \in Seq(Pairs), NEW u \in Seq(Pairs),
           NEW k \in 0..Len(s)
    PROVE  FlowDelivers(r, q, s, u, k)
<1>1. PICK rq \in Seq(Pairs) : rq = r \o q
  BY ConcatProperties
<1>2. Across(Pairs, rq, s, k)
  BY MovedAcross
<1>3. PICK a \in Seq(Pairs), b \in Seq(Pairs) :
         a = SubSeq(s, 1, k) /\ b = SubSeq(s, k + 1, Len(s))
  BY <1>2 DEF Across
<1>4. (rq \o a) \o b = rq \o s
  <2>1. rq \o <<>> = rq
    BY ConcatEmptySeq
  <2>2. QED
    BY <1>2, <1>3, <2>1 DEF Across
<1>5. Grouped(r, q, a)
  BY Regroup
<1>6. r \o (q \o a) = rq \o a
  BY <1>1, <1>5 DEF Grouped
<1>7. Flow(r, q \o a, b, u) = Flow(r, q, s, u)
  BY <1>1, <1>4, <1>6 DEF Flow
<1>8. QED
  BY <1>3, <1>7 DEF FlowDelivers

(* send() copies bytes of the buffer. *)
FlowSends(r, q, s, a, b) == Flow(r, q, s \o a, b) = Flow(r, q, s, a \o b)

LEMMA FlowSend ==
    ASSUME NEW r \in Seq(Pairs), NEW q \in Seq(Pairs), NEW s \in Seq(Pairs), NEW a \in Seq(Pairs),
           NEW b \in Seq(Pairs)
    PROVE  FlowSends(r, q, s, a, b)
<1>1. PICK rq \in Seq(Pairs) : rq = r \o q
  BY ConcatProperties
<1>2. PICK rqs \in Seq(Pairs) : rqs = rq \o s
  BY ConcatProperties
<1>3. Grouped(rq, s, a) /\ Grouped(rqs, a, b)
  BY Regroup
<1>4. rq \o (s \o a) = rqs \o a
  BY <1>2, <1>3 DEF Grouped
<1>5. (rqs \o a) \o b = rqs \o (a \o b)
  BY <1>3 DEF Grouped
<1>6. QED
  BY <1>1, <1>2, <1>4, <1>5 DEF Flow, FlowSends

-----------------------------------------------------------------------------

(* A buffer is an array: what memcpy() makes of it. *)

LEMMA BufSeq ==
    ASSUME NEW buf \in [1..BufSize -> Pairs]
    PROVE  buf \in Seq(Pairs) /\ Len(buf) = BufSize /\ BufSize \in Nat
  BY ClientAssumption

(* memcpy() behind what a buffer holds. *)
CopyIs(buf, pos, b) ==
    /\ Copied(buf, pos, b) \in [1..BufSize -> Pairs]
    /\ SubSeq(buf, 1, pos) \in Seq(Pairs)
    /\ SubSeq(Copied(buf, pos, b), 1, pos + Len(b)) = SubSeq(buf, 1, pos) \o b

LEMMA CopyBehind ==
    ASSUME NEW buf \in [1..BufSize -> Pairs], NEW pos \in Nat, NEW b \in Seq(Pairs),
           pos + Len(b) <= BufSize
    PROVE  CopyIs(buf, pos, b)
<1>1. PICK n \in Nat : n = Len(b) /\ pos + n <= BufSize
  OBVIOUS
<1>2. buf \in Seq(Pairs) /\ Len(buf) = BufSize /\ BufSize \in Nat
  BY BufSeq
<1>3. \A i \in 1..n : b[i] \in Pairs
  BY <1>1, ElementOfSeq
<1>4. PICK c \in [1..BufSize -> Pairs] :
        /\ c = Copied(buf, pos, b)
        /\ \A i \in 1..BufSize : c[i] = IF i \in (pos + 1)..(pos + n) THEN b[i - pos] ELSE buf[i]
  <2>1. ASSUME NEW i \in 1..BufSize
        PROVE  (IF i \in (pos + 1)..(pos + n) THEN b[i - pos] ELSE buf[i]) \in Pairs
    <3>1. CASE i \in (pos + 1)..(pos + n)
      <4>1. i - pos \in 1..n
        BY <3>1
      <4>2. QED
        BY <1>3, <3>1, <4>1
    <3>2. CASE i \notin (pos + 1)..(pos + n)
      BY <3>2
    <3>3. QED
      BY <3>1, <3>2
  <2>2. Copied(buf, pos, b)
          = [i \in 1..BufSize |-> IF i \in (pos + 1)..(pos + n) THEN b[i - pos] ELSE buf[i]]
    BY <1>1 DEF Copied
  <2>3. Copied(buf, pos, b) \in [1..BufSize -> Pairs]
    BY <2>1, <2>2
  <2>4. \A i \in 1..BufSize :
          Copied(buf, pos, b)[i] = IF i \in (pos + 1)..(pos + n) THEN b[i - pos] ELSE buf[i]
    BY <2>2
  <2>5. QED
    BY <2>3, <2>4, Zenon
<1>5. c \in Seq(Pairs) /\ Len(c) = BufSize
  BY BufSeq
<1>6. PICK x \in Seq(Pairs) :
        /\ x = SubSeq(c, 1, pos + n) /\ Len(x) = pos + n
        /\ \A i \in 1..(pos + n) : x[i] = c[i]
  <2>1. \A i \in 1..(pos + n) : c[i] \in Pairs
    BY <1>1, <1>2, <1>4
  <2>2. /\ SubSeq(c, 1, pos + n) \in Seq(Pairs)
        /\ Len(SubSeq(c, 1, pos + n)) = pos + n
        /\ \A i \in 1..(pos + n) : SubSeq(c, 1, pos + n)[i] = c[i]
    BY <1>1, <2>1
  <2>3. QED
    BY <2>2
<1>7. PICK y \in Seq(Pairs) :
        /\ y = SubSeq(buf, 1, pos) /\ Len(y) = pos /\ \A i \in 1..pos : y[i] = buf[i]
  <2>1. \A i \in 1..pos : buf[i] \in Pairs
    BY <1>1, <1>2
  <2>2. /\ SubSeq(buf, 1, pos) \in Seq(Pairs)
        /\ Len(SubSeq(buf, 1, pos)) = pos
        /\ \A i \in 1..pos : SubSeq(buf, 1, pos)[i] = buf[i]
    BY <1>1, <2>1
  <2>3. QED
    BY <2>2
<1>8. PICK z \in Seq(Pairs) : z = y \o b
  BY ConcatProperties
<1>9. Chained(y, b, z)
  BY <1>8, Chain
<1>10. Len(z) = pos + n /\ \A i \in 1..(pos + n) : z[i] = IF i <= pos THEN y[i] ELSE b[i - pos]
  BY <1>1, <1>7, <1>9 DEF Chained
<1>11. ASSUME NEW i \in 1..(pos + n) PROVE x[i] = z[i]
  <2>1. i \in 1..BufSize
    BY <1>1, <1>2
  <2>2. CASE i <= pos
    <3>1. i \notin (pos + 1)..(pos + n) /\ i \in 1..pos
      BY <2>2
    <3>2. QED
      BY <1>4, <1>6, <1>7, <1>10, <2>1, <2>2, <3>1
  <2>3. CASE ~(i <= pos)
    <3>1. i \in (pos + 1)..(pos + n)
      BY <2>3
    <3>2. QED
      BY <1>4, <1>6, <1>10, <2>1, <2>3, <3>1
  <2>4. QED
    BY <2>2, <2>3
<1>12. x = z
  BY <1>6, <1>10, <1>11, SeqEqual
<1>13. QED
  BY <1>1, <1>4, <1>6, <1>7, <1>8, <1>12 DEF CopyIs

-----------------------------------------------------------------------------

(* What was handled, h, and what the stream q still carries make up all.   *)
Carried(h, q, all) == \E ms \in Seq(Nat) : h \o ms = all /\ q = Whole(ms)

LEMMA CarryNothing == Carried(<<>>, <<>>, <<>>)
<1>1. <<>> \in Seq(Nat) /\ <<>> \o <<>> = <<>>
  BY ConcatEmptySeq
<1>2. QED
  BY <1>1, WholeNone DEF Carried

LEMMA CarryAdd ==
    ASSUME NEW h \in Seq(Nat), NEW q \in Seq(Pairs), NEW all \in Seq(Nat), Carried(h, q, all),
           NEW ns \in Seq(Nat)
    PROVE  Carried(h, q \o Whole(ns), all \o ns)
<1>1. PICK ms \in Seq(Nat) : h \o ms = all /\ q = Whole(ms)
  BY DEF Carried
<1>2. PICK both \in Seq(Nat) : both = ms \o ns
  BY ConcatProperties
<1>3. Grouped(h, ms, ns) /\ Joined(ms, ns)
  BY Regroup, WholeConcat
<1>4. h \o both = all \o ns
  BY <1>1, <1>2, <1>3 DEF Grouped
<1>5. q \o Whole(ns) = Whole(both)
  BY <1>1, <1>2, <1>3 DEF Joined
<1>6. QED
  BY <1>4, <1>5 DEF Carried

(* The next message of the stream is m. *)
NextIs(h, s, t, all, m) ==
    /\ s[1] = <<m, 1>>
    /\ Len(h) + 1 <= Len(all) /\ all[Len(h) + 1] = m
    /\ \A i \in 1..Len(h) : h[i] = all[i]
    /\ Len(s) >= Size => Carried(Append(h, m), SubSeq(s, Size + 1, Len(s)) \o t, all)

LEMMA CarryCut ==
    ASSUME NEW h \in Seq(Nat), NEW s \in Seq(Pairs), NEW t \in Seq(Pairs), NEW all \in Seq(Nat),
           Carried(h, s \o t, all), Len(s) >= 1
    PROVE  \E m \in Nat : NextIs(h, s, t, all, m)
<1>1. PICK ms \in Seq(Nat) : h \o ms = all /\ s \o t = Whole(ms)
  BY DEF Carried
<1>2. PICK m \in Nat, ns \in Seq(Nat) : ms = <<m>> \o ns /\ CutOff(s, t, m, ns)
  <2>1. \E m \in Nat, ns \in Seq(Nat) : ms = <<m>> \o ns /\ CutOff(s, t, m, ns)
    BY <1>1, CutWhole
  <2>2. QED
    BY <2>1, Zenon
<1>3. PICK one \in Seq(Nat) : one = <<m>> /\ Len(one) = 1 /\ one[1] = m
  <2>1. <<m>> \in Seq(Nat) /\ Len(<<m>>) = 1 /\ <<m>>[1] = m
    OBVIOUS
  <2>2. QED
    BY <2>1, Zenon
<1>4. Chained(one, ns, ms)
  <2>1. ms = one \o ns
    BY <1>2, <1>3
  <2>2. QED
    BY <2>1, Chain
<1>5. Chained(h, ms, all)
  BY <1>1, Chain
<1>6. Len(ms) >= 1 /\ ms[1] = m
  <2>1. Len(ms) = 1 + Len(ns) /\ Len(ns) \in Nat
    BY <1>3, <1>4 DEF Chained
  <2>2. 1 \in 1..(1 + Len(ns))
    BY <2>1
  <2>3. ms[1] = one[1]
    BY <1>3, <1>4, <2>2 DEF Chained
  <2>4. QED
    BY <1>3, <2>1, <2>3
<1>7. PICK n \in Nat, k \in Nat : n = Len(h) /\ k = Len(ms) /\ k >= 1
  BY <1>6
<1>8. Len(all) = n + k /\ \A i \in 1..(n + k) : all[i] = IF i <= n THEN h[i] ELSE ms[i - n]
  BY <1>5, <1>7 DEF Chained
<1>9. /\ n + 1 <= Len(all) /\ all[n + 1] = m
      /\ \A i \in 1..n : h[i] = all[i]
  <2>1. n + 1 \in 1..(n + k) /\ ~(n + 1 <= n) /\ (n + 1) - n = 1 /\ n + 1 <= n + k
    BY <1>7
  <2>2. n + 1 <= Len(all)
    BY <1>8, <2>1
  <2>3. all[n + 1] = m
    BY <1>6, <1>8, <2>1
  <2>4. ASSUME NEW i \in 1..n PROVE h[i] = all[i]
    <3>1. i \in 1..(n + k) /\ i <= n
      BY <1>7
    <3>2. QED
      BY <1>8, <3>1
  <2>5. QED
    BY <2>2, <2>3, <2>4
<1>10. Append(h, m) = h \o one /\ Append(h, m) \in Seq(Nat)
  BY <1>3, AppendIsConcat, AppendProperties
<1>11. Append(h, m) \o ns = all
  <2>1. Grouped(h, one, ns)
    BY Regroup
  <2>2. QED
    BY <1>1, <1>2, <1>3, <1>10, <2>1 DEF Grouped
<1>12. Len(s) >= Size => Carried(Append(h, m), SubSeq(s, Size + 1, Len(s)) \o t, all)
  <2>1. SUFFICES ASSUME Len(s) >= Size
                 PROVE  Carried(Append(h, m), SubSeq(s, Size + 1, Len(s)) \o t, all)
    OBVIOUS
  <2>2. SubSeq(s, Size + 1, Len(s)) \o t = Whole(ns)
    BY <1>2, <2>1 DEF CutOff
  <2>3. QED
    BY <1>11, <2>2 DEF Carried
<1>13. NextIs(h, s, t, all, m)
  BY <1>2, <1>7, <1>9, <1>12 DEF NextIs, CutOff
<1>14. QED
  BY <1>13

-----------------------------------------------------------------------------

(* Answers come in order, none twice, to requests up to the n-th. *)
Rising(all, n) ==
    /\ \A i \in 1..Len(all) : all[i] \in 1..n
    /\ \A i, j \in 1..Len(all) : i < j => all[i] < all[j]

LEMMA RisingMore ==
    ASSUME NEW n \in Nat, NEW all \in Seq(Nat), Rising(all, n)
    PROVE  Rising(all, n + 1) /\ Rising(Append(all, n + 1), n + 1)
<1>1. \A i \in 1..n : i \in 1..(n + 1) /\ i < n + 1
  OBVIOUS
<1>2. Rising(all, n + 1)
  BY <1>1 DEF Rising
<1>3. PICK k \in Nat : k = Len(all)
  OBVIOUS
<1>4. PICK b \in Seq(Nat) :
        b = Append(all, n + 1) /\ Len(b) = k + 1 /\ b[k + 1] = n + 1 /\ \A i \in 1..k : b[i] = all[i]
  <2>1. /\ Append(all, n + 1) \in Seq(Nat) /\ Len(Append(all, n + 1)) = k + 1
        /\ Append(all, n + 1)[k + 1] = n + 1
        /\ \A i \in 1..k : Append(all, n + 1)[i] = all[i]
    BY <1>3, AppendProperties
  <2>2. QED
    BY <2>1, Zenon
<1>5. \A i \in 1..(k + 1) : i \in 1..k \/ i = k + 1
  OBVIOUS
<1>6. \A i \in 1..(k + 1) : b[i] \in 1..(n + 1)
  BY <1>1, <1>3, <1>4, <1>5 DEF Rising
<1>7. ASSUME NEW i \in 1..(k + 1), NEW j \in 1..(k + 1), i < j PROVE b[i] < b[j]
  <2>1. i \in 1..k
    BY <1>7
  <2>2. CASE j \in 1..k
    BY <1>3, <1>4, <1>7, <2>1, <2>2 DEF Rising
  <2>3. CASE j = k + 1
    BY <1>1, <1>3, <1>4, <2>1, <2>3 DEF Rising
  <2>4. QED
    BY <1>5, <2>2, <2>3
<1>8. QED
  BY <1>2, <1>4, <1>6, <1>7 DEF Rising


(* The requests are all there, in their order. *)
LEMMA FromIndex ==
    ASSUME NEW n \in Nat
    PROVE  From(0, n) \in Seq(Nat) /\ Len(From(0, n)) = n /\ \A i \in 1..n : From(0, n)[i] = i
<1>1. From(0, n) \in Seq(Nat) /\ Len(From(0, n)) = n - 0
  BY FromType
<1>2. n - 0 = n /\ \A i \in 1..n : 0 + i = i
  OBVIOUS
<1>3. \A i \in 1..n : From(0, n)[i] = i
  BY <1>2 DEF From
<1>4. QED
  BY <1>1, <1>2, <1>3

LEMMA FromFurther ==
    ASSUME NEW n \in Nat, NEW k \in Nat PROVE From(0, n) \o From(n, n + k) = From(0, n + k)
<1>1. PICK a \in Seq(Nat) : a = From(0, n) /\ Len(a) = n /\ \A i \in 1..n : a[i] = i
  <2>1. QED
    BY FromIndex, Zenon
<1>2. PICK m \in Nat : m = n + k /\ n <= m /\ m - n = k
  OBVIOUS
<1>3. PICK b \in Seq(Nat) : b = From(n, m) /\ Len(b) = k
  BY <1>2, FromType
<1>4. PICK c \in Seq(Nat) : c = From(0, m) /\ Len(c) = m /\ \A i \in 1..m : c[i] = i
  <2>1. QED
    BY FromIndex, Zenon
<1>5. PICK d \in Seq(Nat) : d = a \o b
  BY ConcatProperties
<1>6. Chained(a, b, d)
  BY <1>5, Chain
<1>7. Len(d) = n + k /\ \A i \in 1..(n + k) : d[i] = IF i <= n THEN a[i] ELSE b[i - n]
  BY <1>1, <1>3, <1>6 DEF Chained
<1>8. ASSUME NEW i \in 1..m PROVE d[i] = c[i]
  <2>1. CASE i <= n
    <3>1. i \in 1..n
      BY <2>1
    <3>2. QED
      BY <1>1, <1>2, <1>4, <1>7, <2>1, <3>1
  <2>2. CASE ~(i <= n)
    <3>1. i - n \in 1..(m - n) /\ n + (i - n) = i
      BY <1>2, <2>2
    <3>2. b[i - n] = i
      BY <1>3, <3>1 DEF From
    <3>3. QED
      BY <1>2, <1>4, <1>7, <2>2, <3>2
  <2>3. QED
    BY <2>1, <2>2
<1>9. d = c
  BY <1>2, <1>4, <1>7, <1>8, SeqEqual
<1>10. QED
  BY <1>1, <1>2, <1>3, <1>4, <1>5, <1>9

-----------------------------------------------------------------------------

(* What the definitions of CRCWorkClient are in these terms. *)

LEMMA OtherEnd ==
    /\ Other("client") = "server" /\ Other("server") = "client"
    /\ \A e \in Ends : Other(e) \in Ends /\ Other(e) # e /\ Other(Other(e)) = e
  BY DEF Other, Ends

BatchBytes == Bytes(accepted * PerBatch + 1, (accepted + 1) * PerBatch)
Requests == From(0, accepted * PerBatch)

LEMMA BatchIs ==
    ASSUME accepted \in Nat
    PROVE  /\ accepted * PerBatch \in Nat
           /\ PerBatch \in Nat /\ (accepted + 1) * PerBatch = accepted * PerBatch + PerBatch
           /\ BatchBytes = Whole(From(accepted * PerBatch, accepted * PerBatch + PerBatch))
           /\ From(accepted * PerBatch, accepted * PerBatch + PerBatch) \in Seq(Nat)
           /\ BatchBytes \in Seq(Pairs) /\ Len(BatchBytes) = BatchLen
           /\ BatchLen \in Nat /\ BatchLen > 0
<1>1. PerBatch \in Nat /\ PerBatch > 0 /\ Size \in Nat /\ Size > 0
  BY ClientAssumption
<1>2. PICK n \in Nat : n = accepted * PerBatch
  BY <1>1
<1>3. (accepted + 1) * PerBatch = n + PerBatch
  BY <1>1, <1>2
<1>4. BatchBytes = Whole(From(n, n + PerBatch))
  <2>1. Bytes(n + 1, n + PerBatch) = Whole(From(n, n + PerBatch))
    BY <1>1, BytesWhole
  <2>2. QED
    BY <1>2, <1>3, <2>1 DEF BatchBytes
<1>5. From(n, n + PerBatch) \in Seq(Nat) /\ Len(From(n, n + PerBatch)) = PerBatch
  <2>1. PICK m \in Nat : m = n + PerBatch /\ n <= m /\ m - n = PerBatch
    BY <1>1
  <2>2. From(n, m) \in Seq(Nat) /\ Len(From(n, m)) = m - n
    BY <2>1, FromType
  <2>3. QED
    BY <2>1, <2>2
<1>6. BatchBytes \in Seq(Pairs) /\ Len(BatchBytes) = PerBatch * Size
  BY <1>4, <1>5, WholeType, WholeLen
<1>7. PerBatch * Size \in Nat /\ PerBatch * Size > 0
  BY <1>1
<1>8. QED
  BY <1>1, <1>2, <1>3, <1>4, <1>5, <1>6, <1>7 DEF BatchLen

(* The bytes of one answer. *)
LEMMA BytesOne ==
    ASSUME NEW n \in Nat
    PROVE  /\ Bytes(n + 1, n + 1) = Whole(<<n + 1>>) /\ Bytes(n + 1, n + 1) \in Seq(Pairs)
           /\ Len(Bytes(n + 1, n + 1)) = Size
<1>1. From(n, n + 1) = <<n + 1>>
  <2>1. From(n, n) = <<>> /\ <<>> \in Seq(Nat) /\ Append(<<>>, n + 1) = <<n + 1>>
    BY DEF From
  <2>2. From(n, n + 1) = Append(From(n, n), n + 1)
    BY FromMore
  <2>3. QED
    BY <2>1, <2>2
<1>2. Bytes(n + 1, n + 1) = Whole(From(n, n + 1))
  BY BytesWhole
<1>3. PICK m \in Nat : m = n + 1
  OBVIOUS
<1>4. Whole(<<m>>) = Msg(m) /\ Msg(m) \in Seq(Pairs) /\ Len(Msg(m)) = Size
  BY WholeOne, MsgType
<1>5. QED
  BY <1>1, <1>2, <1>3, <1>4

-----------------------------------------------------------------------------

(* The invariant. *)

ClientTypeOK ==
    /\ spc \in {"idle", "copy", "load", "store"}
    /\ accepted \in Nat
    /\ pc \in [Ends -> {"poll", "recv", "msg", "write", "send"}]
    /\ writable \in [Ends -> BOOLEAN]
    /\ mem \in [Ends -> [1..BufSize -> Pairs]]
    /\ lastPos \in [Ends -> 0..BufSize]
    /\ sendPos \in [Ends -> 0..BufSize]
    /\ sendLen \in [Ends -> 0..BufSize]
    /\ sndq \in [Ends -> Seq(Pairs)]
    /\ rcvq \in [Ends -> Seq(Pairs)]
    /\ recvBuf \in [Ends -> Seq(Pairs)]
    /\ handled \in [Ends -> Seq(Nat)]

Received == \A e \in Ends : Len(recvBuf[e]) <= BufSize

(* push() meets an empty buffer, or is turned away. *)
Pushes ==
    /\ lastPos["client"] \in {0, BatchLen}
    /\ spc # "idle" => lastPos["client"] = 0
    /\ loaded = 0
    /\ spc \in {"load", "store"} => SubSeq(mem["client"], 1, BatchLen) = BatchBytes

(* While a send() is in progress its buffer does not grow. *)
Sends ==
    \A e \in Ends :
      /\ sendPos[e] <= sendLen[e]
      /\ pc[e] = "send" => sendLen[e] = lastPos[e]
      /\ pc[e] # "send" => sendPos[e] = 0 /\ sendLen[e] = 0
      /\ writable[e] => lastPos[e] > 0
      /\ pc[e] \in {"write", "send"} => writable[e]

(* The requests are handled or on their way; so are answers to some. *)
Streams ==
    /\ Carried(handled["server"], InFlight("server"), Requests)
    /\ \E all \in Seq(Nat) :
         /\ Rising(all, Len(handled["server"]))
         /\ Carried(handled["client"], InFlight("client"), all)

ClientInv == ClientTypeOK /\ Received /\ Pushes /\ Sends /\ Streams

LEMMA UnsentType ==
    ASSUME ClientTypeOK, NEW e \in Ends
    PROVE  /\ Unsent(e) \in Seq(Pairs)
           /\ mem[e] \in Seq(Pairs) /\ Len(mem[e]) = BufSize /\ BufSize \in Nat
           /\ lastPos[e] \in 0..BufSize /\ sendPos[e] \in 0..BufSize
           /\ recvBuf[e] \in Seq(Pairs) /\ rcvq[e] \in Seq(Pairs) /\ sndq[e] \in Seq(Pairs)
<1>1. mem[e] \in [1..BufSize -> Pairs] /\ lastPos[e] \in 0..BufSize /\ sendPos[e] \in 0..BufSize
  BY DEF ClientTypeOK
<1>2. PICK n \in Nat, p \in Nat, b \in Seq(Pairs) :
        n = lastPos[e] /\ n <= BufSize /\ p = sendPos[e] /\ b = mem[e] /\ Len(b) = BufSize
  BY <1>1, BufSeq
<1>3. \A i \in (p + 1)..n : b[i] \in Pairs
  <2>1. \A i \in 1..BufSize : b[i] \in Pairs
    BY <1>2, ElementOfSeq
  <2>2. \A i \in (p + 1)..n : i \in 1..BufSize
    BY <1>2, BufSeq, <1>1
  <2>3. QED
    BY <2>1, <2>2
<1>4. SubSeq(b, p + 1, n) \in Seq(Pairs)
  BY <1>3, SubSeqProperties
<1>5. Unsent(e) \in Seq(Pairs)
  BY <1>2, <1>4 DEF Unsent
<1>6. QED
  BY <1>1, <1>5, BufSeq DEF ClientTypeOK

LEMMA StreamsKept ==
    ASSUME Streams, accepted' = accepted, handled' = handled,
           \A o \in Ends : InFlight(o)' = InFlight(o)
    PROVE  Streams'
<1>1. InFlight("client")' = InFlight("client") /\ InFlight("server")' = InFlight("server")
  BY DEF Ends
<1>2. QED
  BY <1>1 DEF Streams, Requests

(* A step that leaves the bytes where they are. *)
LEMMA BytesStay ==
    ASSUME recvBuf' = recvBuf, kernelVars' = kernelVars, \A o \in Ends : Unsent(o)' = Unsent(o)
    PROVE  \A o \in Ends : InFlight(o)' = InFlight(o)
<1>1. \A o \in Ends : Unsent(Other(o))' = Unsent(Other(o))
  <2>1. \A o \in Ends : Other(o) = "client" \/ Other(o) = "server"
    BY OtherEnd DEF Ends
  <2>2. QED
    BY <2>1 DEF Ends
<1>2. QED
  BY <1>1 DEF InFlight, kernelVars

LEMMA HoldsFirst == Init => ClientInv
<1> SUFFICES ASSUME Init PROVE ClientInv
  OBVIOUS
<1> USE DEF Init
<1>1. BufSize \in Nat /\ Unwritten \in Pairs /\ <<>> \in Seq(Pairs) /\ <<>> \in Seq(Nat)
  BY ClientAssumption DEF Unwritten, Pairs
<1>2. ClientTypeOK
  BY <1>1 DEF ClientTypeOK
<1>3. Received
  BY <1>1, EmptySeq DEF Received
<1>4. Pushes /\ Sends
  <2>1. lastPos["client"] = 0 /\ spc = "idle" /\ loaded = 0
    BY DEF Ends
  <2>2. Pushes
    BY <2>1 DEF Pushes
  <2>3. Sends
    BY DEF Sends
  <2>4. QED
    BY <2>2, <2>3
<1>5. Streams
  <2>1. PICK x \in Seq(Pairs) : x = <<>> /\ x \o x = x
    <3>1. <<>> \o <<>> = <<>>
      BY <1>1, ConcatEmptySeq
    <3>2. QED
      BY <1>1, <3>1
  <2>2. \A e \in Ends : SubSeq(mem[e], 1, 0) = <<>>
    OBVIOUS
  <2>3. \A e \in Ends : Unsent(e) = x
    BY <2>1, <2>2 DEF Unsent
  <2>4. \A e \in Ends : InFlight(e) = x
    BY <2>1, <2>3, OtherEnd DEF InFlight
  <2>5. InFlight("client") = <<>> /\ InFlight("server") = <<>>
    BY <2>1, <2>4 DEF Ends
  <2>6. handled["client"] = <<>> /\ handled["server"] = <<>>
    BY DEF Ends
  <2>7. Requests = <<>>
    <3>1. 0 * PerBatch = 0
      BY ClientAssumption
    <3>2. QED
      BY <3>1 DEF Requests, From
  <2>8. Rising(<<>>, 0)
    BY DEF Rising
  <2>9. Len(handled["server"]) = 0
    BY <2>6, EmptySeq
  <2>10. QED
    BY <1>1, <2>5, <2>6, <2>7, <2>8, <2>9, CarryNothing DEF Streams
<1>6. QED
  BY <1>2, <1>3, <1>4, <1>5 DEF ClientInv

-----------------------------------------------------------------------------
(* sendThread. *)

LEMMA SendDataKeeps ==
    ASSUME ClientInv, SendData \/ SendDataFull PROVE ClientInv'
<1> USE DEF ClientInv
<1>1. UNCHANGED <<loaded, accepted, loopVars>> /\ spc' \in {spc, "copy"}
  BY DEF SendData, SendDataFull
<1>2. ClientTypeOK' /\ Received' /\ Sends'
  BY <1>1 DEF ClientTypeOK, Received, Sends, loopVars, pollVars, outVars, sendVars, kernelVars, inVars
<1>3. Pushes'
  <2>1. UNCHANGED <<loaded, accepted, lastPos, mem, BatchBytes>>
    BY <1>1 DEF loopVars, outVars, BatchBytes
  <2>2. CASE SendDataFull
    BY <2>1, <2>2 DEF Pushes, SendDataFull
  <2>3. CASE SendData
    <3>1. lastPos["client"] + BatchLen <= BufSize
      BY <2>3 DEF SendData, PushFits
    <3>2. BatchLen \in Nat /\ BatchLen > 0 /\ BufSize \in Nat /\ BufSize < 2 * BatchLen
      BY BatchIs, OneBatchFits, ClientAssumption DEF ClientTypeOK
    <3>3. lastPos["client"] = 0
      BY <3>1, <3>2 DEF Pushes
    <3>4. spc' = "copy"
      BY <2>3 DEF SendData
    <3>5. QED
      BY <2>1, <3>3, <3>4 DEF Pushes
  <2>4. QED
    BY <2>2, <2>3
<1>4. Streams'
  <2>1. accepted' = accepted /\ handled' = handled /\ recvBuf' = recvBuf /\ kernelVars' = kernelVars
        /\ \A o \in Ends : Unsent(o)' = Unsent(o)
    BY <1>1 DEF loopVars, outVars, sendVars, inVars, Unsent
  <2>2. QED
    BY <2>1, BytesStay, StreamsKept
<1>5. QED
  BY <1>2, <1>3, <1>4

LEMMA PushCopyKeeps == ASSUME ClientInv, PushCopy PROVE ClientInv'
<1> USE DEF ClientInv
<1>1. /\ spc = "copy" /\ spc' = "load"
      /\ UNCHANGED <<loaded, accepted, pc, writable, lastPos, sendPos, sendLen, sndq, rcvq,
                     recvBuf, handled, kernelVars>>
      /\ mem' = [mem EXCEPT !["client"] = Copied(mem["client"], lastPos["client"], BatchBytes)]
  BY DEF PushCopy, pollVars, sendVars, kernelVars, inVars, BatchBytes
<1>2. /\ lastPos["client"] = 0 /\ mem["client"] \in [1..BufSize -> Pairs]
      /\ mem \in [Ends -> [1..BufSize -> Pairs]]
      /\ "client" \in Ends /\ "server" \in Ends /\ accepted \in Nat
  BY <1>1 DEF Pushes, ClientTypeOK, Ends
<1>3. PICK b \in Seq(Pairs) : b = BatchBytes /\ Len(b) = BatchLen
  BY <1>2, BatchIs
<1>4. BatchLen \in Nat /\ BatchLen <= BufSize /\ BufSize \in Nat
  BY <1>2, BatchIs, OneBatchFits, ClientAssumption
<1>5. CopyIs(mem["client"], 0, b)
  <2>1. 0 + Len(b) <= BufSize
    BY <1>3, <1>4
  <2>2. QED
    BY <1>2, <2>1, CopyBehind
<1>6. PICK c \in [1..BufSize -> Pairs] :
        c = Copied(mem["client"], 0, b) /\ SubSeq(c, 1, BatchLen) = b
  <2>1. 0 + Len(b) = BatchLen
    BY <1>3, <1>4
  <2>2. SubSeq(mem["client"], 1, 0) = <<>>
    BY <1>2
  <2>3. <<>> \o b = b
    BY ConcatEmptySeq
  <2>4. QED
    BY <1>5, <2>1, <2>2, <2>3 DEF CopyIs
<1>7. mem' = [mem EXCEPT !["client"] = c]
  BY <1>1, <1>2, <1>3, <1>6
<1>8. mem' \in [Ends -> [1..BufSize -> Pairs]] /\ mem'["client"] = c /\ mem'["server"] = mem["server"]
  BY <1>2, <1>7
<1>9. ClientTypeOK' /\ Received' /\ Sends'
  BY <1>1, <1>8 DEF ClientTypeOK, Received, Sends
<1>10. Pushes'
  <2>1. BatchBytes' = BatchBytes
    BY <1>1 DEF BatchBytes
  <2>2. QED
    BY <1>1, <1>2, <1>3, <1>6, <1>8, <2>1 DEF Pushes
<1>11. Streams'
  <2>1. Unsent("client")' = Unsent("client")
    <3>1. pc["client"] # "send"
      BY <1>2 DEF Sends
    <3>2. sendPos["client"] = 0
      BY <1>2, <3>1 DEF Sends
    <3>3. SubSeq(c, 1, 0) = <<>> /\ SubSeq(mem["client"], 1, 0) = <<>>
      BY <1>2
    <3>4. QED
      BY <1>1, <1>2, <1>8, <3>2, <3>3 DEF Unsent
  <2>2. Unsent("server")' = Unsent("server")
    BY <1>1, <1>8 DEF Unsent
  <2>3. \A o \in Ends : InFlight(o)' = InFlight(o)
    <3>1. \A o \in Ends : Unsent(o)' = Unsent(o)
      BY <2>1, <2>2 DEF Ends
    <3>2. QED
      BY <1>1, <3>1, BytesStay
  <2>4. QED
    BY <1>1, <2>3, StreamsKept
<1>12. QED
  BY <1>9, <1>10, <1>11

LEMMA PushLoadKeeps == ASSUME ClientInv, PushLoad PROVE ClientInv'
<1> USE DEF ClientInv
<1>1. spc = "load" /\ spc' = "store" /\ loaded' = lastPos["client"] /\ UNCHANGED <<accepted, loopVars>>
  BY DEF PushLoad
<1>2. ClientTypeOK' /\ Received' /\ Sends'
  BY <1>1 DEF ClientTypeOK, Received, Sends, loopVars, pollVars, outVars, sendVars, kernelVars, inVars
<1>3. Pushes'
  <2>1. UNCHANGED <<accepted, lastPos, mem, BatchBytes>>
    BY <1>1 DEF loopVars, outVars, BatchBytes
  <2>2. QED
    BY <1>1, <2>1 DEF Pushes
<1>4. Streams'
  <2>1. accepted' = accepted /\ handled' = handled /\ recvBuf' = recvBuf /\ kernelVars' = kernelVars
        /\ \A o \in Ends : Unsent(o)' = Unsent(o)
    BY <1>1 DEF loopVars, outVars, sendVars, inVars, Unsent
  <2>2. QED
    BY <2>1, BytesStay, StreamsKept
<1>5. QED
  BY <1>2, <1>3, <1>4

LEMMA PushStoreKeeps == ASSUME ClientInv, PushStore PROVE ClientInv'
<1> USE DEF ClientInv
<1>1. /\ spc = "store" /\ spc' = "idle" /\ loaded' = 0 /\ accepted' = accepted + 1
      /\ UNCHANGED <<pc, writable, mem, sendPos, sendLen, sndq, rcvq, recvBuf, handled, kernelVars>>
      /\ lastPos' = [lastPos EXCEPT !["client"] = loaded + BatchLen]
  BY DEF PushStore, pollVars, sendVars, kernelVars, inVars
<1>2. /\ lastPos["client"] = 0 /\ lastPos \in [Ends -> 0..BufSize] /\ loaded = 0
      /\ "client" \in Ends /\ "server" \in Ends /\ accepted \in Nat
  BY <1>1 DEF Pushes, ClientTypeOK, Ends
<1>3. BatchLen \in Nat /\ BatchLen > 0 /\ BatchLen <= BufSize /\ BufSize \in Nat
  BY <1>2, BatchIs, OneBatchFits, ClientAssumption
<1>4. /\ lastPos' \in [Ends -> 0..BufSize] /\ lastPos'["client"] = BatchLen
      /\ lastPos'["server"] = lastPos["server"]
  <2>1. lastPos' = [lastPos EXCEPT !["client"] = BatchLen]
    BY <1>1, <1>2, <1>3
  <2>2. BatchLen \in 0..BufSize
    BY <1>3
  <2>3. QED
    BY <1>2, <2>1, <2>2
<1>5. ClientTypeOK'
  <2>1. accepted' \in Nat
    BY <1>1, <1>2
  <2>2. QED
    BY <1>1, <1>4, <2>1 DEF ClientTypeOK
<1>6. Received'
  BY <1>1 DEF Received
<1>7. Sends'
  <2>1. pc["client"] \notin {"write", "send"} /\ ~writable["client"]
    BY <1>2 DEF Sends
  <2>2. QED
    BY <1>1, <1>2, <1>4, <2>1 DEF Sends, Ends
<1>8. Pushes'
  BY <1>1, <1>4 DEF Pushes
<1>9. Streams'
  <2>1. PICK n \in Nat : n = accepted * PerBatch /\ PerBatch \in Nat
                         /\ accepted' * PerBatch = n + PerBatch
    BY <1>1, <1>2, BatchIs
  <2>2. PICK b \in Seq(Pairs), ns \in Seq(Nat) :
          b = BatchBytes /\ b = Whole(ns) /\ ns = From(n, n + PerBatch)
    BY <1>2, <2>1, BatchIs
  <2>3. sendPos["client"] = 0
    BY <1>2 DEF Sends
  <2>4. Unsent("client") = <<>> /\ Unsent("client")' = b
    <3>1. SubSeq(mem["client"], 1, 0) = <<>>
      BY <1>2, UnsentType
    <3>2. SubSeq(mem["client"], 1, BatchLen) = b
      BY <1>1, <2>2 DEF Pushes
    <3>3. QED
      BY <1>1, <1>2, <1>4, <2>3, <3>1, <3>2 DEF Unsent
  <2>5. Unsent("server")' = Unsent("server")
    BY <1>1, <1>4 DEF Unsent
  <2>6. InFlight("client")' = InFlight("client")
    BY <1>1, <2>5, OtherEnd DEF InFlight
  <2>7. InFlight("server")' = InFlight("server") \o b /\ InFlight("server") \in Seq(Pairs)
    <3>1. PICK r \in Seq(Pairs), q \in Seq(Pairs), s \in Seq(Pairs), u \in Seq(Pairs) :
            r = recvBuf["server"] /\ q = rcvq["server"] /\ s = sndq["client"] /\ u = Unsent("client")
      BY <1>2, UnsentType
    <3>2. FlowAdds(r, q, s, u, b) /\ FlowFacts(r, q, s, u)
      BY FlowAdd, FlowType
    <3>3. u \o b = b
      BY <2>4, <3>1, ConcatEmptySeq
    <3>4. InFlight("server") = Flow(r, q, s, u)
      BY <3>1, OtherEnd DEF InFlight, Flow
    <3>5. InFlight("server")' = Flow(r, q, s, b)
      BY <1>1, <2>4, <3>1, OtherEnd DEF InFlight, Flow
    <3>6. QED
      BY <3>2, <3>3, <3>4, <3>5 DEF FlowAdds, FlowFacts
  <2>8. PICK f \in Seq(Pairs) : f = InFlight("server")
    BY <2>7
  <2>9. PICK h \in Seq(Nat), all \in Seq(Nat) : h = handled["server"] /\ all = Requests /\ Carried(h, f, all)
    <3>1. Requests \in Seq(Nat)
      BY <2>1, FromIndex DEF Requests
    <3>2. handled["server"] \in Seq(Nat)
      BY DEF ClientTypeOK, Ends
    <3>3. QED
      BY <2>8, <3>1, <3>2 DEF Streams
  <2>10. Carried(h, f \o Whole(ns), all \o ns)
    BY <2>9, CarryAdd
  <2>11. all \o ns = From(0, n + PerBatch)
    BY <2>1, <2>2, <2>9, FromFurther DEF Requests
  <2>12. Carried(handled["server"], InFlight("server"), Requests)'
    BY <1>1, <2>1, <2>2, <2>7, <2>8, <2>9, <2>10, <2>11 DEF Requests
  <2>13. QED
    BY <1>1, <2>6, <2>12 DEF Streams
<1>10. QED
  BY <1>5, <1>6, <1>7, <1>8, <1>9

-----------------------------------------------------------------------------

(* What an end's loop leaves alone. *)
LEMMA PushesStay ==
    ASSUME Pushes, UNCHANGED senderVars, UNCHANGED mem,
           lastPos'["client"] \in {lastPos["client"], 0}
    PROVE  Pushes'
<1>1. BatchBytes' = BatchBytes /\ spc' = spc /\ loaded' = loaded
  BY DEF senderVars, BatchBytes
<1>2. QED
  BY <1>1 DEF Pushes

(* Poll, HandleDone and Write move only the loop of one end on. *)
LEMMA PollKeeps == ASSUME ClientInv, NEW e \in Ends, Poll(e) PROVE ClientInv'
<1> USE DEF ClientInv
<1>1. /\ UNCHANGED <<senderVars, spc, loaded, accepted, mem, lastPos, sendPos, sendLen, sndq, rcvq,
                     recvBuf, handled, kernelVars>>
      /\ pc[e] = "poll"
      /\ writable' = [writable EXCEPT ![e] = CanWrite(e)]
      /\ pc' = [pc EXCEPT ![e] = IF Readable(e) THEN "recv" ELSE "write"]
      /\ Readable(e) \/ CanWrite(e)
  BY DEF Poll, senderVars, outVars, sendVars, kernelVars, inVars
<1>2. pc \in [Ends -> {"poll", "recv", "msg", "write", "send"}] /\ writable \in [Ends -> BOOLEAN]
      /\ CanWrite(e) \in BOOLEAN /\ Readable(e) \in BOOLEAN
  BY DEF ClientTypeOK, CanWrite, Readable, AskWrite
<1>3. /\ pc' \in [Ends -> {"poll", "recv", "msg", "write", "send"}] /\ writable' \in [Ends -> BOOLEAN]
      /\ \A o \in Ends : o # e => pc'[o] = pc[o] /\ writable'[o] = writable[o]
      /\ writable'[e] = CanWrite(e) /\ pc'[e] \in {"recv", "write"}
      /\ pc'[e] = "write" => CanWrite(e)
  BY <1>1, <1>2
<1>4. ClientTypeOK' /\ Received'
  BY <1>1, <1>3 DEF ClientTypeOK, Received
<1>5. Sends'
  <2>1. CanWrite(e) => lastPos[e] > 0
    BY DEF CanWrite, AskWrite
  <2>2. QED
    BY <1>1, <1>3, <2>1 DEF Sends
<1>6. Pushes'
  BY <1>1, PushesStay
<1>7. Streams'
  <2>1. \A o \in Ends : Unsent(o)' = Unsent(o)
    BY <1>1 DEF Unsent
  <2>2. QED
    BY <1>1, <2>1, BytesStay, StreamsKept
<1>8. QED
  BY <1>4, <1>5, <1>6, <1>7

LEMMA HandleDoneKeeps == ASSUME ClientInv, NEW e \in Ends, HandleDone(e) PROVE ClientInv'
<1> USE DEF ClientInv
<1>1. /\ UNCHANGED <<senderVars, spc, loaded, accepted, mem, lastPos, sendPos, sendLen, sndq, rcvq,
                     recvBuf, handled, kernelVars, writable>>
      /\ pc[e] = "msg"
      /\ pc' = [pc EXCEPT ![e] = IF writable[e] THEN "write" ELSE "poll"]
  BY DEF HandleDone, senderVars, outVars, sendVars, kernelVars, inVars
<1>2. pc \in [Ends -> {"poll", "recv", "msg", "write", "send"}] /\ writable \in [Ends -> BOOLEAN]
  BY DEF ClientTypeOK
<1>3. /\ pc' \in [Ends -> {"poll", "recv", "msg", "write", "send"}]
      /\ \A o \in Ends : o # e => pc'[o] = pc[o]
      /\ pc'[e] \in {"poll", "write"}
      /\ pc'[e] = "write" => writable[e]
  BY <1>1, <1>2
<1>4. ClientTypeOK' /\ Received'
  BY <1>1, <1>3 DEF ClientTypeOK, Received
<1>5. Sends'
  BY <1>1, <1>3 DEF Sends
<1>6. Pushes'
  BY <1>1, PushesStay
<1>7. Streams'
  <2>1. \A o \in Ends : Unsent(o)' = Unsent(o)
    BY <1>1 DEF Unsent
  <2>2. QED
    BY <1>1, <2>1, BytesStay, StreamsKept
<1>8. QED
  BY <1>4, <1>5, <1>6, <1>7

LEMMA WriteKeeps == ASSUME ClientInv, NEW e \in Ends, Write(e) PROVE ClientInv'
<1> USE DEF ClientInv
<1>1. /\ UNCHANGED <<senderVars, spc, loaded, accepted, mem, lastPos, sendPos, sndq, rcvq,
                     recvBuf, handled, kernelVars, writable>>
      /\ pc[e] = "write"
      /\ sendLen' = [sendLen EXCEPT ![e] = lastPos[e]]
      /\ pc' = [pc EXCEPT ![e] = "send"]
  BY DEF Write, senderVars, outVars, sendVars, kernelVars, inVars
<1>2. /\ pc \in [Ends -> {"poll", "recv", "msg", "write", "send"}]
      /\ sendLen \in [Ends -> 0..BufSize] /\ lastPos \in [Ends -> 0..BufSize]
  BY DEF ClientTypeOK
<1>3. /\ pc' \in [Ends -> {"poll", "recv", "msg", "write", "send"}]
      /\ sendLen' \in [Ends -> 0..BufSize]
      /\ \A o \in Ends : o # e => pc'[o] = pc[o] /\ sendLen'[o] = sendLen[o]
      /\ pc'[e] = "send" /\ sendLen'[e] = lastPos[e]
  BY <1>1, <1>2
<1>4. ClientTypeOK' /\ Received'
  BY <1>1, <1>3 DEF ClientTypeOK, Received
<1>5. Sends'
  <2>1. sendPos[e] = 0 /\ lastPos[e] > 0 /\ lastPos[e] \in Int /\ writable[e]
    <3>1. lastPos[e] \in 0..BufSize /\ BufSize \in Nat
      BY <1>2, ClientAssumption
    <3>2. QED
      BY <1>1, <3>1 DEF Sends
  <2>2. ASSUME NEW o \in Ends
        PROVE  /\ sendPos'[o] <= sendLen'[o]
               /\ pc'[o] = "send" => sendLen'[o] = lastPos'[o]
               /\ pc'[o] # "send" => sendPos'[o] = 0 /\ sendLen'[o] = 0
               /\ writable'[o] => lastPos'[o] > 0
               /\ pc'[o] \in {"write", "send"} => writable'[o]
    <3>1. CASE o = e
      BY <1>1, <1>3, <2>1, <3>1
    <3>2. CASE o # e
      BY <1>1, <1>3, <3>2 DEF Sends
    <3>3. QED
      BY <3>1, <3>2
  <2>3. QED
    BY <2>2 DEF Sends
<1>6. Pushes'
  BY <1>1, PushesStay
<1>7. Streams'
  <2>1. \A o \in Ends : Unsent(o)' = Unsent(o)
    BY <1>1 DEF Unsent
  <2>2. QED
    BY <1>1, <2>1, BytesStay, StreamsKept
<1>8. QED
  BY <1>4, <1>5, <1>6, <1>7

LEMMA SendDoneKeeps == ASSUME ClientInv, NEW e \in Ends, SendDone(e) PROVE ClientInv'
<1> USE DEF ClientInv
<1>1. /\ UNCHANGED <<senderVars, spc, loaded, accepted, mem, sndq, rcvq, recvBuf, handled, kernelVars>>
      /\ pc[e] = "send" /\ sendPos[e] = sendLen[e]
      /\ lastPos' = [lastPos EXCEPT ![e] = 0]
      /\ sendPos' = [sendPos EXCEPT ![e] = 0]
      /\ sendLen' = [sendLen EXCEPT ![e] = 0]
      /\ writable' = [writable EXCEPT ![e] = FALSE]
      /\ pc' = [pc EXCEPT ![e] = "poll"]
  BY DEF SendDone, senderVars, kernelVars, inVars
<1>2. /\ pc \in [Ends -> {"poll", "recv", "msg", "write", "send"}] /\ writable \in [Ends -> BOOLEAN]
      /\ sendLen \in [Ends -> 0..BufSize] /\ lastPos \in [Ends -> 0..BufSize]
      /\ sendPos \in [Ends -> 0..BufSize] /\ 0 \in 0..BufSize
  BY ClientAssumption DEF ClientTypeOK
<1>3. /\ pc' \in [Ends -> {"poll", "recv", "msg", "write", "send"}] /\ writable' \in [Ends -> BOOLEAN]
      /\ sendLen' \in [Ends -> 0..BufSize] /\ lastPos' \in [Ends -> 0..BufSize]
      /\ sendPos' \in [Ends -> 0..BufSize]
      /\ \A o \in Ends : o # e => /\ pc'[o] = pc[o] /\ sendLen'[o] = sendLen[o]
                                  /\ sendPos'[o] = sendPos[o] /\ lastPos'[o] = lastPos[o]
                                  /\ writable'[o] = writable[o]
      /\ pc'[e] = "poll" /\ sendLen'[e] = 0 /\ sendPos'[e] = 0 /\ lastPos'[e] = 0 /\ ~writable'[e]
  BY <1>1, <1>2
<1>4. ClientTypeOK' /\ Received'
  BY <1>1, <1>3 DEF ClientTypeOK, Received
<1>5. Sends'
  BY <1>3 DEF Sends
<1>6. Pushes'
  <2>1. lastPos'["client"] \in {lastPos["client"], 0}
    BY <1>3 DEF Ends
  <2>2. QED
    BY <1>1, <2>1, PushesStay
<1>7. Streams'
  <2>1. Unsent(e)' = Unsent(e)
    <3>1. PICK n \in Nat, b \in Seq(Pairs) : n = lastPos[e] /\ n = sendPos[e] /\ b = mem[e]
      <4>1. sendLen[e] = lastPos[e]
        BY <1>1 DEF Sends
      <4>2. lastPos[e] \in Nat
        BY <1>2, ClientAssumption
      <4>3. QED
        BY <1>1, <4>1, <4>2, UnsentType
    <3>2. SubSeq(b, n + 1, n) = <<>> /\ SubSeq(b, 0 + 1, 0) = <<>>
      OBVIOUS
    <3>3. Unsent(e) = SubSeq(b, n + 1, n)
      BY <3>1 DEF Unsent
    <3>4. Unsent(e)' = SubSeq(b, 0 + 1, 0)
      BY <1>1, <1>3, <3>1 DEF Unsent
    <3>5. QED
      BY <3>2, <3>3, <3>4
  <2>2. \A o \in Ends : Unsent(o)' = Unsent(o)
    BY <1>1, <1>3, <2>1 DEF Unsent
  <2>3. QED
    BY <1>1, <2>2, BytesStay, StreamsKept
<1>8. QED
  BY <1>4, <1>5, <1>6, <1>7

-----------------------------------------------------------------------------
(* Bytes move. *)

LEMMA SendCopyKeeps == ASSUME ClientInv, NEW e \in Ends, SendCopy(e) PROVE ClientInv'
<1> USE DEF ClientInv
<1>1. /\ UNCHANGED <<senderVars, spc, loaded, accepted, pc, writable, mem, lastPos, sendLen, rcvq,
                     recvBuf, handled>>
      /\ pc[e] = "send"
  BY DEF SendCopy, senderVars, pollVars, outVars, inVars
<1>2. PICK n \in Nat, p \in Nat, b \in Seq(Pairs) :
        /\ n = lastPos[e] /\ n = sendLen[e] /\ p = sendPos[e] /\ b = mem[e]
        /\ p <= n /\ n <= BufSize /\ Len(b) = BufSize
  <2>1. sendLen[e] = lastPos[e] /\ sendPos[e] <= sendLen[e]
    BY <1>1 DEF Sends
  <2>2. lastPos[e] \in 0..BufSize /\ sendPos[e] \in 0..BufSize /\ BufSize \in Nat
    BY UnsentType
  <2>3. mem[e] \in Seq(Pairs) /\ Len(mem[e]) = BufSize
    BY UnsentType
  <2>4. QED
    BY <2>1, <2>2, <2>3
<1>3. PICK k \in Nat : k = AtMost(n - p, Room(e)) /\ k > 0 /\ k <= n - p
  <2>1. AtMost(n - p, Room(e)) > 0
    BY <1>2 DEF SendCopy
  <2>2. Room(e) \in Int
    <3>1. sndq[e] \in Seq(Pairs)
      BY UnsentType
    <3>2. Len(sndq[e]) \in Nat /\ SockCap \in Int
      BY <3>1, LenProperties, ClientAssumption
    <3>3. QED
      BY <3>2 DEF Room
  <2>3. PICK m \in Int : m = Room(e)
    BY <2>2
  <2>4. AtMost(n - p, m) \in Nat /\ AtMost(n - p, m) <= n - p
    BY <2>1, <2>3 DEF AtMost
  <2>5. QED
    BY <2>1, <2>3, <2>4
<1>4. PICK a \in Seq(Pairs), c \in Seq(Pairs) :
        /\ a = SubSeq(b, p + 1, p + k) /\ c = SubSeq(b, p + k + 1, n)
        /\ a \o c = SubSeq(b, p + 1, n)
  <2>0. BufSize \in Nat
    BY ClientAssumption
  <2>1. \A i \in 1..BufSize : b[i] \in Pairs
    BY <1>2, ElementOfSeq
  <2>2. \A i \in (p + 1)..n : b[i] \in Pairs
    BY <2>0, <2>1, <1>2
  <2>3. SubSeq(b, p + 1, p + k) \in Seq(Pairs)
    <3>1. \A i \in (p + 1)..(p + k) : b[i] \in Pairs
      BY <1>2, <1>3, <2>2
    <3>2. QED
      BY <3>1, SubSeqProperties
  <2>4. SubSeq(b, p + k + 1, n) \in Seq(Pairs)
    <3>1. \A i \in (p + k + 1)..n : b[i] \in Pairs
      BY <1>2, <1>3, <2>2
    <3>2. QED
      BY <3>1, SubSeqProperties
  <2>5. SubSeq(b, p + 1, p + k) \o SubSeq(b, p + k + 1, n) = SubSeq(b, p + 1, n)
    <3>1. /\ p + 1 \in 1..(Len(b) + 1) /\ p + k \in ((p + 1) - 1)..Len(b)
          /\ n \in (p + k)..Len(b)
      BY <1>2, <1>3, <2>0
    <3>2. QED
      BY <3>1, ConcatAdjacentSubSeq
  <2>6. QED
    BY <2>3, <2>4, <2>5
<1>5. sndq' = [sndq EXCEPT ![e] = sndq[e] \o a] /\ sendPos' = [sendPos EXCEPT ![e] = p + k]
  BY <1>2, <1>3, <1>4 DEF SendCopy
<1>6. PICK s \in Seq(Pairs), t \in Seq(Pairs) : s = sndq[e] /\ t = s \o a
  BY UnsentType, ConcatProperties
<1>7. sndq \in [Ends -> Seq(Pairs)] /\ sendPos \in [Ends -> 0..BufSize] /\ p + k \in 0..BufSize
      /\ BufSize \in Nat
  BY SMTT(30), <1>2, <1>3, ClientAssumption DEF ClientTypeOK
<1>8. /\ sndq' \in [Ends -> Seq(Pairs)] /\ sendPos' \in [Ends -> 0..BufSize]
      /\ sndq'[e] = t /\ sendPos'[e] = p + k
      /\ \A o \in Ends : o # e => sndq'[o] = sndq[o] /\ sendPos'[o] = sendPos[o]
  BY <1>5, <1>6, <1>7
<1>9. ClientTypeOK' /\ Received'
  BY <1>1, <1>8 DEF ClientTypeOK, Received
<1>10. Sends'
  <2>1. p + k <= n
    BY <1>2, <1>3
  <2>2. ASSUME NEW o \in Ends
        PROVE  /\ sendPos'[o] <= sendLen'[o]
               /\ pc'[o] # "send" => sendPos'[o] = 0
    <3>1. CASE o = e
      BY <1>1, <1>2, <1>8, <2>1, <3>1
    <3>2. CASE o # e
      BY <1>1, <1>8, <3>2 DEF Sends
    <3>3. QED
      BY <3>1, <3>2
  <2>3. QED
    BY <1>1, <2>2 DEF Sends
<1>11. Pushes'
  BY <1>1, PushesStay
<1>12. Streams'
  <2>1. Unsent(e) = a \o c /\ Unsent(e)' = c
    BY <1>1, <1>2, <1>4, <1>8 DEF Unsent
  <2>2. ASSUME NEW o \in Ends PROVE InFlight(o)' = InFlight(o)
    <3>1. CASE o = Other(e)
      <4>1. Other(o) = e
        BY <3>1, OtherEnd
      <4>2. PICK r \in Seq(Pairs), q \in Seq(Pairs) : r = recvBuf[o] /\ q = rcvq[o]
        BY UnsentType
      <4>3. FlowSends(r, q, s, a, c)
        BY FlowSend
      <4>4. InFlight(o) = Flow(r, q, s, a \o c)
        BY <1>6, <2>1, <4>1, <4>2 DEF InFlight, Flow
      <4>5. InFlight(o)' = Flow(r, q, s \o a, c)
        BY <1>1, <1>6, <1>8, <2>1, <4>1, <4>2 DEF InFlight, Flow
      <4>6. QED
        BY <4>3, <4>4, <4>5 DEF FlowSends
    <3>2. CASE o # Other(e)
      <4>1. Other(o) # e /\ Other(o) \in Ends
        BY <3>2, OtherEnd
      <4>2. Unsent(Other(o))' = Unsent(Other(o))
        BY <1>1, <1>8, <4>1 DEF Unsent
      <4>3. QED
        BY <1>1, <1>8, <4>1, <4>2 DEF InFlight
    <3>3. QED
      BY <3>1, <3>2
  <2>3. QED
    BY <1>1, <2>2, StreamsKept
<1>13. QED
  BY <1>9, <1>10, <1>11, <1>12

LEMMA DeliverKeeps == ASSUME ClientInv, NEW e \in Ends, Deliver(e) PROVE ClientInv'
<1> USE DEF ClientInv
<1>1. UNCHANGED <<senderVars, spc, loaded, accepted, pc, writable, mem, lastPos, sendPos, sendLen,
                  recvBuf, handled>>
  BY DEF Deliver, senderVars, pollVars, outVars, sendVars, inVars
<1>2. PICK o \in Ends : o = Other(e) /\ e = Other(o) /\ o # e
  BY OtherEnd
<1>3. PICK k \in 1..Len(sndq[e]) :
        /\ rcvq' = [rcvq EXCEPT ![o] = rcvq[o] \o SubSeq(sndq[e], 1, k)]
        /\ sndq' = [sndq EXCEPT ![e] = SubSeq(sndq[e], k + 1, Len(sndq[e]))]
  BY <1>2 DEF Deliver
<1>4. PICK r \in Seq(Pairs), q \in Seq(Pairs), s \in Seq(Pairs), u \in Seq(Pairs) :
        r = recvBuf[o] /\ q = rcvq[o] /\ s = sndq[e] /\ u = Unsent(e)
  BY UnsentType
<1>5. FlowDelivers(r, q, s, u, k)
  <2>1. k \in 0..Len(s)
    BY <1>3, <1>4
  <2>2. QED
    BY <2>1, FlowDeliver
<1>6. PICK a \in Seq(Pairs), b \in Seq(Pairs), t \in Seq(Pairs) :
        a = SubSeq(s, 1, k) /\ b = SubSeq(s, k + 1, Len(s)) /\ t = q \o a
  BY <1>5, ConcatProperties DEF FlowDelivers
<1>7. rcvq \in [Ends -> Seq(Pairs)] /\ sndq \in [Ends -> Seq(Pairs)]
  BY DEF ClientTypeOK
<1>8. /\ rcvq' \in [Ends -> Seq(Pairs)] /\ sndq' \in [Ends -> Seq(Pairs)]
      /\ rcvq'[o] = t /\ sndq'[e] = b
      /\ \A x \in Ends : x # o => rcvq'[x] = rcvq[x]
      /\ \A x \in Ends : x # e => sndq'[x] = sndq[x]
  BY <1>3, <1>4, <1>6, <1>7
<1>9. ClientTypeOK' /\ Received' /\ Sends'
  BY <1>1, <1>8 DEF ClientTypeOK, Received, Sends
<1>10. Pushes'
  BY <1>1, PushesStay
<1>11. Streams'
  <2>1. \A x \in Ends : Unsent(x)' = Unsent(x)
    BY <1>1 DEF Unsent
  <2>2. ASSUME NEW x \in Ends PROVE InFlight(x)' = InFlight(x)
    <3>1. CASE x = o
      <4>1. InFlight(x) = Flow(r, q, s, u)
        BY <1>2, <1>4, <3>1 DEF InFlight, Flow
      <4>2. InFlight(x)' = Flow(r, t, b, u)
        BY <1>1, <1>2, <1>4, <1>8, <2>1, <3>1 DEF InFlight, Flow
      <4>3. QED
        BY <1>5, <1>6, <4>1, <4>2 DEF FlowDelivers
    <3>2. CASE x # o
      <4>1. Other(x) # e /\ Other(x) \in Ends
        BY <1>2, <3>2, OtherEnd
      <4>2. QED
        BY <1>1, <1>8, <2>1, <3>2, <4>1 DEF InFlight
    <3>3. QED
      BY <3>1, <3>2
  <2>3. QED
    BY <1>1, <2>2, StreamsKept
<1>12. QED
  BY <1>9, <1>10, <1>11

LEMMA RecvKeeps == ASSUME ClientInv, NEW e \in Ends, Recv(e) PROVE ClientInv'
<1> USE DEF ClientInv
<1>1. /\ UNCHANGED <<senderVars, spc, loaded, accepted, writable, mem, lastPos, sendPos, sendLen,
                     sndq, handled>>
      /\ pc[e] = "recv" /\ pc' = [pc EXCEPT ![e] = "msg"]
  BY DEF Recv, senderVars, outVars, sendVars
<1>2. PICK o \in Ends : o = Other(e) /\ e = Other(o) /\ o # e
  BY OtherEnd
<1>3. PICK r \in Seq(Pairs), q \in Seq(Pairs), s \in Seq(Pairs), u \in Seq(Pairs) :
        r = recvBuf[e] /\ q = rcvq[e] /\ s = sndq[o] /\ u = Unsent(o)
  BY UnsentType
<1>4. PICK k \in Nat :
        /\ k <= Len(q) /\ k <= BufSize - Len(r)
        /\ recvBuf' = [recvBuf EXCEPT ![e] = r \o SubSeq(q, 1, k)]
        /\ rcvq' = [rcvq EXCEPT ![e] = SubSeq(q, k + 1, Len(q))]
  <2>1. PICK m \in Nat, n \in Nat : m = Len(q) /\ n = BufSize - Len(r)
    <3>1. Len(r) \in Nat /\ Len(q) \in Nat
      BY LenProperties
    <3>2. Len(r) <= BufSize /\ BufSize \in Nat
      BY <1>3, ClientAssumption DEF Received
    <3>3. BufSize - Len(r) \in Nat
      BY <3>1, <3>2
    <3>4. QED
      BY <3>1, <3>3
  <2>2. PICK k \in Nat : k = AtMost(m, n) /\ k <= m /\ k <= n
    BY DEF AtMost
  <2>3. /\ recvBuf' = [recvBuf EXCEPT ![e] = r \o SubSeq(q, 1, k)]
        /\ rcvq' = [rcvq EXCEPT ![e] = SubSeq(q, k + 1, Len(q))]
    BY <1>3, <2>1, <2>2 DEF Recv
  <2>4. QED
    BY <2>1, <2>2, <2>3
<1>5. FlowRecvs(r, q, s, u, k)
  <2>1. k \in 0..Len(q)
    BY <1>4
  <2>2. QED
    BY <2>1, FlowRecv
<1>6. PICK a \in Seq(Pairs), b \in Seq(Pairs), t \in Seq(Pairs) :
        /\ a = SubSeq(q, 1, k) /\ b = SubSeq(q, k + 1, Len(q)) /\ t = r \o a
        /\ Len(a) = k
  <2>1. PICK a \in Seq(Pairs), b \in Seq(Pairs) : a = SubSeq(q, 1, k) /\ b = SubSeq(q, k + 1, Len(q))
    BY <1>5 DEF FlowRecvs
  <2>2. Len(a) = k
    <3>1. \A i \in 1..k : q[i] \in Pairs
      <4>1. \A i \in 1..Len(q) : q[i] \in Pairs
        BY ElementOfSeq
      <4>2. QED
        BY <1>4, <4>1
    <3>2. Len(SubSeq(q, 1, k)) = IF 1 <= k THEN k - 1 + 1 ELSE 0
      BY <3>1, SubSeqProperties
    <3>3. QED
      BY <2>1, <3>2
  <2>3. QED
    BY <2>1, <2>2, ConcatProperties
<1>7. /\ recvBuf \in [Ends -> Seq(Pairs)] /\ rcvq \in [Ends -> Seq(Pairs)]
      /\ pc \in [Ends -> {"poll", "recv", "msg", "write", "send"}]
  BY DEF ClientTypeOK
<1>8. /\ recvBuf' \in [Ends -> Seq(Pairs)] /\ rcvq' \in [Ends -> Seq(Pairs)]
      /\ pc' \in [Ends -> {"poll", "recv", "msg", "write", "send"}]
      /\ recvBuf'[e] = t /\ rcvq'[e] = b /\ pc'[e] = "msg"
      /\ \A x \in Ends : x # e => recvBuf'[x] = recvBuf[x] /\ rcvq'[x] = rcvq[x] /\ pc'[x] = pc[x]
  BY <1>1, <1>4, <1>6, <1>7
<1>9. ClientTypeOK'
  BY <1>1, <1>8 DEF ClientTypeOK
<1>10. Received'
  <2>1. PICK n \in Nat : n = Len(r) /\ k <= BufSize - n
    BY <1>4
  <2>2. Len(t) = n + k
    BY <1>6, <2>1, ConcatProperties
  <2>3. BufSize \in Nat
    BY ClientAssumption
  <2>4. Len(t) <= BufSize
    BY <2>1, <2>2, <2>3
  <2>5. QED
    BY <1>8, <2>4 DEF Received
<1>11. Sends'
  BY <1>1, <1>8 DEF Sends
<1>12. Pushes'
  BY <1>1, PushesStay
<1>13. Streams'
  <2>1. \A x \in Ends : Unsent(x)' = Unsent(x)
    BY <1>1 DEF Unsent
  <2>2. ASSUME NEW x \in Ends PROVE InFlight(x)' = InFlight(x)
    <3>1. CASE x = e
      <4>1. InFlight(x) = Flow(r, q, s, u)
        BY <1>2, <1>3, <3>1 DEF InFlight, Flow
      <4>2. InFlight(x)' = Flow(t, b, s, u)
        BY <1>1, <1>2, <1>3, <1>8, <2>1, <3>1 DEF InFlight, Flow
      <4>3. QED
        BY <1>5, <1>6, <4>1, <4>2 DEF FlowRecvs
    <3>2. CASE x # e
      <4>1. Other(x) \in Ends
        BY OtherEnd
      <4>2. QED
        BY <1>1, <1>8, <2>1, <3>2, <4>1 DEF InFlight
    <3>3. QED
      BY <3>1, <3>2
  <2>3. QED
    BY <1>1, <2>2, StreamsKept
<1>14. QED
  BY <1>9, <1>10, <1>11, <1>12, <1>13

-----------------------------------------------------------------------------

(* What follows the receive buffer of an end. *)
Rest(e) == (rcvq[e] \o sndq[Other(e)]) \o Unsent(Other(e))

LEMMA RestType ==
    ASSUME ClientTypeOK, NEW e \in Ends
    PROVE  /\ Rest(e) \in Seq(Pairs) /\ InFlight(e) = recvBuf[e] \o Rest(e)
           /\ InFlight(e) \in Seq(Pairs)
<1>1. PICK o \in Ends : o = Other(e)
  BY OtherEnd
<1>2. PICK r \in Seq(Pairs), q \in Seq(Pairs), s \in Seq(Pairs), u \in Seq(Pairs) :
        r = recvBuf[e] /\ q = rcvq[e] /\ s = sndq[o] /\ u = Unsent(o)
  BY UnsentType
<1>3. FlowFacts(r, q, s, u)
  BY FlowType
<1>4. InFlight(e) = Flow(r, q, s, u) /\ Rest(e) = (q \o s) \o u
  BY <1>1, <1>2 DEF InFlight, Flow, Rest
<1>5. QED
  BY <1>2, <1>3, <1>4 DEF FlowFacts

(* The message in front is m, and d is what it leaves. *)
InFront(e, all, m, d) ==
    /\ m = recvBuf[e][1][1]
    /\ d = Pop(recvBuf[e], DataLength(recvBuf[e]))
    /\ Len(d) + Size = Len(recvBuf[e])
    /\ Len(handled[e]) + 1 <= Len(all) /\ all[Len(handled[e]) + 1] = m
    /\ \A i \in 1..Len(handled[e]) : handled[e][i] = all[i]
    /\ Carried(Append(handled[e], m), d \o Rest(e), all)

LEMMA FrontIs ==
    ASSUME ClientInv, NEW e \in Ends, HasData(recvBuf[e]), NEW all \in Seq(Nat),
           Carried(handled[e], InFlight(e), all)
    PROVE  \E m \in Nat, d \in Seq(Pairs) : InFront(e, all, m, d)
<1>0. ClientTypeOK /\ Received
  BY DEF ClientInv
<1>1. PICK s \in Seq(Pairs), t \in Seq(Pairs), h \in Seq(Nat) :
        s = recvBuf[e] /\ t = Rest(e) /\ h = handled[e] /\ InFlight(e) = s \o t
  <2>1. handled[e] \in Seq(Nat) /\ recvBuf[e] \in Seq(Pairs)
    BY <1>0 DEF ClientTypeOK
  <2>2. QED
    BY <1>0, <2>1, RestType
<1>2. Len(s) \in Nat /\ Len(s) >= Header /\ Len(s) >= DataLength(s) /\ Len(s) >= 1
  <2>1. Len(s) >= Header /\ Len(s) >= DataLength(s)
    BY <1>1 DEF HasData
  <2>2. Len(s) \in Nat
    BY LenProperties
  <2>3. QED
    BY <2>1, <2>2, SizePositive
<1>3. PICK m \in Nat : NextIs(h, s, t, all, m)
  <2>1. Carried(h, s \o t, all)
    BY <1>1
  <2>2. QED
    BY <1>2, <2>1, CarryCut
<1>4. s[1] = <<m, 1>>
  BY <1>3 DEF NextIs
<1>5. DataLength(s) = Size
  BY <1>4 DEF DataLength
<1>6. PICK n \in Nat : n = Len(s) /\ n >= Size /\ Size \in 1..n
  BY <1>2, <1>5, SizePositive
<1>7. PICK d \in Seq(Pairs) : d = SubSeq(s, Size + 1, n) /\ Len(d) = n - Size
  <2>0. Size \in Nat
    BY SizePositive
  <2>1. \A i \in (Size + 1)..n : s[i] \in Pairs
    <3>1. \A i \in 1..n : s[i] \in Pairs
      BY <1>6, ElementOfSeq
    <3>2. QED
      BY <2>0, <3>1
  <2>2. /\ SubSeq(s, Size + 1, n) \in Seq(Pairs)
        /\ Len(SubSeq(s, Size + 1, n)) = IF Size + 1 <= n THEN n - (Size + 1) + 1 ELSE 0
    BY <1>6, <2>0, <2>1, SubSeqProperties
  <2>3. (IF Size + 1 <= n THEN n - (Size + 1) + 1 ELSE 0) = n - Size
    BY <1>6, <2>0
  <2>4. QED
    BY <2>2, <2>3
<1>8. d = Pop(s, Size)
  BY <1>6, <1>7 DEF Pop
<1>9. Len(d) + Size = Len(s)
  BY <1>6, <1>7, SizePositive
<1>10. Carried(Append(h, m), d \o t, all)
  BY <1>3, <1>6, <1>7 DEF NextIs
<1>11. recvBuf[e][1][1] = m
  BY <1>1, <1>4
<1>12. Len(h) + 1 <= Len(all) /\ all[Len(h) + 1] = m /\ \A i \in 1..Len(h) : h[i] = all[i]
  BY <1>3 DEF NextIs
<1>13. InFront(e, all, m, d)
  BY <1>1, <1>5, <1>8, <1>9, <1>10, <1>11, <1>12 DEF InFront
<1>14. QED
  BY <1>13

(* The client meets an answer to a request that was handled, newer than    *)
(* those before.                                                           *)
ClientFront(all, m, d) ==
    /\ Rising(all, Len(handled["server"]))
    /\ InFront("client", all, m, d)

LEMMA ClientMeets ==
    ASSUME ClientInv, HasData(recvBuf["client"])
    PROVE  \E all \in Seq(Nat), m \in Nat, d \in Seq(Pairs) : ClientFront(all, m, d)
<1>1. PICK all \in Seq(Nat) :
        /\ Rising(all, Len(handled["server"]))
        /\ Carried(handled["client"], InFlight("client"), all)
  BY DEF ClientInv, Streams
<1>2. PICK m \in Nat, d \in Seq(Pairs) : InFront("client", all, m, d)
  <2>1. "client" \in Ends
    BY DEF Ends
  <2>2. QED
    BY <1>1, <2>1, FrontIs
<1>3. QED
  BY <1>1, <1>2 DEF ClientFront

(* The server meets the next request. *)
LEMMA ServerMeets ==
    ASSUME ClientInv, HasData(recvBuf["server"])
    PROVE  \E m \in Nat, d \in Seq(Pairs) :
             /\ InFront("server", Requests, m, d)
             /\ m = Len(handled["server"]) + 1 /\ m <= accepted * PerBatch
<1>0. "server" \in Ends /\ accepted \in Nat /\ handled["server"] \in Seq(Nat)
  BY DEF Ends, ClientInv, ClientTypeOK
<1>1. PICK n \in Nat : n = accepted * PerBatch
  BY <1>0, BatchIs
<1>2. PICK all \in Seq(Nat) : all = Requests /\ Len(all) = n /\ \A i \in 1..n : all[i] = i
  <2>1. From(0, n) \in Seq(Nat) /\ Len(From(0, n)) = n /\ \A i \in 1..n : From(0, n)[i] = i
    BY FromIndex
  <2>2. QED
    BY <1>1, <2>1 DEF Requests
<1>3. Carried(handled["server"], InFlight("server"), all)
  BY <1>2 DEF ClientInv, Streams
<1>4. PICK m \in Nat, d \in Seq(Pairs) : InFront("server", all, m, d)
  BY <1>0, <1>3, FrontIs
<1>5. PICK k \in Nat : k = Len(handled["server"])
  BY <1>0
<1>6. k + 1 <= n /\ all[k + 1] = m
  BY <1>2, <1>4, <1>5 DEF InFront
<1>7. k + 1 \in 1..n
  BY <1>6
<1>8. m = k + 1
  BY <1>2, <1>6, <1>7
<1>9. QED
  BY <1>1, <1>2, <1>4, <1>5, <1>6, <1>8

LEMMA ClientHandles == ASSUME ClientInv, HandleMessage("client") PROVE ClientInv'
<1> USE DEF ClientInv
<1>0. "client" \in Ends /\ "server" \in Ends
  BY DEF Ends
<1>1. PICK all \in Seq(Nat), m \in Nat, d \in Seq(Pairs) : ClientFront(all, m, d)
  BY ClientMeets DEF HandleMessage
<1>2. /\ UNCHANGED <<senderVars, spc, loaded, accepted, pc, writable, sendPos, sendLen, sndq, rcvq,
                     mem, lastPos>>
      /\ handled' = [handled EXCEPT !["client"] = Append(handled["client"], m)]
      /\ recvBuf' = [recvBuf EXCEPT !["client"] = d]
  BY <1>1 DEF HandleMessage, Respond, ClientFront, InFront, senderVars, pollVars, sendVars, kernelVars, outVars
<1>3. handled \in [Ends -> Seq(Nat)] /\ recvBuf \in [Ends -> Seq(Pairs)]
  BY DEF ClientTypeOK
<1>4. PICK h \in Seq(Nat) : h = Append(handled["client"], m)
  BY <1>0, <1>3, AppendProperties
<1>5. /\ handled' \in [Ends -> Seq(Nat)] /\ recvBuf' \in [Ends -> Seq(Pairs)]
      /\ handled'["client"] = h /\ recvBuf'["client"] = d
      /\ handled'["server"] = handled["server"] /\ recvBuf'["server"] = recvBuf["server"]
  BY <1>0, <1>2, <1>3, <1>4
<1>6. ClientTypeOK' /\ Sends'
  BY <1>2, <1>5 DEF ClientTypeOK, Sends
<1>7. Received'
  <2>1. Len(d) + Size = Len(recvBuf["client"])
    BY <1>1 DEF ClientFront, InFront
  <2>2. Len(d) <= BufSize
    <3>1. PICK r \in Seq(Pairs) : r = recvBuf["client"]
      BY <1>0, <1>3
    <3>2. Len(d) \in Nat /\ Len(r) \in Nat /\ BufSize \in Nat
      BY LenProperties, ClientAssumption
    <3>3. Len(d) + Size = Len(r) /\ Len(r) <= BufSize
      BY <1>0, <2>1, <3>1 DEF Received
    <3>4. QED
      BY <3>2, <3>3, SizePositive
  <2>3. QED
    BY <1>0, <1>5, <2>2 DEF Received, Ends
<1>8. Pushes'
  BY <1>2, PushesStay
<1>9. Streams'
  <2>1. \A x \in Ends : Unsent(x)' = Unsent(x)
    BY <1>2 DEF Unsent
  <2>2. Rest("client")' = Rest("client") /\ InFlight("server")' = InFlight("server")
    BY <1>0, <1>2, <1>5, <2>1, OtherEnd DEF Rest, InFlight
  <2>3. InFlight("client")' = d \o Rest("client")
    <3>1. PICK q \in Seq(Pairs), k \in Seq(Pairs), u \in Seq(Pairs) :
            q = rcvq["client"] /\ k = sndq["server"] /\ u = Unsent("server")
      BY <1>0, UnsentType
    <3>2. FlowFacts(d, q, k, u)
      BY FlowType
    <3>3. InFlight("client")' = Flow(d, q, k, u)
      BY <1>0, <1>2, <1>5, <2>1, <3>1, OtherEnd DEF InFlight, Flow
    <3>4. Rest("client") = (q \o k) \o u
      BY <3>1, OtherEnd DEF Rest
    <3>5. QED
      BY <3>2, <3>3, <3>4 DEF FlowFacts
  <2>4. Carried(handled["client"], InFlight("client"), all)'
    BY <1>1, <1>4, <1>5, <2>3 DEF ClientFront, InFront
  <2>5. Rising(all, Len(handled["server"]))'
    BY <1>1, <1>5 DEF ClientFront
  <2>6. Carried(handled["server"], InFlight("server"), Requests)'
    BY <1>2, <1>5, <2>2 DEF Streams, Requests
  <2>7. QED
    BY <2>4, <2>5, <2>6 DEF Streams
<1>10. QED
  BY <1>6, <1>7, <1>8, <1>9

-----------------------------------------------------------------------------

(* The answer to request n + 1 is put behind what the server has to send. *)
Answers(n) ==
    /\ mem' = [mem EXCEPT !["server"] = Copied(mem["server"], lastPos["server"], Bytes(n + 1, n + 1))]
    /\ lastPos' = [lastPos EXCEPT !["server"] = lastPos["server"] + Size]
    /\ lastPos["server"] + Size <= BufSize

LEMMA AnswerPut ==
    ASSUME ClientInv, NEW n \in Nat, Answers(n), pc["server"] = "msg", UNCHANGED sendPos
    PROVE  /\ mem' \in [Ends -> [1..BufSize -> Pairs]] /\ mem'["client"] = mem["client"]
           /\ lastPos' \in [Ends -> 0..BufSize] /\ lastPos'["client"] = lastPos["client"]
           /\ lastPos'["server"] = lastPos["server"] + Size
           /\ Unsent("server")' = Unsent("server") \o Bytes(n + 1, n + 1)
<1>0. "client" \in Ends /\ "server" \in Ends /\ ClientTypeOK /\ Sends
  BY DEF Ends, ClientInv
<1>1. /\ mem \in [Ends -> [1..BufSize -> Pairs]] /\ lastPos \in [Ends -> 0..BufSize]
      /\ mem["server"] \in [1..BufSize -> Pairs] /\ lastPos["server"] \in 0..BufSize
  BY <1>0 DEF ClientTypeOK
<1>2. PICK p \in Nat, b \in Seq(Pairs) :
        p = lastPos["server"] /\ b = Bytes(n + 1, n + 1) /\ Len(b) = Size /\ p + Size <= BufSize
  <2>1. lastPos["server"] \in Nat /\ lastPos["server"] + Size <= BufSize
    BY <1>1, ClientAssumption DEF Answers
  <2>2. QED
    BY <2>1, BytesOne
<1>3. CopyIs(mem["server"], p, b)
  BY <1>1, <1>2, CopyBehind
<1>4. PICK c \in [1..BufSize -> Pairs] : c = Copied(mem["server"], p, b)
  BY <1>3 DEF CopyIs
<1>5. SubSeq(c, 1, p + Size) = SubSeq(mem["server"], 1, p) \o b
  BY <1>2, <1>3, <1>4 DEF CopyIs
<1>6. /\ mem' \in [Ends -> [1..BufSize -> Pairs]] /\ mem'["server"] = c
      /\ mem'["client"] = mem["client"]
  <2>1. mem' = [mem EXCEPT !["server"] = c]
    BY <1>2, <1>4 DEF Answers
  <2>2. QED
    BY <1>0, <1>1, <2>1
<1>7. /\ lastPos' \in [Ends -> 0..BufSize] /\ lastPos'["client"] = lastPos["client"]
      /\ lastPos'["server"] = p + Size
  <2>1. lastPos' = [lastPos EXCEPT !["server"] = p + Size] /\ p + Size \in 0..BufSize
    BY <1>2, SizePositive, ClientAssumption DEF Answers
  <2>2. QED
    BY <1>0, <1>1, <2>1
<1>8. Unsent("server")' = Unsent("server") \o b
  <2>1. sendPos["server"] = 0 /\ sendPos'["server"] = 0
    BY <1>0 DEF Sends
  <2>2. Unsent("server") = SubSeq(mem["server"], 0 + 1, p)
    BY <1>2, <2>1 DEF Unsent
  <2>3. Unsent("server")' = SubSeq(c, 0 + 1, p + Size)
    BY <1>6, <1>7, <2>1 DEF Unsent
  <2>4. 0 + 1 = 1
    OBVIOUS
  <2>5. QED
    BY <1>5, <2>2, <2>3, <2>4
<1>9. QED
  BY <1>2, <1>6, <1>7, <1>8

LEMMA ServerHandles == ASSUME ClientInv, HandleMessage("server") PROVE ClientInv'
<1> USE DEF ClientInv
<1>0. "client" \in Ends /\ "server" \in Ends
  BY DEF Ends
<1>1. PICK m \in Nat, d \in Seq(Pairs) :
        InFront("server", Requests, m, d) /\ m = Len(handled["server"]) + 1
  BY ServerMeets DEF HandleMessage
<1>2. PICK n \in Nat : n = Len(handled["server"]) /\ m = n + 1
  <2>1. handled["server"] \in Seq(Nat)
    BY <1>0 DEF ClientTypeOK
  <2>2. QED
    BY <1>1, <2>1
<1>3. /\ UNCHANGED <<senderVars, spc, loaded, accepted, pc, writable, sendPos, sendLen, sndq, rcvq>>
      /\ pc["server"] = "msg"
      /\ handled' = [handled EXCEPT !["server"] = Append(handled["server"], m)]
      /\ recvBuf' = [recvBuf EXCEPT !["server"] = d]
      /\ Respond("server", m)
  BY <1>1 DEF HandleMessage, InFront, senderVars, pollVars, sendVars, kernelVars
<1>4. handled \in [Ends -> Seq(Nat)] /\ recvBuf \in [Ends -> Seq(Pairs)]
  BY DEF ClientTypeOK
<1>5. PICK h \in Seq(Nat) : h = Append(handled["server"], m) /\ Len(h) = n + 1
  <2>1. PICK g \in Seq(Nat) : g = handled["server"] /\ Len(g) = n
    BY <1>0, <1>2, <1>4
  <2>2. Append(g, m) \in Seq(Nat) /\ Len(Append(g, m)) = n + 1
    BY <2>1, AppendProperties
  <2>3. QED
    BY <2>1, <2>2
<1>6. /\ handled' \in [Ends -> Seq(Nat)] /\ recvBuf' \in [Ends -> Seq(Pairs)]
      /\ handled'["server"] = h /\ recvBuf'["server"] = d
      /\ handled'["client"] = handled["client"] /\ recvBuf'["client"] = recvBuf["client"]
  BY <1>0, <1>3, <1>4, <1>5
<1>7. Answers(n) \/ UNCHANGED <<mem, lastPos>>
  BY <1>2, <1>3 DEF Respond, Answers, PushFits, outVars
<1>8. /\ mem' \in [Ends -> [1..BufSize -> Pairs]] /\ mem'["client"] = mem["client"]
      /\ lastPos' \in [Ends -> 0..BufSize] /\ lastPos'["client"] = lastPos["client"]
      /\ lastPos'["server"] >= lastPos["server"]
  <2>1. CASE Answers(n)
    <3>1. lastPos["server"] \in Nat
      BY <1>0, ClientAssumption DEF ClientTypeOK
    <3>2. QED
      BY <1>3, <2>1, <3>1, AnswerPut, SizePositive
  <2>2. CASE UNCHANGED <<mem, lastPos>>
    <3>1. lastPos["server"] \in Nat
      BY <1>0, ClientAssumption DEF ClientTypeOK
    <3>2. QED
      BY <2>2, <3>1 DEF ClientTypeOK
  <2>3. QED
    BY <1>7, <2>1, <2>2
<1>9. ClientTypeOK'
  BY <1>3, <1>6, <1>8 DEF ClientTypeOK
<1>10. Received'
  <2>1. Len(d) + Size = Len(recvBuf["server"])
    BY <1>1 DEF InFront
  <2>2. Len(d) <= BufSize
    <3>1. PICK r \in Seq(Pairs) : r = recvBuf["server"]
      BY <1>0, <1>4
    <3>2. Len(d) \in Nat /\ Len(r) \in Nat /\ BufSize \in Nat
      BY LenProperties, ClientAssumption
    <3>3. Len(d) + Size = Len(r) /\ Len(r) <= BufSize
      BY <1>0, <2>1, <3>1 DEF Received
    <3>4. QED
      BY <3>2, <3>3, SizePositive
  <2>3. QED
    BY <1>0, <1>6, <2>2 DEF Received, Ends
<1>11. Sends'
  <2>1. lastPos["server"] \in Nat /\ lastPos'["server"] \in Nat
    BY <1>0, <1>8, ClientAssumption DEF ClientTypeOK
  <2>2. ASSUME NEW o \in Ends
        PROVE  /\ sendPos'[o] <= sendLen'[o]
               /\ pc'[o] = "send" => sendLen'[o] = lastPos'[o]
               /\ pc'[o] # "send" => sendPos'[o] = 0 /\ sendLen'[o] = 0
               /\ writable'[o] => lastPos'[o] > 0
               /\ pc'[o] \in {"write", "send"} => writable'[o]
    <3>1. CASE o = "client"
      BY <1>3, <1>8, <3>1 DEF Sends
    <3>2. CASE o = "server"
      <4>1. writable["server"] => lastPos["server"] > 0
        BY <1>0 DEF Sends
      <4>2. writable["server"] => lastPos'["server"] > 0
        BY <1>8, <2>1, <4>1
      <4>3. sendPos["server"] <= sendLen["server"] /\ sendPos["server"] = 0 /\ sendLen["server"] = 0
        BY <1>0, <1>3 DEF Sends
      <4>4. QED
        BY <1>3, <3>2, <4>2, <4>3
    <3>3. QED
      BY <3>1, <3>2 DEF Ends
  <2>3. QED
    BY <2>2 DEF Sends
<1>12. Pushes'
  <2>1. BatchBytes' = BatchBytes
    BY <1>3 DEF BatchBytes
  <2>2. QED
    BY <1>3, <1>8, <2>1 DEF Pushes
<1>13. Streams'
  <2>1. Unsent("client")' = Unsent("client")
    BY <1>3, <1>8 DEF Unsent
  <2>2. PICK q \in Seq(Pairs), k \in Seq(Pairs), u \in Seq(Pairs) :
          q = rcvq["server"] /\ k = sndq["client"] /\ u = Unsent("client")
    BY <1>0, UnsentType
  <2>3. InFlight("server")' = d \o Rest("server")
    <3>1. FlowFacts(d, q, k, u)
      BY FlowType
    <3>2. InFlight("server")' = Flow(d, q, k, u)
      BY <1>3, <1>6, <2>1, <2>2, OtherEnd DEF InFlight, Flow
    <3>3. Rest("server") = (q \o k) \o u
      BY <2>2, OtherEnd DEF Rest
    <3>4. QED
      BY <3>1, <3>2, <3>3 DEF FlowFacts
  <2>4. Carried(handled["server"], InFlight("server"), Requests)'
    <3>1. Carried(h, d \o Rest("server"), Requests)
      BY <1>1, <1>5 DEF InFront
    <3>2. Requests' = Requests
      BY <1>3 DEF Requests
    <3>3. QED
      BY <1>6, <2>3, <3>1, <3>2
  <2>5. PICK all \in Seq(Nat) :
          Rising(all, n) /\ Carried(handled["client"], InFlight("client"), all)
    BY <1>2 DEF Streams
  <2>6. Rising(all, n + 1) /\ Rising(Append(all, n + 1), n + 1)
    BY <2>5, RisingMore
  <2>7. Len(handled["server"])' = n + 1
    BY <1>5, <1>6
  <2>8. CASE Answers(n)
    <3>1. Unsent("server")' = Unsent("server") \o Bytes(n + 1, n + 1)
      BY <1>3, <2>8, AnswerPut
    <3>2. PICK b \in Seq(Pairs), one \in Seq(Nat) :
            b = Bytes(n + 1, n + 1) /\ one = <<n + 1>> /\ b = Whole(one)
      <4>1. <<n + 1>> \in Seq(Nat)
        OBVIOUS
      <4>2. QED
        BY <4>1, BytesOne
    <3>3. PICK r \in Seq(Pairs), x \in Seq(Pairs), s \in Seq(Pairs), v \in Seq(Pairs) :
            r = recvBuf["client"] /\ x = rcvq["client"] /\ s = sndq["server"] /\ v = Unsent("server")
      BY <1>0, UnsentType
    <3>4. FlowAdds(r, x, s, v, b) /\ FlowFacts(r, x, s, v)
      BY FlowAdd, FlowType
    <3>5. PICK f \in Seq(Pairs) : f = InFlight("client") /\ f = Flow(r, x, s, v)
      BY <3>3, <3>4, OtherEnd DEF InFlight, Flow, FlowFacts
    <3>6. InFlight("client")' = f \o b
      <4>1. InFlight("client")' = Flow(r, x, s, v \o b)
        BY <1>3, <1>6, <3>1, <3>2, <3>3, OtherEnd DEF InFlight, Flow
      <4>2. QED
        BY <3>4, <3>5, <4>1 DEF FlowAdds
    <3>7. PICK c \in Seq(Nat) : c = handled["client"] /\ Carried(c, f, all)
      BY <1>0, <1>4, <2>5, <3>5
    <3>8. Carried(c, f \o Whole(one), all \o one)
      BY <3>7, CarryAdd
    <3>9. all \o one = Append(all, n + 1) /\ Append(all, n + 1) \in Seq(Nat)
      BY <3>2, AppendIsConcat, AppendProperties
    <3>10. Carried(handled["client"], InFlight("client"), Append(all, n + 1))'
      BY <1>6, <3>2, <3>6, <3>7, <3>8, <3>9
    <3>11. Rising(Append(all, n + 1), Len(handled["server"]))'
      BY <2>6, <2>7
    <3>12. \E more \in Seq(Nat) :
             /\ Rising(more, Len(handled["server"])')
             /\ Carried(handled["client"]', InFlight("client")', more)
      BY <3>9, <3>10, <3>11
    <3>13. QED
      BY <2>4, <3>12 DEF Streams
  <2>9. CASE UNCHANGED <<mem, lastPos>>
    <3>1. Unsent("server")' = Unsent("server")
      BY <1>3, <2>9 DEF Unsent
    <3>2. InFlight("client")' = InFlight("client")
      BY <1>3, <1>6, <3>1, OtherEnd DEF InFlight
    <3>3. Carried(handled["client"], InFlight("client"), all)'
      BY <1>6, <2>5, <3>2
    <3>4. Rising(all, Len(handled["server"]))'
      BY <2>6, <2>7
    <3>5. QED
      BY <2>4, <3>3, <3>4 DEF Streams
  <2>10. QED
    BY <1>7, <2>8, <2>9
<1>14. QED
  BY <1>9, <1>10, <1>11, <1>12, <1>13

LEMMA HandleKeeps == ASSUME ClientInv, NEW e \in Ends, HandleMessage(e) PROVE ClientInv'
  BY ClientHandles, ServerHandles DEF Ends

LEMMA StutterKeeps == ASSUME ClientInv, UNCHANGED vars PROVE ClientInv'
<1> USE DEF ClientInv, vars
<1>1. ClientTypeOK' /\ Received' /\ Sends'
  BY DEF ClientTypeOK, Received, Sends
<1>2. Pushes'
  BY DEF Pushes, BatchBytes
<1>3. Streams'
  <2>1. \A x \in Ends : InFlight(x)' = InFlight(x)
    BY DEF InFlight, Unsent
  <2>2. QED
    BY <2>1, StreamsKept
<1>4. QED
  BY <1>1, <1>2, <1>3

LEMMA StepKeeps == ClientInv /\ [Next]_vars => ClientInv'
<1> SUFFICES ASSUME ClientInv, [Next]_vars PROVE ClientInv'
  OBVIOUS
<1>1. CASE SendData \/ SendDataFull
  BY <1>1, SendDataKeeps
<1>2. CASE PushStep
  BY <1>2, PushCopyKeeps, PushLoadKeeps, PushStoreKeeps DEF PushStep
<1>3. ASSUME NEW e \in Ends, LoopStep(e) \/ Deliver(e) PROVE ClientInv'
  BY <1>3, PollKeeps, RecvKeeps, HandleKeeps, HandleDoneKeeps, WriteKeeps, SendCopyKeeps, SendDoneKeeps,
     DeliverKeeps DEF LoopStep
<1>4. CASE UNCHANGED vars
  BY <1>4, StutterKeeps
<1>5. QED
  BY <1>1, <1>2, <1>3, <1>4 DEF Next

LEMMA AlwaysClientInv == Spec => []ClientInv
  BY HoldsFirst, StepKeeps, PTL DEF Spec

-----------------------------------------------------------------------------

(* The refinement. *)

LEMMA ReplyInit == Init => Connection!Init
<1> SUFFICES ASSUME Init PROVE Connection!Init
  OBVIOUS
<1>1. accepted * PerBatch = 0 /\ handled["server"] = <<>> /\ handled["client"] = <<>>
  BY ClientAssumption DEF Init, Ends
<1>2. QED
  BY <1>1 DEF Connection!Init

(* Steps that handle nothing and submit nothing. *)
LEMMA ReplyStutters ==
    ASSUME UNCHANGED <<accepted, handled>>
    PROVE  UNCHANGED <<accepted * PerBatch, handled["server"], handled["client"]>>
  OBVIOUS

LEMMA ReplyHandles == ASSUME ClientInv, HandleMessage("server") PROVE Connection!Handle
<1>1. PICK m \in Nat, d \in Seq(Pairs) :
        /\ InFront("server", Requests, m, d) /\ m = Len(handled["server"]) + 1
        /\ m <= accepted * PerBatch
  BY ServerMeets DEF HandleMessage
<1>2. handled \in [Ends -> Seq(Nat)] /\ "server" \in Ends /\ "client" \in Ends /\ accepted \in Nat
  BY DEF ClientInv, ClientTypeOK, Ends
<1>3. handled' = [handled EXCEPT !["server"] = Append(handled["server"], m)] /\ accepted' = accepted
  BY <1>1 DEF HandleMessage, InFront, senderVars
<1>4. handled'["server"] = Append(handled["server"], m) /\ handled'["client"] = handled["client"]
  BY <1>2, <1>3
<1>5. Len(handled["server"]) < accepted * PerBatch
  <2>1. PICK h \in Seq(Nat) : h = handled["server"]
    BY <1>2
  <2>2. Len(h) \in Nat /\ accepted * PerBatch \in Nat
    BY <1>2, LenProperties, BatchIs
  <2>3. QED
    BY <1>1, <2>1, <2>2
<1>6. QED
  BY <1>1, <1>3, <1>4, <1>5 DEF Connection!Handle

LEMMA ReplyAnswers == ASSUME ClientInv, HandleMessage("client") PROVE Connection!Answer
<1>1. PICK all \in Seq(Nat), m \in Nat, d \in Seq(Pairs) : ClientFront(all, m, d)
  BY ClientMeets DEF HandleMessage
<1>2. handled \in [Ends -> Seq(Nat)] /\ "server" \in Ends /\ "client" \in Ends
  BY DEF ClientInv, ClientTypeOK, Ends
<1>3. handled' = [handled EXCEPT !["client"] = Append(handled["client"], m)] /\ accepted' = accepted
  BY <1>1 DEF HandleMessage, ClientFront, InFront, senderVars
<1>4. handled'["client"] = Append(handled["client"], m) /\ handled'["server"] = handled["server"]
  BY <1>2, <1>3
<1>5. PICK k \in Nat, h \in Seq(Nat) : k = Len(h) /\ h = handled["client"]
  BY <1>2
<1>6. /\ k + 1 <= Len(all) /\ all[k + 1] = m /\ \A i \in 1..k : h[i] = all[i]
  BY <1>1, <1>5 DEF ClientFront, InFront
<1>7. k + 1 \in 1..Len(all)
  BY <1>6
<1>8. m \in 1..Len(handled["server"])
  BY <1>1, <1>6, <1>7 DEF ClientFront, Rising
<1>9. ASSUME h # <<>> PROVE m > h[Len(h)]
  <2>1. k \in 1..k /\ k \in 1..Len(all) /\ k < k + 1
    BY <1>5, <1>6, <1>9, EmptySeq
  <2>2. all[k] < all[k + 1]
    BY <1>1, <1>7, <2>1 DEF ClientFront, Rising
  <2>3. h[k] < m /\ h[k] \in Nat
    BY <1>5, <1>6, <2>1, <2>2, ElementOfSeq
  <2>4. QED
    BY <1>5, <2>3
<1>10. QED
  BY <1>3, <1>4, <1>5, <1>8, <1>9 DEF Connection!Answer

LEMMA ReplyStep ==
    ClientInv /\ [Next]_vars
      => [Connection!Next]_<<accepted * PerBatch, handled["server"], handled["client"]>>
<1> SUFFICES ASSUME ClientInv, [Next]_vars
             PROVE  [Connection!Next]_<<accepted * PerBatch, handled["server"], handled["client"]>>
  OBVIOUS
<1>1. CASE SendData \/ SendDataFull \/ PushCopy \/ PushLoad
  BY <1>1, ReplyStutters DEF SendData, SendDataFull, PushCopy, PushLoad, loopVars, inVars
<1>2. CASE PushStore
  <2>1. accepted' = accepted + 1 /\ handled' = handled /\ accepted \in Nat
    BY <1>2 DEF PushStore, inVars, ClientInv, ClientTypeOK
  <2>2. accepted' * PerBatch = accepted * PerBatch + PerBatch
    BY <2>1, BatchIs
  <2>3. Connection!Submit
    BY <2>1, <2>2 DEF Connection!Submit
  <2>4. QED
    BY <2>3 DEF Connection!Next
<1>3. ASSUME NEW e \in Ends, LoopStep(e) \/ Deliver(e)
      PROVE  [Connection!Next]_<<accepted * PerBatch, handled["server"], handled["client"]>>
  <2>1. CASE HandleMessage(e)
    BY <2>1, ReplyHandles, ReplyAnswers DEF Ends, Connection!Next
  <2>2. CASE Poll(e) \/ Deliver(e) \/ HandleDone(e) \/ Write(e) \/ SendCopy(e) \/ SendDone(e)
    BY <2>2, ReplyStutters
       DEF Poll, Deliver, HandleDone, Write, SendCopy, SendDone, senderVars, inVars
  <2>3. CASE Recv(e)
    BY <2>3, ReplyStutters DEF Recv, senderVars
  <2>4. QED
    BY <1>3, <2>1, <2>2, <2>3 DEF LoopStep
<1>4. CASE UNCHANGED vars
  BY <1>4, ReplyStutters DEF vars
<1>5. QED
  BY <1>1, <1>2, <1>3, <1>4 DEF Next, PushStep

(* What the client's answers and the server's requests come to, over two   *)
(* streams, two pairs of buffers and two threads in the client: a queue of *)
(* requests, each handled once, in order, and answered at most once.       *)
THEOREM ConnectionRefined == Spec => ImplementsRequestReply
  BY AlwaysClientInv, ReplyInit, ReplyStep, PTL DEF Spec, ImplementsRequestReply, Connection!Spec

-----------------------------------------------------------------------------

(* What the bytes of a connection amount to, end by end: kept in the       *)
(* receive buffer, come in, going out, and left in the send buffer.        *)
Kept(e) == Len(recvBuf[e])
Come(e) == Len(rcvq[e])
Going(e) == Len(sndq[e])
Left(e) == lastPos[e] - sendPos[e]

(* More than this the client never has on the way when it begins a send(). *)
Most == 3 * SockCap + 2 * BufSize + BatchLen + Size - 2

(* p and w are where the client is and whether it may write; the numbers   *)
(* are those of the client and then those of the server.                   *)
AmountsOf(p, w, kc, cc, gc, lc, ks, cs, gs, ls) ==
    /\ cc <= SockCap /\ cs <= SockCap /\ gc <= SockCap /\ gs <= SockCap
    /\ p # "msg" => kc < Size
    /\ kc + cc + gc + ks + cs + gs + ls <= Most
    /\ p \in {"write", "send"} => kc + cc + gc + lc + ks + cs + gs + ls <= Most
    /\ p = "msg" /\ w => cc + gc + ks + cs + gs + ls + Size - 1 + BatchLen <= Most
    /\ p \in {"recv", "msg"} /\ w => gc + cs <= 2 * SockCap - 1

Amounts ==
    AmountsOf(pc["client"], writable["client"],
              Kept("client"), Come("client"), Going("client"), Left("client"),
              Kept("server"), Come("server"), Going("server"), Left("server"))

(* What leaves the client alone, adds nothing and frees the way to the     *)
(* server: the server's steps and deliveries.                              *)
LEMMA AmountsSettle ==
    ASSUME NEW p, NEW w \in BOOLEAN,
           NEW kc \in Nat, NEW cc \in Nat, NEW gc \in Nat, NEW lc \in Nat,
           NEW ks \in Nat, NEW cs \in Nat, NEW gs \in Nat, NEW ls \in Nat,
           AmountsOf(p, w, kc, cc, gc, lc, ks, cs, gs, ls),
           NEW cc2 \in Nat, NEW gc2 \in Nat,
           NEW ks2 \in Nat, NEW cs2 \in Nat, NEW gs2 \in Nat, NEW ls2 \in Nat,
           cc2 <= SockCap, cs2 <= SockCap, gc2 <= SockCap, gs2 <= SockCap,
           gc2 + cs2 <= gc + cs,
           cc2 + gc2 + ks2 + cs2 + gs2 + ls2 <= cc + gc + ks + cs + gs + ls
    PROVE  AmountsOf(p, w, kc, cc2, gc2, lc, ks2, cs2, gs2, ls2)
<1>1. PICK m \in Int, b \in Nat : m = Most /\ b = BatchLen
  BY ClientAssumption DEF Most, BatchLen
<1>2. SockCap \in Nat /\ Size \in Nat
  BY ClientAssumption
<1>3. p # "msg" => kc < Size
  BY DEF AmountsOf
<1>4. kc + cc2 + gc2 + ks2 + cs2 + gs2 + ls2 <= m
  BY <1>1 DEF AmountsOf
<1>5. p \in {"write", "send"} => kc + cc2 + gc2 + lc + ks2 + cs2 + gs2 + ls2 <= m
  BY <1>1 DEF AmountsOf
<1>6. p = "msg" /\ w => cc2 + gc2 + ks2 + cs2 + gs2 + ls2 + Size - 1 + b <= m
  BY <1>1, <1>2 DEF AmountsOf
<1>7. p \in {"recv", "msg"} /\ w => gc2 + cs2 <= 2 * SockCap - 1
  BY <1>2 DEF AmountsOf
<1>8. QED
  BY <1>1, <1>3, <1>4, <1>5, <1>6, <1>7 DEF AmountsOf

LEMMA AmountNats ==
    ASSUME ClientInv, NEW e \in Ends
    PROVE  /\ Kept(e) \in Nat /\ Come(e) \in Nat /\ Going(e) \in Nat /\ Left(e) \in Nat
           /\ Kept(e) <= BufSize /\ Left(e) <= BufSize
           /\ writable[e] \in BOOLEAN
<1>0. ClientTypeOK /\ Received /\ Sends
  BY DEF ClientInv
<1>1. recvBuf[e] \in Seq(Pairs) /\ rcvq[e] \in Seq(Pairs) /\ sndq[e] \in Seq(Pairs)
      /\ lastPos[e] \in 0..BufSize /\ sendPos[e] \in 0..BufSize /\ BufSize \in Nat
  BY <1>0, UnsentType
<1>2. Kept(e) \in Nat /\ Come(e) \in Nat /\ Going(e) \in Nat
  BY <1>1, LenProperties DEF Kept, Come, Going
<1>3. Kept(e) <= BufSize
  BY <1>0 DEF Received, Kept
<1>4. sendPos[e] <= lastPos[e]
  <2>1. CASE pc[e] = "send"
    BY <1>0, <2>1 DEF Sends
  <2>2. CASE pc[e] # "send"
    BY <1>0, <1>1, <2>2 DEF Sends
  <2>3. QED
    BY <2>1, <2>2
<1>5. Left(e) \in Nat /\ Left(e) <= BufSize
  BY <1>1, <1>4 DEF Left
<1>6. QED
  BY <1>0, <1>2, <1>3, <1>5 DEF ClientTypeOK

(* n elements are taken from the front. *)
Taken(q, n) ==
    /\ Len(SubSeq(q, 1, n)) = n /\ Len(SubSeq(q, n + 1, Len(q))) = Len(q) - n
    /\ SubSeq(q, 1, n) \in Seq(Pairs) /\ SubSeq(q, n + 1, Len(q)) \in Seq(Pairs)

LEMMA Take ==
    ASSUME NEW q \in Seq(Pairs), NEW n \in Nat, n <= Len(q) PROVE Taken(q, n)
<1>1. PICK l \in Nat : l = Len(q) /\ n <= l
  OBVIOUS
<1>2. \A i \in 1..l : q[i] \in Pairs
  BY <1>1, ElementOfSeq
<1>3. (\A i \in 1..n : q[i] \in Pairs) /\ (\A i \in (n + 1)..l : q[i] \in Pairs)
  BY <1>1, <1>2
<1>4. /\ SubSeq(q, 1, n) \in Seq(Pairs)
      /\ Len(SubSeq(q, 1, n)) = IF 1 <= n THEN n - 1 + 1 ELSE 0
  BY <1>3, SubSeqProperties
<1>5. /\ SubSeq(q, n + 1, l) \in Seq(Pairs)
      /\ Len(SubSeq(q, n + 1, l)) = IF n + 1 <= l THEN l - (n + 1) + 1 ELSE 0
  BY <1>3, SubSeqProperties
<1>6. /\ (IF 1 <= n THEN n - 1 + 1 ELSE 0) = n
      /\ (IF n + 1 <= l THEN l - (n + 1) + 1 ELSE 0) = l - n
  BY <1>1
<1>7. QED
  BY <1>1, <1>4, <1>5, <1>6 DEF Taken

-----------------------------------------------------------------------------
(* What the steps move, in numbers. *)

LEMMA RecvMoves ==
    ASSUME ClientInv, NEW e \in Ends, Recv(e)
    PROVE  \E k \in Nat :
             /\ k <= Come(e) /\ (k = Come(e) \/ Kept(e) + k = BufSize)
             /\ Kept(e)' = Kept(e) + k /\ Come(e)' = Come(e) - k
             /\ Kept(Other(e))' = Kept(Other(e)) /\ Come(Other(e))' = Come(Other(e))
<1>0. PICK o \in Ends : o = Other(e) /\ o # e
  BY OtherEnd
<1>1. PICK r \in Seq(Pairs), q \in Seq(Pairs) : r = recvBuf[e] /\ q = rcvq[e]
  BY UnsentType DEF ClientInv
<1>2. PICK kc \in Nat, cc \in Nat :
        kc = Len(r) /\ cc = Len(q) /\ kc = Kept(e) /\ cc = Come(e) /\ kc <= BufSize
  BY <1>1, AmountNats DEF Kept, Come
<1>3. BufSize \in Nat
  BY ClientAssumption
<1>4. PICK k \in Nat : /\ k = AtMost(cc, BufSize - kc)
                       /\ k <= cc /\ (k = cc \/ kc + k = BufSize)
  BY <1>2, <1>3 DEF AtMost
<1>5. Taken(q, k)
  BY <1>2, <1>4, Take
<1>6. PICK a \in Seq(Pairs), b \in Seq(Pairs) :
        /\ a = SubSeq(q, 1, k) /\ b = SubSeq(q, k + 1, Len(q)) /\ Len(a) = k /\ Len(b) = cc - k
  BY <1>2, <1>5 DEF Taken
<1>7. PICK t \in Seq(Pairs) : t = r \o a /\ Len(t) = kc + k
  <2>1. r \o a \in Seq(Pairs) /\ Len(r \o a) = Len(r) + Len(a)
    BY ConcatProperties
  <2>2. QED
    BY <1>2, <1>6, <2>1
<1>8. recvBuf' = [recvBuf EXCEPT ![e] = t] /\ rcvq' = [rcvq EXCEPT ![e] = b]
  BY <1>1, <1>2, <1>4, <1>6, <1>7 DEF Recv
<1>9. /\ recvBuf'[e] = t /\ rcvq'[e] = b /\ recvBuf'[o] = recvBuf[o] /\ rcvq'[o] = rcvq[o]
  BY <1>0, <1>8 DEF ClientInv, ClientTypeOK
<1>10. Kept(e)' = kc + k /\ Come(e)' = cc - k /\ Kept(o)' = Kept(o) /\ Come(o)' = Come(o)
  BY <1>6, <1>7, <1>9 DEF Kept, Come
<1>11. QED
  BY <1>0, <1>2, <1>4, <1>10

LEMMA DeliverMoves ==
    ASSUME ClientInv, NEW e \in Ends, Deliver(e)
    PROVE  \E k \in Nat :
             /\ k <= Going(e) /\ Come(Other(e)) + k <= SockCap
             /\ Going(e)' = Going(e) - k /\ Come(Other(e))' = Come(Other(e)) + k
             /\ Going(Other(e))' = Going(Other(e)) /\ Come(e)' = Come(e)
<1>0. PICK o \in Ends : o = Other(e) /\ o # e
  BY OtherEnd
<1>1. PICK q \in Seq(Pairs), s \in Seq(Pairs) : q = rcvq[o] /\ s = sndq[e]
  BY UnsentType DEF ClientInv
<1>2. PICK k \in 1..Len(s) :
        /\ Len(q) + k <= SockCap
        /\ rcvq' = [rcvq EXCEPT ![o] = q \o SubSeq(s, 1, k)]
        /\ sndq' = [sndq EXCEPT ![e] = SubSeq(s, k + 1, Len(s))]
  BY <1>0, <1>1 DEF Deliver
<1>3. PICK n \in Nat : n = k /\ n <= Len(s)
  BY <1>2
<1>4. Taken(s, n)
  BY <1>3, Take
<1>5. PICK a \in Seq(Pairs), b \in Seq(Pairs) :
        /\ a = SubSeq(s, 1, k) /\ b = SubSeq(s, k + 1, Len(s))
        /\ Len(a) = n /\ Len(b) = Len(s) - n
  BY <1>3, <1>4 DEF Taken
<1>6. PICK t \in Seq(Pairs) : t = q \o a /\ Len(t) = Len(q) + n
  <2>1. q \o a \in Seq(Pairs) /\ Len(q \o a) = Len(q) + Len(a)
    BY ConcatProperties
  <2>2. QED
    BY <1>5, <2>1
<1>7. /\ rcvq'[o] = t /\ rcvq'[e] = rcvq[e] /\ sndq'[e] = b /\ sndq'[o] = sndq[o]
  BY <1>0, <1>2, <1>5, <1>6 DEF ClientInv, ClientTypeOK
<1>8. /\ Going(e)' = Going(e) - n /\ Come(o)' = Come(o) + n
      /\ Going(o)' = Going(o) /\ Come(e)' = Come(e)
  BY <1>1, <1>5, <1>6, <1>7 DEF Going, Come
<1>9. n <= Going(e) /\ Come(o) + n <= SockCap
  BY <1>1, <1>2, <1>3 DEF Going, Come
<1>10. QED
  BY <1>0, <1>8, <1>9

LEMMA SendMoves ==
    ASSUME ClientInv, NEW e \in Ends, SendCopy(e)
    PROVE  \E k \in Nat :
             /\ k <= Left(e) /\ Going(e) + k <= SockCap
             /\ Going(e)' = Going(e) + k /\ Left(e)' = Left(e) - k
             /\ Going(Other(e))' = Going(Other(e)) /\ Left(Other(e))' = Left(Other(e))
<1>0. PICK o \in Ends : o = Other(e) /\ o # e
  BY OtherEnd
<1>1. PICK n \in Nat, p \in Nat, b \in Seq(Pairs), g \in Nat :
        /\ n = lastPos[e] /\ n = sendLen[e] /\ p = sendPos[e] /\ b = mem[e]
        /\ p <= n /\ n <= BufSize /\ Len(b) = BufSize /\ g = Going(e)
  <2>1. sendLen[e] = lastPos[e] /\ sendPos[e] <= sendLen[e]
    BY DEF ClientInv, Sends, SendCopy
  <2>2. lastPos[e] \in 0..BufSize /\ sendPos[e] \in 0..BufSize /\ BufSize \in Nat
    BY UnsentType DEF ClientInv
  <2>3. mem[e] \in Seq(Pairs) /\ Len(mem[e]) = BufSize
    BY UnsentType DEF ClientInv
  <2>4. Going(e) \in Nat
    BY AmountNats
  <2>5. QED
    BY <2>1, <2>2, <2>3, <2>4
<1>2. BufSize \in Nat /\ SockCap \in Nat
  BY ClientAssumption
<1>3. PICK k \in Nat : k = AtMost(n - p, Room(e)) /\ k <= n - p /\ g + k <= SockCap
  <2>1. AtMost(n - p, Room(e)) > 0
    BY <1>1 DEF SendCopy
  <2>2. Room(e) = SockCap - g
    BY <1>1 DEF Room, Going
  <2>3. QED
    BY <1>1, <1>2, <2>1, <2>2 DEF AtMost
<1>4. PICK a \in Seq(Pairs) : a = SubSeq(b, p + 1, p + k) /\ Len(a) = k
  <2>1. \A i \in 1..BufSize : b[i] \in Pairs
    BY <1>1, ElementOfSeq
  <2>2. \A i \in (p + 1)..(p + k) : b[i] \in Pairs
    BY SMTT(30), <1>1, <1>2, <1>3, <2>1
  <2>3. /\ SubSeq(b, p + 1, p + k) \in Seq(Pairs)
        /\ Len(SubSeq(b, p + 1, p + k)) = IF p + 1 <= p + k THEN (p + k) - (p + 1) + 1 ELSE 0
    BY <2>2, SubSeqProperties
  <2>4. (IF p + 1 <= p + k THEN (p + k) - (p + 1) + 1 ELSE 0) = k
    OBVIOUS
  <2>5. QED
    BY <2>3, <2>4
<1>5. PICK s \in Seq(Pairs), t \in Seq(Pairs) : s = sndq[e] /\ t = s \o a /\ Len(t) = g + k
  <2>1. PICK s \in Seq(Pairs) : s = sndq[e]
    BY UnsentType DEF ClientInv
  <2>2. s \o a \in Seq(Pairs) /\ Len(s \o a) = Len(s) + Len(a) /\ Len(s) = g
    BY <1>1, <2>1, ConcatProperties DEF Going
  <2>3. QED
    BY <1>4, <2>1, <2>2
<1>6. /\ sndq' = [sndq EXCEPT ![e] = t] /\ sendPos' = [sendPos EXCEPT ![e] = p + k]
      /\ lastPos' = lastPos
  BY <1>1, <1>3, <1>4, <1>5 DEF SendCopy, outVars
<1>7. sndq'[e] = t /\ sendPos'[e] = p + k /\ sndq'[o] = sndq[o] /\ sendPos'[o] = sendPos[o]
  BY <1>0, <1>6 DEF ClientInv, ClientTypeOK
<1>8. /\ Going(e)' = g + k /\ Going(o)' = Going(o) /\ Left(o)' = Left(o)
  BY <1>5, <1>6, <1>7 DEF Going, Left
<1>9. Left(e) = n - p /\ Left(e)' = n - (p + k)
  BY <1>1, <1>6, <1>7 DEF Left
<1>10. Left(e)' = Left(e) - k /\ k <= Left(e)
  BY <1>1, <1>3, <1>9
<1>11. QED
  BY <1>0, <1>1, <1>3, <1>8, <1>10

-----------------------------------------------------------------------------

(* A full receive buffer takes more than a batch from the client's way: a  *)
(* batch and a message fit into a buffer, as 100 messages of 100 bytes and *)
(* one more fit into 10240 (client.cpp, crc_buffer.hpp).                   *)
BatchAndOne == BatchLen + Size <= BufSize + 1

LEMMA Naturals4 ==
    /\ SockCap \in Nat /\ BufSize \in Nat /\ Size \in Nat /\ Size > 0
    /\ BatchLen \in Nat /\ Most \in Int
  BY ClientAssumption DEF BatchLen, Most

AmountsKeep == ClientInv /\ Amounts /\ BatchAndOne

(* The numbers of both ends by short names. *)
Named(kc, cc, gc, lc, ks, cs, gs, ls) ==
    /\ kc = Kept("client") /\ cc = Come("client") /\ gc = Going("client") /\ lc = Left("client")
    /\ ks = Kept("server") /\ cs = Come("server") /\ gs = Going("server") /\ ls = Left("server")
    /\ kc <= BufSize /\ ks <= BufSize /\ ls <= BufSize /\ lc <= BufSize
    /\ AmountsOf(pc["client"], writable["client"], kc, cc, gc, lc, ks, cs, gs, ls)

LEMMA Names ==
    ASSUME AmountsKeep
    PROVE  \E kc, cc, gc, lc, ks, cs, gs, ls \in Nat : Named(kc, cc, gc, lc, ks, cs, gs, ls)
<1>1. "client" \in Ends /\ "server" \in Ends /\ ClientInv /\ Amounts
  BY DEF Ends, AmountsKeep
<1>2. /\ Kept("client") \in Nat /\ Come("client") \in Nat /\ Going("client") \in Nat
      /\ Left("client") \in Nat /\ Kept("server") \in Nat /\ Come("server") \in Nat
      /\ Going("server") \in Nat /\ Left("server") \in Nat
      /\ Kept("client") <= BufSize /\ Left("client") <= BufSize
      /\ Kept("server") <= BufSize /\ Left("server") <= BufSize
  BY <1>1, AmountNats
<1>3. Named(Kept("client"), Come("client"), Going("client"), Left("client"),
            Kept("server"), Come("server"), Going("server"), Left("server"))
  BY <1>1, <1>2 DEF Named, Amounts
<1>4. QED
  BY <1>2, <1>3

(* The client and how the numbers are afterwards. *)
After(p, w, kc, cc, gc, lc, ks, cs, gs, ls) ==
    /\ pc'["client"] = p /\ writable'["client"] = w
    /\ Kept("client")' = kc /\ Come("client")' = cc /\ Going("client")' = gc /\ Left("client")' = lc
    /\ Kept("server")' = ks /\ Come("server")' = cs /\ Going("server")' = gs /\ Left("server")' = ls

LEMMA AmountsAfter ==
    ASSUME NEW p, NEW w, NEW kc, NEW cc, NEW gc, NEW lc, NEW ks, NEW cs, NEW gs, NEW ls,
           After(p, w, kc, cc, gc, lc, ks, cs, gs, ls),
           AmountsOf(p, w, kc, cc, gc, lc, ks, cs, gs, ls)
    PROVE  Amounts'
  BY DEF After, Amounts, AmountsOf, Most, BatchLen

(* The steps of the server and of the network. *)
LEMMA NetAmounts ==
    ASSUME AmountsKeep, pc'["client"] = pc["client"], writable'["client"] = writable["client"],
           Kept("client")' = Kept("client"), Left("client")' = Left("client"),
           NEW cc2 \in Nat, NEW gc2 \in Nat,
           NEW ks2 \in Nat, NEW cs2 \in Nat, NEW gs2 \in Nat, NEW ls2 \in Nat,
           Come("client")' = cc2, Going("client")' = gc2, Kept("server")' = ks2,
           Come("server")' = cs2, Going("server")' = gs2, Left("server")' = ls2,
           cc2 <= SockCap, cs2 <= SockCap, gc2 <= SockCap, gs2 <= SockCap,
           gc2 + cs2 <= Going("client") + Come("server"),
           cc2 + gc2 + ks2 + cs2 + gs2 + ls2
             <= Come("client") + Going("client") + Kept("server") + Come("server")
                  + Going("server") + Left("server")
    PROVE  Amounts'
<1>1. PICK kc, cc, gc, lc, ks, cs, gs, ls \in Nat : Named(kc, cc, gc, lc, ks, cs, gs, ls)
  BY Names
<1>2. PICK p : p = pc["client"]
  OBVIOUS
<1>3. PICK w \in BOOLEAN : w = writable["client"]
  BY AmountNats DEF AmountsKeep, Ends
<1>4. AmountsOf(p, w, kc, cc, gc, lc, ks, cs, gs, ls)
  BY <1>1, <1>2, <1>3 DEF Named
<1>5. gc2 + cs2 <= gc + cs
      /\ cc2 + gc2 + ks2 + cs2 + gs2 + ls2 <= cc + gc + ks + cs + gs + ls
  BY <1>1 DEF Named
<1>6. AmountsOf(p, w, kc, cc2, gc2, lc, ks2, cs2, gs2, ls2)
  BY <1>4, <1>5, AmountsSettle
<1>7. After(p, w, kc, cc2, gc2, lc, ks2, cs2, gs2, ls2)
  BY <1>1, <1>2, <1>3 DEF After, Named
<1>8. QED
  BY <1>6, <1>7, AmountsAfter

LEMMA DeliverAmounts == ASSUME AmountsKeep, NEW e \in Ends, Deliver(e) PROVE Amounts'
<1>1. PICK kc, cc, gc, lc, ks, cs, gs, ls \in Nat : Named(kc, cc, gc, lc, ks, cs, gs, ls)
  BY Names
<1>2. PICK k \in Nat :
        /\ k <= Going(e) /\ Come(Other(e)) + k <= SockCap
        /\ Going(e)' = Going(e) - k /\ Come(Other(e))' = Come(Other(e)) + k
        /\ Going(Other(e))' = Going(Other(e)) /\ Come(e)' = Come(e)
  BY DeliverMoves DEF AmountsKeep
<1>3. /\ pc'["client"] = pc["client"] /\ writable'["client"] = writable["client"]
      /\ Kept("client")' = Kept("client") /\ Left("client")' = Left("client")
      /\ Kept("server")' = Kept("server") /\ Left("server")' = Left("server")
  BY DEF Deliver, pollVars, inVars, outVars, sendVars, Kept, Left
<1>4. SockCap \in Nat /\ cc <= SockCap /\ cs <= SockCap /\ gc <= SockCap /\ gs <= SockCap
  BY <1>1, Naturals4 DEF Named, AmountsOf
<1>5. CASE e = "client"
  <2>1. k <= gc /\ cs + k <= SockCap /\ gc - k \in Nat
    BY <1>1, <1>2, <1>5, OtherEnd DEF Named
  <2>2. Going("client")' = gc - k /\ Come("server")' = cs + k /\ Going("server")' = gs
        /\ Come("client")' = cc /\ Kept("server")' = ks /\ Left("server")' = ls
    BY <1>1, <1>2, <1>3, <1>5, OtherEnd DEF Named
  <2>3. PICK gc2 \in Nat, cs2 \in Nat : gc2 = gc - k /\ cs2 = cs + k
    BY <2>1
  <2>4. gc2 <= SockCap /\ cs2 <= SockCap /\ gc2 + cs2 <= gc + cs
        /\ cc + gc2 + ks + cs2 + gs + ls <= cc + gc + ks + cs + gs + ls
    BY <1>4, <2>1, <2>3
  <2>5. gc2 + cs2 <= Going("client") + Come("server")
        /\ cc + gc2 + ks + cs2 + gs + ls
             <= Come("client") + Going("client") + Kept("server") + Come("server")
                  + Going("server") + Left("server")
    BY <1>1, <2>4 DEF Named
  <2>6. QED
    BY <1>3, <1>4, <2>2, <2>3, <2>4, <2>5, NetAmounts
<1>6. CASE e = "server"
  <2>1. k <= gs /\ cc + k <= SockCap /\ gs - k \in Nat
    BY <1>1, <1>2, <1>6, OtherEnd DEF Named
  <2>2. Going("server")' = gs - k /\ Come("client")' = cc + k /\ Going("client")' = gc
        /\ Come("server")' = cs /\ Kept("server")' = ks /\ Left("server")' = ls
    BY <1>1, <1>2, <1>3, <1>6, OtherEnd DEF Named
  <2>3. PICK gs2 \in Nat, cc2 \in Nat : gs2 = gs - k /\ cc2 = cc + k
    BY <2>1
  <2>4. gs2 <= SockCap /\ cc2 <= SockCap
        /\ cc2 + gc + ks + cs + gs2 + ls <= cc + gc + ks + cs + gs + ls
    BY <1>4, <2>1, <2>3
  <2>5. gc + cs <= Going("client") + Come("server")
        /\ cc2 + gc + ks + cs + gs2 + ls
             <= Come("client") + Going("client") + Kept("server") + Come("server")
                  + Going("server") + Left("server")
    BY <1>1, <2>4 DEF Named
  <2>6. QED
    BY <1>3, <1>4, <2>2, <2>3, <2>4, <2>5, NetAmounts
<1>7. QED
  BY <1>5, <1>6 DEF Ends

(* The steps of the server's loop. *)
LEMMA ServerAmounts == ASSUME AmountsKeep, LoopStep("server") PROVE Amounts'
<1>0. "client" \in Ends /\ "server" \in Ends /\ ClientInv
  BY DEF Ends, AmountsKeep
<1>1. PICK kc, cc, gc, lc, ks, cs, gs, ls \in Nat : Named(kc, cc, gc, lc, ks, cs, gs, ls)
  BY Names
<1>2. SockCap \in Nat /\ Size \in Nat /\ cc <= SockCap /\ cs <= SockCap /\ gc <= SockCap /\ gs <= SockCap
  BY <1>1, Naturals4 DEF Named, AmountsOf
<1>3. pc'["client"] = pc["client"] /\ writable'["client"] = writable["client"]
  BY <1>0 DEF LoopStep, Poll, Recv, HandleMessage, HandleDone, Write, SendCopy, SendDone, pollVars,
              ClientInv, ClientTypeOK
<1>4. ASSUME Kept("client")' = kc, Left("client")' = lc, Come("client")' = cc, Going("client")' = gc,
             NEW ks2 \in Nat, NEW cs2 \in Nat, NEW gs2 \in Nat, NEW ls2 \in Nat,
             Kept("server")' = ks2, Come("server")' = cs2, Going("server")' = gs2, Left("server")' = ls2,
             cs2 <= cs, gs2 <= SockCap, ks2 + cs2 + gs2 + ls2 <= ks + cs + gs + ls
      PROVE  Amounts'
  <2>1. /\ cs2 <= SockCap /\ gc + cs2 <= gc + cs
        /\ cc + gc + ks2 + cs2 + gs2 + ls2 <= cc + gc + ks + cs + gs + ls
    BY <1>2, <1>4
  <2>2. /\ gc + cs2 <= Going("client") + Come("server")
        /\ cc + gc + ks2 + cs2 + gs2 + ls2
             <= Come("client") + Going("client") + Kept("server") + Come("server")
                  + Going("server") + Left("server")
    BY <1>1, <2>1 DEF Named
  <2>3. Kept("client")' = Kept("client") /\ Left("client")' = Left("client")
    BY <1>1, <1>4 DEF Named
  <2>4. QED
    BY SMTT(30), <1>2, <1>3, <1>4, <2>1, <2>2, <2>3, NetAmounts
<1>5. CASE Poll("server") \/ HandleDone("server") \/ Write("server")
  <2>1. UNCHANGED <<recvBuf, rcvq, sndq, lastPos, sendPos>>
    BY <1>5 DEF Poll, HandleDone, Write, outVars, sendVars, kernelVars, inVars
  <2>2. /\ Kept("client")' = kc /\ Left("client")' = lc /\ Come("client")' = cc /\ Going("client")' = gc
        /\ Kept("server")' = ks /\ Come("server")' = cs /\ Going("server")' = gs /\ Left("server")' = ls
    BY <1>1, <2>1 DEF Named, Kept, Left, Come, Going
  <2>3. cs <= cs /\ ks + cs + gs + ls <= ks + cs + gs + ls
    OBVIOUS
  <2>4. QED
    BY <1>2, <1>4, <2>2, <2>3
<1>6. CASE Recv("server")
  <2>1. PICK k \in Nat :
          /\ k <= Come("server")
          /\ Kept("server")' = Kept("server") + k /\ Come("server")' = Come("server") - k
          /\ Kept("client")' = Kept("client") /\ Come("client")' = Come("client")
    BY <1>0, <1>6, RecvMoves, OtherEnd
  <2>2. UNCHANGED <<sndq, lastPos, sendPos>>
    BY <1>6 DEF Recv, outVars, sendVars
  <2>3. k <= cs /\ cs - k \in Nat
    BY <1>1, <2>1 DEF Named
  <2>4. PICK ks2 \in Nat, cs2 \in Nat : ks2 = ks + k /\ cs2 = cs - k
    BY <2>3
  <2>5. /\ Kept("client")' = kc /\ Left("client")' = lc /\ Come("client")' = cc /\ Going("client")' = gc
        /\ Kept("server")' = ks2 /\ Come("server")' = cs2 /\ Going("server")' = gs /\ Left("server")' = ls
    BY <1>1, <2>1, <2>2, <2>4 DEF Named, Left, Going
  <2>6. cs2 <= cs /\ ks2 + cs2 + gs + ls <= ks + cs + gs + ls
    BY <2>3, <2>4
  <2>7. QED
    BY <1>2, <1>4, <2>5, <2>6
<1>7. CASE HandleMessage("server")
  <2>1. PICK m \in Nat, d \in Seq(Pairs) :
          InFront("server", Requests, m, d) /\ m = Len(handled["server"]) + 1
    BY <1>0, <1>7, ServerMeets DEF HandleMessage
  <2>2. /\ recvBuf' = [recvBuf EXCEPT !["server"] = d] /\ Len(d) + Size = Kept("server")
        /\ UNCHANGED <<sndq, rcvq, sendPos>> /\ Respond("server", m)
    BY <1>7, <2>1 DEF HandleMessage, InFront, Kept, sendVars, kernelVars
  <2>3. recvBuf'["server"] = d /\ recvBuf'["client"] = recvBuf["client"] /\ Len(d) \in Nat
    BY <1>0, <2>2, LenProperties DEF ClientInv, ClientTypeOK
  <2>4. PICK ks2 \in Nat : ks2 = Len(d) /\ ks2 + Size = ks /\ Kept("server")' = ks2
    BY <1>1, <2>2, <2>3 DEF Named, Kept
  <2>5. /\ Kept("client")' = kc /\ Come("client")' = cc /\ Going("client")' = gc
        /\ Come("server")' = cs /\ Going("server")' = gs
    BY <1>1, <2>2, <2>3 DEF Named, Kept, Come, Going
  <2>6. lastPos \in [Ends -> 0..BufSize] /\ sendPos["server"] \in 0..BufSize /\ lastPos["server"] \in 0..BufSize
        /\ BufSize \in Nat
    BY <1>0, Naturals4 DEF ClientInv, ClientTypeOK
  <2>7. PICK ls2 \in Nat : ls2 <= ls + Size /\ Left("server")' = ls2 /\ Left("client")' = lc
    <3>1. CASE lastPos' = [lastPos EXCEPT !["server"] = lastPos["server"] + Size]
      <4>1. lastPos'["server"] = lastPos["server"] + Size /\ lastPos'["client"] = lastPos["client"]
        BY <1>0, <2>6, <3>1
      <4>2. Left("server")' = (lastPos["server"] + Size) - sendPos["server"]
            /\ Left("client")' = Left("client")
        <5>1. sendPos' = sendPos
          BY <2>2
        <5>2. Left("server")' = lastPos'["server"] - sendPos'["server"]
              /\ Left("client")' = lastPos'["client"] - sendPos'["client"]
              /\ Left("client") = lastPos["client"] - sendPos["client"]
          BY DEF Left
        <5>3. QED
          BY <4>1, <5>1, <5>2, Zenon
      <4>3. ls = lastPos["server"] - sendPos["server"] /\ lc = Left("client")
        <5>1. ls = Left("server") /\ lc = Left("client")
          BY <1>1 DEF Named
        <5>2. QED
          BY <5>1 DEF Left
      <4>4. PICK lp \in Nat, sp \in Nat : lp = lastPos["server"] /\ sp = sendPos["server"]
        BY <2>6
      <4>5. (lp + Size) - sp = ls + Size
        <5>1. ls = lp - sp
          BY <4>3, <4>4
        <5>2. QED
          BY <1>2, <5>1
      <4>6. Left("server")' = ls + Size /\ Left("client")' = lc
        BY <4>2, <4>3, <4>4, <4>5
      <4>7. QED
        BY <1>2, <4>6
    <3>2. CASE UNCHANGED lastPos
      <4>1. Left("server")' = ls /\ Left("client")' = lc
        BY <1>1, <2>2, <3>2 DEF Named, Left
      <4>2. QED
        BY <1>2, <4>1
    <3>3. QED
      BY <2>2, <3>1, <3>2 DEF Respond, outVars
  <2>8. cs <= cs /\ ks2 + cs + gs + ls2 <= ks + cs + gs + ls
    BY <1>2, <2>4, <2>7
  <2>9. QED
    BY <1>2, <1>4, <2>4, <2>5, <2>7, <2>8
<1>8. CASE SendCopy("server")
  <2>1. PICK k \in Nat :
          /\ k <= Left("server") /\ Going("server") + k <= SockCap
          /\ Going("server")' = Going("server") + k /\ Left("server")' = Left("server") - k
          /\ Going("client")' = Going("client") /\ Left("client")' = Left("client")
    BY <1>0, <1>8, SendMoves, OtherEnd
  <2>2. UNCHANGED <<recvBuf, rcvq>>
    BY <1>8 DEF SendCopy, inVars
  <2>3. k <= ls /\ ls - k \in Nat /\ gs + k <= SockCap
    BY <1>1, <2>1 DEF Named
  <2>4. PICK gs2 \in Nat, ls2 \in Nat : gs2 = gs + k /\ ls2 = ls - k
    BY <2>3
  <2>5. /\ Kept("client")' = kc /\ Left("client")' = lc /\ Come("client")' = cc /\ Going("client")' = gc
        /\ Kept("server")' = ks /\ Come("server")' = cs /\ Going("server")' = gs2 /\ Left("server")' = ls2
    BY <1>1, <2>1, <2>2, <2>4 DEF Named, Kept, Come
  <2>6. cs <= cs /\ gs2 <= SockCap /\ ks + cs + gs2 + ls2 <= ks + cs + gs + ls
    BY <2>3, <2>4
  <2>7. QED
    BY <1>4, <2>5, <2>6
<1>9. CASE SendDone("server")
  <2>1. /\ UNCHANGED <<recvBuf, rcvq, sndq>>
        /\ lastPos' = [lastPos EXCEPT !["server"] = 0] /\ sendPos' = [sendPos EXCEPT !["server"] = 0]
    BY <1>9 DEF SendDone, kernelVars, inVars
  <2>2. /\ lastPos'["server"] = 0 /\ sendPos'["server"] = 0
        /\ lastPos'["client"] = lastPos["client"] /\ sendPos'["client"] = sendPos["client"]
    BY <1>0, <2>1 DEF ClientInv, ClientTypeOK
  <2>3. /\ Kept("client")' = kc /\ Left("client")' = lc /\ Come("client")' = cc /\ Going("client")' = gc
        /\ Kept("server")' = ks /\ Come("server")' = cs /\ Going("server")' = gs
    BY <1>1, <2>1, <2>2 DEF Named, Kept, Left, Come, Going
  <2>4. Left("server")' = 0
    BY <2>2 DEF Left
  <2>5. cs <= cs /\ ks + cs + gs + 0 <= ks + cs + gs + ls
    OBVIOUS
  <2>6. QED
    BY <1>2, <1>4, <2>3, <2>4, <2>5
<1>10. QED
  BY <1>5, <1>6, <1>7, <1>8, <1>9 DEF LoopStep

-----------------------------------------------------------------------------

(* The steps of the client. *)

LEMMA AmountsFirst == Init => Amounts
<1> SUFFICES ASSUME Init PROVE Amounts
  OBVIOUS
<1>1. /\ pc["client"] = "poll"
      /\ recvBuf["client"] = <<>> /\ recvBuf["server"] = <<>> /\ rcvq["client"] = <<>>
      /\ rcvq["server"] = <<>> /\ sndq["client"] = <<>> /\ sndq["server"] = <<>>
      /\ lastPos["client"] = 0 /\ lastPos["server"] = 0
      /\ sendPos["client"] = 0 /\ sendPos["server"] = 0
  BY DEF Init, Ends
<1>2. /\ Kept("client") = 0 /\ Come("client") = 0 /\ Going("client") = 0 /\ Left("client") = 0
      /\ Kept("server") = 0 /\ Come("server") = 0 /\ Going("server") = 0 /\ Left("server") = 0
  BY <1>1, EmptySeq DEF Kept, Come, Going, Left
<1>3. SockCap >= 1 /\ Most >= 0
  <2>1. SockCap \in Nat /\ SockCap >= 1
    BY ClientAssumption
  <2>2. PICK b \in Nat : b = BatchLen
    BY Naturals4
  <2>3. QED
    BY <2>1, <2>2, Naturals4 DEF Most
<1>4. AmountsOf("poll", writable["client"], 0, 0, 0, 0, 0, 0, 0, 0)
  BY <1>3, Naturals4 DEF AmountsOf
<1>5. QED
  BY <1>1, <1>2, <1>4 DEF Amounts

(* A receive buffer that holds no message is shorter than one. *)
LEMMA NoMessage ==
    ASSUME ClientInv, NEW e \in Ends, ~HasData(recvBuf[e]) PROVE Kept(e) < Size
<1>0. ClientTypeOK
  BY DEF ClientInv
<1>1. PICK s \in Seq(Pairs), t \in Seq(Pairs) :
        s = recvBuf[e] /\ t = Rest(e) /\ InFlight(e) = s \o t
  <2>1. recvBuf[e] \in Seq(Pairs)
    BY <1>0 DEF ClientTypeOK
  <2>2. QED
    BY <1>0, <2>1, RestType
<1>2. PICK ms \in Seq(Nat) : s \o t = Whole(ms)
  <2>1. \E all : Carried(handled[e], InFlight(e), all)
    BY DEF ClientInv, Streams, Ends
  <2>2. QED
    BY <1>1, <2>1 DEF Carried
<1>3. PICK n \in Nat : n = Len(s) /\ n = Kept(e)
  BY <1>1 DEF Kept
<1>4. CASE n < Header
  BY <1>3, <1>4, SizePositive
<1>5. CASE n >= Header
  <2>1. Len(s) >= 1
    BY <1>3, <1>5, SizePositive
  <2>2. PICK m \in Nat, ns \in Seq(Nat) : CutOff(s, t, m, ns)
    BY <1>2, <2>1, CutWhole
  <2>3. DataLength(s) = Size
    BY <2>2 DEF CutOff, DataLength
  <2>4. ~(n >= Size)
    BY <1>1, <1>3, <1>5, <2>3 DEF HasData
  <2>5. QED
    BY <1>3, <2>4, SizePositive
<1>6. QED
  BY <1>3, <1>4, <1>5, SizePositive

(* A client that may write has one batch to write. *)
LEMMA OneBatchLeft ==
    ASSUME ClientInv, writable["client"] \/ lastPos["client"] > 0, pc["client"] # "send"
    PROVE  Left("client") = BatchLen
<1>1. "client" \in Ends /\ Sends /\ Pushes
  BY DEF Ends, ClientInv
<1>2. lastPos["client"] > 0 /\ sendPos["client"] = 0
  BY <1>1 DEF Sends
<1>3. lastPos["client"] = BatchLen
  BY <1>1, <1>2 DEF Pushes
<1>4. QED
  BY <1>2, <1>3, Naturals4 DEF Left

LEMMA ClientPolls == ASSUME AmountsKeep, Poll("client") PROVE Amounts'
<1>0. "client" \in Ends /\ "server" \in Ends /\ ClientInv /\ ClientTypeOK
  BY DEF Ends, AmountsKeep, ClientInv
<1>1. PICK kc, cc, gc, lc, ks, cs, gs, ls \in Nat : Named(kc, cc, gc, lc, ks, cs, gs, ls)
  BY Names
<1>2. /\ pc["client"] = "poll"
      /\ writable'["client"] = CanWrite("client")
      /\ pc'["client"] = IF Readable("client") THEN "recv" ELSE "write"
      /\ Readable("client") \/ CanWrite("client")
      /\ UNCHANGED <<recvBuf, rcvq, sndq, lastPos, sendPos>>
  BY <1>0 DEF Poll, ClientTypeOK, outVars, sendVars, kernelVars, inVars
<1>3. /\ Kept("client")' = kc /\ Left("client")' = lc /\ Come("client")' = cc /\ Going("client")' = gc
      /\ Kept("server")' = ks /\ Come("server")' = cs /\ Going("server")' = gs /\ Left("server")' = ls
  BY <1>1, <1>2 DEF Named, Kept, Left, Come, Going
<1>4. PICK w : w = CanWrite("client")
  OBVIOUS
<1>5. w => gc + 1 <= SockCap /\ lc = BatchLen
  <2>1. SUFFICES ASSUME w PROVE gc + 1 <= SockCap /\ lc = BatchLen
    OBVIOUS
  <2>2. lastPos["client"] > 0 /\ SockCap - gc > 0
    BY <1>1, <1>4, <2>1 DEF CanWrite, AskWrite, Room, Named, Going
  <2>3. lc = BatchLen
    BY <1>0, <1>1, <1>2, <2>2, OneBatchLeft DEF Named
  <2>4. QED
    BY <2>2, <2>3, Naturals4
<1>6. PICK b \in Nat, mst \in Int :
        b = BatchLen /\ mst = Most /\ mst = 3 * SockCap + 2 * BufSize + b + Size - 2
  BY Naturals4 DEF Most
<1>7. AmountsOf("poll", writable["client"], kc, cc, gc, lc, ks, cs, gs, ls)
      /\ ks <= BufSize /\ ls <= BufSize
  BY <1>1, <1>2 DEF Named
<1>8. /\ cc <= SockCap /\ cs <= SockCap /\ gc <= SockCap /\ gs <= SockCap /\ kc < Size
      /\ kc + cc + gc + ks + cs + gs + ls <= mst
  BY <1>6, <1>7 DEF AmountsOf
<1>9. CASE Readable("client")
  <2>1. w => gc + cs <= 2 * SockCap - 1
    BY <1>5, <1>8, Naturals4
  <2>2. AmountsOf("recv", w, kc, cc, gc, lc, ks, cs, gs, ls)
    BY <1>6, <1>8, <2>1 DEF AmountsOf
  <2>3. After("recv", w, kc, cc, gc, lc, ks, cs, gs, ls)
    BY <1>2, <1>3, <1>4, <1>9 DEF After
  <2>4. QED
    BY <2>2, <2>3, AmountsAfter
<1>10. CASE ~Readable("client")
  <2>1. cc = 0
    <3>1. rcvq["client"] = <<>>
      BY <1>10 DEF Readable
    <3>2. QED
      BY <1>1, <3>1, EmptySeq DEF Named, Come
  <2>2. w
    BY <1>2, <1>4, <1>10
  <2>3. kc + cc + gc + lc + ks + cs + gs + ls <= mst
    BY <1>5, <1>6, <1>7, <1>8, <2>1, <2>2, Naturals4
  <2>4. AmountsOf("write", w, kc, cc, gc, lc, ks, cs, gs, ls)
    BY <1>6, <1>8, <2>3 DEF AmountsOf
  <2>5. After("write", w, kc, cc, gc, lc, ks, cs, gs, ls)
    BY <1>2, <1>3, <1>4, <1>10 DEF After
  <2>6. QED
    BY <2>4, <2>5, AmountsAfter
<1>11. QED
  BY <1>9, <1>10

LEMMA ClientReceives == ASSUME AmountsKeep, Recv("client") PROVE Amounts'
<1>0. "client" \in Ends /\ "server" \in Ends /\ ClientInv /\ ClientTypeOK /\ BatchAndOne
  BY DEF Ends, AmountsKeep, ClientInv
<1>1. PICK kc, cc, gc, lc, ks, cs, gs, ls \in Nat : Named(kc, cc, gc, lc, ks, cs, gs, ls)
  BY Names
<1>2. PICK k \in Nat :
        /\ k <= Come("client") /\ (k = Come("client") \/ Kept("client") + k = BufSize)
        /\ Kept("client")' = Kept("client") + k /\ Come("client")' = Come("client") - k
        /\ Kept("server")' = Kept("server") /\ Come("server")' = Come("server")
  BY <1>0, RecvMoves, OtherEnd
<1>3. /\ pc["client"] = "recv" /\ pc'["client"] = "msg" /\ writable' = writable
      /\ UNCHANGED <<sndq, lastPos, sendPos>>
  BY <1>0 DEF Recv, ClientTypeOK, outVars, sendVars
<1>4. PICK kc2 \in Nat, cc2 \in Nat :
        kc2 = kc + k /\ cc2 = cc - k /\ (cc2 = 0 \/ kc2 = BufSize)
  <2>1. k <= cc /\ (k = cc \/ kc + k = BufSize)
    BY <1>1, <1>2 DEF Named
  <2>2. kc + k \in Nat /\ cc - k \in Nat /\ (cc - k = 0 \/ kc + k = BufSize)
    BY <2>1
  <2>3. QED
    BY <2>2
<1>5. /\ Kept("client")' = kc2 /\ Left("client")' = lc /\ Come("client")' = cc2 /\ Going("client")' = gc
      /\ Kept("server")' = ks /\ Come("server")' = cs /\ Going("server")' = gs /\ Left("server")' = ls
  BY <1>1, <1>2, <1>3, <1>4 DEF Named, Left, Going
<1>6. PICK b \in Nat, mst \in Int :
        b = BatchLen /\ mst = Most /\ mst = 3 * SockCap + 2 * BufSize + b + Size - 2
  BY Naturals4 DEF Most
<1>7. PICK w \in BOOLEAN : w = writable["client"]
  BY <1>0, AmountNats
<1>8. AmountsOf("recv", w, kc, cc, gc, lc, ks, cs, gs, ls) /\ ks <= BufSize /\ ls <= BufSize
  BY <1>1, <1>3, <1>7 DEF Named
<1>9. /\ cc <= SockCap /\ cs <= SockCap /\ gc <= SockCap /\ gs <= SockCap /\ kc < Size
      /\ kc + cc + gc + ks + cs + gs + ls <= mst
      /\ w => gc + cs <= 2 * SockCap - 1
  BY <1>6, <1>8 DEF AmountsOf
<1>10. cc2 <= SockCap /\ kc2 + cc2 = kc + cc
  BY <1>4, <1>9, Naturals4
<1>11. w => cc2 + gc + ks + cs + gs + ls + Size - 1 + b <= mst
  <2>1. SUFFICES ASSUME w PROVE cc2 + gc + ks + cs + gs + ls + Size - 1 + b <= mst
    OBVIOUS
  <2>2. CASE cc2 = 0
    BY <1>6, <1>8, <1>9, <2>1, <2>2, Naturals4
  <2>3. CASE kc2 = BufSize
    <3>1. b + Size <= BufSize + 1
      BY <1>0, <1>6 DEF BatchAndOne
    <3>2. QED
      BY <1>9, <1>10, <2>3, <3>1, Naturals4
  <2>4. QED
    BY <1>4, <2>2, <2>3
<1>12. kc2 + cc2 + gc + ks + cs + gs + ls <= mst
  BY <1>9, <1>10
<1>13. AmountsOf("msg", w, kc2, cc2, gc, lc, ks, cs, gs, ls)
  BY <1>6, <1>9, <1>10, <1>11, <1>12 DEF AmountsOf
<1>14. After("msg", w, kc2, cc2, gc, lc, ks, cs, gs, ls)
  BY <1>3, <1>5, <1>7 DEF After
<1>15. QED
  BY <1>13, <1>14, AmountsAfter

LEMMA ClientTakes == ASSUME AmountsKeep, HandleMessage("client") PROVE Amounts'
<1>0. "client" \in Ends /\ "server" \in Ends /\ ClientInv /\ ClientTypeOK
  BY DEF Ends, AmountsKeep, ClientInv
<1>1. PICK kc, cc, gc, lc, ks, cs, gs, ls \in Nat : Named(kc, cc, gc, lc, ks, cs, gs, ls)
  BY Names
<1>2. PICK all \in Seq(Nat), m \in Nat, d \in Seq(Pairs) : ClientFront(all, m, d)
  BY <1>0, ClientMeets DEF HandleMessage
<1>3. /\ pc["client"] = "msg" /\ pc' = pc /\ writable' = writable
      /\ UNCHANGED <<rcvq, sndq, lastPos, sendPos>>
      /\ recvBuf' = [recvBuf EXCEPT !["client"] = d] /\ Len(d) + Size = Kept("client")
  BY <1>2 DEF HandleMessage, Respond, ClientFront, InFront, Kept, pollVars, sendVars, kernelVars, outVars
<1>4. recvBuf'["client"] = d /\ recvBuf'["server"] = recvBuf["server"] /\ Len(d) \in Nat
  BY <1>0, <1>3, LenProperties DEF ClientTypeOK
<1>5. PICK kc2 \in Nat : kc2 + Size = kc /\ Kept("client")' = kc2
  BY <1>1, <1>3, <1>4 DEF Named, Kept
<1>6. /\ Left("client")' = lc /\ Come("client")' = cc /\ Going("client")' = gc
      /\ Kept("server")' = ks /\ Come("server")' = cs /\ Going("server")' = gs /\ Left("server")' = ls
  BY <1>1, <1>3, <1>4 DEF Named, Kept, Left, Come, Going
<1>7. PICK w \in BOOLEAN : w = writable["client"]
  BY <1>0, AmountNats
<1>8. AmountsOf("msg", w, kc, cc, gc, lc, ks, cs, gs, ls)
  BY <1>1, <1>3, <1>7 DEF Named
<1>9. kc2 + cc + gc + ks + cs + gs + ls <= Most
  <2>1. PICK mst \in Int : mst = Most /\ kc + cc + gc + ks + cs + gs + ls <= mst
    BY <1>8, Naturals4 DEF AmountsOf
  <2>2. QED
    BY <1>5, <2>1, Naturals4
<1>10. AmountsOf("msg", w, kc2, cc, gc, lc, ks, cs, gs, ls)
  BY <1>8, <1>9 DEF AmountsOf
<1>11. After("msg", w, kc2, cc, gc, lc, ks, cs, gs, ls)
  BY <1>3, <1>5, <1>6, <1>7 DEF After
<1>12. QED
  BY <1>10, <1>11, AmountsAfter

LEMMA ClientTookAll == ASSUME AmountsKeep, HandleDone("client") PROVE Amounts'
<1>0. "client" \in Ends /\ "server" \in Ends /\ ClientInv /\ ClientTypeOK
  BY DEF Ends, AmountsKeep, ClientInv
<1>1. PICK kc, cc, gc, lc, ks, cs, gs, ls \in Nat : Named(kc, cc, gc, lc, ks, cs, gs, ls)
  BY Names
<1>2. PICK w \in BOOLEAN : w = writable["client"]
  BY <1>0, AmountNats
<1>3. /\ pc["client"] = "msg" /\ pc'["client"] = (IF w THEN "write" ELSE "poll")
      /\ writable' = writable
      /\ UNCHANGED <<recvBuf, rcvq, sndq, lastPos, sendPos>>
  BY <1>0, <1>2 DEF HandleDone, ClientTypeOK, outVars, sendVars, kernelVars, inVars
<1>4. /\ Kept("client")' = kc /\ Left("client")' = lc /\ Come("client")' = cc /\ Going("client")' = gc
      /\ Kept("server")' = ks /\ Come("server")' = cs /\ Going("server")' = gs /\ Left("server")' = ls
  BY <1>1, <1>3 DEF Named, Kept, Left, Come, Going
<1>5. kc < Size
  BY <1>0, <1>1, NoMessage DEF HandleDone, Named
<1>6. AmountsOf("msg", w, kc, cc, gc, lc, ks, cs, gs, ls)
  BY <1>1, <1>2, <1>3 DEF Named
<1>7. PICK b \in Nat, mst \in Int : b = BatchLen /\ mst = Most
  BY Naturals4
<1>8. /\ cc <= SockCap /\ cs <= SockCap /\ gc <= SockCap /\ gs <= SockCap
      /\ kc + cc + gc + ks + cs + gs + ls <= mst
      /\ w => cc + gc + ks + cs + gs + ls + Size - 1 + b <= mst
  BY <1>6, <1>7 DEF AmountsOf
<1>9. CASE w
  <2>1. lc = BatchLen
    BY <1>0, <1>1, <1>2, <1>3, <1>9, OneBatchLeft DEF Named
  <2>2. kc + cc + gc + lc + ks + cs + gs + ls <= mst
    BY <1>5, <1>7, <1>8, <1>9, <2>1, Naturals4
  <2>3. AmountsOf("write", w, kc, cc, gc, lc, ks, cs, gs, ls)
    BY <1>5, <1>7, <1>8, <2>2 DEF AmountsOf
  <2>4. After("write", w, kc, cc, gc, lc, ks, cs, gs, ls)
    BY <1>2, <1>3, <1>4, <1>9 DEF After
  <2>5. QED
    BY <2>3, <2>4, AmountsAfter
<1>10. CASE ~w
  <2>1. AmountsOf("poll", w, kc, cc, gc, lc, ks, cs, gs, ls)
    BY <1>5, <1>7, <1>8 DEF AmountsOf
  <2>2. After("poll", w, kc, cc, gc, lc, ks, cs, gs, ls)
    BY <1>2, <1>3, <1>4, <1>10 DEF After
  <2>3. QED
    BY <2>1, <2>2, AmountsAfter
<1>11. QED
  BY <1>9, <1>10

LEMMA ClientWrites == ASSUME AmountsKeep, Write("client") PROVE Amounts'
<1>0. "client" \in Ends /\ "server" \in Ends /\ ClientInv /\ ClientTypeOK
  BY DEF Ends, AmountsKeep, ClientInv
<1>1. PICK kc, cc, gc, lc, ks, cs, gs, ls \in Nat : Named(kc, cc, gc, lc, ks, cs, gs, ls)
  BY Names
<1>2. PICK w \in BOOLEAN : w = writable["client"]
  BY <1>0, AmountNats
<1>3. /\ pc["client"] = "write" /\ pc'["client"] = "send" /\ writable' = writable
      /\ UNCHANGED <<recvBuf, rcvq, sndq, lastPos, sendPos>>
  BY <1>0 DEF Write, ClientTypeOK, outVars, kernelVars, inVars
<1>4. /\ Kept("client")' = kc /\ Left("client")' = lc /\ Come("client")' = cc /\ Going("client")' = gc
      /\ Kept("server")' = ks /\ Come("server")' = cs /\ Going("server")' = gs /\ Left("server")' = ls
  BY <1>1, <1>3 DEF Named, Kept, Left, Come, Going
<1>5. AmountsOf("write", w, kc, cc, gc, lc, ks, cs, gs, ls)
  BY <1>1, <1>2, <1>3 DEF Named
<1>6. AmountsOf("send", w, kc, cc, gc, lc, ks, cs, gs, ls)
  BY <1>5 DEF AmountsOf
<1>7. After("send", w, kc, cc, gc, lc, ks, cs, gs, ls)
  BY <1>2, <1>3, <1>4 DEF After
<1>8. QED
  BY <1>6, <1>7, AmountsAfter

LEMMA ClientSends == ASSUME AmountsKeep, SendCopy("client") PROVE Amounts'
<1>0. "client" \in Ends /\ "server" \in Ends /\ ClientInv /\ ClientTypeOK
  BY DEF Ends, AmountsKeep, ClientInv
<1>1. PICK kc, cc, gc, lc, ks, cs, gs, ls \in Nat : Named(kc, cc, gc, lc, ks, cs, gs, ls)
  BY Names
<1>2. PICK w \in BOOLEAN : w = writable["client"]
  BY <1>0, AmountNats
<1>3. PICK k \in Nat :
        /\ k <= Left("client") /\ Going("client") + k <= SockCap
        /\ Going("client")' = Going("client") + k /\ Left("client")' = Left("client") - k
        /\ Going("server")' = Going("server") /\ Left("server")' = Left("server")
  BY <1>0, SendMoves, OtherEnd
<1>4. /\ pc["client"] = "send" /\ pc' = pc /\ writable' = writable /\ UNCHANGED <<recvBuf, rcvq>>
  BY DEF SendCopy, pollVars, inVars
<1>5. k <= lc /\ lc - k \in Nat /\ gc + k <= SockCap
  BY <1>1, <1>3 DEF Named
<1>6. PICK gc2 \in Nat, lc2 \in Nat : gc2 = gc + k /\ lc2 = lc - k
  BY <1>5
<1>7. /\ Kept("client")' = kc /\ Left("client")' = lc2 /\ Come("client")' = cc /\ Going("client")' = gc2
      /\ Kept("server")' = ks /\ Come("server")' = cs /\ Going("server")' = gs /\ Left("server")' = ls
  BY <1>1, <1>3, <1>4, <1>6 DEF Named, Kept, Come
<1>8. AmountsOf("send", w, kc, cc, gc, lc, ks, cs, gs, ls)
  BY <1>1, <1>2, <1>4 DEF Named
<1>9. PICK mst \in Int : mst = Most
  BY Naturals4
<1>10. /\ cc <= SockCap /\ cs <= SockCap /\ gc2 <= SockCap /\ gs <= SockCap /\ kc < Size
       /\ kc + cc + gc + lc + ks + cs + gs + ls <= mst
  BY <1>5, <1>6, <1>8, <1>9 DEF AmountsOf
<1>11. /\ kc + cc + gc2 + lc2 + ks + cs + gs + ls <= mst
       /\ kc + cc + gc2 + ks + cs + gs + ls <= mst
  BY <1>5, <1>6, <1>10
<1>12. AmountsOf("send", w, kc, cc, gc2, lc2, ks, cs, gs, ls)
  BY <1>9, <1>10, <1>11 DEF AmountsOf
<1>13. After("send", w, kc, cc, gc2, lc2, ks, cs, gs, ls)
  BY <1>2, <1>4, <1>7 DEF After
<1>14. QED
  BY <1>12, <1>13, AmountsAfter

LEMMA ClientSent == ASSUME AmountsKeep, SendDone("client") PROVE Amounts'
<1>0. "client" \in Ends /\ "server" \in Ends /\ ClientInv /\ ClientTypeOK
  BY DEF Ends, AmountsKeep, ClientInv
<1>1. PICK kc, cc, gc, lc, ks, cs, gs, ls \in Nat : Named(kc, cc, gc, lc, ks, cs, gs, ls)
  BY Names
<1>2. /\ pc["client"] = "send" /\ pc'["client"] = "poll" /\ writable'["client"] = FALSE
      /\ UNCHANGED <<recvBuf, rcvq, sndq>>
      /\ lastPos'["client"] = 0 /\ sendPos'["client"] = 0
      /\ lastPos'["server"] = lastPos["server"] /\ sendPos'["server"] = sendPos["server"]
  BY <1>0 DEF SendDone, ClientTypeOK, kernelVars, inVars
<1>3. /\ Kept("client")' = kc /\ Left("client")' = 0 /\ Come("client")' = cc /\ Going("client")' = gc
      /\ Kept("server")' = ks /\ Come("server")' = cs /\ Going("server")' = gs /\ Left("server")' = ls
  BY <1>1, <1>2 DEF Named, Kept, Left, Come, Going
<1>4. AmountsOf("send", writable["client"], kc, cc, gc, lc, ks, cs, gs, ls)
  BY <1>1, <1>2 DEF Named
<1>5. AmountsOf("poll", FALSE, kc, cc, gc, 0, ks, cs, gs, ls)
  BY <1>4 DEF AmountsOf
<1>6. After("poll", FALSE, kc, cc, gc, 0, ks, cs, gs, ls)
  BY <1>2, <1>3 DEF After
<1>7. QED
  BY <1>5, <1>6, AmountsAfter

(* sendThread fills a buffer that the loop is not sending. *)
LEMMA PushAmounts == ASSUME AmountsKeep, SendData \/ SendDataFull \/ PushStep PROVE Amounts'
<1>0. "client" \in Ends /\ "server" \in Ends /\ ClientInv /\ ClientTypeOK /\ ClientInv'
  BY SendDataKeeps, PushCopyKeeps, PushLoadKeeps, PushStoreKeeps DEF Ends, AmountsKeep, ClientInv, PushStep
<1>1. PICK kc, cc, gc, lc, ks, cs, gs, ls \in Nat : Named(kc, cc, gc, lc, ks, cs, gs, ls)
  BY Names
<1>2. UNCHANGED <<pc, writable, recvBuf, rcvq, sndq, sendPos>>
  BY DEF SendData, SendDataFull, PushStep, PushCopy, PushLoad, PushStore, loopVars, pollVars, outVars,
         sendVars, kernelVars, inVars
<1>3. CASE SendData \/ SendDataFull \/ PushCopy \/ PushLoad
  <2>1. lastPos' = lastPos
    BY <1>3 DEF SendData, SendDataFull, PushCopy, PushLoad, loopVars, outVars
  <2>2. /\ Kept("client")' = kc /\ Left("client")' = lc /\ Come("client")' = cc /\ Going("client")' = gc
        /\ Kept("server")' = ks /\ Come("server")' = cs /\ Going("server")' = gs /\ Left("server")' = ls
    BY <1>1, <1>2, <2>1 DEF Named, Kept, Left, Come, Going
  <2>3. After(pc["client"], writable["client"], kc, cc, gc, lc, ks, cs, gs, ls)
    BY <1>2, <2>2 DEF After
  <2>4. AmountsOf(pc["client"], writable["client"], kc, cc, gc, lc, ks, cs, gs, ls)
    BY <1>1 DEF Named
  <2>5. QED
    BY <2>3, <2>4, AmountsAfter
<1>4. CASE PushStore
  <2>1. lastPos' = [lastPos EXCEPT !["client"] = loaded + BatchLen] /\ spc = "store"
    BY <1>4 DEF PushStore
  <2>2. lastPos'["server"] = lastPos["server"]
    BY <1>0, <2>1 DEF ClientTypeOK
  <2>3. PICK l : l = Left("client")'
    OBVIOUS
  <2>4. /\ Kept("client")' = kc /\ Left("client")' = l /\ Come("client")' = cc /\ Going("client")' = gc
        /\ Kept("server")' = ks /\ Come("server")' = cs /\ Going("server")' = gs /\ Left("server")' = ls
    BY <1>1, <1>2, <2>2, <2>3 DEF Named, Kept, Left, Come, Going
  <2>5. pc["client"] \notin {"write", "send"}
    <3>1. lastPos["client"] = 0
      BY <1>0, <2>1 DEF ClientInv, Pushes
    <3>2. QED
      BY <1>0, <3>1 DEF ClientInv, Sends
  <2>6. AmountsOf(pc["client"], writable["client"], kc, cc, gc, lc, ks, cs, gs, ls)
    BY <1>1 DEF Named
  <2>7. AmountsOf(pc["client"], writable["client"], kc, cc, gc, l, ks, cs, gs, ls)
    BY <2>5, <2>6 DEF AmountsOf
  <2>8. After(pc["client"], writable["client"], kc, cc, gc, l, ks, cs, gs, ls)
    BY <1>2, <2>4 DEF After
  <2>9. QED
    BY <2>7, <2>8, AmountsAfter
<1>5. QED
  BY <1>3, <1>4 DEF PushStep

LEMMA AmountsStep == AmountsKeep /\ [Next]_vars => Amounts'
<1> SUFFICES ASSUME AmountsKeep, [Next]_vars PROVE Amounts'
  OBVIOUS
<1>1. CASE SendData \/ SendDataFull \/ PushStep
  BY <1>1, PushAmounts
<1>2. ASSUME NEW e \in Ends, Deliver(e) PROVE Amounts'
  BY <1>2, DeliverAmounts
<1>3. CASE LoopStep("server")
  BY <1>3, ServerAmounts
<1>4. CASE LoopStep("client")
  BY <1>4, ClientPolls, ClientReceives, ClientTakes, ClientTookAll, ClientWrites, ClientSends, ClientSent
     DEF LoopStep
<1>5. CASE UNCHANGED vars
  <2>1. Amounts
    BY DEF AmountsKeep
  <2>2. QED
    BY <1>5, <2>1 DEF Amounts, AmountsOf, Most, BatchLen, Kept, Come, Going, Left, vars
<1>6. QED
  BY <1>1, <1>2, <1>3, <1>4, <1>5 DEF Next, Ends

(* What it takes: 30577 bytes with the buffers and the batches of the code. *)
SocketsHold == 2 * BufSize + BatchLen + Size <= SockCap + 3

LEMMA BothBlocked ==
    ASSUME AmountsKeep, SocketsHold PROVE NoMutualBlock
<1>0. "client" \in Ends /\ "server" \in Ends /\ ClientInv
  BY DEF Ends, AmountsKeep
<1>1. PICK kc, cc, gc, lc, ks, cs, gs, ls \in Nat : Named(kc, cc, gc, lc, ks, cs, gs, ls)
  BY Names
<1>2. SUFFICES ASSUME Blocked("client"), Blocked("server") PROVE FALSE
  BY DEF NoMutualBlock
<1>3. pc["client"] = "send" /\ gc = SockCap /\ cs = SockCap /\ gs = SockCap /\ cc = SockCap
  BY <1>1, <1>2, OtherEnd DEF Blocked, Named, Going, Come
<1>4. ASSUME NEW e \in Ends, Blocked(e) PROVE Left(e) >= 1
  <2>1. sendPos[e] < lastPos[e] /\ lastPos[e] \in 0..BufSize /\ sendPos[e] \in 0..BufSize
    BY <1>0, <1>4 DEF Blocked, ClientInv, Sends, ClientTypeOK
  <2>2. QED
    BY <2>1, Naturals4 DEF Left
<1>5. lc >= 1 /\ ls >= 1
  BY <1>0, <1>1, <1>2, <1>4 DEF Named
<1>6. PICK b \in Nat : b = BatchLen
  BY Naturals4
<1>7. kc + cc + gc + lc + ks + cs + gs + ls <= 3 * SockCap + 2 * BufSize + b + Size - 2
  BY <1>1, <1>3, <1>6 DEF Named, AmountsOf, Most
<1>8. 2 * BufSize + b + Size <= SockCap + 3
  BY <1>6 DEF SocketsHold
<1>9. QED
  BY <1>3, <1>5, <1>7, <1>8, Naturals4

(* The two ends are never both asleep in send(), for any number of         *)
(* requests, if a full socket is longer than what the buffers and a batch  *)
(* come to: the client begins a send() only after it has taken in all that *)
(* select() saw, so what is on the way is bounded (Amounts), and two full  *)
(* sockets each way would be more than that.                               *)
THEOREM NeverMutuallyBlocked ==
    ASSUME BatchAndOne, SocketsHold PROVE Spec => []NoMutualBlock
<1>1. Init => ClientInv /\ Amounts
  BY HoldsFirst, AmountsFirst
<1>2. ClientInv /\ Amounts /\ [Next]_vars => (ClientInv /\ Amounts)'
  BY StepKeeps, AmountsStep DEF AmountsKeep
<1>3. ClientInv /\ Amounts => NoMutualBlock
  BY BothBlocked DEF AmountsKeep
<1>4. QED
  BY <1>1, <1>2, <1>3, PTL DEF Spec

=============================================================================
