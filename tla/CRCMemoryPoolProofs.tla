------------------------ MODULE CRCMemoryPoolProofs ------------------------
(***************************************************************************)
(* The memory pool, for any number of threads and units and any sizes: its *)
(* free chains are exact, a block has one holder, and the pool implements  *)
(* the allocator.                                                          *)
(***************************************************************************)
EXTENDS CRCMemoryPool, FiniteSetTheorems, TLAPS

USE DEF allocVars, blockVars, threadVars

-----------------------------------------------------------------------------

(* The tables: the allocator of a request has room for it. *)
LEMMA ClassType == \A n \in 0..MaxMemSize : ClassOf(n) \in Class /\ n \in Entries[ClassOf(n)]
<1> SUFFICES ASSUME NEW n \in 0..MaxMemSize
             PROVE  ClassOf(n) \in Class /\ n \in Entries[ClassOf(n)]
  OBVIOUS
<1>1. \E k \in Class : n \in Entries[k]
  BY DEF Class, Entries, MaxMemSize
<1>2. QED
  BY <1>1 DEF ClassOf

LEMMA RoomType ==
    \A k \in Class : Room(k) \in Doubled /\ Room(k) >= UnitSize[k]
<1> SUFFICES ASSUME NEW k \in Class
             PROVE  Room(k) \in Doubled /\ Room(k) >= UnitSize[k]
  OBVIOUS
<1> DEFINE Least(n) == n >= UnitSize[k] /\ \A d \in Doubled : d >= UnitSize[k] => n <= d
<1>1. \E n \in Doubled : Least(n)
  <2>1. k \in {1, 2, 3, 4, 5, 6}
    BY DEF Class
  <2>2. \/ UnitSize[k] \in Doubled
        \/ k = 6
    BY <2>1 DEF UnitSize, Doubled
  <2>3. CASE UnitSize[k] \in Doubled
    <3>1. Least(UnitSize[k])
      BY <2>3 DEF Doubled
    <3>2. QED
      BY <2>3, <3>1
  <2>4. CASE k = 6
    <3>1. 16384 \in Doubled /\ Least(16384)
      BY <2>4 DEF Doubled, UnitSize
    <3>2. QED
      BY <3>1
  <2>5. QED
    BY <2>2, <2>3, <2>4
<1>2. Room(k) \in Doubled /\ Least(Room(k))
  BY <1>1 DEF Room
<1>3. QED
  BY <1>2

(* The allocator of a request (crc_memory_pool.hpp 246) has units large    *)
(* enough for it.                                                          *)
THEOREM Fits == \A n \in 0..MaxMemSize : Room(ClassOf(n)) \in Nat /\ n <= Room(ClassOf(n))
<1> SUFFICES ASSUME NEW n \in 0..MaxMemSize
             PROVE  Room(ClassOf(n)) \in Nat /\ n <= Room(ClassOf(n))
  OBVIOUS
<1> DEFINE k == ClassOf(n)
<1>1. k \in Class /\ n \in Entries[k]
  BY ClassType
<1>2. k \in {1, 2, 3, 4, 5, 6}
  BY <1>1 DEF Class
<1>3. UnitSize[k] \in Nat /\ n <= UnitSize[k]
  <2> HIDE DEF k
  <2>1. n \in Nat
    BY DEF MaxMemSize
  <2>2. CASE k = 1
    BY <1>1, <2>1, <2>2 DEF UnitSize, Entries
  <2>3. CASE k = 2
    BY <1>1, <2>1, <2>3 DEF UnitSize, Entries
  <2>4. CASE k = 3
    BY <1>1, <2>1, <2>4 DEF UnitSize, Entries
  <2>5. CASE k = 4
    BY <1>1, <2>1, <2>5 DEF UnitSize, Entries
  <2>6. CASE k = 5
    BY <1>1, <2>1, <2>6 DEF UnitSize, Entries
  <2>7. CASE k = 6
    BY <1>1, <2>1, <2>7 DEF UnitSize, Entries
  <2>8. QED
    BY <1>2, <2>2, <2>3, <2>4, <2>5, <2>6, <2>7
<1>4. Room(k) \in Nat /\ Room(k) >= UnitSize[k]
  BY <1>1, RoomType DEF Doubled
<1> HIDE DEF k
<1>5. Room(k) \in Nat /\ n <= Room(k)
  BY <1>3, <1>4
<1>6. QED
  BY <1>5 DEF k

-----------------------------------------------------------------------------

(* Chains in general: s goes once through the finite set F, from h along   *)
(* nx.                                                                     *)
Linear(F, h, nx, s) ==
    LET n == Cardinality(F)
    IN  /\ s \in [1..n -> F]
        /\ \A i, j \in 1..n : s[i] = s[j] => i = j
        /\ h = IF n = 0 THEN Null ELSE s[1]
        /\ \A i \in 1..n : nx[s[i]] = IF i = n THEN Null ELSE s[i + 1]

(* Taking the first element leaves a chain of the others. *)
LEMMA Popped ==
    ASSUME NEW F, IsFiniteSet(F), NEW h, h # Null, NEW nx, NEW s,
           Linear(F, h, nx, s)
    PROVE  h \in F /\ \E r : Linear(F \ {h}, nx[h], nx, r)
<1> DEFINE n == Cardinality(F)
           r == [i \in 1..(n - 1) |-> s[i + 1]]
<1>1. n \in Nat /\ n # 0 /\ h = s[1] /\ 1 \in 1..n
  BY FS_CardinalityType DEF Linear
<1>2. h \in F
  BY <1>1 DEF Linear
<1>3. Cardinality(F \ {h}) = n - 1
  BY <1>2, FS_RemoveElement
<1>4. \A i \in 1..(n - 1) : i + 1 \in 1..n /\ i + 1 # 1 /\ r[i] = s[i + 1]
  BY <1>1
<1>5. r \in [1..(n - 1) -> F \ {h}]
  BY <1>1, <1>4 DEF Linear
<1>6. \A i, j \in 1..(n - 1) : r[i] = r[j] => i = j
  BY <1>1, <1>4 DEF Linear
<1>7. nx[h] = IF n - 1 = 0 THEN Null ELSE r[1]
  <2>1. nx[h] = IF 1 = n THEN Null ELSE s[2]
    BY <1>1 DEF Linear
  <2>2. n # 1 => 1 \in 1..(n - 1)
    BY <1>1
  <2>3. QED
    BY <1>1, <1>4, <2>1, <2>2
<1>8. \A i \in 1..(n - 1) : nx[r[i]] = IF i = n - 1 THEN Null ELSE r[i + 1]
  <2> TAKE i \in 1..(n - 1)
  <2>1. nx[s[i + 1]] = IF i + 1 = n THEN Null ELSE s[i + 2]
    BY <1>1, <1>4 DEF Linear
  <2>2. i # n - 1 => i + 1 \in 1..(n - 1)
    BY <1>1
  <2>3. i # n - 1 => r[i + 1] = s[i + 2]
    BY <1>1, <2>2
  <2>4. QED
    BY <1>1, <1>4, <2>1, <2>3
<1> HIDE DEF r
<1>9. Linear(F \ {h}, nx[h], nx, r)
  BY <1>1, <1>3, <1>5, <1>6, <1>7, <1>8 DEF Linear
<1>10. QED
  BY <1>2, <1>9

(* An element linked in front of the header makes a chain with it. *)
LEMMA Pushed ==
    ASSUME NEW F, IsFiniteSet(F), NEW h, NEW nx, NEW s, Linear(F, h, nx, s),
           NEW b, b \notin F, nx[b] = h
    PROVE  \E r : Linear(F \cup {b}, b, nx, r)
<1> DEFINE n == Cardinality(F)
           r == [i \in 1..(n + 1) |-> IF i = 1 THEN b ELSE s[i - 1]]
<1>1. n \in Nat
  BY FS_CardinalityType
<1>2. Cardinality(F \cup {b}) = n + 1
  BY FS_AddElement
<1>3. \A i \in 1..(n + 1) : i # 1 => i - 1 \in 1..n /\ r[i] = s[i - 1] /\ r[i] \in F
  BY <1>1 DEF Linear
<1>4. 1 \in 1..(n + 1) /\ r[1] = b
  BY <1>1
<1>5. r \in [1..(n + 1) -> F \cup {b}]
  BY <1>3, <1>4
<1>6. \A i, j \in 1..(n + 1) : r[i] = r[j] => i = j
  <2> TAKE i, j \in 1..(n + 1)
  <2> HAVE r[i] = r[j]
  <2> HIDE DEF r
  <2>1. CASE i = 1
    BY <1>3, <1>4, <2>1
  <2>2. CASE j = 1
    BY <1>3, <1>4, <2>2
  <2>3. CASE i # 1 /\ j # 1
    <3>1. s[i - 1] = s[j - 1] /\ i - 1 \in 1..n /\ j - 1 \in 1..n
      BY <1>3, <2>3
    <3>2. i - 1 = j - 1
      BY <3>1 DEF Linear
    <3>3. QED
      BY <1>1, <3>2
  <2>4. QED
    BY <2>1, <2>2, <2>3
<1>7. \A i \in 1..(n + 1) : nx[r[i]] = IF i = n + 1 THEN Null ELSE r[i + 1]
  <2> TAKE i \in 1..(n + 1)
  <2>1. i # n + 1 => i + 1 \in 1..(n + 1) /\ i + 1 # 1 /\ r[i + 1] = s[i]
    BY <1>1
  <2>2. CASE i = 1
    <3>1. nx[r[i]] = IF n = 0 THEN Null ELSE s[1]
      BY <1>4, <2>2 DEF Linear
    <3>2. QED
      BY <1>1, <2>1, <2>2, <3>1
  <2>3. CASE i # 1
    <3>1. nx[s[i - 1]] = IF i - 1 = n THEN Null ELSE s[(i - 1) + 1]
      BY <1>3, <2>3 DEF Linear
    <3>2. QED
      BY <1>1, <1>3, <2>1, <2>3, <3>1
  <2>4. QED
    BY <2>2, <2>3
<1> DEFINE m == n + 1
<1>8. /\ Cardinality(F \cup {b}) = m
      /\ m # 0
      /\ r \in [1..m -> F \cup {b}]
      /\ \A i, j \in 1..m : r[i] = r[j] => i = j
      /\ \A i \in 1..m : nx[r[i]] = IF i = m THEN Null ELSE r[i + 1]
  BY <1>1, <1>2, <1>5, <1>6, <1>7
<1> HIDE DEF r, m
<1>9. Linear(F \cup {b}, b, nx, r)
  BY <1>4, <1>8 DEF Linear
<1>10. QED
  BY <1>9

(* A chain sees only the links of its own elements. *)
LEMMA Framed ==
    ASSUME NEW F, IsFiniteSet(F), NEW h, NEW nx, NEW s, Linear(F, h, nx, s),
           NEW ny, \A f \in F : ny[f] = nx[f]
    PROVE  Linear(F, h, ny, s)
BY DEF Linear

-----------------------------------------------------------------------------

(* The inductive invariant: what a thread has in hand at each point of     *)
(* alloc_mem() and free_mem(), what the lock it has guarantees, and the    *)
(* properties.                                                             *)
Stages ==
    \A t \in Thread :
        /\ pc[t] \in {"alloc", "take"} => want[t] \in Size \cap (0..MaxMemSize)
        /\ pc[t] = "malloc" => want[t] \in Size
        /\ pc[t] \notin {"alloc", "take", "malloc"} => want[t] = Null
        /\ pc[t] \in {"free", "push"} => blk[t] \in Unit \cap held[t]
        /\ pc[t] = "discard" => blk[t] \in SystemBlock \cap held[t]

InLock(t, k) == mutex[k] = t /\ inited[k]

Locks ==
    \A t \in Thread :
        /\ pc[t] = "take" => /\ InLock(t, ClassOf(want[t]))
                             /\ blk[t] = header[ClassOf(want[t])]
        /\ pc[t] = "push" => /\ InLock(t, blk[t][1])
                             /\ next[blk[t]] = header[blk[t][1]]

UnitRoom == \A b \in Unit : bytes[b] = Room(b[1])

IInv == TypeOK /\ Stages /\ Locks /\ UnitRoom /\ OneHolder /\ FreeChain

ChainAt(k) ==
    IF inited[k] THEN \E s : Linear(Free(k), header[k], next, s)
                 ELSE header[k] = Null /\ Free(k) = UnitsOf(k)

LEMMA ChainForm ==
    /\ FreeChain <=> \A k \in Class : ChainAt(k)
    /\ FreeChain' <=> \A k \in Class : ChainAt(k)'
BY DEF FreeChain, ChainAt, Chain, Linear

(* The units of an allocator. *)
LEMMA UnitFacts ==
    /\ \A k \in Class : UnitsOf(k) \subseteq Unit /\ UnitsOf(k) \subseteq Block
    /\ \A b \in Unit : b[1] \in Class /\ b \in UnitsOf(b[1])
    /\ \A k, j : k # j => UnitsOf(k) \cap UnitsOf(j) = {}
    /\ Unit \subseteq Block /\ SystemBlock \subseteq Block
    /\ \A k \in Class : UnitsOf(k) \cap SystemBlock = {}
    /\ \A k \in Class : \A b \in UnitsOf(k) : b[1] = k
BY PoolAssumption DEF Unit, UnitsOf, Block

LEMMA UnitCount ==
    \A k \in Class : IsFiniteSet(UnitsOf(k)) /\ Cardinality(UnitsOf(k)) = Quantity
<1> SUFFICES ASSUME NEW k \in Class
             PROVE  IsFiniteSet(UnitsOf(k)) /\ Cardinality(UnitsOf(k)) = Quantity
  OBVIOUS
<1>1. IsFiniteSet({k}) /\ Cardinality({k}) = 1
  BY FS_Singleton
<1>2. Quantity \in Nat /\ Quantity - 1 \in Int /\ ~(0 > Quantity - 1)
  BY PoolAssumption
<1>3. IsFiniteSet(0..(Quantity - 1)) /\ Cardinality(0..(Quantity - 1)) = Quantity
  BY <1>2, FS_Interval
<1>4. /\ IsFiniteSet({k} \X (0..(Quantity - 1)))
      /\ Cardinality({k} \X (0..(Quantity - 1)))
           = Cardinality({k}) * Cardinality(0..(Quantity - 1))
  BY <1>1, <1>3, FS_Product, Zenon
<1>5. QED
  BY <1>1, <1>2, <1>3, <1>4 DEF UnitsOf

LEMMA FreeFinite == \A k \in Class : IsFiniteSet(Free(k)) /\ IsFiniteSet(Free(k)')
<1> SUFFICES ASSUME NEW k \in Class
             PROVE  IsFiniteSet(Free(k)) /\ IsFiniteSet(Free(k)')
  OBVIOUS
<1>1. Free(k) \in SUBSET UnitsOf(k) /\ Free(k)' \in SUBSET UnitsOf(k)
  BY DEF Free
<1>2. QED
  BY <1>1, UnitCount, FS_Subset

(* How the blocks in use change. *)
LEMMA UseGained ==
    ASSUME NEW t \in Thread, NEW b, held \in [Thread -> SUBSET Block],
           held' = [held EXCEPT ![t] = @ \cup {b}]
    PROVE  InUse' = InUse \cup {b}
<1>1. \A u \in Thread : held'[u] = IF u = t THEN held[t] \cup {b} ELSE held[u]
  OBVIOUS
<1>2. \A c : c \in InUse' <=> c = b \/ c \in InUse
  BY <1>1 DEF InUse
<1>3. QED
  BY <1>2

LEMMA UseMoved ==
    ASSUME NEW t \in Thread, NEW u \in Thread \ {t}, NEW b \in held[t],
           held \in [Thread -> SUBSET Block],
           held' = [held EXCEPT ![t] = @ \ {b}, ![u] = @ \cup {b}]
    PROVE  InUse' = InUse
<1>1. \A v \in Thread :
        held'[v] = IF v = t THEN held[t] \ {b}
                   ELSE IF v = u THEN held[u] \cup {b} ELSE held[v]
  OBVIOUS
<1>2. QED
  BY <1>1 DEF InUse

LEMMA UseLost ==
    ASSUME NEW t \in Thread, NEW b \in held[t], OneHolder,
           held \in [Thread -> SUBSET Block],
           held' = [held EXCEPT ![t] = @ \ {b}]
    PROVE  InUse' = InUse \ {b}
<1>1. \A u \in Thread : held'[u] = IF u = t THEN held[t] \ {b} ELSE held[u]
  OBVIOUS
<1>2. \A u \in Thread \ {t} : b \notin held[u]
  BY DEF OneHolder
<1>3. QED
  BY <1>1, <1>2 DEF InUse

LEMMA UnitFree ==
    ASSUME NEW k \in Class, FreeChain, inited[k], header[k] # Null
    PROVE  header[k] \in Free(k)
BY ChainForm, Popped, FreeFinite DEF ChainAt

LEMMA ChainKept ==
    ASSUME NEW k \in Class, ChainAt(k),
           inited'[k] = inited[k], header'[k] = header[k], Free(k)' = Free(k),
           \A f \in Free(k) : next'[f] = next[f]
    PROVE  ChainAt(k)'
<1>1. CASE inited[k]
  <2>1. PICK s : Linear(Free(k), header[k], next, s)
    BY <1>1 DEF ChainAt
  <2>2. Linear(Free(k), header[k], next', s)
    BY <2>1, Framed, FreeFinite
  <2>3. QED
    BY <1>1, <2>2 DEF ChainAt
<1>2. CASE ~inited[k]
  BY <1>2 DEF ChainAt
<1>3. QED
  BY <1>1, <1>2

LEMMA InitInv == Init => IInv
<1> SUFFICES ASSUME Init PROVE IInv
  OBVIOUS
<1> USE DEF Init
<1>1. InUse = {}
  BY DEF InUse
<1>2. TypeOK
  <2>1. bytes \in [Block -> Nat]
    BY RoomType, UnitFacts DEF InPool, Doubled
  <2>2. QED
    BY <2>1 DEF TypeOK
<1>3. Stages /\ Locks
  BY DEF Stages, Locks
<1>4. UnitRoom
  BY UnitFacts DEF UnitRoom, InPool
<1>5. OneHolder
  BY <1>1 DEF OneHolder
<1>6. FreeChain
  BY <1>1 DEF FreeChain, Free
<1>7. QED
  BY <1>2, <1>3, <1>4, <1>5, <1>6 DEF IInv

LEMMA RequestInv ==
    ASSUME IInv, NEW t \in Thread, NEW n \in Size, Request(t, n)
    PROVE  IInv'
<1> USE DEF Request
<1>0. InUse' = InUse /\ \A b : Unlinked(b)' <=> Unlinked(b)
  BY DEF InUse, Unlinked, IInv, TypeOK
<1>1. TypeOK'
  BY DEF IInv, TypeOK
<1>2. Stages'
  <2>1. n \in Nat /\ (n <= MaxMemSize <=> n \in 0..MaxMemSize)
    BY PoolAssumption DEF MaxMemSize
  <2>2. \A u \in Thread \ {t} : pc'[u] = pc[u] /\ want'[u] = want[u]
    BY DEF IInv, TypeOK
  <2>3. want'[t] = n /\ pc'[t] = IF n \in 0..MaxMemSize THEN "alloc" ELSE "malloc"
    BY <2>1 DEF IInv, TypeOK
  <2>4. QED
    BY <2>2, <2>3 DEF IInv, Stages
<1>3. Locks'
  BY DEF IInv, TypeOK, Locks, InLock
<1>4. UnitRoom'
  BY DEF IInv, UnitRoom
<1>5. OneHolder'
  BY <1>0 DEF IInv, OneHolder
<1>6. FreeChain'
  BY <1>0, ChainForm, ChainKept DEF IInv, Free
<1>7. QED
  BY <1>1, <1>2, <1>3, <1>4, <1>5, <1>6 DEF IInv

LEMMA HandInv ==
    ASSUME IInv, NEW t \in Thread, NEW u \in Thread \ {t}, NEW b \in held[t],
           Hand(t, u, b)
    PROVE  IInv'
<1> USE DEF Hand
<1>0. InUse' = InUse /\ \A c : Unlinked(c)' <=> Unlinked(c)
  <2>1. InUse' = InUse
    BY UseMoved DEF IInv, TypeOK
  <2>2. QED
    BY <2>1 DEF Unlinked
<1>1. TypeOK'
  BY DEF IInv, TypeOK
<1>2. Stages'
  BY DEF IInv, TypeOK, Stages
<1>3. Locks'
  BY DEF IInv, TypeOK, Locks, InLock
<1>4. UnitRoom'
  BY DEF IInv, UnitRoom
<1>5. OneHolder'
  <2>1. \A v, w \in Thread : v # w => held'[v] \cap held'[w] = {}
    BY DEF IInv, TypeOK, OneHolder
  <2>2. QED
    BY <1>0, <2>1 DEF IInv, OneHolder
<1>6. FreeChain'
  BY <1>0, ChainForm, ChainKept DEF IInv, Free
<1>7. QED
  BY <1>1, <1>2, <1>3, <1>4, <1>5, <1>6 DEF IInv

LEMMA ReleaseInv ==
    ASSUME IInv, NEW t \in Thread, NEW b \in held[t], Release(t, b)
    PROVE  IInv'
<1> USE DEF Release
<1>0. InUse' = InUse /\ \A c : Unlinked(c)' <=> Unlinked(c)
  BY DEF InUse, Unlinked, IInv, TypeOK
<1>1. TypeOK'
  BY DEF IInv, TypeOK
<1>2. Stages'
  BY DEF IInv, TypeOK, Stages, InPool, Block
<1>3. Locks'
  BY DEF IInv, TypeOK, Locks, InLock
<1>4. UnitRoom'
  BY DEF IInv, UnitRoom
<1>5. OneHolder'
  BY <1>0 DEF IInv, OneHolder
<1>6. FreeChain'
  BY <1>0, ChainForm, ChainKept DEF IInv, Free
<1>7. QED
  BY <1>1, <1>2, <1>3, <1>4, <1>5, <1>6 DEF IInv

(* A thread that is past the lock is alone in its allocator. *)
LEMMA Alone ==
    ASSUME IInv, NEW t \in Thread, NEW u \in Thread \ {t}, NEW k, mutex[k] = t
    PROVE  /\ pc[u] = "take" => ClassOf(want[u]) # k
           /\ pc[u] = "push" => blk[u][1] # k
BY DEF IInv, Locks, InLock

(* Lines 88-95: the lock is taken, and the pool made when it is not there. *)
LEMMA LockInv ==
    ASSUME IInv, NEW t \in Thread, Lock(t)
    PROVE  IInv'
<1>0. PICK k \in Class :
      /\ k = ClassOf(want[t])
      /\ pc[t] = "alloc" /\ mutex[k] = Null
      /\ mutex' = [mutex EXCEPT ![k] = t]
      /\ blk' = [blk EXCEPT ![t] = header'[k]]
      /\ pc' = [pc EXCEPT ![t] = "take"]
      /\ UNCHANGED <<bytes, want, held>>
      /\ \/ inited[k] /\ UNCHANGED <<inited, header, next, nRef>>
         \/ ~inited[k] /\ InitPool(k)
  BY ClassType DEF Lock, IInv, Stages
<1>1. InUse' = InUse /\ \A c : Unlinked(c)' <=> Unlinked(c)
  <2>1. \A u \in Thread \ {t} : pc'[u] = pc[u] /\ blk'[u] = blk[u]
    BY <1>0 DEF IInv, TypeOK
  <2>2. pc'[t] = "take"
    BY <1>0 DEF IInv, TypeOK
  <2>3. QED
    BY <1>0, <2>1, <2>2 DEF InUse, Unlinked
<1>2. /\ inited' = [inited EXCEPT ![k] = TRUE]
      /\ \A j \in Class \ {k} :
            header'[j] = header[j] /\ \A b \in UnitsOf(j) : next'[b] = next[b]
      /\ inited[k] => header' = header /\ next' = next /\ nRef' = nRef
  <2>1. CASE inited[k] /\ UNCHANGED <<inited, header, next, nRef>>
    BY <2>1 DEF IInv, TypeOK
  <2>2. CASE ~inited[k] /\ InitPool(k)
    BY <2>2, UnitFacts DEF IInv, TypeOK, InitPool
  <2>3. QED
    BY <1>0, <2>1, <2>2
<1>3. ~inited[k] => /\ Free(k) = UnitsOf(k)
                    /\ header' = [header EXCEPT ![k] = <<k, 0>>]
                    /\ <<k, 0>> \in UnitsOf(k)
                    /\ next' = [b \in Block |-> IF b \in UnitsOf(k) THEN Linked(b) ELSE next[b]]
                    /\ nRef' = [b \in Block |-> IF b \in UnitsOf(k) THEN 0 ELSE nRef[b]]
  <2>1. <<k, 0>> \in UnitsOf(k)
    BY PoolAssumption DEF UnitsOf
  <2>2. QED
    BY <1>0, <2>1 DEF InitPool, IInv, FreeChain
<1>4. \A b \in UnitsOf(k) : Linked(b) \in UnitsOf(k) \cup {Null}
  BY PoolAssumption DEF UnitsOf, Linked
<1>5. TypeOK'
  <2>1. CASE inited[k]
    BY <1>0, <1>2, <2>1, UnitFacts DEF IInv, TypeOK, Block
  <2>2. CASE ~inited[k]
    <3>0. <<k, 0>> \in Unit
      BY <1>3, <2>2, UnitFacts
    <3>1. header' \in [Class -> Unit \cup {Null}]
      BY <1>3, <2>2, <3>0 DEF IInv, TypeOK
    <3>2. next' \in [Block -> Unit \cup {Null}]
      BY <1>0, <1>3, <1>4, <2>2, UnitFacts DEF IInv, TypeOK
    <3>3. nRef' \in [Block -> {0, 1}]
      BY <1>3, <2>2 DEF IInv, TypeOK
    <3>4. QED
      BY <1>0, <1>2, <3>1, <3>2, <3>3, UnitFacts DEF IInv, TypeOK
  <2>3. QED
    BY <2>1, <2>2
<1>6. Stages'
  BY <1>0 DEF IInv, TypeOK, Stages
<1>7. Locks'
  <2> SUFFICES ASSUME NEW u \in Thread
               PROVE  /\ pc'[u] = "take" => /\ InLock(u, ClassOf(want[u]))'
                                            /\ blk'[u] = header'[ClassOf(want'[u])]
                      /\ pc'[u] = "push" => /\ InLock(u, blk[u][1])'
                                            /\ next'[blk'[u]] = header'[blk'[u][1]]
    BY DEF Locks
  <2>1. CASE u = t
    BY <1>0, <1>2, <2>1 DEF IInv, TypeOK, InLock
  <2>2. CASE u # t
    <3>1. pc'[u] = pc[u] /\ blk'[u] = blk[u] /\ want'[u] = want[u]
      BY <1>0, <2>2 DEF IInv, TypeOK
    <3>2. pc[u] = "take" => /\ ClassOf(want[u]) \in Class \ {k}
                            /\ InLock(u, ClassOf(want[u]))
                            /\ blk[u] = header[ClassOf(want[u])]
      BY <1>0, ClassType, PoolAssumption DEF IInv, Stages, Locks, InLock
    <3>3. pc[u] = "push" => /\ blk[u] \in Unit /\ blk[u][1] \in Class \ {k}
                            /\ InLock(u, blk[u][1])
                            /\ next[blk[u]] = header[blk[u][1]]
      BY <1>0, UnitFacts, PoolAssumption DEF IInv, Stages, Locks, InLock
    <3>4. pc[u] = "push" => next'[blk[u]] = next[blk[u]]
      BY <1>2, <3>3, UnitFacts
    <3>5. \A j \in Class \ {k} : InLock(u, j) => InLock(u, j)'
      BY <1>0, <1>2 DEF IInv, TypeOK, InLock
    <3>6. InLock(u, blk[u][1])' <=> mutex'[blk'[u][1]] = u /\ inited'[blk'[u][1]]
      BY DEF InLock
    <3>7. QED
      BY <1>2, <3>1, <3>2, <3>3, <3>4, <3>5 DEF InLock
  <2>3. QED
    BY <2>1, <2>2
<1>8. UnitRoom'
  BY <1>0 DEF IInv, UnitRoom
<1>9. OneHolder'
  <2>1. \A b \in Block : nRef'[b] = nRef[b]
    <3>1. CASE inited[k]
      BY <1>2, <3>1
    <3>2. CASE ~inited[k]
      BY <1>3, <3>2 DEF IInv, OneHolder, Free
    <3>3. QED
      BY <3>1, <3>2
  <2>2. QED
    BY <1>0, <1>1, <2>1 DEF IInv, OneHolder
<1>10. FreeChain'
  <2> SUFFICES ASSUME NEW j \in Class PROVE ChainAt(j)'
    BY ChainForm
  <2>0. ChainAt(j) /\ Free(j)' = Free(j)
    BY <1>1, ChainForm DEF IInv, Free
  <2>1. CASE j # k \/ inited[k]
    BY <1>0, <1>2, <2>0, <2>1, ChainKept DEF IInv, TypeOK, Free
  <2>2. CASE j = k /\ ~inited[k]
    <3> DEFINE s == [i \in 1..Quantity |-> <<k, i - 1>>]
    <3>1. Cardinality(UnitsOf(k)) = Quantity /\ Quantity \in Nat \ {0}
      BY <1>0, UnitCount, PoolAssumption
    <3>2. s \in [1..Quantity -> UnitsOf(k)]
      BY <3>1 DEF UnitsOf
    <3>3. \A i, j1 \in 1..Quantity : s[i] = s[j1] => i = j1
      BY <3>1
    <3>4. header'[k] = s[1]
      BY <1>0, <1>3, <2>2, <3>1 DEF IInv, TypeOK
    <3>5. \A i \in 1..Quantity : next'[s[i]] = IF i = Quantity THEN Null ELSE s[i + 1]
      <4> TAKE i \in 1..Quantity
      <4>1. next'[s[i]] = Linked(s[i])
        BY <1>0, <1>3, <2>2, <3>2, UnitFacts
      <4>2. s[i] = <<k, i - 1>> /\ (i - 1) + 1 = i
        BY <3>1
      <4>3. next'[s[i]] = IF i < Quantity THEN <<k, i>> ELSE Null
        BY <4>1, <4>2 DEF Linked
      <4>4. i # Quantity => i < Quantity /\ s[i + 1] = <<k, i>>
        BY <3>1
      <4>5. i = Quantity => ~(i < Quantity)
        BY <3>1
      <4>6. QED
        BY <4>3, <4>4, <4>5
    <3> HIDE DEF s
    <3>6. Linear(UnitsOf(k), header'[k], next', s)
      BY <3>1, <3>2, <3>3, <3>4, <3>5 DEF Linear
    <3>7. Free(k)' = UnitsOf(k) /\ inited'[k]
      BY <1>0, <1>2, <1>3, <2>0, <2>2 DEF IInv, TypeOK
    <3>8. QED
      BY <2>2, <3>6, <3>7 DEF ChainAt
  <2>3. QED
    BY <2>1, <2>2
<1>11. QED
  BY <1>5, <1>6, <1>7, <1>8, <1>9, <1>10 DEF IInv

(* Lines 107-110: the unit at the header is taken. *)
LEMMA TakeUnitInv ==
    ASSUME IInv, NEW t \in Thread, TakeUnit(t)
    PROVE  IInv'
<1>0. PICK k \in Class :
      /\ k = ClassOf(want[t])
      /\ pc[t] = "take" /\ blk[t] # Null
      /\ inited[k] /\ mutex[k] = t /\ blk[t] = header[k]
      /\ header' = [header EXCEPT ![k] = next[blk[t]]]
      /\ mutex' = [mutex EXCEPT ![k] = Null]
      /\ Given(t, blk[t])
      /\ UNCHANGED <<inited, next, bytes>>
  BY ClassType DEF TakeUnit, IInv, Stages, Locks, InLock
<1>1. PICK b \in Free(k) : b = blk[t]
  BY <1>0, UnitFree DEF IInv
<1>2. b \in UnitsOf(k) /\ b \in Unit /\ b \in Block /\ b \notin InUse
  BY <1>1, UnitFacts DEF Free
<1>3. InUse' = InUse \cup {b}
  BY <1>0, <1>1, UseGained DEF Given, IInv, TypeOK
<1>4. \A c \in Block : Unlinked(c)' <=> Unlinked(c)
  <2>1. \A u \in Thread \ {t} : pc'[u] = pc[u] /\ blk'[u] = blk[u]
    BY <1>0 DEF Given, IInv, TypeOK
  <2>2. pc'[t] = "idle"
    BY <1>0 DEF Given, IInv, TypeOK
  <2>3. QED
    BY <1>0, <2>1, <2>2 DEF Unlinked
<1>5. TypeOK'
  BY <1>0, <1>1, <1>2 DEF Given, IInv, TypeOK
<1>6. Stages'
  BY <1>0, <1>1 DEF Given, IInv, TypeOK, Stages
<1>7. Locks'
  <2> SUFFICES ASSUME NEW u \in Thread
               PROVE  /\ pc'[u] = "take" => /\ InLock(u, ClassOf(want[u]))'
                                            /\ blk'[u] = header'[ClassOf(want'[u])]
                      /\ pc'[u] = "push" => /\ InLock(u, blk[u][1])'
                                            /\ next'[blk'[u]] = header'[blk'[u][1]]
    BY DEF Locks
  <2>1. CASE u = t
    BY <1>0, <2>1 DEF Given, IInv, TypeOK
  <2>2. CASE u # t
    <3>1. pc'[u] = pc[u] /\ blk'[u] = blk[u] /\ want'[u] = want[u]
      BY <1>0, <2>2 DEF Given, IInv, TypeOK
    <3>2. /\ pc[u] = "take" => ClassOf(want[u]) # k
          /\ pc[u] = "push" => blk[u][1] # k
      BY <1>0, <2>2, Alone
    <3>3. \A j : j # k => mutex'[j] = mutex[j] /\ header'[j] = header[j]
      BY <1>0 DEF IInv, TypeOK
    <3>4. QED
      BY <1>0, <3>1, <3>2, <3>3 DEF IInv, Locks, InLock
  <2>3. QED
    BY <2>1, <2>2
<1>8. UnitRoom'
  BY <1>0 DEF IInv, UnitRoom
<1>9. OneHolder'
  <2>1. \A u, w \in Thread : u # w => held'[u] \cap held'[w] = {}
    <3>1. \A u \in Thread : b \notin held[u]
      BY <1>2 DEF InUse
    <3>2. \A u \in Thread : held'[u] = IF u = t THEN held[t] \cup {b} ELSE held[u]
      BY <1>0, <1>1 DEF Given, IInv, TypeOK
    <3>3. QED
      BY <3>1, <3>2 DEF IInv, OneHolder
  <2>2. ~Unlinked(b)
    BY <1>2 DEF Unlinked, InUse, IInv, Stages
  <2>3. \A c \in Block : nRef'[c] = IF c = b THEN 1 ELSE nRef[c]
    BY <1>0, <1>1 DEF Given, IInv, TypeOK
  <2>4. QED
    BY <1>2, <1>3, <1>4, <2>1, <2>2, <2>3 DEF IInv, OneHolder
<1>10. FreeChain'
  <2> SUFFICES ASSUME NEW j \in Class PROVE ChainAt(j)'
    BY ChainForm
  <2>0. ChainAt(j)
    BY ChainForm DEF IInv
  <2>1. CASE j # k
    <3>1. Free(j)' = Free(j)
      BY <1>2, <1>3, <2>1, UnitFacts DEF Free
    <3>2. header'[j] = header[j]
      BY <1>0, <2>1 DEF IInv, TypeOK
    <3>3. QED
      BY <1>0, <2>0, <3>1, <3>2, ChainKept
  <2>2. CASE j = k
    <3>1. PICK s : Linear(Free(j), b, next, s)
      BY <1>0, <1>1, <2>0, <2>2 DEF ChainAt
    <3>2. \E r : Linear(Free(j) \ {b}, next[b], next, r)
      BY <1>2, <3>1, FreeFinite, Popped, PoolAssumption
    <3>3. Free(j)' = Free(j) \ {b}
      BY <1>3 DEF Free
    <3>4. header'[j] = next[b] /\ inited'[j] /\ next' = next
      BY <1>0, <1>1, <2>2 DEF IInv, TypeOK
    <3>5. QED
      BY <3>2, <3>3, <3>4 DEF ChainAt
  <2>3. QED
    BY <2>1, <2>2
<1>11. QED
  BY <1>5, <1>6, <1>7, <1>8, <1>9, <1>10 DEF IInv

(* A block of malloc(), lines 97-102 and 293-298: no chain changes. *)
LEMMA MallocInv ==
    ASSUME IInv, NEW t \in Thread, Malloc(t), want[t] \in Nat,
           UNCHANGED <<inited, header>>,
           mutex' \in [Class -> Thread \cup {Null}],
           \A k \in Class : mutex[k] # t => mutex'[k] = mutex[k],
           pc[t] # "push"
    PROVE  IInv'
<1>1. PICK e \in Spare : /\ bytes' = [bytes EXCEPT ![e] = want[t]]
                         /\ next' = [next EXCEPT ![e] = Null]
                         /\ Given(t, e)
  BY DEF Malloc
<1>2. e \in SystemBlock /\ e \in Block /\ e \notin Unit /\ nRef[e] = 0
  BY <1>1, UnitFacts, PoolAssumption DEF Spare
<1>3. ~Unlinked(e) /\ e \notin InUse
  BY <1>2 DEF Unlinked, IInv, Stages, OneHolder
<1>4. InUse' = InUse \cup {e}
  BY <1>1, UseGained DEF Given, IInv, TypeOK
<1>5. \A u \in Thread \ {t} : pc'[u] = pc[u] /\ blk'[u] = blk[u] /\ want'[u] = want[u]
  BY <1>1 DEF Given, IInv, TypeOK
<1>6. pc'[t] = "idle" /\ want'[t] = Null
  BY <1>1 DEF Given, IInv, TypeOK
<1>7. \A c \in Block : Unlinked(c)' <=> Unlinked(c)
  BY <1>5, <1>6 DEF Unlinked
<1>8. TypeOK'
  BY <1>1, <1>2 DEF Given, IInv, TypeOK
<1>9. \A u \in Thread : held'[u] = IF u = t THEN held[t] \cup {e} ELSE held[u]
  BY <1>1 DEF Given, IInv, TypeOK
<1>10. Stages'
  BY <1>5, <1>6, <1>9 DEF IInv, Stages
<1>11. Locks'
  <2> SUFFICES ASSUME NEW u \in Thread \ {t}
               PROVE  /\ pc'[u] = "take" => /\ InLock(u, ClassOf(want[u]))'
                                            /\ blk'[u] = header'[ClassOf(want'[u])]
                      /\ pc'[u] = "push" => /\ InLock(u, blk[u][1])'
                                            /\ next'[blk'[u]] = header'[blk'[u][1]]
    BY <1>6 DEF Locks
  <2>1. pc[u] = "take" => ClassOf(want[u]) \in Class
    BY ClassType DEF IInv, Stages
  <2>2. pc[u] = "push" => blk[u] \in Unit /\ blk[u][1] \in Class
    BY UnitFacts DEF IInv, Stages
  <2>3. pc[u] = "push" => next'[blk[u]] = next[blk[u]]
    BY <1>1, <1>2, <2>2, UnitFacts DEF IInv, TypeOK
  <2>4. QED
    BY <1>5, <2>1, <2>2, <2>3 DEF IInv, Locks, InLock
<1>12. UnitRoom'
  BY <1>1, <1>2, UnitFacts DEF IInv, TypeOK, UnitRoom
<1>13. OneHolder'
  <2>1. \A u, w \in Thread : u # w => held'[u] \cap held'[w] = {}
    <3>1. \A u \in Thread : e \notin held[u]
      BY <1>3 DEF InUse
    <3>2. QED
      BY <1>9, <3>1 DEF IInv, OneHolder
  <2>2. \A c \in Block : nRef'[c] = IF c = e THEN 1 ELSE nRef[c]
    BY <1>1 DEF Given, IInv, TypeOK
  <2>3. QED
    BY <1>3, <1>4, <1>7, <2>1, <2>2 DEF IInv, OneHolder
<1>14. FreeChain'
  <2> SUFFICES ASSUME NEW j \in Class PROVE ChainAt(j)'
    BY ChainForm
  <2>1. ChainAt(j)
    BY ChainForm DEF IInv
  <2>2. Free(j)' = Free(j) /\ e \notin Free(j)
    BY <1>2, <1>4, UnitFacts DEF Free
  <2>3. \A f \in Free(j) : next'[f] = next[f]
    BY <1>1, <2>2, UnitFacts DEF Free, IInv, TypeOK
  <2>4. QED
    BY <2>1, <2>2, <2>3, ChainKept
<1>15. QED
  BY <1>8, <1>10, <1>11, <1>12, <1>13, <1>14 DEF IInv

LEMMA TakeSystemInv ==
    ASSUME IInv, NEW t \in Thread, TakeSystem(t)
    PROVE  IInv'
<1>1. want[t] \in Nat /\ ClassOf(want[t]) \in Class /\ mutex[ClassOf(want[t])] = t
  BY ClassType, PoolAssumption DEF TakeSystem, IInv, Stages, Locks, InLock
<1>2. mutex' = [mutex EXCEPT ![ClassOf(want[t])] = Null]
  BY DEF TakeSystem
<1>3. mutex' \in [Class -> Thread \cup {Null}]
  BY <1>2 DEF IInv, TypeOK
<1>4. \A k \in Class : mutex[k] # t => mutex'[k] = mutex[k]
  BY <1>1, <1>2 DEF IInv, TypeOK
<1>5. QED
  BY <1>1, <1>3, <1>4, MallocInv DEF TakeSystem

LEMMA TakeLargeInv ==
    ASSUME IInv, NEW t \in Thread, TakeLarge(t)
    PROVE  IInv'
<1>1. want[t] \in Nat
  BY PoolAssumption DEF TakeLarge, IInv, Stages
<1>2. mutex' \in [Class -> Thread \cup {Null}]
  BY DEF TakeLarge, IInv, TypeOK
<1>3. QED
  BY <1>1, <1>2, MallocInv DEF TakeLarge

-----------------------------------------------------------------------------

(* Lines 137-145 of the allocator are not reached with a block of          *)
(* malloc(): the pool frees it, lines 315-319.                             *)
LEMMA DiscardInv ==
    ASSUME IInv, NEW t \in Thread, Discard(t)
    PROVE  IInv'
<1>0. PICK e \in SystemBlock :
      /\ e = blk[t] /\ e \in held[t] /\ pc[t] = "discard"
      /\ nRef' = [nRef EXCEPT ![e] = @ - 1]
      /\ held' = [held EXCEPT ![t] = @ \ {e}]
      /\ blk' = [blk EXCEPT ![t] = Null]
      /\ pc' = [pc EXCEPT ![t] = "idle"]
      /\ UNCHANGED <<allocVars, bytes, want>>
  BY DEF Discard, GivenBack, IInv, Stages
<1>1. e \in Block /\ e \notin Unit /\ e \in InUse
  BY <1>0, UnitFacts, PoolAssumption DEF InUse
<1>2. InUse' = InUse \ {e}
  BY <1>0, UseLost DEF IInv, TypeOK
<1>3. ~Unlinked(e) /\ nRef[e] = 1
  BY <1>1 DEF Unlinked, IInv, Stages, OneHolder
<1>4. \A u \in Thread \ {t} : pc'[u] = pc[u] /\ blk'[u] = blk[u]
  BY <1>0 DEF IInv, TypeOK
<1>5. pc'[t] = "idle"
  BY <1>0 DEF IInv, TypeOK
<1>6. \A c \in Block : Unlinked(c)' <=> Unlinked(c)
  BY <1>0, <1>4, <1>5 DEF Unlinked
<1>7. \A c \in Block : nRef'[c] = IF c = e THEN 0 ELSE nRef[c]
  BY <1>0, <1>1, <1>3 DEF IInv, TypeOK
<1>8. nRef' \in [Block -> {0, 1}]
  BY <1>0, <1>7 DEF IInv, TypeOK
<1>9. TypeOK'
  BY <1>0, <1>8 DEF IInv, TypeOK
<1>10. \A u \in Thread : held'[u] = IF u = t THEN held[t] \ {e} ELSE held[u]
  BY <1>0 DEF IInv, TypeOK
<1>11. Stages'
  BY <1>0, <1>4, <1>5, <1>10 DEF IInv, Stages
<1>12. Locks'
  BY <1>0, <1>4, <1>5 DEF IInv, Locks, InLock
<1>13. UnitRoom'
  BY <1>0 DEF IInv, UnitRoom
<1>14. OneHolder'
  <2>1. \A u, w \in Thread : u # w => held'[u] \cap held'[w] = {}
    BY <1>10 DEF IInv, OneHolder
  <2>2. QED
    BY <1>2, <1>6, <1>7, <2>1 DEF IInv, OneHolder
<1>15. FreeChain'
  <2> SUFFICES ASSUME NEW j \in Class PROVE ChainAt(j)'
    BY ChainForm
  <2>1. ChainAt(j)
    BY ChainForm DEF IInv
  <2>2. Free(j)' = Free(j)
    BY <1>1, <1>2, UnitFacts DEF Free
  <2>3. QED
    BY <1>0, <2>1, <2>2, ChainKept
<1>16. QED
  BY <1>9, <1>11, <1>12, <1>13, <1>14, <1>15 DEF IInv

(* Lines 128-134: the unit in hand is counted down to 0 and linked.  It is *)
(* not in the chain, so no chain changes yet.                              *)
LEMMA UnrefInv ==
    ASSUME IInv, NEW t \in Thread, Unref(t)
    PROVE  IInv'
<1>0. PICK b \in Unit : b = blk[t] /\ b \in held[t] /\ pc[t] = "free"
  BY DEF Unref, IInv, Stages
<1>1. PICK k \in Class : k = b[1] /\ b \in UnitsOf(k) /\ mutex[k] = Null
  BY <1>0, UnitFacts DEF Unref
<1>2. b \in Block /\ b \in InUse /\ inited[k]
  BY <1>0, <1>1, UnitFacts DEF InUse, IInv, FreeChain, Free
<1>3. ~Unlinked(b) /\ nRef[b] = 1
  <2>1. ~Unlinked(b)
    BY <1>0 DEF Unlinked, IInv, Stages, OneHolder
  <2>2. QED
    BY <1>2, <2>1 DEF IInv, OneHolder
<1>4. /\ nRef' = [nRef EXCEPT ![b] = @ - 1]
      /\ mutex' = [mutex EXCEPT ![k] = t]
      /\ next' = [next EXCEPT ![b] = header[k]]
      /\ pc' = [pc EXCEPT ![t] = "push"]
      /\ UNCHANGED <<inited, header, bytes, want, blk, held>>
  <2>1. nRef' = [nRef EXCEPT ![b] = @ - 1]
    BY <1>0 DEF Unref
  <2>2. nRef'[b] = 0
    BY <1>2, <1>3, <2>1 DEF IInv, TypeOK
  <2>3. QED
    BY <1>0, <1>1, <2>1, <2>2 DEF Unref
<1>5. \A c \in Block : nRef'[c] = IF c = b THEN 0 ELSE nRef[c]
  BY <1>2, <1>3, <1>4 DEF IInv, TypeOK
<1>6. InUse' = InUse
  BY <1>4 DEF InUse
<1>7. \A u \in Thread \ {t} : pc'[u] = pc[u]
  BY <1>4 DEF IInv, TypeOK
<1>8. pc'[t] = "push"
  BY <1>4 DEF IInv, TypeOK
<1>9. \A c \in Block : Unlinked(c)' <=> c = b \/ Unlinked(c)
  BY <1>0, <1>4, <1>7, <1>8 DEF Unlinked
<1>10. TypeOK'
  <2>1. nRef' \in [Block -> {0, 1}]
    BY <1>4, <1>5 DEF IInv, TypeOK
  <2>2. next' \in [Block -> Unit \cup {Null}]
    BY <1>1, <1>4 DEF IInv, TypeOK
  <2>3. mutex' \in [Class -> Thread \cup {Null}]
    BY <1>4 DEF IInv, TypeOK
  <2>4. pc' \in [Thread -> {"idle", "alloc", "take", "malloc", "discard",
                            "free", "push"}]
    BY <1>4 DEF IInv, TypeOK
  <2>5. QED
    BY <1>4, <2>1, <2>2, <2>3, <2>4 DEF IInv, TypeOK
<1>11. Stages'
  BY <1>0, <1>4, <1>7, <1>8 DEF IInv, Stages
<1>12. Locks'
  <2> SUFFICES ASSUME NEW u \in Thread
               PROVE  /\ pc'[u] = "take" => /\ InLock(u, ClassOf(want[u]))'
                                            /\ blk'[u] = header'[ClassOf(want'[u])]
                      /\ pc'[u] = "push" => /\ InLock(u, blk[u][1])'
                                            /\ next'[blk'[u]] = header'[blk'[u][1]]
    BY DEF Locks
  <2>1. CASE u = t
    BY <1>0, <1>1, <1>2, <1>4, <1>8, <2>1 DEF IInv, TypeOK, InLock
  <2>2. CASE u # t
    <3>1. pc[u] = "take" => ClassOf(want[u]) # k /\ ClassOf(want[u]) \in Class
      BY <1>1, ClassType, PoolAssumption DEF IInv, Stages, Locks, InLock
    <3>2. pc[u] = "push" => blk[u][1] # k /\ blk[u] # b /\ blk[u] \in Unit
      BY <1>1, PoolAssumption DEF IInv, Stages, Locks, InLock
    <3>3. \A j : j # k => mutex'[j] = mutex[j]
      BY <1>4 DEF IInv, TypeOK
    <3>4. pc[u] = "push" => next'[blk[u]] = next[blk[u]]
      BY <1>4, <3>2, UnitFacts DEF IInv, TypeOK
    <3>5. QED
      BY <1>4, <1>7, <2>2, <3>1, <3>2, <3>3, <3>4 DEF IInv, Locks, InLock
  <2>3. QED
    BY <2>1, <2>2
<1>13. UnitRoom'
  BY <1>4 DEF IInv, UnitRoom
<1>14. OneHolder'
  BY <1>4, <1>5, <1>6, <1>9 DEF IInv, OneHolder
<1>15. FreeChain'
  <2> SUFFICES ASSUME NEW j \in Class PROVE ChainAt(j)'
    BY ChainForm
  <2>1. ChainAt(j)
    BY ChainForm DEF IInv
  <2>2. Free(j)' = Free(j) /\ b \notin Free(j)
    BY <1>2, <1>6 DEF Free
  <2>3. \A f \in Free(j) : next'[f] = next[f]
    BY <1>4, <2>2, UnitFacts DEF Free, IInv, TypeOK
  <2>4. QED
    BY <1>4, <2>1, <2>2, <2>3, ChainKept
<1>16. QED
  BY <1>10, <1>11, <1>12, <1>13, <1>14, <1>15 DEF IInv

(* Line 135: the unit becomes the header. *)
LEMMA PushInv ==
    ASSUME IInv, NEW t \in Thread, Push(t)
    PROVE  IInv'
<1>0. PICK b \in Unit : b = blk[t] /\ b \in held[t] /\ pc[t] = "push"
  BY DEF Push, IInv, Stages
<1>1. PICK k \in Class :
        /\ k = b[1] /\ b \in UnitsOf(k)
        /\ mutex[k] = t /\ inited[k] /\ next[b] = header[k]
  BY <1>0, UnitFacts DEF IInv, Locks, InLock
<1>2. /\ header' = [header EXCEPT ![k] = b]
      /\ mutex' = [mutex EXCEPT ![k] = Null]
      /\ held' = [held EXCEPT ![t] = @ \ {b}]
      /\ blk' = [blk EXCEPT ![t] = Null]
      /\ pc' = [pc EXCEPT ![t] = "idle"]
      /\ UNCHANGED <<inited, next, nRef, bytes, want>>
  BY <1>0, <1>1 DEF Push, GivenBack
<1>3. InUse' = InUse \ {b} /\ b \in InUse
  <2>1. InUse' = InUse \ {b}
    BY <1>0, <1>2, UseLost DEF IInv, TypeOK
  <2>2. QED
    BY <1>0, <2>1 DEF InUse
<1>4. \A u \in Thread : held'[u] = IF u = t THEN held[t] \ {b} ELSE held[u]
  BY <1>2 DEF IInv, TypeOK
<1>5. \A u \in Thread \ {t} : pc'[u] = pc[u] /\ blk'[u] = blk[u]
  BY <1>2 DEF IInv, TypeOK
<1>6. pc'[t] = "idle"
  BY <1>2 DEF IInv, TypeOK
<1>7. Unlinked(b) /\ \A c \in Block : c # b => (Unlinked(c)' <=> Unlinked(c))
  BY <1>0, <1>5, <1>6 DEF Unlinked
<1>8. TypeOK'
  BY <1>2 DEF IInv, TypeOK
<1>9. Stages'
  BY <1>0, <1>2, <1>4, <1>5, <1>6 DEF IInv, Stages
<1>10. Locks'
  <2> SUFFICES ASSUME NEW u \in Thread \ {t}
               PROVE  /\ pc'[u] = "take" => /\ InLock(u, ClassOf(want[u]))'
                                            /\ blk'[u] = header'[ClassOf(want'[u])]
                      /\ pc'[u] = "push" => /\ InLock(u, blk[u][1])'
                                            /\ next'[blk'[u]] = header'[blk'[u][1]]
    BY <1>6 DEF Locks
  <2>1. /\ pc[u] = "take" => ClassOf(want[u]) # k
        /\ pc[u] = "push" => blk[u][1] # k
    BY <1>1, Alone
  <2>2. \A j : j # k => mutex'[j] = mutex[j] /\ header'[j] = header[j]
    BY <1>2 DEF IInv, TypeOK
  <2>3. QED
    BY <1>2, <1>5, <2>1, <2>2 DEF IInv, Locks, InLock
<1>11. UnitRoom'
  BY <1>2 DEF IInv, UnitRoom
<1>12. OneHolder'
  <2>1. \A u, w \in Thread : u # w => held'[u] \cap held'[w] = {}
    BY <1>4 DEF IInv, OneHolder
  <2>2. nRef[b] = 0
    BY <1>7, UnitFacts DEF IInv, OneHolder
  <2>3. QED
    BY <1>2, <1>3, <1>7, <2>1, <2>2 DEF IInv, OneHolder
<1>13. FreeChain'
  <2> SUFFICES ASSUME NEW j \in Class PROVE ChainAt(j)'
    BY ChainForm
  <2>0. ChainAt(j)
    BY ChainForm DEF IInv
  <2>1. CASE j # k
    <3>1. Free(j)' = Free(j) /\ header'[j] = header[j]
      BY <1>1, <1>2, <1>3, <2>1, UnitFacts DEF Free, IInv, TypeOK
    <3>2. QED
      BY <1>2, <2>0, <3>1, ChainKept
  <2>2. CASE j = k
    <3>1. PICK s : Linear(Free(j), header[j], next, s)
      BY <1>1, <2>0, <2>2 DEF ChainAt
    <3>2. b \notin Free(j) /\ Free(j)' = Free(j) \cup {b}
      BY <1>1, <1>3, <2>2 DEF Free
    <3>3. \E r : Linear(Free(j) \cup {b}, b, next, r)
      BY <1>1, <2>2, <3>1, <3>2, FreeFinite, Pushed
    <3>4. header'[j] = b /\ inited'[j] /\ next' = next
      BY <1>1, <1>2, <2>2 DEF IInv, TypeOK
    <3>5. QED
      BY <3>2, <3>3, <3>4 DEF ChainAt
  <2>3. QED
    BY <2>1, <2>2
<1>14. QED
  BY <1>8, <1>9, <1>10, <1>11, <1>12, <1>13 DEF IInv

-----------------------------------------------------------------------------

LEMMA StutterInv == IInv /\ UNCHANGED vars => IInv'
<1> SUFFICES ASSUME IInv, UNCHANGED vars PROVE IInv'
  OBVIOUS
<1> USE DEF vars
<1>1. InUse' = InUse /\ \A b : Unlinked(b)' <=> Unlinked(b)
  BY DEF InUse, Unlinked
<1>2. TypeOK' /\ Stages' /\ UnitRoom'
  BY DEF IInv, TypeOK, Stages, UnitRoom
<1>3. Locks' /\ OneHolder'
  BY <1>1 DEF IInv, Locks, InLock, OneHolder
<1>4. FreeChain'
  BY <1>1, ChainForm, ChainKept DEF IInv, Free
<1>5. QED
  BY <1>2, <1>3, <1>4 DEF IInv

LEMMA NextInv == IInv /\ [Next]_vars => IInv'
<1> SUFFICES ASSUME IInv, [Next]_vars PROVE IInv'
  OBVIOUS
<1>1. ASSUME NEW t \in Thread, NEW n \in Size, Request(t, n) PROVE IInv'
  BY <1>1, RequestInv
<1>2. ASSUME NEW t \in Thread, AllocStep(t) PROVE IInv'
  BY <1>2, LockInv, TakeUnitInv, TakeSystemInv, TakeLargeInv DEF AllocStep
<1>3. ASSUME NEW t \in Thread, NEW b \in held[t], Release(t, b) PROVE IInv'
  BY <1>3, ReleaseInv
<1>4. ASSUME NEW t \in Thread, NEW b \in held[t], NEW u \in Thread \ {t},
             Hand(t, u, b)
      PROVE  IInv'
  BY <1>4, HandInv
<1>5. ASSUME NEW t \in Thread, FreeStep(t) PROVE IInv'
  BY <1>5, DiscardInv, UnrefInv, PushInv DEF FreeStep
<1>6. CASE UNCHANGED vars
  BY <1>6, StutterInv
<1>7. QED
  BY <1>1, <1>2, <1>3, <1>4, <1>5, <1>6 DEF Next

LEMMA Inductive == Spec => []IInv
BY InitInv, NextInv, PTL DEF Spec

(* The type invariant: in particular no block of malloc() is ever at a     *)
(* header, and no count leaves 0 and 1.                                    *)
THEOREM PoolTypeCorrect == Spec => []TypeOK
BY Inductive, PTL DEF IInv

(* The free chains are exact, whatever the threads do (lines 108 and 135). *)
THEOREM ChainsExact == Spec => []FreeChain
BY Inductive, PTL DEF IInv

(* A block has one holder and its count says so: the asserts of lines 109  *)
(* and 122 never fail.                                                     *)
THEOREM HeldOnce == Spec => []OneHolder
BY Inductive, PTL DEF IInv

(* Line 97 is reached only while every unit of the allocator is in use.    *)
THEOREM MallocIsLast == Spec => []MallocOnlyWhenFull
<1>1. IInv => MallocOnlyWhenFull
  <2> SUFFICES ASSUME IInv, NEW t \in Thread, pc[t] = "take", blk[t] = Null
               PROVE  UnitsOf(ClassOf(want[t])) \subseteq InUse
    BY DEF MallocOnlyWhenFull
  <2>1. PICK k \in Class : k = ClassOf(want[t]) /\ inited[k] /\ header[k] = Null
    BY ClassType DEF IInv, Stages, Locks, InLock
  <2>2. PICK s : Linear(Free(k), Null, next, s)
    BY <2>1, ChainForm DEF IInv, ChainAt
  <2>3. Cardinality(Free(k)) = 0
    <3>1. SUFFICES ASSUME Cardinality(Free(k)) # 0 PROVE FALSE
      OBVIOUS
    <3>2. Cardinality(Free(k)) \in Nat
      BY FreeFinite, FS_CardinalityType
    <3>3. s[1] \in Free(k) /\ s[1] = Null
      BY <2>2, <3>1, <3>2 DEF Linear
    <3>4. QED
      BY <3>3, UnitFacts, PoolAssumption DEF Free
  <2>4. Free(k) = {}
    BY <2>3, FreeFinite, FS_EmptySet
  <2>5. QED
    BY <2>1, <2>4 DEF Free
<1>2. QED
  BY <1>1, Inductive, PTL

-----------------------------------------------------------------------------

(* The pool implements the allocator: a block is given while nobody holds  *)
(* it, with the room that was asked for.                                   *)
LEMMA Given2Give ==
    ASSUME NEW t \in Thread, NEW b \in Block, IInv, Given(t, b), b \notin InUse,
           want[t] \in Nat, bytes' = [bytes EXCEPT ![b] = bytes'[b]],
           bytes'[b] \in Nat, want[t] <= bytes'[b]
    PROVE  TheAllocator!Next
<1>1. TheAllocator!InUse = InUse
  BY DEF TheAllocator!InUse, InUse
<1>2. want[t] # Null
  BY PoolAssumption
<1>3. TheAllocator!Give(t, b)
  BY <1>1, <1>2 DEF TheAllocator!Give, Given
<1>4. QED
  BY <1>3 DEF TheAllocator!Next

LEMMA AllocGives ==
    ASSUME IInv, NEW t \in Thread, AllocStep(t)
    PROVE  TheAllocator!Next \/ UNCHANGED <<held, want, bytes>>
<1>1. CASE Lock(t)
  BY <1>1 DEF Lock
<1>2. CASE TakeUnit(t)
  <2>1. PICK k \in Class :
        /\ k = ClassOf(want[t]) /\ want[t] \in 0..MaxMemSize
        /\ blk[t] = header[k] /\ inited[k] /\ header[k] # Null
        /\ Given(t, header[k]) /\ bytes' = bytes
    BY <1>2, ClassType DEF TakeUnit, IInv, Stages, Locks, InLock
  <2>2. PICK b \in Free(k) : b = header[k]
    BY <2>1, UnitFree DEF IInv
  <2>3. b \in Unit /\ b \in Block /\ b[1] = k /\ b \notin InUse
    BY <2>2, UnitFacts DEF Free
  <2>4. bytes[b] = Room(k)
    BY <2>3 DEF IInv, UnitRoom
  <2>5. want[t] \in Nat /\ bytes[b] \in Nat /\ want[t] <= bytes[b]
    <3>1. Room(ClassOf(want[t])) \in Nat /\ want[t] <= Room(ClassOf(want[t]))
      BY <2>1, Fits
    <3>2. \A n \in 0..MaxMemSize : n \in Nat
      BY DEF MaxMemSize
    <3>3. want[t] \in Nat
      BY <2>1, <3>2
    <3>4. QED
      BY <2>1, <2>4, <3>1, <3>3
  <2>6. bytes' = [bytes EXCEPT ![b] = bytes'[b]]
    BY <2>1, <2>3 DEF IInv, TypeOK
  <2>7. QED
    BY <2>1, <2>2, <2>3, <2>5, <2>6, Given2Give
<1>3. CASE TakeSystem(t) \/ TakeLarge(t)
  <2>1. want[t] \in Nat /\ Malloc(t)
    BY <1>3, PoolAssumption DEF TakeSystem, TakeLarge, IInv, Stages
  <2>2. PICK e \in Spare : bytes' = [bytes EXCEPT ![e] = want[t]] /\ Given(t, e)
    BY <2>1 DEF Malloc
  <2>3. e \in Block /\ e \notin InUse
    <3>1. e \in Block /\ e \notin Unit /\ nRef[e] = 0
      BY UnitFacts, PoolAssumption DEF Spare
    <3>2. ~Unlinked(e)
      BY <3>1 DEF Unlinked, IInv, Stages
    <3>3. QED
      BY <3>1, <3>2 DEF IInv, OneHolder
  <2>4. bytes'[e] = want[t]
    BY <2>2, <2>3 DEF IInv, TypeOK
  <2>5. bytes' = [bytes EXCEPT ![e] = bytes'[e]]
    BY <2>2, <2>4
  <2>6. bytes'[e] \in Nat /\ want[t] <= bytes'[e]
    BY <2>1, <2>4
  <2>7. QED
    BY <2>1, <2>2, <2>3, <2>5, <2>6, Given2Give
<1>4. QED
  BY <1>1, <1>2, <1>3 DEF AllocStep

LEMMA FreeTakes ==
    ASSUME IInv, NEW t \in Thread, FreeStep(t)
    PROVE  TheAllocator!Next \/ UNCHANGED <<held, want, bytes>>
<1>1. ASSUME GivenBack(t), UNCHANGED <<want, bytes>>, blk[t] \in held[t]
      PROVE  TheAllocator!Next
  <2>1. TheAllocator!Take(t, blk[t])
    BY <1>1 DEF TheAllocator!Take, GivenBack
  <2>2. blk[t] \in Block
    BY <1>1 DEF IInv, TypeOK
  <2>3. QED
    BY <2>1, <2>2 DEF TheAllocator!Next
<1>2. CASE Discard(t)
  BY <1>1, <1>2 DEF Discard, IInv, Stages
<1>3. CASE Unref(t)
  <2>1. blk[t] \in held[t]
    BY <1>3 DEF Unref, IInv, Stages
  <2>2. CASE GivenBack(t)
    BY <1>1, <1>3, <2>1, <2>2 DEF Unref
  <2>3. CASE UNCHANGED held
    BY <1>3, <2>3 DEF Unref
  <2>4. QED
    BY <1>3, <2>2, <2>3 DEF Unref
<1>4. CASE Push(t)
  BY <1>1, <1>4 DEF Push, IInv, Stages
<1>5. QED
  BY <1>2, <1>3, <1>4 DEF FreeStep

(* The pool gives a request a block that nobody holds and that is large    *)
(* enough, of the units or of malloc(), and takes back only held ones.     *)
THEOREM AllocatorRefined == Spec => ImplementsAllocator
<1>1. Init => TheAllocator!Init
  <2>1. Init => bytes \in [Block -> Nat]
    BY InitInv DEF IInv, TypeOK
  <2>2. QED
    BY <2>1 DEF Init, TheAllocator!Init
<1>2. IInv /\ [Next]_vars => [TheAllocator!Next]_<<held, want, bytes>>
  <2> SUFFICES ASSUME IInv, [Next]_vars
               PROVE  TheAllocator!Next \/ UNCHANGED <<held, want, bytes>>
    OBVIOUS
  <2>1. ASSUME NEW t \in Thread, NEW n \in Size, Request(t, n)
        PROVE  TheAllocator!Next
    <3>1. want[t] = Null /\ n \in Nat
      BY <2>1, PoolAssumption DEF Request, IInv, Stages
    <3>2. want' = [want EXCEPT ![t] = n] /\ want'[t] = n
      BY <2>1 DEF Request, IInv, TypeOK
    <3>3. TheAllocator!Ask(t)
      BY <2>1, <3>1, <3>2 DEF Request, TheAllocator!Ask
    <3>4. QED
      BY <3>3 DEF TheAllocator!Next
  <2>2. ASSUME NEW t \in Thread, AllocStep(t)
        PROVE  TheAllocator!Next \/ UNCHANGED <<held, want, bytes>>
    BY <2>2, AllocGives
  <2>3. ASSUME NEW t \in Thread, NEW b \in held[t], Release(t, b)
        PROVE  UNCHANGED <<held, want, bytes>>
    BY <2>3 DEF Release
  <2>4. ASSUME NEW t \in Thread, NEW b \in held[t], NEW u \in Thread \ {t},
               Hand(t, u, b)
        PROVE  TheAllocator!Next
    <3>1. TheAllocator!Hand(t, u, b)
      BY <2>4 DEF Hand, TheAllocator!Hand
    <3>2. b \in Block
      BY DEF IInv, TypeOK
    <3>3. QED
      BY <3>1, <3>2 DEF TheAllocator!Next
  <2>5. ASSUME NEW t \in Thread, FreeStep(t)
        PROVE  TheAllocator!Next \/ UNCHANGED <<held, want, bytes>>
    BY <2>5, FreeTakes
  <2>6. CASE UNCHANGED vars
    BY <2>6 DEF vars
  <2>7. QED
    BY <2>1, <2>2, <2>3, <2>4, <2>5, <2>6 DEF Next
<1>3. QED
  BY <1>1, <1>2, Inductive, PTL DEF Spec, ImplementsAllocator, TheAllocator!Spec
=============================================================================
