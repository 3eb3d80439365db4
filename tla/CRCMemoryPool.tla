--------------------------- MODULE CRCMemoryPool ---------------------------
(***************************************************************************)
(* CRCMemoryPool and its six CRCMemoryAlloc                                *)
(* (src/common/include/crc_memory_pool.hpp), which operator new and        *)
(* operator delete of the server call (src/EasyTcpServer/                  *)
(* crc_allocator.cpp) from every thread.                                   *)
(*                                                                         *)
(* An allocator keeps the free units of one size in a chain that starts at *)
(* _pHeader; alloc_mem() takes the first one and free_mem() puts one back, *)
(* both under the lock of the allocator.  When the chain is empty, or the  *)
(* request is larger than the largest unit, the block comes from malloc().  *)
(*                                                                         *)
(*   inited, header, mutex   _pBufPool # nullptr, _pHeader and _mutex of   *)
(*                           each allocator                                *)
(*   next, nRef              _pNext and _nRef of each block                *)
(*   bytes                   the room of each block                        *)
(*   pc, want, blk           where each thread is in alloc_mem() or        *)
(*                           free_mem(); nSize; pRet or pBlock             *)
(*   held                    the blocks whose pointer a thread has         *)
(***************************************************************************)
EXTENDS Naturals, FiniteSets

CONSTANTS
    Thread,
    Size,          \* the sizes the program asks for
    Quantity,      \* _nUnitQuantity; the same number for every allocator
    SystemBlock,   \* blocks that malloc() can return: bounds the model
    Null           \* nullptr, and no thread

MaxMemSize == 10240                                \* ALLOC_MAX_MEM_SIZE

(* The template arguments of the allocators, and the entries of _szAlloc   *)
(* that init_allocator() gives to each.                                    *)
Class == 1..6
UnitSize == <<64, 128, 256, 512, 1024, 10240>>
(* Mutant: the second allocator begins one entry late. *)
MutEntries == <<0..65, 66..128, 129..256, 257..512, 513..1024, 1025..10240>>
Entries == <<0..64, 65..128, 129..256, 257..512, 513..1024, 1025..10240>>

ClassOf(n) == CHOOSE k \in Class : n \in Entries[k]

(* while ((n <<= 1) < nUnitSize), from the size of a pointer, n = 8        *)
Doubled == {16, 32, 64, 128, 256, 512, 1024, 2048, 4096, 8192, 16384}

Room(k) ==
    CHOOSE n \in Doubled :
        n >= UnitSize[k] /\ \A d \in Doubled : d >= UnitSize[k] => n <= d

Unit == Class \X (0..(Quantity - 1))
UnitsOf(k) == {k} \X (0..(Quantity - 1))
Block == Unit \cup SystemBlock

ASSUME PoolAssumption ==
    /\ Quantity \in Nat \ {0}
    /\ Size \subseteq Nat
    /\ Null \notin Thread /\ Null \notin Block /\ Null \notin Nat
    /\ SystemBlock \cap Unit = {}

VARIABLES inited, header, mutex, next, nRef, bytes, pc, want, blk, held

allocVars == <<inited, header, mutex, next>>
blockVars == <<nRef, bytes>>
threadVars == <<pc, want, blk>>
vars == <<allocVars, blockVars, threadVars, held>>

InUse == UNION {held[t] : t \in Thread}

(* _bPool *)
InPool(b) == b \in Unit

Init ==
    /\ inited = [k \in Class |-> FALSE]
    /\ header = [k \in Class |-> Null]
    /\ mutex = [k \in Class |-> Null]
    /\ next = [b \in Block |-> Null]
    /\ nRef = [b \in Block |-> 0]
    /\ bytes = [b \in Block |-> IF InPool(b) THEN Room(b[1]) ELSE 0]
    /\ pc = [t \in Thread |-> "idle"]
    /\ want = [t \in Thread |-> Null]
    /\ blk = [t \in Thread |-> Null]
    /\ held = [t \in Thread |-> {}]

-----------------------------------------------------------------------------

Asking == {t \in Thread : want[t] # Null}
Spare == {e \in SystemBlock : nRef[e] = 0}

(* CRCMemoryPool::alloc_mem(): the allocator for the size, or malloc().    *)
(* The first conjunct bounds the model: malloc() does not fail.            *)
Request(t, n) ==
    /\ Cardinality(Asking) < Cardinality(Spare)
    /\ pc[t] = "idle"
    /\ want' = [want EXCEPT ![t] = n]
    /\ pc' = [pc EXCEPT ![t] = IF n <= MaxMemSize THEN "alloc" ELSE "malloc"]
    /\ UNCHANGED <<allocVars, blockVars, blk, held>>

(* init_pool(): the units in the order of their addresses. *)
Linked(b) == IF b[2] + 1 < Quantity THEN <<b[1], b[2] + 1>> ELSE Null

InitPool(k) ==
    /\ inited' = [inited EXCEPT ![k] = TRUE]
    /\ header' = [header EXCEPT ![k] = <<k, 0>>]
    /\ next' = [b \in Block |-> IF b \in UnitsOf(k) THEN Linked(b) ELSE next[b]]
    /\ nRef' = [b \in Block |-> IF b \in UnitsOf(k) THEN 0 ELSE nRef[b]]

(* CRCMemoryAlloc::alloc_mem() up to the test of _pHeader. *)
Lock(t) ==
    LET k == ClassOf(want[t])
    IN  /\ pc[t] = "alloc"
        /\ mutex[k] = Null
        /\ mutex' = [mutex EXCEPT ![k] = t]
        /\ IF inited[k] THEN UNCHANGED <<inited, header, next, nRef>>
                        ELSE InitPool(k)
        /\ blk' = [blk EXCEPT ![t] = header'[k]]
        /\ pc' = [pc EXCEPT ![t] = "take"]
        /\ UNCHANGED <<bytes, want, held>>

(* The thread returns from alloc_mem() with b. *)
Given(t, b) ==
    /\ nRef' = [nRef EXCEPT ![b] = 1]
    /\ held' = [held EXCEPT ![t] = @ \cup {b}]
    /\ want' = [want EXCEPT ![t] = Null]
    /\ blk' = [blk EXCEPT ![t] = Null]
    /\ pc' = [pc EXCEPT ![t] = "idle"]

(* Mutant: the header is not advanced when it was the last unit. *)
MutTakeUnit(t) ==
    LET k == ClassOf(want[t])
    IN  /\ pc[t] = "take"
        /\ blk[t] # Null
        /\ header' = [header EXCEPT ![k] = IF next[blk[t]] = Null THEN @ ELSE next[blk[t]]]
        /\ mutex' = [mutex EXCEPT ![k] = Null]
        /\ Given(t, blk[t])
        /\ UNCHANGED <<inited, next, bytes>>

TakeUnit(t) ==
    LET k == ClassOf(want[t])
    IN  /\ pc[t] = "take"
        /\ blk[t] # Null
        /\ header' = [header EXCEPT ![k] = next[blk[t]]]
        /\ mutex' = [mutex EXCEPT ![k] = Null]
        /\ Given(t, blk[t])
        /\ UNCHANGED <<inited, next, bytes>>

(* malloc(nSize + sizeof(CRCMemoryBlock)) *)
Malloc(t) ==
    \E e \in Spare :
        /\ bytes' = [bytes EXCEPT ![e] = want[t]]
        /\ next' = [next EXCEPT ![e] = Null]
        /\ Given(t, e)

(* The chain is empty. *)
TakeSystem(t) ==
    /\ pc[t] = "take"
    /\ blk[t] = Null
    /\ mutex' = [mutex EXCEPT ![ClassOf(want[t])] = Null]
    /\ Malloc(t)
    /\ UNCHANGED <<inited, header>>

(* The request is larger than the largest unit. *)
TakeLarge(t) ==
    /\ pc[t] = "malloc"
    /\ Malloc(t)
    /\ UNCHANGED <<inited, header, mutex>>

-----------------------------------------------------------------------------

(* The pointer reaches another thread: a channel is made by the boss       *)
(* server and deleted by a work server.                                    *)
Hand(t, u, b) ==
    /\ pc[t] = "idle"
    /\ b \in held[t]
    /\ held' = [held EXCEPT ![t] = @ \ {b}, ![u] = @ \cup {b}]
    /\ UNCHANGED <<allocVars, blockVars, threadVars>>

(* CRCMemoryPool::free_mem(): _bPool is read without a lock. *)
Release(t, b) ==
    /\ pc[t] = "idle"
    /\ b \in held[t]
    /\ blk' = [blk EXCEPT ![t] = b]
    /\ pc' = [pc EXCEPT ![t] = IF InPool(b) THEN "free" ELSE "discard"]
    /\ UNCHANGED <<allocVars, blockVars, want, held>>

(* The thread returns from free_mem(). *)
GivenBack(t) ==
    /\ held' = [held EXCEPT ![t] = @ \ {blk[t]}]
    /\ blk' = [blk EXCEPT ![t] = Null]
    /\ pc' = [pc EXCEPT ![t] = "idle"]

(* A block of malloc(): free() when the count reaches zero. *)
Discard(t) ==
    /\ pc[t] = "discard"
    /\ nRef' = [nRef EXCEPT ![blk[t]] = @ - 1]
    /\ GivenBack(t)
    /\ UNCHANGED <<allocVars, bytes, want>>

(* CRCMemoryAlloc::free_mem() up to _pNext = _pHeader.  A count above one  *)
(* needs add_ref(), which nothing calls.                                   *)
Unref(t) ==
    LET b == blk[t]
    IN  /\ pc[t] = "free"
        /\ mutex[b[1]] = Null
        /\ nRef' = [nRef EXCEPT ![b] = @ - 1]
        /\ IF nRef'[b] # 0
           THEN /\ GivenBack(t)
                /\ UNCHANGED <<mutex, next>>
           ELSE /\ mutex' = [mutex EXCEPT ![b[1]] = t]
                /\ next' = [next EXCEPT ![b] = header[b[1]]]
                /\ pc' = [pc EXCEPT ![t] = "push"]
                /\ UNCHANGED <<blk, held>>
        /\ UNCHANGED <<inited, header, bytes, want>>

(* _pHeader = pBlock, and the lock is released. *)
Push(t) ==
    LET k == blk[t][1]
    IN  /\ pc[t] = "push"
        /\ header' = [header EXCEPT ![k] = blk[t]]
        /\ mutex' = [mutex EXCEPT ![k] = Null]
        /\ GivenBack(t)
        /\ UNCHANGED <<inited, next, blockVars, want>>

-----------------------------------------------------------------------------

AllocStep(t) == Lock(t) \/ TakeUnit(t) \/ TakeSystem(t) \/ TakeLarge(t)
FreeStep(t) == Discard(t) \/ Unref(t) \/ Push(t)

Next ==
    \E t \in Thread :
        \/ \E n \in Size : Request(t, n)
        \/ AllocStep(t)
        \/ \E b \in held[t] :
               Release(t, b) \/ \E u \in Thread \ {t} : Hand(t, u, b)
        \/ FreeStep(t)

Spec == Init /\ [][Next]_vars

-----------------------------------------------------------------------------

TypeOK ==
    /\ inited \in [Class -> BOOLEAN]
    /\ header \in [Class -> Unit \cup {Null}]
    /\ mutex \in [Class -> Thread \cup {Null}]
    /\ next \in [Block -> Unit \cup {Null}]
    /\ nRef \in [Block -> {0, 1}]
    /\ bytes \in [Block -> Nat]
    /\ pc \in [Thread -> {"idle", "alloc", "take", "malloc", "discard", "free", "push"}]
    /\ want \in [Thread -> Size \cup {Null}]
    /\ blk \in [Thread -> Block \cup {Null}]
    /\ held \in [Thread -> SUBSET Block]

(* The chain of an allocator that is initialised goes once through each of *)
(* its units that nobody holds, and ends: no unit is lost, none is in the  *)
(* chain twice, none in use or from malloc() is in it.                     *)
Free(k) == UnitsOf(k) \ InUse

Chain(k, s) ==
    LET n == Cardinality(Free(k))
    IN  /\ \A i, j \in 1..n : s[i] = s[j] => i = j
        /\ header[k] = IF n = 0 THEN Null ELSE s[1]
        /\ \A i \in 1..n : next[s[i]] = IF i = n THEN Null ELSE s[i + 1]

FreeChain ==
    \A k \in Class :
        IF inited[k] THEN \E s \in [1..Cardinality(Free(k)) -> Free(k)] : Chain(k, s)
                     ELSE header[k] = Null /\ Free(k) = UnitsOf(k)

(* A block has one holder, and its count says so, also while it goes from  *)
(* thread to thread; the count of the unit at the header is 0 and that of  *)
(* a block to be freed is not, as the asserts of lines 109 and 122 demand. *)
Unlinked(b) == \E t \in Thread : pc[t] = "push" /\ blk[t] = b

OneHolder ==
    /\ \A t, u \in Thread : t # u => held[t] \cap held[u] = {}
    /\ \A b \in Block : nRef[b] = IF b \in InUse /\ ~Unlinked(b) THEN 1 ELSE 0

(* A request that an allocator could serve goes to malloc() only while     *)
(* every unit of that allocator is in use.                                 *)
MallocOnlyWhenFull ==
    \A t \in Thread :
        pc[t] = "take" /\ blk[t] = Null => UnitsOf(ClassOf(want[t])) \subseteq InUse

(* The pool is an allocator: whoever is given a block is alone with it and *)
(* finds room for what it asked for, whichever size class served it.       *)
TheAllocator == INSTANCE Allocator
ImplementsAllocator == TheAllocator!Spec
=============================================================================
