--------------------------- MODULE SmallAllocator ---------------------------
(***************************************************************************)
(* The allocator of small objects (src/src/Common/Memory/SmallAllocator.cpp) *)
(* as Lua uses it: every call is reallocate(p, osize, nsize) or gc.  A pool *)
(* for each class of sizes, a FixedAllocator, carves its blocks out of      *)
(* chunks.  A chunk is in one of three lists, by how many of its blocks are *)
(* free; its free blocks are chained by the index in their first byte.     *)
(*                                                                         *)
(* A block is <<i, c, b>>: pool, chunk, index.  The pointer to the chunk    *)
(* that stands before each block is c.  The address of a deleted chunk is   *)
(* given out again at once.                                                *)
(***************************************************************************)
EXTENDS Integers, FiniteSets

CONSTANTS OffSet,      \* the width of a class of sizes
          MaxObjSize,  \* what is larger comes from li_malloc
          Blocks,      \* m_countBlocks
          MaxChunks,   \* bound on the chunks of each pool, the memory there is
          Sizes,       \* what Lua asks for
          MaxLarge,    \* bound on the blocks from li_malloc, the memory it has
          MaxHeld      \* bound on the blocks Lua has at a time

ASSUME AllocatorAssumption ==
    /\ OffSet \in Nat \ {0} /\ MaxObjSize \in Nat \ {0} /\ MaxObjSize % OffSet = 0
    /\ Blocks \in 1..255
    /\ MaxChunks \in [0..(MaxObjSize \div OffSet - 1) -> Nat \ {0}]
    /\ MaxLarge \in Nat /\ MaxHeld \in Nat
    /\ Sizes \subseteq Nat \ {0}

VARIABLES
    m_pool,   \* class to FixedAllocator, made when first used
    held,     \* what Lua has: block, the size it asked for, the room behind p
    ret       \* was the last reallocate asked for nothing, and was the result NULL

vars == <<m_pool, held, ret>>

Large == MaxObjSize \div OffSet          \* the pool of blocks from li_malloc
NULL == 0
NullBlock == <<Large, 0, 0>>
Index(size) == (size - 1) \div OffSet    \* (size - 1) >> OffSet_Bit

Used == -1                               \* the first byte of a block in use

-----------------------------------------------------------------------------
\* The lists of chunks of a FixedAllocator f.

Lists == {"full", "free", "empty"}       \* m_chunkList, m_freeList, m_emptyList

NewPool == [chunk |-> [c \in {} |-> 0], head |-> [list \in Lists |-> NULL],
            chunkCount |-> 0, emptyCount |-> 0]

\* The chunks a walk from the head meets, in every set that holds the head and
\* what is behind its own.
InList(f, list) ==
    LET chunks == DOMAIN f.chunk
        Walked(S) == /\ f.head[list] \in chunks => f.head[list] \in S
                     /\ \A c \in S : f.chunk[c].next \in chunks => f.chunk[c].next \in S
    IN  {c \in chunks : \A S \in SUBSET chunks : Walked(S) => c \in S}

\* f with the chunks relinked and another first one in the list.
Relink(f, chunk, list, first) == [f EXCEPT !.chunk = chunk, !.head[list] = first]

\* Fault for ListsOK: the one before is not told.
UnlinkNextOnly(f, list, c) ==
    LET k == f.chunk[c] IN
    Relink(f, [d \in DOMAIN f.chunk |-> [f.chunk[d] EXCEPT
                  !.pre = IF d = k.next THEN k.pre ELSE @]],
           list, IF k.pre = NULL THEN k.next ELSE f.head[list])

Unlink(f, list, c) ==
    LET k == f.chunk[c] IN
    Relink(f, [d \in DOMAIN f.chunk |-> [f.chunk[d] EXCEPT
                  !.next = IF d = k.pre THEN k.next ELSE @,
                  !.pre = IF d = k.next THEN k.pre ELSE @]],
           list, IF k.pre = NULL THEN k.next ELSE f.head[list])

PushFront(f, list, c) ==
    LET first == f.head[list] IN
    Relink(f, [d \in DOMAIN f.chunk |->
                  IF d = c THEN [f.chunk[d] EXCEPT !.pre = NULL, !.next = first]
                  ELSE IF d = first THEN [f.chunk[d] EXCEPT !.pre = c] ELSE f.chunk[d]],
           list, c)

\* The list without its head.
PopHead(f, list) ==
    LET next == f.chunk[f.head[list]].next IN
    Relink(f, [d \in DOMAIN f.chunk |->
                  IF d = next THEN [f.chunk[d] EXCEPT !.pre = NULL] ELSE f.chunk[d]],
           list, next)

Move(f, from, to, c) == PushFront(Unlink(f, from, c), to, c)
MoveHead(f, from, to) == PushFront(PopHead(f, from), to, f.head[from])
Delete(f, cs) ==
    [f EXCEPT !.chunk = [d \in DOMAIN @ \ cs |-> @[d]],
              !.chunkCount = @ - Cardinality(cs), !.emptyCount = @ - Cardinality(cs)]

-----------------------------------------------------------------------------
\* _Chunk

\* _Chunk::init: each block names the one behind it, the last one the count.
NewChunk == [byte |-> [b \in 0..(Blocks - 1) |-> b + 1], first |-> 0, avail |-> Blocks,
             pre |-> NULL, next |-> NULL]

\* Fault for TypeOK: the next index is read after the block was written to.
TakeLate(k) == [k EXCEPT !.byte[k.first] = Used, !.first = Used, !.avail = @ - 1]

\* _Chunk::allocate of the first free block, and what Lua writes into it.
Take(k) == [k EXCEPT !.byte[k.first] = Used, !.first = k.byte[k.first], !.avail = @ - 1]

\* Fault for BlocksOK: the chain forgets the block that was first.
PutAlone(k, b) == [k EXCEPT !.first = b, !.avail = @ + 1]

\* _Chunk::deallocate
Put(k, b) == [k EXCEPT !.byte[b] = k.first, !.first = b, !.avail = @ + 1]

-----------------------------------------------------------------------------
\* FixedAllocator

\* A chunk that nothing has been taken from, in a list of empty ones that had none.
AddChunk(f, c) ==
    [f EXCEPT !.chunk = [d \in DOMAIN @ \cup {c} |-> IF d = c THEN NewChunk ELSE @[d]],
              !.head["empty"] = c, !.chunkCount = @ + 1, !.emptyCount = @ + 1]

\* The new chunk goes through the list of empty ones.  Without memory, ~ok, and
\* without an empty chunk nothing happens.
create_chunk(f, ok) ==
    LET new == CHOOSE c \in 1..(f.chunkCount + 1) : c \notin DOMAIN f.chunk
        h == IF f.head["empty"] = NULL /\ ok THEN AddChunk(f, new) ELSE f
    IN  IF h.head["empty"] = NULL THEN f
        ELSE [MoveHead(h, "empty", "free") EXCEPT !.emptyCount = @ - 1]

\* The allocator and the block, or NullBlock.
allocate_fixed(i, f, ok) ==
    LET g == IF f.head["free"] = NULL THEN create_chunk(f, ok) ELSE f
        c == g.head["free"]
        h == [g EXCEPT !.chunk[c] = Take(@)]
    IN  IF c = NULL THEN [f |-> g, p |-> NullBlock]
        ELSE [f |-> IF h.chunk[c].avail = 0 THEN MoveHead(h, "free", "full") ELSE h,
              p |-> <<i, c, g.chunk[c].first>>]

gc_fixed(f, all) ==
    IF f.head["empty"] = NULL THEN f
    ELSE IF all
    THEN Delete([f EXCEPT !.head["empty"] = NULL], InList(f, "empty"))
    ELSE Delete(PopHead(f, "empty"), {f.head["empty"]})

deallocate_fixed(f, c, b) ==
    LET g == IF f.chunk[c].avail = 0 THEN Move(f, "full", "free", c) ELSE f
        h == [g EXCEPT !.chunk[c] = Put(@, b)]
        e == IF h.chunk[c].avail = Blocks
             THEN [Move(h, "free", "empty", c) EXCEPT !.emptyCount = @ + 1] ELSE h
    IN  IF e.emptyCount > e.chunkCount \div 4 + 1 THEN gc_fixed(e, FALSE) ELSE e

-----------------------------------------------------------------------------
\* SmallAllocator, on the pools.

\* The constructor of a FixedAllocator makes its first chunk.
Pool(pools, i, ok) == IF i \in DOMAIN pools THEN pools[i] ELSE create_chunk(NewPool, ok)

LargeHeld == {e.p[2] : e \in {d \in held : d.p[1] = Large}}
LargeBlock == <<Large, CHOOSE n \in 1..MaxLarge : n \notin LargeHeld, 0>>

\* The pools, the block and the room behind it.
allocate(pools, size, ok) ==
    LET i == IF size = 0 THEN 0 ELSE Index(size)
        r == allocate_fixed(i, Pool(pools, i, ok), ok)
    IN  IF size > MaxObjSize
        THEN [pools |-> pools, p |-> IF ok THEN LargeBlock ELSE NullBlock, room |-> size]
        ELSE [pools |-> [j \in DOMAIN pools \cup {i} |-> IF j = i THEN r.f ELSE pools[j]],
              p |-> r.p, room |-> (i + 1) * OffSet]

deallocate(pools, p, size) ==
    IF size > MaxObjSize THEN pools
    ELSE [pools EXCEPT ![Index(size)] = deallocate_fixed(@, p[2], p[3])]

Return(nsize, p) == ret' = [nothing |-> nsize = 0, null |-> p = NullBlock]

\* reallocate(NULL, 0, nsize) is allocate(nsize), for no bytes too.
realloc_null(nsize, ok) ==
    LET a == allocate(m_pool, nsize, ok) IN
    /\ Cardinality(held) < MaxHeld
    /\ m_pool' = a.pools
    /\ held' = held \cup IF a.p = NullBlock THEN {}
                       ELSE {[p |-> a.p, size |-> nsize, room |-> a.room]}
    /\ Return(nsize, a.p)

realloc_free(e) ==
    /\ m_pool' = deallocate(m_pool, e.p, e.size)
    /\ held' = held \ {e}
    /\ Return(0, NullBlock)

\* Fault for RoomOK: the classes are compared as if they began at 0.
SameFromZero(e, nsize) ==
    /\ e.size \div OffSet = nsize \div OffSet
    /\ held' = (held \ {e}) \cup {[e EXCEPT !.size = nsize]}
    /\ Return(nsize, e.p)
    /\ UNCHANGED m_pool

\* Sizes of one class, larger ones included, are the same block.
realloc_same(e, nsize) ==
    /\ Index(e.size) = Index(nsize)
    /\ held' = (held \ {e}) \cup {[e EXCEPT !.size = nsize]}
    /\ Return(nsize, e.p)
    /\ UNCHANGED m_pool

\* li_realloc
realloc_large(e, nsize, ok) ==
    /\ Index(e.size) # Index(nsize) /\ e.size > MaxObjSize /\ nsize > MaxObjSize
    /\ held' = IF ok THEN (held \ {e}) \cup {[e EXCEPT !.size = nsize, !.room = nsize]} ELSE held
    /\ Return(nsize, IF ok THEN e.p ELSE NullBlock)
    /\ UNCHANGED m_pool

\* The old block goes when the new one is there.
realloc_move(e, nsize, ok) ==
    LET a == allocate(m_pool, nsize, ok) IN
    /\ Index(e.size) # Index(nsize) /\ (e.size <= MaxObjSize \/ nsize <= MaxObjSize)
    /\ IF a.p = NullBlock
       THEN m_pool' = a.pools /\ UNCHANGED held
       ELSE /\ m_pool' = deallocate(a.pools, e.p, e.size)
            /\ held' = (held \ {e}) \cup {[p |-> a.p, size |-> nsize, room |-> a.room]}
    /\ Return(nsize, a.p)

\* There is memory for another chunk of the size's class, or another large block.
Memory(size) ==
    IF size > MaxObjSize THEN Cardinality(LargeHeld) < MaxLarge
    ELSE LET i == IF size = 0 THEN 0 ELSE Index(size) IN
         i \in DOMAIN m_pool => DOMAIN m_pool[i].chunk # 1..MaxChunks[i]

\* Lua gives a block it has with the size it has asked for, or NULL.  A block that
\* it did not ask for, of size 0, it does not know.
reallocate ==
    \E nsize \in Sizes \cup {0}, ok \in BOOLEAN :
       \/ (ok => Memory(nsize)) /\ realloc_null(nsize, ok)
       \/ \E e \in held : e.size > 0 /\
             \/ nsize = 0 /\ realloc_free(e)
             \/ nsize > 0 /\ realloc_same(e, nsize)
             \/ nsize > 0 /\ realloc_large(e, nsize, ok)
             \/ nsize > 0 /\ (ok => Memory(nsize)) /\ realloc_move(e, nsize, ok)

gc == \E all \in BOOLEAN :
         /\ m_pool' = [i \in DOMAIN m_pool |-> gc_fixed(m_pool[i], all)]
         /\ UNCHANGED <<held, ret>>

Init == m_pool = [i \in {} |-> NewPool] /\ held = {} /\ ret = [nothing |-> TRUE, null |-> TRUE]

Next == reallocate \/ gc

Spec == Init /\ [][Next]_vars

-----------------------------------------------------------------------------
Block == (UNION {{i} \X (1..MaxChunks[i]) \X (0..(Blocks - 1)) : i \in 0..(Large - 1)})
         \cup {<<Large, n, 0>> : n \in 1..MaxLarge}

\* Pools, chunks and blocks are what they should be; the byte of a free block is
\* an index or, in the last of the chain, the number of blocks.
TypeOK ==
    /\ DOMAIN m_pool \subseteq 0..(Large - 1)
    /\ \A i \in DOMAIN m_pool :
          /\ DOMAIN m_pool[i].chunk \subseteq 1..MaxChunks[i]
          /\ \A c \in DOMAIN m_pool[i].chunk : LET k == m_pool[i].chunk[c] IN
                /\ k.byte \in [0..(Blocks - 1) -> Used..Blocks]
                /\ k.first \in 0..Blocks /\ k.avail \in 0..Blocks
                /\ {k.pre, k.next} \subseteq DOMAIN m_pool[i].chunk \cup {NULL}
          /\ \A list \in Lists :
                m_pool[i].head[list] \in DOMAIN m_pool[i].chunk \cup {NULL}
    /\ \A e \in held : e.p \in Block /\ {e.size, e.room} \subseteq Nat
    /\ ret \in [nothing : BOOLEAN, null : BOOLEAN]

\* Each chunk is in the one list its free blocks put it in, linked both ways
\* (SmallAllocator.cpp:143-153, 176-182, 192-226, 248-260), both counts are right,
\* and no more empty chunks are kept than a quarter of the most chunks there can be
\* and one.  Of the chunks there are it can be more than a quarter: gc deletes one
\* for each that becomes empty, and so their number stays while the others go.
ListsOK ==
    \A i \in DOMAIN m_pool : LET f == m_pool[i]  chunks == DOMAIN f.chunk IN
        /\ InList(f, "full") = {c \in chunks : f.chunk[c].avail = 0}
        /\ InList(f, "free") = {c \in chunks : f.chunk[c].avail \in 1..(Blocks - 1)}
        /\ InList(f, "empty") = {c \in chunks : f.chunk[c].avail = Blocks}
        /\ \A c \in chunks : f.chunk[c].next # NULL => f.chunk[f.chunk[c].next].pre = c
        /\ \A list \in Lists : f.head[list] # NULL => f.chunk[f.head[list]].pre = NULL
        /\ f.chunkCount = Cardinality(chunks)
        /\ f.emptyCount = Cardinality(InList(f, "empty"))
        /\ f.emptyCount <= MaxChunks[i] \div 4 + 1

\* The blocks that the chain meets from the first on, until it ends at Blocks.
Chain(k) ==
    LET blocks == 0..(Blocks - 1)
        Walked(S) == /\ k.first \in blocks => k.first \in S
                     /\ \A b \in S : k.byte[b] \in blocks => k.byte[b] \in S
    IN  {b \in blocks : \A S \in SUBSET blocks : Walked(S) => b \in S}

\* The free chain of a chunk holds m_countAvBlocks different blocks, and these are
\* all but those that were given out: no block is given out twice or lost, and no
\* chunk is deleted with a block of it in use.
BlocksOK ==
    /\ \A e \in held : e.p[1] # Large =>
          e.p[1] \in DOMAIN m_pool /\ e.p[2] \in DOMAIN m_pool[e.p[1]].chunk
    /\ \A d, e \in held : d.p = e.p => d = e
    /\ \A i \in DOMAIN m_pool : \A c \in DOMAIN m_pool[i].chunk :
          LET k == m_pool[i].chunk[c]
              used == {b \in 0..(Blocks - 1) : \E e \in held : e.p = <<i, c, b>>}
          IN  Cardinality(Chain(k)) = k.avail /\ Chain(k) = 0..(Blocks - 1) \ used

\* A block has room for what it was asked for, unless it is a large one that was
\* asked to grow within its class (SmallAllocator.cpp:347).
RoomOK == \A e \in held : e.size <= e.room \/ (e.p[1] = Large /\ Index(e.size) = Index(e.room))

\* lmem.c:82 of the Lua that calls: lua_assert((nsize == 0) == (block == NULL)),
\* after an error is thrown for a NULL block of some size.
LuaBlockNull == ret.nothing => ret.null
=============================================================================
