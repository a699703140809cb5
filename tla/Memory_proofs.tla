---------------------------- MODULE Memory_proofs ----------------------------
(***************************************************************************)
(* The allocator, and the pointers that share what it gave out.             *)
(*                                                                         *)
(* SmallAllocator, for any width of the classes, number of blocks in a      *)
(* chunk, sizes and memory: pools, chunks and blocks have the right form,   *)
(* each chunk is in the list its free blocks put it in, no block is given   *)
(* out twice or lost, and each has room for what it was asked for.          *)
(* AllocatorInv knows a list by the set of its chunks and not by their      *)
(* order: each has one before it, and only the whole set holds the head and *)
(* what is behind each (Linked). That is kept when a chunk is unlinked or   *)
(* pushed, and makes the set what a walk meets. The free blocks of a chunk  *)
(* are known in the same way (FreeChain).                                   *)
(*                                                                         *)
(* SharedPtr, for all finite sets of SharedPtrs and WeakPtrs: while one     *)
(* SharedPtr points to the object it is not released, without overlapping   *)
(* drops the object and the counter are deleted once, and nothing leaks.    *)
(***************************************************************************)
EXTENDS SmallAllocator, SharedPtr, FiniteSetTheorems, WellFoundedInduction, TLAPS

-----------------------------------------------------------------------------
(* The classes of sizes.                                                   *)

LEMMA Division ==
    ASSUME NEW n \in Nat, NEW d \in Nat \ {0}
    PROVE  n \div d \in Nat /\ (n \div d) * d <= n /\ n < (n \div d + 1) * d
  BY Z3

LEMMA Factors == Large \in Nat \ {0} /\ MaxObjSize = Large * OffSet
  <1>1. MaxObjSize \in Nat \ {0} /\ OffSet \in Nat \ {0} /\ MaxObjSize % OffSet = 0
    BY AllocatorAssumption
  <1> QED BY <1>1, Z3 DEF Large

\* Monotony of the product, for which no prover needs to think of division.
LEMMA Product ==
    ASSUME NEW i \in Nat, NEW j \in Nat, NEW d \in Nat \ {0}
    PROVE  (i <= j => i * d <= j * d) /\ (i * d < j * d => i < j)
  BY Z3

\* A class holds the sizes of the last OffSet bytes of its blocks.
LEMMA Class ==
    ASSUME NEW n \in Nat \ {0}
    PROVE  /\ Index(n) \in Nat
           /\ n <= (Index(n) + 1) * OffSet
           /\ n <= MaxObjSize => Index(n) < Large /\ (Index(n) + 1) * OffSet <= MaxObjSize
  <1>1. OffSet \in Nat \ {0} /\ n - 1 \in Nat
    BY AllocatorAssumption
  <1>2. /\ Index(n) \in Nat
        /\ Index(n) * OffSet <= n - 1 /\ n - 1 < (Index(n) + 1) * OffSet
    BY <1>1, Division DEF Index
  <1>3. n <= (Index(n) + 1) * OffSet
    <2>1. (Index(n) + 1) * OffSet \in Nat
      BY <1>1, <1>2
    <2> QED BY <1>1, <1>2, <2>1
  <1>4. ASSUME n <= MaxObjSize
        PROVE  Index(n) < Large /\ (Index(n) + 1) * OffSet <= MaxObjSize
    <2>1. Index(n) * OffSet \in Nat /\ Large * OffSet \in Nat
      BY <1>1, <1>2, Factors
    <2>2. Index(n) * OffSet < Large * OffSet
      BY <1>1, <1>2, <1>4, <2>1, Factors
    <2>3. Index(n) < Large
      BY <1>1, <1>2, <2>2, Factors, Product
    <2>4. Index(n) + 1 \in Nat /\ Index(n) + 1 <= Large
      BY <1>2, <2>3, Factors
    <2> QED BY <1>1, <2>3, <2>4, Factors, Product
  <1> QED BY <1>2, <1>3, <1>4

-----------------------------------------------------------------------------
(* The blocks Lua has.                                                     *)

\* The room of a small block is that of its class, and a small block stays small.
Fits(e) ==
    /\ e = [p |-> e.p, size |-> e.size, room |-> e.room]
    /\ e.size \in Nat /\ e.room \in Nat
    /\ e.p[1] = Large => Index(e.size) = Index(e.room)
    /\ e.p[1] # Large => /\ e.size <= e.room /\ e.room <= MaxObjSize
                         /\ e.size > 0 => e.room = (Index(e.size) + 1) * OffSet

Inv == \A e \in held : Fits(e)

LEMMA InvRoom == Inv => RoomOK
  BY DEF Inv, RoomOK, Fits

\* What allocate makes fits.
LEMMA Allocated ==
    ASSUME NEW size \in Sizes \cup {0}, NEW ok \in BOOLEAN, NEW a,
           a = allocate(m_pool, size, ok), a.p # NullBlock
    PROVE  Fits([p |-> a.p, size |-> size, room |-> a.room])
  <1>1. size \in Nat /\ OffSet \in Nat \ {0} /\ MaxObjSize \in Nat \ {0}
    BY AllocatorAssumption
  <1>2. CASE size > MaxObjSize
    <2>1. a.p[1] = Large /\ a.room = size
      BY <1>2 DEF allocate, LargeBlock, NullBlock
    <2> QED BY <1>1, <2>1 DEF Fits
  <1>3. CASE size <= MaxObjSize
    <2> DEFINE i == IF size = 0 THEN 0 ELSE Index(size)
    <2>1. a.room = (i + 1) * OffSet /\ a.p[1] = i
      <3>1. /\ a.room = (i + 1) * OffSet
            /\ a.p = allocate_fixed(i, Pool(m_pool, i, ok), ok).p
        BY <1>1, <1>3 DEF allocate
      <3> HIDE DEF i
      <3> QED BY <3>1 DEF allocate_fixed
    <2>2. CASE size = 0
      <3>1. OffSet <= MaxObjSize
        BY <1>1, Factors, Product
      <3>2. a.room = OffSet /\ a.p[1] = 0
        BY <1>1, <2>1, <2>2
      <3> QED BY <1>1, <2>2, <3>1, <3>2, Factors DEF Fits
    <2>3. CASE size # 0
      <3>1. /\ Index(size) \in Nat /\ size <= (Index(size) + 1) * OffSet
            /\ Index(size) < Large /\ (Index(size) + 1) * OffSet <= MaxObjSize
        BY <1>1, <1>3, <2>3, Class
      <3>2. a.room = (Index(size) + 1) * OffSet /\ a.p[1] = Index(size)
        BY <2>1, <2>3
      <3>3. (Index(size) + 1) * OffSet \in Nat
        BY <1>1, <3>1
      <3> QED BY <1>1, <2>3, <3>1, <3>2, <3>3, Factors DEF Fits
    <2> QED BY <2>2, <2>3
  <1> QED BY <1>1, <1>2, <1>3

LEMMA InvInit == Init => Inv
  BY DEF Init, Inv

LEMMA StepInv == Inv /\ [Next]_vars => Inv'
  <1> SUFFICES ASSUME Inv, [Next]_vars PROVE Inv'
    OBVIOUS
  <1>1. ASSUME NEW nsize \in Sizes \cup {0}, NEW ok \in BOOLEAN, realloc_null(nsize, ok)
        PROVE  Inv'
    <2> DEFINE a == allocate(m_pool, nsize, ok)
    <2>1. held' = held \cup IF a.p = NullBlock THEN {}
                            ELSE {[p |-> a.p, size |-> nsize, room |-> a.room]}
      BY <1>1 DEF realloc_null
    <2>2. a.p # NullBlock => Fits([p |-> a.p, size |-> nsize, room |-> a.room])
      BY Allocated
    <2> HIDE DEF a
    <2> QED BY <2>1, <2>2 DEF Inv
  <1>2. ASSUME NEW e \in held, realloc_free(e) PROVE Inv'
    BY <1>2 DEF realloc_free, Inv
  <1>3. ASSUME NEW e \in held, NEW nsize \in Sizes, e.size > 0, realloc_same(e, nsize)
        PROVE  Inv'
    <2> DEFINE n == [e EXCEPT !.size = nsize]
    <2>1. Fits(e) /\ nsize \in Nat \ {0}
      BY AllocatorAssumption DEF Inv
    <2>2. n = [p |-> e.p, size |-> nsize, room |-> e.room]
      BY <2>1 DEF Fits
    <2>3. Index(e.size) = Index(nsize) /\ held' = (held \ {e}) \cup {n}
      BY <1>3 DEF realloc_same
    <2> HIDE DEF n
    <2>4. Fits(n)
      BY <1>3, <2>1, <2>2, <2>3, Class DEF Fits
    <2> QED BY <2>3, <2>4 DEF Inv
  <1>4. ASSUME NEW e \in held, NEW nsize \in Sizes, NEW ok \in BOOLEAN,
               realloc_large(e, nsize, ok)
        PROVE  Inv'
    <2> DEFINE n == [e EXCEPT !.size = nsize, !.room = nsize]
    <2>1. Fits(e) /\ nsize \in Nat \ {0} /\ MaxObjSize \in Nat
      BY AllocatorAssumption DEF Inv
    <2>2. n = [p |-> e.p, size |-> nsize, room |-> nsize]
      <3>1. PICK p, size, room : e = [p |-> p, size |-> size, room |-> room]
        BY <2>1 DEF Fits
      <3>2. PICK m : m = [e EXCEPT !.size = nsize]
        OBVIOUS
      <3>3. m = [p |-> p, size |-> nsize, room |-> room]
        BY <3>1, <3>2
      <3>4. [m EXCEPT !.room = nsize] = [p |-> p, size |-> nsize, room |-> nsize]
        BY <3>3
      <3>5. n = [m EXCEPT !.room = nsize]
        BY <3>2
      <3> QED BY <3>1, <3>4, <3>5
    <2>3. e.size > MaxObjSize /\ (held' = (held \ {e}) \cup {n} \/ held' = held)
      BY <1>4 DEF realloc_large
    <2> HIDE DEF n
    <2>4. Fits(n)
      BY <2>1, <2>2, <2>3 DEF Fits
    <2> QED BY <2>3, <2>4 DEF Inv
  <1>5. ASSUME NEW e \in held, NEW nsize \in Sizes, NEW ok \in BOOLEAN,
               realloc_move(e, nsize, ok)
        PROVE  Inv'
    <2> DEFINE a == allocate(m_pool, nsize, ok)
    <2>1. \/ held' = held
          \/ /\ a.p # NullBlock
             /\ held' = (held \ {e}) \cup {[p |-> a.p, size |-> nsize, room |-> a.room]}
      BY <1>5 DEF realloc_move
    <2>2. a.p # NullBlock => Fits([p |-> a.p, size |-> nsize, room |-> a.room])
      BY Allocated
    <2> HIDE DEF a
    <2> QED BY <2>1, <2>2 DEF Inv
  <1>6. CASE gc \/ UNCHANGED vars
    BY <1>6 DEF gc, vars, Inv
  <1>7. ASSUME reallocate PROVE Inv'
    <2>1. PICK nsize \in Sizes \cup {0}, ok \in BOOLEAN :
             \/ realloc_null(nsize, ok)
             \/ \E e \in held : e.size > 0 /\
                   \/ realloc_free(e)
                   \/ nsize > 0 /\ realloc_same(e, nsize)
                   \/ nsize > 0 /\ realloc_large(e, nsize, ok)
                   \/ nsize > 0 /\ realloc_move(e, nsize, ok)
      BY <1>7 DEF reallocate
    <2>2. nsize > 0 => nsize \in Sizes
      OBVIOUS
    <2> QED BY <1>1, <1>2, <1>3, <1>4, <1>5, <2>1, <2>2
  <1> QED BY <1>6, <1>7 DEF Next

\* For any width of the classes, sizes and memory, a block has room for the size it
\* was last asked for, unless it is a large one that was asked to grow within its
\* class and is not moved (SmallAllocator.cpp:347).
THEOREM AllocatorRoomOK == Spec => []RoomOK
  BY InvRoom, InvInit, StepInv, PTL DEF Spec

-----------------------------------------------------------------------------
(* The lists of a pool.                                                    *)

Chunk == [byte : [0..(Blocks - 1) -> Used..Blocks], first : 0..Blocks, avail : 0..Blocks,
          pre : Nat, next : Nat]

Shape(f) ==
    /\ f = [chunk |-> f.chunk, head |-> f.head,
            chunkCount |-> f.chunkCount, emptyCount |-> f.emptyCount]
    /\ f.chunk \in [DOMAIN f.chunk -> Chunk]
    /\ DOMAIN f.chunk \subseteq Nat \ {NULL}
    /\ f.head \in [Lists -> Nat]
    /\ f.chunkCount \in Nat /\ f.emptyCount \in Nat

Nx(f, c) == f.chunk[c].next
Pr(f, c) == f.chunk[c].pre

\* The chunks of C, and no others, are in the list.
Linked(f, list, C) ==
    /\ C \subseteq DOMAIN f.chunk
    /\ f.head[list] # NULL => f.head[list] \in C /\ Pr(f, f.head[list]) = NULL
    /\ \A c \in C : Nx(f, c) # NULL => Nx(f, c) \in C /\ Pr(f, Nx(f, c)) = c
    /\ \A c \in C : Pr(f, c) # NULL => Pr(f, c) \in C /\ Nx(f, Pr(f, c)) = c
    /\ \A c \in C : Pr(f, c) = NULL => f.head[list] = c
    /\ \A S \in SUBSET C : /\ f.head[list] # NULL => f.head[list] \in S
                           /\ \A c \in S : Nx(f, c) # NULL => Nx(f, c) \in S
                           => S = C

\* g is f but for the links and heads of the lists.
SameBlocks(f, g) ==
    /\ DOMAIN g.chunk = DOMAIN f.chunk
    /\ \A d \in DOMAIN f.chunk : /\ g.chunk[d].byte = f.chunk[d].byte
                                 /\ g.chunk[d].first = f.chunk[d].first
                                 /\ g.chunk[d].avail = f.chunk[d].avail
    /\ g.chunkCount = f.chunkCount /\ g.emptyCount = f.emptyCount

\* What Unlink, or PopHead of the head, makes of the links.
Unlinked(f, list, c, g) ==
    /\ Shape(g) /\ SameBlocks(f, g)
    /\ \A d \in DOMAIN f.chunk :
          /\ Nx(g, d) = IF d = Pr(f, c) THEN Nx(f, c) ELSE Nx(f, d)
          /\ Pr(g, d) = IF d = Nx(f, c) THEN Pr(f, c) ELSE Pr(f, d)
    /\ \A l \in Lists :
          g.head[l] = IF l = list /\ Pr(f, c) = NULL THEN Nx(f, c) ELSE f.head[l]

Pushed(f, list, c, g) ==
    /\ Shape(g) /\ SameBlocks(f, g)
    /\ \A d \in DOMAIN f.chunk :
          /\ Nx(g, d) = IF d = c THEN f.head[list] ELSE Nx(f, d)
          /\ Pr(g, d) = IF d = c THEN NULL ELSE IF d = f.head[list] THEN c ELSE Pr(f, d)
    /\ \A l \in Lists : g.head[l] = IF l = list THEN c ELSE f.head[l]

\* A pool of which only the chunks and one head are replaced.
LEMMA Relinked ==
    ASSUME NEW f, Shape(f), NEW list \in Lists, NEW h \in Nat,
           NEW ch, ch \in [DOMAIN f.chunk -> Chunk], NEW g, g = Relink(f, ch, list, h)
    PROVE  /\ Shape(g) /\ g.chunk = ch
           /\ g.head[list] = h /\ \A l \in Lists : l # list => g.head[l] = f.head[l]
           /\ g.chunkCount = f.chunkCount /\ g.emptyCount = f.emptyCount
  <1>1. PICK e : e = [f EXCEPT !.chunk = ch]
    OBVIOUS
  <1>2. e = [chunk |-> ch, head |-> f.head,
             chunkCount |-> f.chunkCount, emptyCount |-> f.emptyCount]
    BY <1>1 DEF Shape
  <1>3. PICK hd : hd = [f.head EXCEPT ![list] = h]
    OBVIOUS
  <1>4. g = [chunk |-> ch, head |-> hd,
             chunkCount |-> f.chunkCount, emptyCount |-> f.emptyCount]
    BY <1>1, <1>2, <1>3 DEF Relink
  <1>5. /\ hd \in [Lists -> Nat] /\ hd[list] = h
        /\ \A l \in Lists : l # list => hd[l] = f.head[l]
    BY <1>3 DEF Shape
  <1>6. /\ g.chunk = ch /\ g.head = hd
        /\ g.chunkCount = f.chunkCount /\ g.emptyCount = f.emptyCount
    BY <1>4
  <1>7. Shape(g)
    BY <1>4, <1>5, <1>6 DEF Shape
  <1> QED BY <1>5, <1>6, <1>7

LEMMA UnlinkIs ==
    ASSUME NEW f, Shape(f), NEW list \in Lists, NEW c \in DOMAIN f.chunk
    PROVE  Unlinked(f, list, c, Unlink(f, list, c))
  <1> DEFINE ch == [d \in DOMAIN f.chunk |-> [f.chunk[d] EXCEPT
                       !.next = IF d = Pr(f, c) THEN Nx(f, c) ELSE @,
                       !.pre = IF d = Nx(f, c) THEN Pr(f, c) ELSE @]]
             h == IF Pr(f, c) = NULL THEN Nx(f, c) ELSE f.head[list]
             g == Unlink(f, list, c)
  <1>1. g = Relink(f, ch, list, h)
    BY DEF Unlink, Nx, Pr
  <1>2. Nx(f, c) \in Nat /\ Pr(f, c) \in Nat /\ h \in Nat
    BY DEF Shape, Chunk, Nx, Pr
  <1>3. ASSUME NEW d \in DOMAIN f.chunk
        PROVE  /\ ch[d] \in Chunk
               /\ ch[d].byte = f.chunk[d].byte /\ ch[d].first = f.chunk[d].first
               /\ ch[d].avail = f.chunk[d].avail
               /\ ch[d].next = IF d = Pr(f, c) THEN Nx(f, c) ELSE Nx(f, d)
               /\ ch[d].pre = IF d = Nx(f, c) THEN Pr(f, c) ELSE Pr(f, d)
    <2>1. PICK n \in Nat, p \in Nat : /\ n = IF d = Pr(f, c) THEN Nx(f, c) ELSE Nx(f, d)
                                      /\ p = IF d = Nx(f, c) THEN Pr(f, c) ELSE Pr(f, d)
      BY <1>2 DEF Shape, Chunk, Nx, Pr
    <2>2. PICK k : k = [f.chunk[d] EXCEPT !.next = n]
      OBVIOUS
    <2>3. f.chunk[d] \in Chunk
      BY DEF Shape
    <2>4. k \in Chunk /\ k.next = n /\ k.byte = f.chunk[d].byte /\ k.first = f.chunk[d].first
          /\ k.avail = f.chunk[d].avail /\ k.pre = Pr(f, d)
      BY <2>2, <2>3 DEF Chunk, Pr
    <2>5. ch[d] = [k EXCEPT !.pre = p]
      BY <2>1, <2>2, <2>3, <2>4 DEF Nx, Pr, Chunk
    <2> QED BY <2>1, <2>4, <2>5 DEF Chunk
  <1>4. ch \in [DOMAIN f.chunk -> Chunk]
    BY <1>3
  <1> HIDE DEF ch, h
  <1>5. /\ Shape(g) /\ g.chunk = ch
        /\ g.head[list] = h /\ \A l \in Lists : l # list => g.head[l] = f.head[l]
        /\ g.chunkCount = f.chunkCount /\ g.emptyCount = f.emptyCount
    BY <1>1, <1>2, <1>4, Relinked
  <1>6. DOMAIN ch = DOMAIN f.chunk
    BY <1>4
  <1> HIDE DEF g
  <1>7. SameBlocks(f, g)
    BY <1>3, <1>5, <1>6 DEF SameBlocks
  <1>8. \A d \in DOMAIN f.chunk :
          /\ Nx(g, d) = IF d = Pr(f, c) THEN Nx(f, c) ELSE Nx(f, d)
          /\ Pr(g, d) = IF d = Nx(f, c) THEN Pr(f, c) ELSE Pr(f, d)
    BY <1>3, <1>5, <1>6 DEF Nx, Pr
  <1>9. \A l \in Lists :
          g.head[l] = IF l = list /\ Pr(f, c) = NULL THEN Nx(f, c) ELSE f.head[l]
    BY <1>5 DEF h
  <1> QED BY <1>5, <1>7, <1>8, <1>9 DEF Unlinked, g

LEMMA PopHeadIs ==
    ASSUME NEW f, Shape(f), NEW list \in Lists, f.head[list] \in DOMAIN f.chunk,
           Pr(f, f.head[list]) = NULL
    PROVE  Unlinked(f, list, f.head[list], PopHead(f, list))
  <1> DEFINE c == f.head[list]
             n == Nx(f, c)
             ch == [d \in DOMAIN f.chunk |->
                       IF d = n THEN [f.chunk[d] EXCEPT !.pre = NULL] ELSE f.chunk[d]]
             g == PopHead(f, list)
  <1>1. g = Relink(f, ch, list, n)
    BY DEF PopHead, Nx
  <1>2. n \in Nat /\ \A d \in DOMAIN f.chunk : d # NULL
    BY DEF Shape, Chunk, Nx
  <1>3. ASSUME NEW d \in DOMAIN f.chunk
        PROVE  /\ ch[d] \in Chunk
               /\ ch[d].byte = f.chunk[d].byte /\ ch[d].first = f.chunk[d].first
               /\ ch[d].avail = f.chunk[d].avail
               /\ ch[d].next = Nx(f, d)
               /\ ch[d].pre = IF d = n THEN NULL ELSE Pr(f, d)
    <2>1. f.chunk[d] \in Chunk
      BY DEF Shape
    <2> QED BY <2>1 DEF Chunk, Nx, Pr, NULL
  <1>4. ch \in [DOMAIN f.chunk -> Chunk]
    BY <1>3
  <1> HIDE DEF ch
  <1>5. /\ Shape(g) /\ g.chunk = ch
        /\ g.head[list] = n /\ \A l \in Lists : l # list => g.head[l] = f.head[l]
        /\ g.chunkCount = f.chunkCount /\ g.emptyCount = f.emptyCount
    BY <1>1, <1>2, <1>4, Relinked
  <1>6. DOMAIN ch = DOMAIN f.chunk
    BY <1>4
  <1> HIDE DEF g
  <1>7. SameBlocks(f, g)
    BY <1>3, <1>5, <1>6 DEF SameBlocks
  <1>8. \A d \in DOMAIN f.chunk :
          /\ Nx(g, d) = IF d = Pr(f, c) THEN Nx(f, c) ELSE Nx(f, d)
          /\ Pr(g, d) = IF d = Nx(f, c) THEN Pr(f, c) ELSE Pr(f, d)
    <2>1. \A d \in DOMAIN f.chunk : Nx(g, d) = ch[d].next /\ Pr(g, d) = ch[d].pre
      BY <1>5 DEF Nx, Pr
    <2> QED BY <1>2, <1>3, <2>1
  <1>9. \A l \in Lists :
          g.head[l] = IF l = list /\ Pr(f, c) = NULL THEN Nx(f, c) ELSE f.head[l]
    BY <1>5
  <1> QED BY <1>5, <1>7, <1>8, <1>9 DEF Unlinked, g

LEMMA PushFrontIs ==
    ASSUME NEW f, Shape(f), NEW list \in Lists, NEW c \in DOMAIN f.chunk
    PROVE  Pushed(f, list, c, PushFront(f, list, c))
  <1> DEFINE n == f.head[list]
             ch == [d \in DOMAIN f.chunk |->
                       IF d = c THEN [f.chunk[d] EXCEPT !.pre = NULL, !.next = n]
                       ELSE IF d = n THEN [f.chunk[d] EXCEPT !.pre = c] ELSE f.chunk[d]]
             g == PushFront(f, list, c)
  <1>1. g = Relink(f, ch, list, c)
    BY DEF PushFront
  <1>2. n \in Nat /\ c \in Nat
    BY DEF Shape
  <1>3. ASSUME NEW d \in DOMAIN f.chunk
        PROVE  /\ ch[d] \in Chunk
               /\ ch[d].byte = f.chunk[d].byte /\ ch[d].first = f.chunk[d].first
               /\ ch[d].avail = f.chunk[d].avail
               /\ ch[d].next = IF d = c THEN n ELSE Nx(f, d)
               /\ ch[d].pre = IF d = c THEN NULL ELSE IF d = n THEN c ELSE Pr(f, d)
    <2>1. f.chunk[d] \in Chunk
      BY DEF Shape
    <2>2. CASE d = c
      <3>1. PICK k : k = [f.chunk[d] EXCEPT !.pre = NULL]
        OBVIOUS
      <3>2. /\ k \in Chunk /\ k.pre = NULL /\ k.byte = f.chunk[d].byte
            /\ k.first = f.chunk[d].first /\ k.avail = f.chunk[d].avail
        BY <2>1, <3>1 DEF Chunk, NULL
      <3>3. ch[d] = [k EXCEPT !.next = n]
        BY <2>2, <3>1
      <3> QED BY <1>2, <2>2, <3>2, <3>3 DEF Chunk
    <2>3. CASE d # c
      BY <1>2, <2>1, <2>3 DEF Chunk, Nx, Pr
    <2> QED BY <2>2, <2>3
  <1>4. ch \in [DOMAIN f.chunk -> Chunk]
    BY <1>3
  <1> HIDE DEF ch
  <1>5. /\ Shape(g) /\ g.chunk = ch
        /\ g.head[list] = c /\ \A l \in Lists : l # list => g.head[l] = f.head[l]
        /\ g.chunkCount = f.chunkCount /\ g.emptyCount = f.emptyCount
    BY <1>1, <1>2, <1>4, Relinked
  <1>6. DOMAIN ch = DOMAIN f.chunk
    BY <1>4
  <1> HIDE DEF g
  <1>7. SameBlocks(f, g)
    BY <1>3, <1>5, <1>6 DEF SameBlocks
  <1>8. \A d \in DOMAIN f.chunk :
          /\ Nx(g, d) = IF d = c THEN n ELSE Nx(f, d)
          /\ Pr(g, d) = IF d = c THEN NULL ELSE IF d = n THEN c ELSE Pr(f, d)
    <2>1. \A d \in DOMAIN f.chunk : Nx(g, d) = ch[d].next /\ Pr(g, d) = ch[d].pre
      BY <1>5 DEF Nx, Pr
    <2> QED BY <1>3, <2>1
  <1>9. \A l \in Lists : g.head[l] = IF l = list THEN c ELSE f.head[l]
    BY <1>5
  <1> QED BY <1>5, <1>7, <1>8, <1>9 DEF Pushed, g

\* A list is as its chunks and its head are.
LEMMA LinkedSame ==
    ASSUME NEW f, NEW g, NEW list, NEW C, Linked(f, list, C),
           C \subseteq DOMAIN g.chunk, g.head[list] = f.head[list],
           \A c \in C : Nx(g, c) = Nx(f, c) /\ Pr(g, c) = Pr(f, c)
    PROVE  Linked(g, list, C)
  <1>1. ASSUME NEW S \in SUBSET C, g.head[list] # NULL => g.head[list] \in S,
               \A c \in S : Nx(g, c) # NULL => Nx(g, c) \in S
        PROVE  S = C
    <2>1. \A c \in S : Nx(f, c) # NULL => Nx(f, c) \in S
      BY <1>1
    <2> QED BY <1>1, <2>1 DEF Linked
  <1>2. /\ g.head[list] # NULL => g.head[list] \in C /\ Pr(g, g.head[list]) = NULL
        /\ \A c \in C : Nx(g, c) # NULL => Nx(g, c) \in C /\ Pr(g, Nx(g, c)) = c
        /\ \A c \in C : Pr(g, c) # NULL => Pr(g, c) \in C /\ Nx(g, Pr(g, c)) = c
        /\ \A c \in C : Pr(g, c) = NULL => g.head[list] = c
    BY DEF Linked
  <1> QED BY <1>1, <1>2 DEF Linked

\* Unlinking takes the chunk out of its list.
LEMMA UnlinkedLists ==
    ASSUME NEW f, Shape(f), NEW list \in Lists, NEW C, Linked(f, list, C), NEW c \in C,
           NEW g, Unlinked(f, list, c, g)
    PROVE  /\ Linked(g, list, C \ {c})
           /\ \A l \in Lists : \A D :
                 l # list /\ Linked(f, l, D) /\ D \cap C = {} => Linked(g, l, D)
  <1> DEFINE n == Nx(f, c)
             p == Pr(f, c)
             B == C \ {c}
  <1>1. /\ C \subseteq DOMAIN f.chunk /\ c \in DOMAIN f.chunk /\ DOMAIN g.chunk = DOMAIN f.chunk
        /\ NULL \notin DOMAIN f.chunk
        /\ \A d \in DOMAIN f.chunk : /\ Nx(g, d) = IF d = p THEN n ELSE Nx(f, d)
                                     /\ Pr(g, d) = IF d = n THEN p ELSE Pr(f, d)
        /\ \A l \in Lists : g.head[l] = IF l = list /\ p = NULL THEN n ELSE f.head[l]
    BY DEF Unlinked, SameBlocks, Linked, Shape
  <1>2. /\ n # NULL => n \in C /\ Pr(f, n) = c
        /\ p # NULL => p \in C /\ Nx(f, p) = c
        /\ p = NULL => f.head[list] = c
        /\ f.head[list] # NULL => f.head[list] \in C /\ Pr(f, f.head[list]) = NULL
    BY DEF Linked
  <1>3. n # c /\ p # c
    <2>1. SUFFICES ASSUME n = c PROVE FALSE
      BY <1>1, <1>2
    <2>2. p = c
      BY <1>1, <1>2, <2>1
    <2>3. f.head[list] # NULL => f.head[list] \in B
      BY <1>1, <1>2, <2>2
    <2>4. \A d \in B : Nx(f, d) # NULL => Nx(f, d) \in B
      BY <2>2 DEF Linked
    <2>5. B = C
      BY <2>3, <2>4 DEF Linked
    <2> QED BY <2>5
  <1> HIDE DEF n, p
  <1>4. g.head[list] # NULL => g.head[list] \in B /\ Pr(g, g.head[list]) = NULL
    <2>1. CASE p = NULL
      BY <1>1, <1>2, <1>3, <2>1
    <2>2. CASE p # NULL
      <3>1. g.head[list] = f.head[list]
        BY <1>1, <2>2
      <3>2. ASSUME f.head[list] # NULL
            PROVE  f.head[list] \in B /\ Pr(g, f.head[list]) = NULL
        <4>1. f.head[list] # c
          BY <1>2, <2>2, <3>2 DEF p
        <4>2. f.head[list] # n
          BY <1>1, <1>2, <3>2
        <4> QED BY <1>1, <1>2, <3>2, <4>1, <4>2
      <3> QED BY <3>1, <3>2
    <2> QED BY <2>1, <2>2
  <1>5. ASSUME NEW d \in B, Nx(g, d) # NULL PROVE Nx(g, d) \in B /\ Pr(g, Nx(g, d)) = d
    <2>1. CASE d = p
      BY <1>1, <1>2, <1>3, <1>5, <2>1
    <2>2. CASE d # p
      <3>1. Nx(g, d) = Nx(f, d) /\ Nx(f, d) \in C /\ Pr(f, Nx(f, d)) = d
        BY <1>1, <1>5, <2>2 DEF Linked
      <3>2. Nx(f, d) # c
        BY <2>2, <3>1 DEF p
      <3>3. Nx(f, d) # n
        BY <1>1, <1>2, <3>1
      <3> QED BY <1>1, <3>1, <3>2, <3>3
    <2> QED BY <2>1, <2>2
  <1>6. ASSUME NEW d \in B, Pr(g, d) # NULL PROVE Pr(g, d) \in B /\ Nx(g, Pr(g, d)) = d
    <2>1. CASE d = n
      BY <1>1, <1>2, <1>3, <1>6, <2>1
    <2>2. CASE d # n
      <3>1. Pr(g, d) = Pr(f, d) /\ Pr(f, d) \in C /\ Nx(f, Pr(f, d)) = d
        BY <1>1, <1>6, <2>2 DEF Linked
      <3>2. Pr(f, d) # c
        BY <2>2, <3>1 DEF n
      <3>3. Pr(f, d) # p
        BY <1>1, <1>2, <3>1
      <3> QED BY <1>1, <3>1, <3>2, <3>3
    <2> QED BY <2>1, <2>2
  <1>7. ASSUME NEW d \in B, Pr(g, d) = NULL PROVE g.head[list] = d
    <2>1. CASE d = n
      BY <1>1, <1>7, <2>1
    <2>2. CASE d # n
      <3>1. f.head[list] = d
        BY <1>1, <1>7, <2>2 DEF Linked
      <3>2. p # NULL
        BY <1>2, <3>1
      <3> QED BY <1>1, <3>1, <3>2
    <2> QED BY <2>1, <2>2
  <1>8. ASSUME NEW S \in SUBSET B, g.head[list] # NULL => g.head[list] \in S,
               \A d \in S : Nx(g, d) # NULL => Nx(g, d) \in S
        PROVE  S = B
    <2>1. \A T \in SUBSET C : /\ f.head[list] # NULL => f.head[list] \in T
                              /\ \A d \in T : Nx(f, d) # NULL => Nx(f, d) \in T
                              => T = C
      BY DEF Linked
    <2>2. ASSUME p # NULL PROVE p \in S
      <3>1. SUFFICES ASSUME p \notin S PROVE FALSE
        OBVIOUS
      <3>2. f.head[list] # NULL => f.head[list] \in S
        BY <1>1, <1>8, <2>2
      <3>3. \A d \in S : Nx(f, d) # NULL => Nx(f, d) \in S
        BY <1>1, <1>8, <3>1
      <3>4. S = C
        BY <2>1, <3>2, <3>3
      <3> QED BY <3>4
    <2> DEFINE T == S \cup {c}
    <2>3. f.head[list] # NULL => f.head[list] \in T
      BY <1>1, <1>2, <1>8
    <2>4. n # NULL => n \in S
      BY <1>1, <1>8, <2>2
    <2>5. \A d \in T : Nx(f, d) # NULL => Nx(f, d) \in T
      <3> SUFFICES ASSUME NEW d \in T, Nx(f, d) # NULL PROVE Nx(f, d) \in T
        OBVIOUS
      <3>1. CASE d = c
        BY <2>4, <3>1 DEF n
      <3>2. CASE d # c /\ d = p
        BY <1>1, <1>2, <3>2
      <3>3. CASE d # c /\ d # p
        BY <1>1, <1>8, <3>3
      <3> QED BY <3>1, <3>2, <3>3
    <2>6. T \in SUBSET C
      OBVIOUS
    <2> HIDE DEF T
    <2>7. T = C
      BY <2>1, <2>3, <2>5, <2>6
    <2> QED BY <2>7 DEF T
  <1>9. Linked(g, list, B)
    BY <1>1, <1>4, <1>5, <1>6, <1>7, <1>8 DEF Linked
  <1>10. ASSUME NEW l \in Lists, NEW D, l # list, Linked(f, l, D), D \cap C = {}
        PROVE  Linked(g, l, D)
    <2>1. D \subseteq DOMAIN g.chunk /\ NULL \notin D
      BY <1>1, <1>10 DEF Linked
    <2>2. \A d \in D : d # p /\ d # n
      BY <1>2, <1>10, <2>1
    <2>3. \A d \in D : Nx(g, d) = Nx(f, d) /\ Pr(g, d) = Pr(f, d)
      BY <1>1, <2>1, <2>2
    <2>4. g.head[l] = f.head[l]
      BY <1>1, <1>10
    <2> QED BY <1>10, <2>1, <2>3, <2>4, LinkedSame
  <1> QED BY <1>9, <1>10

\* A chunk that is in no list becomes the head of one.
LEMMA PushedLists ==
    ASSUME NEW f, Shape(f), NEW list \in Lists, NEW C, Linked(f, list, C),
           NEW c \in DOMAIN f.chunk, c \notin C, NEW g, Pushed(f, list, c, g)
    PROVE  /\ Linked(g, list, C \cup {c})
           /\ \A l \in Lists : \A D :
                 l # list /\ Linked(f, l, D) /\ D \cap C = {} /\ c \notin D => Linked(g, l, D)
  <1> DEFINE h == f.head[list]
             B == C \cup {c}
  <1>1. /\ C \subseteq DOMAIN f.chunk /\ DOMAIN g.chunk = DOMAIN f.chunk
        /\ NULL \notin DOMAIN f.chunk
        /\ \A d \in DOMAIN f.chunk :
              /\ Nx(g, d) = IF d = c THEN h ELSE Nx(f, d)
              /\ Pr(g, d) = IF d = c THEN NULL ELSE IF d = h THEN c ELSE Pr(f, d)
        /\ \A l \in Lists : g.head[l] = IF l = list THEN c ELSE f.head[l]
    BY DEF Pushed, SameBlocks, Linked, Shape
  <1>2. /\ h # NULL => h \in C /\ Pr(f, h) = NULL
        /\ \A d \in C : Nx(f, d) # NULL => Nx(f, d) \in C /\ Pr(f, Nx(f, d)) = d
        /\ \A d \in C : Pr(f, d) # NULL => Pr(f, d) \in C /\ Nx(f, Pr(f, d)) = d
        /\ \A d \in C : Pr(f, d) = NULL => h = d
        /\ \A T \in SUBSET C : /\ h # NULL => h \in T
                               /\ \A d \in T : Nx(f, d) # NULL => Nx(f, d) \in T
                               => T = C
    BY DEF Linked
  <1> HIDE DEF h
  <1>3. g.head[list] \in B /\ Pr(g, g.head[list]) = NULL
    BY <1>1
  <1>4. ASSUME NEW d \in B, Nx(g, d) # NULL PROVE Nx(g, d) \in B /\ Pr(g, Nx(g, d)) = d
    <2>1. CASE d = c
      BY <1>1, <1>2, <1>4, <2>1
    <2>2. CASE d # c
      <3>1. Nx(g, d) = Nx(f, d) /\ Nx(f, d) \in C /\ Pr(f, Nx(f, d)) = d
        BY <1>1, <1>2, <1>4, <2>2
      <3>2. Nx(f, d) # h
        BY <1>1, <1>2, <2>2, <3>1
      <3> QED BY <1>1, <3>1, <3>2
    <2> QED BY <2>1, <2>2
  <1>5. ASSUME NEW d \in B, Pr(g, d) # NULL PROVE Pr(g, d) \in B /\ Nx(g, Pr(g, d)) = d
    <2>1. CASE d = h
      BY <1>1, <1>2, <1>5, <2>1
    <2>2. CASE d # h
      <3>1. Pr(g, d) = Pr(f, d) /\ d \in C /\ Pr(f, d) \in C /\ Nx(f, Pr(f, d)) = d
        BY <1>1, <1>2, <1>5, <2>2
      <3> QED BY <1>1, <3>1
    <2> QED BY <2>1, <2>2
  <1>6. ASSUME NEW d \in B, Pr(g, d) = NULL PROVE g.head[list] = d
    BY <1>1, <1>2, <1>6
  <1>7. ASSUME NEW S \in SUBSET B, g.head[list] \in S,
               \A d \in S : Nx(g, d) # NULL => Nx(g, d) \in S
        PROVE  S = B
    <2> DEFINE T == S \ {c}
    <2>1. c \in S /\ (h # NULL => h \in T)
      BY <1>1, <1>2, <1>7
    <2>2. \A d \in T : Nx(f, d) # NULL => Nx(f, d) \in T
      BY <1>1, <1>2, <1>7
    <2>3. T = C
      BY <1>2, <2>1, <2>2
    <2> QED BY <2>1, <2>3
  <1>8. Linked(g, list, B)
    BY <1>1, <1>3, <1>4, <1>5, <1>6, <1>7 DEF Linked
  <1>9. ASSUME NEW l \in Lists, NEW D, l # list, Linked(f, l, D), D \cap C = {}, c \notin D
        PROVE  Linked(g, l, D)
    <2>1. D \subseteq DOMAIN g.chunk /\ NULL \notin D
      BY <1>1, <1>9 DEF Linked
    <2>2. \A d \in D : d # c /\ d # h
      BY <1>2, <1>9, <2>1
    <2>3. \A d \in D : Nx(g, d) = Nx(f, d) /\ Pr(g, d) = Pr(f, d)
      BY <1>1, <2>1, <2>2
    <2>4. g.head[l] = f.head[l]
      BY <1>1, <1>9
    <2> QED BY <1>9, <2>1, <2>3, <2>4, LinkedSame
  <1> QED BY <1>8, <1>9

\* The walk from the head meets the chunks of the list.
LEMMA InListIs ==
    ASSUME NEW f, Shape(f), NEW list, NEW C, Linked(f, list, C)
    PROVE  InList(f, list) = C
  <1> DEFINE chunks == DOMAIN f.chunk
             Walked(S) == /\ f.head[list] \in chunks => f.head[list] \in S
                          /\ \A c \in S : f.chunk[c].next \in chunks => f.chunk[c].next \in S
  <1>1. C \in SUBSET chunks /\ NULL \notin chunks
    BY DEF Linked, Shape
  <1>2. InList(f, list) = {c \in chunks : \A S \in SUBSET chunks : Walked(S) => c \in S}
    BY DEF InList
  <1>3. Walked(C)
    BY <1>1 DEF Linked, Nx
  <1>4. ASSUME NEW S \in SUBSET chunks, Walked(S) PROVE C \subseteq S
    <2> DEFINE T == S \cap C
    <2>1. T \in SUBSET C
      OBVIOUS
    <2>2. f.head[list] # NULL => f.head[list] \in T
      BY <1>1, <1>4 DEF Linked
    <2>3. \A c \in T : Nx(f, c) # NULL => Nx(f, c) \in T
      BY <1>1, <1>4 DEF Linked, Nx
    <2> HIDE DEF T
    <2>4. T = C
      BY <2>1, <2>2, <2>3 DEF Linked
    <2> QED BY <2>4 DEF T
  <1> HIDE DEF Walked
  <1> QED BY <1>1, <1>2, <1>3, <1>4

\* Each chunk c is in the list L[c].
In(L, list) == {c \in DOMAIN L : L[c] = list}

\* The function, and the pool, with another value of c.
With(L, c, v) == [L EXCEPT ![c] = v]
WithChunk(f, c, k) == [f EXCEPT !.chunk[c] = k]

AllLinked(f, L) ==
    /\ L \in [DOMAIN f.chunk -> Lists]
    /\ \A list \in Lists : Linked(f, list, In(L, list))

\* Where a chunk belongs by the number of its free blocks.
OfAvail(n) == IF n = 0 THEN "full" ELSE IF n = Blocks THEN "empty" ELSE "free"
ByAvail(f) == [c \in DOMAIN f.chunk |-> OfAvail(f.chunk[c].avail)]

\* A chunk goes from its list to the front of another one.
LEMMA Moved ==
    ASSUME NEW f, Shape(f), NEW L, AllLinked(f, L), NEW c \in DOMAIN f.chunk,
           NEW to \in Lists, NEW e, Unlinked(f, L[c], c, e), NEW g, Pushed(e, to, c, g)
    PROVE  /\ Shape(g) /\ SameBlocks(f, g) /\ AllLinked(g, With(L, c, to))
           /\ g.head[to] = c
           /\ \A l \in Lists : l # to /\ l # L[c] => g.head[l] = f.head[l]
           /\ L[c] # to => g.head[L[c]] = e.head[L[c]]
  <1> DEFINE K == With(L, c, to)
             B(l) == In(L, l) \ {c}
  <1>1. /\ L \in [DOMAIN f.chunk -> Lists] /\ L[c] \in Lists /\ c \in In(L, L[c])
        /\ \A l \in Lists : Linked(f, l, In(L, l))
    BY DEF AllLinked, In
  <1>2. Shape(e) /\ SameBlocks(f, e) /\ Shape(g) /\ SameBlocks(e, g)
        /\ DOMAIN e.chunk = DOMAIN f.chunk /\ DOMAIN g.chunk = DOMAIN f.chunk
    BY DEF Unlinked, Pushed, SameBlocks
  <1>3. SameBlocks(f, g)
    BY <1>2 DEF SameBlocks
  <1>4. ASSUME NEW l \in Lists PROVE Linked(e, l, B(l))
    <2>1. CASE l = L[c]
      BY <1>1, <2>1, UnlinkedLists
    <2>2. CASE l # L[c]
      <3>1. In(L, l) \cap In(L, L[c]) = {} /\ B(l) = In(L, l)
        BY <2>2 DEF In
      <3>2. \A D : Linked(f, l, D) /\ D \cap In(L, L[c]) = {} => Linked(e, l, D)
        BY <1>1, <2>2, UnlinkedLists
      <3>3. Linked(e, l, In(L, l))
        BY <1>1, <3>1, <3>2
      <3> QED BY <3>1, <3>3
    <2> QED BY <2>1, <2>2
  <1>5. /\ K \in [DOMAIN f.chunk -> Lists] /\ K[c] = to
        /\ \A d \in DOMAIN f.chunk : d # c => K[d] = L[d]
    BY <1>1 DEF With
  <1>6. ASSUME NEW l \in Lists PROVE Linked(g, l, In(K, l))
    <2>1. Linked(e, to, B(to)) /\ c \notin B(to) /\ c \in DOMAIN e.chunk
      BY <1>2, <1>4
    <2>2. CASE l = to
      <3>1. In(K, l) = B(to) \cup {c}
        BY <1>1, <1>5, <2>2 DEF In
      <3> HIDE DEF B, K
      <3> QED BY <1>2, <2>1, <2>2, <3>1, PushedLists
    <2>3. CASE l # to
      <3>1. In(K, l) = B(l) /\ B(l) \cap B(to) = {} /\ c \notin B(l)
        BY <1>1, <1>5, <2>3 DEF In
      <3>2. Linked(e, l, B(l))
        BY <1>4
      <3>3. \A D : Linked(e, l, D) /\ D \cap B(to) = {} /\ c \notin D => Linked(g, l, D)
        <4> HIDE DEF B, K
        <4> QED BY <1>2, <2>1, <2>3, PushedLists
      <3>4. Linked(g, l, B(l))
        <4> HIDE DEF B, K
        <4> QED BY <3>1, <3>2, <3>3
      <3> QED BY <3>1, <3>4
    <2> QED BY <2>2, <2>3
  <1>7. AllLinked(g, K)
    BY <1>2, <1>5, <1>6 DEF AllLinked
  <1>8. /\ g.head[to] = c
        /\ \A l \in Lists : l # to /\ l # L[c] => g.head[l] = f.head[l]
        /\ L[c] # to => g.head[L[c]] = e.head[L[c]]
    BY <1>1 DEF Unlinked, Pushed
  <1> QED BY <1>2, <1>3, <1>7, <1>8

LEMMA MoveIs ==
    ASSUME NEW f, Shape(f), NEW L, AllLinked(f, L), NEW c \in DOMAIN f.chunk,
           NEW from, from = L[c], NEW to \in Lists, NEW g, g = Move(f, from, to, c)
    PROVE  /\ Shape(g) /\ SameBlocks(f, g) /\ AllLinked(g, With(L, c, to))
           /\ g.head[to] = c
  <1>1. L[c] \in Lists
    BY DEF AllLinked
  <1>2. PICK e : e = Unlink(f, from, c)
    OBVIOUS
  <1>3. Unlinked(f, L[c], c, e)
    BY <1>1, <1>2, UnlinkIs
  <1>4. Shape(e) /\ c \in DOMAIN e.chunk
    BY <1>3 DEF Unlinked, SameBlocks
  <1>5. Pushed(e, to, c, g)
    BY <1>2, <1>4, PushFrontIs DEF Move
  <1> QED BY <1>3, <1>5, Moved, SMTT(30)

LEMMA MoveHeadIs ==
    ASSUME NEW f, Shape(f), NEW L, AllLinked(f, L), NEW from \in Lists,
           f.head[from] # NULL, NEW to \in Lists, NEW g, g = MoveHead(f, from, to)
    PROVE  /\ f.head[from] \in DOMAIN f.chunk /\ L[f.head[from]] = from
           /\ Shape(g) /\ SameBlocks(f, g) /\ AllLinked(g, With(L, f.head[from], to))
           /\ g.head[to] = f.head[from]
  <1> DEFINE c == f.head[from]
  <1>1. c \in DOMAIN f.chunk /\ L[c] = from /\ Pr(f, c) = NULL
    BY DEF AllLinked, Linked, In
  <1>2. PICK e : e = PopHead(f, from)
    OBVIOUS
  <1>3. Unlinked(f, L[c], c, e)
    BY <1>1, <1>2, PopHeadIs
  <1>4. Shape(e) /\ c \in DOMAIN e.chunk
    BY <1>1, <1>3 DEF Unlinked, SameBlocks
  <1>5. Pushed(e, to, c, g)
    BY <1>2, <1>4, PushFrontIs DEF MoveHead
  <1> HIDE DEF c
  <1>6. /\ Shape(g) /\ SameBlocks(f, g) /\ AllLinked(g, With(L, c, to))
        /\ g.head[to] = c
    BY <1>1, <1>3, <1>5, Moved, SMTT(30)
  <1> QED BY <1>1, <1>6 DEF c

-----------------------------------------------------------------------------
(* The free blocks of a chunk.                                             *)

\* The chain of k meets the blocks of F, each from one other or as the first.
FreeChain(k, F) ==
    /\ F \subseteq 0..(Blocks - 1)
    /\ k.avail = Cardinality(F)
    /\ k.first # Blocks => k.first \in F
    /\ \A b \in F : k.byte[b] # Blocks => k.byte[b] \in F
    /\ \A b \in F : k.byte[b] # k.first
    /\ \A a, b \in F : k.byte[a] = k.byte[b] => a = b
    /\ \A S \in SUBSET F : /\ k.first # Blocks => k.first \in S
                           /\ \A b \in S : k.byte[b] # Blocks => k.byte[b] \in S
                           => S = F

LEMMA BlocksIs ==
    /\ Blocks \in Nat \ {0} /\ Used = -1
    /\ IsFiniteSet(0..(Blocks - 1)) /\ Cardinality(0..(Blocks - 1)) = Blocks
  <1>1. Blocks \in Nat \ {0}
    BY AllocatorAssumption
  <1> QED BY <1>1, FS_Interval DEF Used

\* The chain has as many blocks as are free.
LEMMA AvailIs ==
    ASSUME NEW k, NEW F, FreeChain(k, F)
    PROVE  /\ IsFiniteSet(F) /\ k.avail \in 0..Blocks
           /\ k.avail = 0 <=> F = {}
           /\ k.avail = Blocks <=> F = 0..(Blocks - 1)
  <1>1. F \in SUBSET (0..(Blocks - 1)) /\ k.avail = Cardinality(F)
    BY DEF FreeChain
  <1>2. IsFiniteSet(F) /\ Cardinality(F) \in Nat /\ Cardinality(F) <= Blocks
        /\ (Cardinality(F) = Blocks => F = 0..(Blocks - 1))
    <2>1. IsFiniteSet(F) /\ Cardinality(F) <= Blocks
          /\ (Cardinality(F) = Blocks => F = 0..(Blocks - 1))
      BY <1>1, BlocksIs, FS_Subset
    <2> QED BY <2>1, FS_CardinalityType
  <1>3. Cardinality(F) = 0 <=> F = {}
    BY <1>2, FS_EmptySet
  <1> QED BY <1>1, <1>2, <1>3, BlocksIs

\* What Chain computes.
LEMMA ChainIs ==
    ASSUME NEW k \in Chunk, NEW F, FreeChain(k, F)
    PROVE  Chain(k) = F
  <1> DEFINE blocks == 0..(Blocks - 1)
             Walked(S) == /\ k.first \in blocks => k.first \in S
                          /\ \A b \in S : k.byte[b] \in blocks => k.byte[b] \in S
  <1>1. F \in SUBSET blocks /\ Blocks \notin blocks
    BY BlocksIs DEF FreeChain
  <1>2. Chain(k) = {b \in blocks : \A S \in SUBSET blocks : Walked(S) => b \in S}
    BY DEF Chain
  <1>3. Walked(F)
    BY <1>1 DEF FreeChain
  <1>4. ASSUME NEW S \in SUBSET blocks, Walked(S) PROVE F \subseteq S
    <2> DEFINE T == S \cap F
    <2>1. T \in SUBSET F
      OBVIOUS
    <2>2. k.first # Blocks => k.first \in T
      BY <1>1, <1>4 DEF FreeChain
    <2>3. \A b \in T : k.byte[b] # Blocks => k.byte[b] \in T
      BY <1>1, <1>4 DEF FreeChain
    <2> HIDE DEF T
    <2>4. T = F
      BY <2>1, <2>2, <2>3 DEF FreeChain
    <2> QED BY <2>4 DEF T
  <1> HIDE DEF Walked
  <1> QED BY <1>1, <1>2, <1>3, <1>4

\* A set of blocks that holds 0 and with each block the next one holds them all.
LEMMA AllBlocks ==
    ASSUME NEW S \in SUBSET (0..(Blocks - 1)), 0 \in S,
           \A b \in S : b + 1 # Blocks => b + 1 \in S
    PROVE  S = 0..(Blocks - 1)
  <1> DEFINE T == (0..(Blocks - 1)) \ S
             R == {ss \in Nat \X Nat : ss[1] < ss[2]}
  <1>1. IsWellFoundedOn(R, Nat)
    BY NatLessThanWellFounded DEF OpToRel
  <1>2. SUFFICES ASSUME T # {} PROVE FALSE
    OBVIOUS
  <1>3. T \subseteq Nat
    BY BlocksIs
  <1> HIDE DEF R, T
  <1>4. PICK x \in T : \A y \in T : ~(<<y, x>> \in R)
    BY <1>1, <1>2, <1>3, WFMin
  <1>5. x \in 0..(Blocks - 1) /\ x \notin S /\ x # 0 /\ Blocks \in Nat
    BY <1>4, BlocksIs DEF T
  <1>6. x - 1 \notin T
    <2>1. <<x - 1, x>> \in R
      BY <1>5 DEF R
    <2> QED BY <1>4, <2>1
  <1>7. x - 1 \in S
    BY <1>5, <1>6 DEF T
  <1> QED BY <1>5, <1>7

LEMMA NewChunkIs == NewChunk \in Chunk /\ FreeChain(NewChunk, 0..(Blocks - 1))
  <1> USE BlocksIs DEF NewChunk
  <1>1. NewChunk \in Chunk
    BY DEF Chunk, NULL
  <1>2. ASSUME NEW S \in SUBSET (0..(Blocks - 1)),
               NewChunk.first # Blocks => NewChunk.first \in S,
               \A b \in S : NewChunk.byte[b] # Blocks => NewChunk.byte[b] \in S
        PROVE  S = 0..(Blocks - 1)
    <2>1. 0 \in S /\ \A b \in S : b + 1 # Blocks => b + 1 \in S
      BY <1>2
    <2> QED BY <2>1, AllBlocks
  <1>3. \A a, b \in 0..(Blocks - 1) : NewChunk.byte[a] = NewChunk.byte[b] => a = b
    OBVIOUS
  <1>4. /\ NewChunk.avail = Cardinality(0..(Blocks - 1))
        /\ NewChunk.first # Blocks => NewChunk.first \in 0..(Blocks - 1)
        /\ \A b \in 0..(Blocks - 1) :
              NewChunk.byte[b] # Blocks => NewChunk.byte[b] \in 0..(Blocks - 1)
        /\ \A b \in 0..(Blocks - 1) : NewChunk.byte[b] # NewChunk.first
    OBVIOUS
  <1> QED BY <1>1, <1>2, <1>3, <1>4 DEF FreeChain

\* The chunk gives out its first free block.
LEMMA TakeIs ==
    ASSUME NEW k \in Chunk, NEW F, FreeChain(k, F), k.avail # 0, NEW n, n = Take(k)
    PROVE  /\ k.first \in F
           /\ n \in Chunk /\ FreeChain(n, F \ {k.first})
           /\ n.pre = k.pre /\ n.next = k.next /\ n.avail = k.avail - 1
  <1> DEFINE x == k.first
             G == F \ {x}
  <1>1. /\ F \subseteq 0..(Blocks - 1) /\ IsFiniteSet(F) /\ k.avail = Cardinality(F)
        /\ k.avail \in 1..Blocks /\ F # {} /\ Blocks \in Nat \ {0} /\ Used = -1
    <2>1. F \subseteq 0..(Blocks - 1) /\ k.avail = Cardinality(F)
      BY DEF FreeChain
    <2> QED BY <2>1, BlocksIs, AvailIs
  <1>2. x \in F
    <2>1. SUFFICES ASSUME x = Blocks PROVE FALSE
      BY DEF FreeChain
    <2>2. \A S \in SUBSET F : (\A b \in S : k.byte[b] # Blocks => k.byte[b] \in S) => S = F
      BY <2>1 DEF FreeChain
    <2>3. {} \in SUBSET F
      OBVIOUS
    <2>4. \A b \in {} : k.byte[b] # Blocks => k.byte[b] \in {}
      OBVIOUS
    <2> HIDE DEF x
    <2>5. {} = F
      BY <2>2, <2>3, <2>4
    <2> QED BY <1>1, <2>5
  <1>3. /\ k = [byte |-> k.byte, first |-> k.first, avail |-> k.avail,
                pre |-> k.pre, next |-> k.next]
        /\ k.byte \in [0..(Blocks - 1) -> Used..Blocks] /\ k.pre \in Nat /\ k.next \in Nat
    BY DEF Chunk
  <1>4. x \in 0..(Blocks - 1) /\ k.byte[x] \in 0..Blocks
    <2>1. x \in 0..(Blocks - 1) /\ (k.byte[x] # Blocks => k.byte[x] \in F)
      BY <1>1, <1>2 DEF FreeChain
    <2>2. k.byte[x] = Blocks \/ k.byte[x] \in 0..(Blocks - 1)
      BY <1>1, <2>1
    <2>3. \A b : b = Blocks \/ b \in 0..(Blocks - 1) => b \in 0..Blocks
      BY <1>1
    <2> QED BY <2>1, <2>2, <2>3
  <1>5. PICK y : y = [k.byte EXCEPT ![x] = Used]
    OBVIOUS
  <1>6. y \in [0..(Blocks - 1) -> Used..Blocks]
    <2>1. Used \in Used..Blocks
      BY <1>1
    <2> QED BY <1>3, <1>4, <1>5, <2>1
  <1>7. PICK m : m = [k EXCEPT !.byte[k.first] = Used]
    OBVIOUS
  <1>8. m = [byte |-> y, first |-> k.first, avail |-> k.avail, pre |-> k.pre, next |-> k.next]
    BY <1>3, <1>5, <1>7
  <1>9. PICK o : o = [m EXCEPT !.first = k.byte[x]]
    OBVIOUS
  <1>10. o = [byte |-> y, first |-> k.byte[x], avail |-> k.avail, pre |-> k.pre, next |-> k.next]
    BY <1>8, <1>9
  <1>11. n = [o EXCEPT !.avail = k.avail - 1]
    BY <1>7, <1>8, <1>9, <1>10 DEF Take
  <1>12. n = [byte |-> y, first |-> k.byte[x], avail |-> k.avail - 1,
              pre |-> k.pre, next |-> k.next]
    BY <1>10, <1>11
  <1>13. /\ n \in Chunk /\ n.first = k.byte[x] /\ n.avail = k.avail - 1 /\ n.pre = k.pre
        /\ n.next = k.next /\ n.byte = [k.byte EXCEPT ![x] = Used]
    <2>1. k.avail - 1 \in 0..Blocks
      BY <1>1
    <2> QED BY <1>3, <1>4, <1>5, <1>6, <1>12, <2>1 DEF Chunk
  <1>14. \A b \in G : n.byte[b] = k.byte[b]
    BY <1>1, <1>3, <1>4, <1>13
  <1>15. n.avail = Cardinality(G)
    BY <1>1, <1>2, <1>13, FS_RemoveElement
  <1>16. n.first # Blocks => n.first \in G
    BY <1>2, <1>13 DEF FreeChain
  <1>17. /\ \A b \in G : n.byte[b] # Blocks => n.byte[b] \in G
         /\ \A b \in G : n.byte[b] # n.first
         /\ \A a, b \in G : n.byte[a] = n.byte[b] => a = b
    <2>1. /\ \A b \in F : k.byte[b] # Blocks => k.byte[b] \in F
          /\ \A b \in F : k.byte[b] # x
          /\ \A a, b \in F : k.byte[a] = k.byte[b] => a = b
      BY DEF FreeChain
    <2> HIDE DEF x
    <2> QED BY <1>2, <1>13, <1>14, <2>1
  <1>18. ASSUME NEW S \in SUBSET G, n.first # Blocks => n.first \in S,
                \A b \in S : n.byte[b] # Blocks => n.byte[b] \in S
         PROVE  S = G
    <2> DEFINE T == S \cup {x}
    <2>1. T \in SUBSET F
      BY <1>2
    <2>2. \A b \in T : k.byte[b] # Blocks => k.byte[b] \in T
      BY <1>13, <1>14, <1>18
    <2>3. x \in T
      OBVIOUS
    <2> HIDE DEF T
    <2>4. T = F
      BY <2>1, <2>2, <2>3 DEF FreeChain
    <2> QED BY <2>4 DEF T
  <1>19. FreeChain(n, G)
    BY <1>1, <1>15, <1>16, <1>17, <1>18 DEF FreeChain
  <1> QED BY <1>2, <1>13, <1>19

\* The chunk gets a block back.
LEMMA PutIs ==
    ASSUME NEW k \in Chunk, NEW F, FreeChain(k, F), NEW x \in (0..(Blocks - 1)) \ F,
           NEW n, n = Put(k, x)
    PROVE  /\ n \in Chunk /\ FreeChain(n, F \cup {x})
           /\ n.pre = k.pre /\ n.next = k.next /\ n.avail = k.avail + 1
  <1> DEFINE G == F \cup {x}
  <1>1. /\ F \subseteq 0..(Blocks - 1) /\ IsFiniteSet(F) /\ k.avail = Cardinality(F)
        /\ k.avail \in 0..(Blocks - 1) /\ Blocks \in Nat \ {0} /\ Used = -1
    <2>1. F \subseteq 0..(Blocks - 1) /\ k.avail = Cardinality(F)
      BY DEF FreeChain
    <2>2. IsFiniteSet(F) /\ k.avail \in 0..Blocks /\ k.avail # Blocks
      BY <2>1, AvailIs
    <2> QED BY <2>1, <2>2, BlocksIs
  <1>2. /\ k = [byte |-> k.byte, first |-> k.first, avail |-> k.avail,
                pre |-> k.pre, next |-> k.next]
        /\ k.byte \in [0..(Blocks - 1) -> Used..Blocks] /\ k.pre \in Nat /\ k.next \in Nat
        /\ k.first \in 0..Blocks
    BY DEF Chunk
  <1>3. PICK y : y = [k.byte EXCEPT ![x] = k.first]
    OBVIOUS
  <1>4. y \in [0..(Blocks - 1) -> Used..Blocks]
    <2>1. k.first \in Used..Blocks
      BY <1>1, <1>2
    <2> QED BY <1>2, <1>3, <2>1
  <1>5. PICK m : m = [k EXCEPT !.byte[x] = k.first]
    OBVIOUS
  <1>6. m = [byte |-> y, first |-> k.first, avail |-> k.avail, pre |-> k.pre, next |-> k.next]
    BY <1>2, <1>3, <1>5
  <1>7. PICK o : o = [m EXCEPT !.first = x]
    OBVIOUS
  <1>8. o = [byte |-> y, first |-> x, avail |-> k.avail, pre |-> k.pre, next |-> k.next]
    BY <1>6, <1>7
  <1>9. n = [o EXCEPT !.avail = k.avail + 1]
    BY <1>5, <1>6, <1>7, <1>8 DEF Put
  <1>10. n = [byte |-> y, first |-> x, avail |-> k.avail + 1, pre |-> k.pre, next |-> k.next]
    BY <1>8, <1>9
  <1>11. /\ n \in Chunk /\ n.first = x /\ n.avail = k.avail + 1 /\ n.pre = k.pre
        /\ n.next = k.next /\ n.byte = [k.byte EXCEPT ![x] = k.first]
    <2>1. k.avail + 1 \in 0..Blocks /\ x \in 0..Blocks
      BY <1>1
    <2> QED BY <1>2, <1>3, <1>4, <1>10, <2>1 DEF Chunk
  <1>12. n.byte[x] = k.first /\ \A b \in F : n.byte[b] = k.byte[b]
    BY <1>1, <1>2, <1>11
  <1>13. n.avail = Cardinality(G)
    BY <1>1, <1>11, FS_AddElement
  <1>14. x # Blocks /\ \A b \in F : k.byte[b] # x
    BY <1>1 DEF FreeChain
  <1>15. /\ \A b \in G : n.byte[b] # Blocks => n.byte[b] \in G
         /\ \A b \in G : n.byte[b] # n.first
         /\ \A a, b \in G : n.byte[a] = n.byte[b] => a = b
    BY <1>11, <1>12, <1>14 DEF FreeChain
  <1>16. ASSUME NEW S \in SUBSET G, n.first # Blocks => n.first \in S,
                \A b \in S : n.byte[b] # Blocks => n.byte[b] \in S
         PROVE  S = G
    <2> DEFINE T == S \ {x}
    <2>1. T \in SUBSET F /\ x \in S
      BY <1>11, <1>14, <1>16
    <2>2. \A b \in T : k.byte[b] # Blocks => k.byte[b] \in T
      BY <1>12, <1>14, <1>16, <2>1
    <2>3. k.first # Blocks => k.first \in T
      BY <1>12, <1>16, <2>1 DEF FreeChain
    <2> HIDE DEF T
    <2>4. T = F
      BY <2>1, <2>2, <2>3 DEF FreeChain
    <2> QED BY <2>1, <2>4 DEF T
  <1>17. FreeChain(n, G)
    BY <1>1, <1>11, <1>13, <1>15, <1>16 DEF FreeChain
  <1> QED BY <1>11, <1>17

-----------------------------------------------------------------------------
(* A pool: its chunks in the lists that L says, with F[c] the free blocks of *)
(* chunk c of the M that there may be.                                     *)

Chained(f, L, M, F) ==
    /\ Shape(f) /\ AllLinked(f, L)
    /\ DOMAIN f.chunk \subseteq 1..M
    /\ F \in [1..M -> SUBSET (0..(Blocks - 1))]
    /\ \A c \in DOMAIN f.chunk : FreeChain(f.chunk[c], F[c])
    /\ \A c \in (1..M) \ DOMAIN f.chunk : F[c] = 0..(Blocks - 1)
    /\ f.chunkCount = Cardinality(DOMAIN f.chunk)

Counted(f, L) == f.emptyCount = Cardinality(In(L, "empty"))

PoolIs(f, M, F) == Chained(f, ByAvail(f), M, F) /\ Counted(f, ByAvail(f))
PoolOK(f, M, F) == PoolIs(f, M, F) /\ f.emptyCount <= M \div 4 + 1

\* The head of a list is in it, and a list without a head is empty.
LEMMA HeadIs ==
    ASSUME NEW f, NEW L, AllLinked(f, L), NEW list \in Lists
    PROVE  /\ f.head[list] # NULL => /\ f.head[list] \in DOMAIN f.chunk
                                     /\ L[f.head[list]] = list
           /\ f.head[list] = NULL => In(L, list) = {}
  <1>1. Linked(f, list, In(L, list)) /\ DOMAIN L = DOMAIN f.chunk
    BY DEF AllLinked
  <1>2. f.head[list] # NULL => f.head[list] \in In(L, list)
    BY <1>1 DEF Linked
  <1>3. ASSUME f.head[list] = NULL PROVE In(L, list) = {}
    <2>1. \A S \in SUBSET In(L, list) :
             (\A c \in S : Nx(f, c) # NULL => Nx(f, c) \in S) => S = In(L, list)
      BY <1>1, <1>3 DEF Linked
    <2>2. {} \in SUBSET In(L, list) /\ \A c \in {} : Nx(f, c) # NULL => Nx(f, c) \in {}
      OBVIOUS
    <2> QED BY <2>1, <2>2
  <1> QED BY <1>1, <1>2, <1>3 DEF In

LEMMA ChunksFinite ==
    ASSUME NEW f, NEW M \in Nat, DOMAIN f.chunk \subseteq 1..M
    PROVE  /\ IsFiniteSet(DOMAIN f.chunk) /\ Cardinality(DOMAIN f.chunk) \in 0..M
           /\ Cardinality(DOMAIN f.chunk) = M => DOMAIN f.chunk = 1..M
  <1>1. IsFiniteSet(1..M) /\ Cardinality(1..M) = M
    BY FS_Interval
  <1>2. IsFiniteSet(DOMAIN f.chunk) /\ Cardinality(DOMAIN f.chunk) <= M
        /\ (M = Cardinality(DOMAIN f.chunk) => 1..M = DOMAIN f.chunk)
    BY <1>1, FS_Subset
  <1> QED BY <1>2, FS_CardinalityType

LEMMA ListedFinite ==
    ASSUME NEW f, NEW L, NEW M \in Nat, NEW F, Chained(f, L, M, F)
    PROVE  DOMAIN L = DOMAIN f.chunk /\ IsFiniteSet(DOMAIN L)
  <1>1. DOMAIN L = DOMAIN f.chunk
    BY DEF Chained, AllLinked
  <1>2. IsFiniteSet(DOMAIN f.chunk)
    BY ChunksFinite DEF Chained
  <1> QED BY <1>1, <1>2

\* How many empty chunks there are when one has changed lists.
LEMMA CountIs ==
    ASSUME NEW L, IsFiniteSet(DOMAIN L), NEW c \in DOMAIN L, NEW to,
           NEW K, K = With(L, c, to)
    PROVE  /\ Cardinality(In(L, "empty")) \in Nat /\ Cardinality(In(K, "empty")) \in Nat
           /\ L[c] = "empty" /\ to # "empty" =>
                 Cardinality(In(K, "empty")) = Cardinality(In(L, "empty")) - 1
           /\ L[c] # "empty" /\ to = "empty" =>
                 Cardinality(In(K, "empty")) = Cardinality(In(L, "empty")) + 1
           /\ L[c] # "empty" /\ to # "empty" =>
                 Cardinality(In(K, "empty")) = Cardinality(In(L, "empty"))
  <1> DEFINE S == In(L, "empty")
             T == In(K, "empty")
  <1>1. S \subseteq DOMAIN L /\ T \subseteq DOMAIN L
    BY DEF In, With
  <1>2. IsFiniteSet(S) /\ Cardinality(S) \in Nat /\ Cardinality(T) \in Nat
    BY <1>1, FS_Subset, FS_CardinalityType
  <1>3. /\ L[c] = "empty" /\ to # "empty" => c \in S /\ T = S \ {c}
        /\ L[c] # "empty" /\ to = "empty" => c \notin S /\ T = S \cup {c}
        /\ L[c] # "empty" /\ to # "empty" => T = S
    BY DEF In, With
  <1> HIDE DEF S, T
  <1>4. /\ L[c] = "empty" /\ to # "empty" => Cardinality(T) = Cardinality(S) - 1
        /\ L[c] # "empty" /\ to = "empty" => Cardinality(T) = Cardinality(S) + 1
        /\ L[c] # "empty" /\ to # "empty" => Cardinality(T) = Cardinality(S)
    BY <1>2, <1>3, FS_AddElement, FS_RemoveElement
  <1> QED BY <1>2, <1>4 DEF S, T

\* A chunk has changed lists.
LEMMA ChainedMoved ==
    ASSUME NEW f, NEW L, NEW M \in Nat, NEW F, Chained(f, L, M, F), NEW g, NEW K,
           Shape(g), SameBlocks(f, g), AllLinked(g, K)
    PROVE  Chained(g, K, M, F)
  <1>1. /\ DOMAIN g.chunk = DOMAIN f.chunk /\ g.chunkCount = f.chunkCount
        /\ \A c \in DOMAIN f.chunk : /\ g.chunk[c].byte = f.chunk[c].byte
                                     /\ g.chunk[c].first = f.chunk[c].first
                                     /\ g.chunk[c].avail = f.chunk[c].avail
    BY DEF SameBlocks
  <1>2. \A k, n, G : FreeChain(k, G) /\ n.byte = k.byte /\ n.first = k.first
                                    /\ n.avail = k.avail => FreeChain(n, G)
    <2>1. SUFFICES ASSUME NEW k, NEW n, NEW G, FreeChain(k, G), n.byte = k.byte,
                          n.first = k.first, n.avail = k.avail
                   PROVE  FreeChain(n, G)
      OBVIOUS
    <2>2. /\ \A b \in G : (k.byte[b] # Blocks => k.byte[b] \in G) /\ k.byte[b] # k.first
          /\ \A a, b \in G : k.byte[a] = k.byte[b] => a = b
          /\ \A S \in SUBSET G : /\ k.first # Blocks => k.first \in S
                                 /\ \A b \in S : k.byte[b] # Blocks => k.byte[b] \in S
                                 => S = G
          /\ G \subseteq 0..(Blocks - 1) /\ k.avail = Cardinality(G)
          /\ k.first # Blocks => k.first \in G
      BY <2>1, Zenon DEF FreeChain
    <2>3. PICK B : B = k.byte /\ B = n.byte
      BY <2>1
    <2> QED BY <2>1, <2>2, <2>3, SMTT(30) DEF FreeChain
  <1>3. \A c \in DOMAIN g.chunk : FreeChain(g.chunk[c], F[c])
    BY <1>1, <1>2 DEF Chained
  <1> QED BY <1>1, <1>3 DEF Chained

\* One chunk is another one.
LEMMA WithChunkIs ==
    ASSUME NEW f, Shape(f), NEW c \in DOMAIN f.chunk, NEW k \in Chunk,
           NEW g, g = WithChunk(f, c, k)
    PROVE  /\ Shape(g) /\ g.chunk[c] = k
           /\ \A d \in DOMAIN f.chunk : d # c => g.chunk[d] = f.chunk[d]
           /\ DOMAIN g.chunk = DOMAIN f.chunk /\ g.head = f.head
           /\ g.chunkCount = f.chunkCount /\ g.emptyCount = f.emptyCount
  <1>1. PICK ch : ch = [f.chunk EXCEPT ![c] = k]
    OBVIOUS
  <1>2. /\ f = [chunk |-> f.chunk, head |-> f.head,
                chunkCount |-> f.chunkCount, emptyCount |-> f.emptyCount]
        /\ f.chunk \in [DOMAIN f.chunk -> Chunk]
    BY DEF Shape
  <1>3. g = [chunk |-> ch, head |-> f.head,
             chunkCount |-> f.chunkCount, emptyCount |-> f.emptyCount]
    BY <1>1, <1>2 DEF WithChunk
  <1>4. /\ ch \in [DOMAIN f.chunk -> Chunk] /\ DOMAIN ch = DOMAIN f.chunk /\ ch[c] = k
        /\ \A d \in DOMAIN f.chunk : d # c => ch[d] = f.chunk[d]
    BY <1>1, <1>2
  <1>5. /\ g.chunk = ch /\ g.head = f.head
        /\ g.chunkCount = f.chunkCount /\ g.emptyCount = f.emptyCount
    BY <1>3
  <1>6. Shape(g)
    BY <1>3, <1>4, <1>5 DEF Shape
  <1> QED BY <1>4, <1>5, <1>6

\* The blocks of one chunk have changed.
LEMMA ChainedSet ==
    ASSUME NEW f, NEW L, NEW M \in Nat, NEW F, Chained(f, L, M, F),
           NEW c \in DOMAIN f.chunk, NEW k \in Chunk,
           k.pre = Pr(f, c), k.next = Nx(f, c), NEW G, FreeChain(k, G),
           NEW g, g = WithChunk(f, c, k), NEW E, E = With(F, c, G)
    PROVE  Chained(g, L, M, E)
  <1>1. /\ Shape(g) /\ g.chunk[c] = k
        /\ \A d \in DOMAIN f.chunk : d # c => g.chunk[d] = f.chunk[d]
        /\ DOMAIN g.chunk = DOMAIN f.chunk /\ g.head = f.head
        /\ g.chunkCount = f.chunkCount /\ g.emptyCount = f.emptyCount
    BY WithChunkIs DEF Chained
  <1>2. \A d \in DOMAIN f.chunk : Nx(g, d) = Nx(f, d) /\ Pr(g, d) = Pr(f, d)
    BY <1>1 DEF Nx, Pr
  <1>3. AllLinked(g, L)
    <2>1. L \in [DOMAIN g.chunk -> Lists]
      BY <1>1 DEF Chained, AllLinked
    <2>2. ASSUME NEW list \in Lists PROVE Linked(g, list, In(L, list))
      <3>1. Linked(f, list, In(L, list)) /\ In(L, list) \subseteq DOMAIN f.chunk
        BY DEF Chained, AllLinked, Linked
      <3> QED BY <1>1, <1>2, <3>1, LinkedSame
    <2> QED BY <2>1, <2>2 DEF AllLinked
  <1>4. /\ E \in [1..M -> SUBSET (0..(Blocks - 1))] /\ E[c] = G
        /\ \A d \in 1..M : d # c => E[d] = F[d]
    <2>1. G \in SUBSET (0..(Blocks - 1))
      BY DEF FreeChain
    <2> QED BY <2>1 DEF Chained, With
  <1>5. /\ \A d \in DOMAIN g.chunk : FreeChain(g.chunk[d], E[d])
        /\ \A d \in (1..M) \ DOMAIN g.chunk : E[d] = 0..(Blocks - 1)
    BY <1>1, <1>4 DEF Chained
  <1> QED BY <1>1, <1>3, <1>4, <1>5 DEF Chained

\* The number of empty chunks is written down anew.
LEMMA ChainedCount ==
    ASSUME NEW f, NEW L, NEW M \in Nat, NEW F, Chained(f, L, M, F), NEW n \in Nat,
           NEW g, g = [f EXCEPT !.emptyCount = n]
    PROVE  /\ Chained(g, L, M, F) /\ g.emptyCount = n
           /\ g.chunk = f.chunk /\ g.head = f.head /\ g.chunkCount = f.chunkCount
  <1>1. f = [chunk |-> f.chunk, head |-> f.head,
             chunkCount |-> f.chunkCount, emptyCount |-> f.emptyCount]
    BY DEF Chained, Shape
  <1>2. g = [chunk |-> f.chunk, head |-> f.head,
             chunkCount |-> f.chunkCount, emptyCount |-> n]
    BY <1>1
  <1>3. /\ g.chunk = f.chunk /\ g.head = f.head
        /\ g.chunkCount = f.chunkCount /\ g.emptyCount = n
    BY <1>2
  <1>4. Shape(g)
    BY <1>2, <1>3 DEF Shape, Chained
  <1>5. AllLinked(g, L)
    BY <1>3 DEF Chained, AllLinked, Linked, Nx, Pr
  <1> QED BY <1>3, <1>4, <1>5 DEF Chained

\* A pool without chunks.
LEMMA NewPoolIs ==
    ASSUME NEW M \in Nat, NEW F, F = [c \in 1..M |-> 0..(Blocks - 1)]
    PROVE  PoolOK(NewPool, M, F)
  <1>1. /\ DOMAIN NewPool.chunk = {} /\ NewPool.chunk = [c \in {} |-> 0]
        /\ NewPool.head = [list \in Lists |-> NULL]
        /\ NewPool.chunkCount = 0 /\ NewPool.emptyCount = 0
    BY DEF NewPool
  <1>2. Shape(NewPool)
    <2>1. NewPool.chunk \in [{} -> Chunk]
      BY <1>1
    <2>2. NewPool.head \in [Lists -> Nat]
      BY <1>1 DEF NULL
    <2>3. NewPool = [chunk |-> NewPool.chunk, head |-> NewPool.head,
                     chunkCount |-> NewPool.chunkCount, emptyCount |-> NewPool.emptyCount]
      BY DEF NewPool
    <2> QED BY <1>1, <2>1, <2>2, <2>3 DEF Shape
  <1>3. PICK L : L = ByAvail(NewPool)
    OBVIOUS
  <1>4. L \in [{} -> Lists] /\ \A list : In(L, list) = {}
    BY <1>1, <1>3 DEF ByAvail, In
  <1>5. \A list \in Lists : NewPool.head[list] = NULL
    BY <1>1
  <1>6. \A list \in Lists : Linked(NewPool, list, {})
    BY <1>5 DEF Linked
  <1>7. AllLinked(NewPool, L)
    BY <1>1, <1>4, <1>6 DEF AllLinked
  <1>8. Chained(NewPool, L, M, F)
    BY <1>1, <1>2, <1>7, FS_EmptySet DEF Chained
  <1>9. Counted(NewPool, L)
    BY <1>1, <1>4, FS_EmptySet DEF Counted
  <1>10. NewPool.emptyCount <= M \div 4 + 1
    BY <1>1
  <1> QED BY <1>3, <1>8, <1>9, <1>10 DEF PoolOK, PoolIs

\* An empty chunk that the memory allocator has given.
LEMMA AddedIs ==
    ASSUME NEW f, NEW M \in Nat, NEW F, PoolOK(f, M, F), f.head["empty"] = NULL,
           NEW c \in 1..M, c \notin DOMAIN f.chunk, NEW g, g = AddChunk(f, c)
    PROVE  /\ PoolIs(g, M, F) /\ g.emptyCount = 1
           /\ g.head["empty"] = c /\ g.head["free"] = f.head["free"]
           /\ DOMAIN g.chunk = DOMAIN f.chunk \cup {c} /\ g.chunk[c] = NewChunk
  <1> DEFINE L == ByAvail(f)
  <1>1. /\ Chained(f, L, M, F) /\ Shape(f) /\ AllLinked(f, L)
        /\ f.emptyCount = Cardinality(In(L, "empty")) /\ "empty" \in Lists /\ "free" \in Lists
        /\ NULL = 0
    BY DEF PoolOK, PoolIs, Chained, Counted, Lists, NULL
  <1> HIDE DEF L
  <1>2. In(L, "empty") = {} /\ f.emptyCount = 0
    BY <1>1, HeadIs, FS_EmptySet
  <1>3. PICK ch : ch = [d \in DOMAIN f.chunk \cup {c} |-> IF d = c THEN NewChunk ELSE f.chunk[d]]
    OBVIOUS
  <1>4. PICK hd : hd = [f.head EXCEPT !["empty"] = c]
    OBVIOUS
  <1>5. g = [chunk |-> ch, head |-> hd,
             chunkCount |-> f.chunkCount + 1, emptyCount |-> f.emptyCount + 1]
    <2>1. f = [chunk |-> f.chunk, head |-> f.head,
               chunkCount |-> f.chunkCount, emptyCount |-> f.emptyCount]
      BY <1>1 DEF Shape
    <2>2. PICK x : x = [f EXCEPT !.chunk = ch]
      OBVIOUS
    <2>3. x = [chunk |-> ch, head |-> f.head,
               chunkCount |-> f.chunkCount, emptyCount |-> f.emptyCount]
      BY <2>1, <2>2
    <2>4. PICK y : y = [x EXCEPT !.head["empty"] = c]
      OBVIOUS
    <2>5. y = [chunk |-> ch, head |-> hd,
               chunkCount |-> f.chunkCount, emptyCount |-> f.emptyCount]
      BY <1>4, <2>3, <2>4
    <2>6. PICK z : z = [y EXCEPT !.chunkCount = f.chunkCount + 1]
      OBVIOUS
    <2>7. z = [chunk |-> ch, head |-> hd,
               chunkCount |-> f.chunkCount + 1, emptyCount |-> f.emptyCount]
      BY <2>5, <2>6
    <2>8. g = [z EXCEPT !.emptyCount = f.emptyCount + 1]
      BY <1>3, <2>2, <2>3, <2>4, <2>5, <2>6, <2>7 DEF AddChunk
    <2> QED BY <2>7, <2>8
  <1>6. /\ ch \in [DOMAIN f.chunk \cup {c} -> Chunk] /\ DOMAIN ch = DOMAIN f.chunk \cup {c}
        /\ ch[c] = NewChunk /\ \A d \in DOMAIN f.chunk : ch[d] = f.chunk[d]
    BY <1>1, <1>3, NewChunkIs DEF Shape
  <1>7. /\ hd \in [Lists -> Nat] /\ hd["empty"] = c
        /\ \A l \in Lists : l # "empty" => hd[l] = f.head[l]
    BY <1>1, <1>4 DEF Shape
  <1>8. /\ g.chunk = ch /\ g.head = hd
        /\ g.chunkCount = f.chunkCount + 1 /\ g.emptyCount = 1
    <2>1. /\ g.chunk = ch /\ g.head = hd
          /\ g.chunkCount = f.chunkCount + 1 /\ g.emptyCount = f.emptyCount + 1
      BY <1>5
    <2> QED BY <1>2, <2>1
  <1>9. Shape(g)
    <2>1. f.chunkCount \in Nat /\ DOMAIN f.chunk \subseteq Nat \ {NULL} /\ c \in Nat \ {NULL}
      BY <1>1 DEF Shape
    <2>2. g = [chunk |-> g.chunk, head |-> g.head,
               chunkCount |-> g.chunkCount, emptyCount |-> g.emptyCount]
      BY <1>5
    <2>3. DOMAIN g.chunk \subseteq Nat \ {NULL} /\ g.chunk \in [DOMAIN g.chunk -> Chunk]
      BY <1>6, <1>8, <2>1
    <2> QED BY <1>7, <1>8, <2>1, <2>2, <2>3 DEF Shape
  <1>10. PICK K : K = ByAvail(g)
    OBVIOUS
  <1>11. /\ K \in [DOMAIN g.chunk -> Lists] /\ In(K, "empty") = {c}
         /\ \A l \in Lists : l # "empty" => In(K, l) = In(L, l)
    <2>1. NewChunk.avail = Blocks /\ Blocks # 0
      BY BlocksIs DEF NewChunk
    <2>2. OfAvail(NewChunk.avail) = "empty"
      BY <2>1 DEF OfAvail
    <2>3. DOMAIN K = DOMAIN f.chunk \cup {c} /\ K[c] = "empty"
          /\ \A d \in DOMAIN f.chunk : K[d] = L[d]
      BY <1>6, <1>8, <1>10, <2>2 DEF ByAvail, L
    <2>4. K \in [DOMAIN g.chunk -> Lists]
      BY <1>10 DEF ByAvail, OfAvail, Lists
    <2>5. DOMAIN L = DOMAIN f.chunk
      BY DEF L, ByAvail
    <2> QED BY <1>2, <2>3, <2>4, <2>5 DEF In
  <1>12. ASSUME NEW l \in Lists PROVE Linked(g, l, In(K, l))
    <2>1. CASE l = "empty"
      <3>1. Nx(g, c) = NULL /\ Pr(g, c) = NULL
        BY <1>6, <1>8 DEF Nx, Pr, NewChunk
      <3>2. c # NULL
        BY <1>1
      <3>3. Linked(g, "empty", {c})
        <4>1. \A S \in SUBSET {c} : c \in S => S = {c}
          OBVIOUS
        <4>2. g.head["empty"] = c /\ c \in DOMAIN g.chunk
          BY <1>6, <1>7, <1>8
        <4> QED BY <3>1, <3>2, <4>1, <4>2 DEF Linked
      <3> QED BY <1>11, <2>1, <3>3
    <2>2. CASE l # "empty"
      <3>1. Linked(f, l, In(L, l)) /\ In(L, l) \subseteq DOMAIN f.chunk
        BY <1>1 DEF AllLinked, Linked
      <3>2. \A d \in In(L, l) : Nx(g, d) = Nx(f, d) /\ Pr(g, d) = Pr(f, d)
        BY <1>6, <1>8, <3>1 DEF Nx, Pr
      <3>3. g.head[l] = f.head[l] /\ In(L, l) \subseteq DOMAIN g.chunk
        BY <1>6, <1>7, <1>8, <2>2, <3>1
      <3> QED BY <1>11, <2>2, <3>1, <3>2, <3>3, LinkedSame
    <2> QED BY <2>1, <2>2
  <1>13. AllLinked(g, K)
    BY <1>11, <1>12 DEF AllLinked
  <1>14. g.chunkCount = Cardinality(DOMAIN g.chunk)
    <2>1. IsFiniteSet(DOMAIN f.chunk) /\ f.chunkCount = Cardinality(DOMAIN f.chunk)
      BY <1>1, ChunksFinite DEF Chained
    <2> QED BY <1>6, <1>8, <2>1, FS_AddElement
  <1>15. Chained(g, K, M, F)
    <2>1. F[c] = 0..(Blocks - 1)
      BY <1>1 DEF Chained
    <2>2. \A d \in DOMAIN g.chunk : FreeChain(g.chunk[d], F[d])
      BY <1>1, <1>6, <1>8, <2>1, NewChunkIs DEF Chained
    <2> QED BY <1>1, <1>6, <1>8, <1>9, <1>13, <1>14, <2>2 DEF Chained
  <1>16. Counted(g, K)
    BY <1>8, <1>11, FS_Singleton DEF Counted
  <1> QED BY <1>1, <1>6, <1>7, <1>8, <1>10, <1>15, <1>16 DEF PoolIs, Lists

\* The head of the free list is a chunk to take from, be it one that nothing has
\* been taken from and that belongs in the list of empty ones.
Ready(f, M, F) ==
    LET c == f.head["free"] IN
    /\ c \in DOMAIN f.chunk /\ f.chunk[c].avail # 0
    /\ Chained(f, With(ByAvail(f), c, "free"), M, F)
    /\ Counted(f, With(ByAvail(f), c, "free"))
    /\ f.emptyCount <= M \div 4 + 1

\* create_chunk without memory leaves the pool as it was.
LEMMA CreateIs ==
    ASSUME NEW f, NEW M \in Nat, NEW F, PoolOK(f, M, F),
           NEW ok \in BOOLEAN, ok => DOMAIN f.chunk # 1..M,
           NEW g, g = create_chunk(f, ok)
    PROVE  g = f \/ Ready(g, M, F)
  <1> DEFINE new == CHOOSE c \in 1..(f.chunkCount + 1) : c \notin DOMAIN f.chunk
             a == AddChunk(f, new)
             h == IF f.head["empty"] = NULL /\ ok THEN a ELSE f
             m == MoveHead(h, "empty", "free")
  <1>1. "empty" \in Lists /\ "free" \in Lists /\ "empty" # "free"
    BY DEF Lists
  <1>2. g = IF h.head["empty"] = NULL THEN f ELSE [m EXCEPT !.emptyCount = @ - 1]
    BY DEF create_chunk
  <1>3. PoolIs(h, M, F) /\ (h.head["empty"] # NULL => h.emptyCount <= M \div 4 + 2)
    <2>1. CASE f.head["empty"] = NULL /\ ok
      <3>1. f.chunkCount = Cardinality(DOMAIN f.chunk) /\ DOMAIN f.chunk \subseteq 1..M
        BY DEF PoolOK, PoolIs, Chained
      <3>2. f.chunkCount \in Nat /\ f.chunkCount + 1 \in 1..M
        <4>1. Cardinality(DOMAIN f.chunk) \in 0..M /\ Cardinality(DOMAIN f.chunk) # M
          BY <2>1, <3>1, ChunksFinite
        <4> QED BY <3>1, <4>1
      <3>3. \E c \in 1..(f.chunkCount + 1) : c \notin DOMAIN f.chunk
        <4>1. SUFFICES ASSUME 1..(f.chunkCount + 1) \subseteq DOMAIN f.chunk PROVE FALSE
          OBVIOUS
        <4>2. Cardinality(1..(f.chunkCount + 1)) <= Cardinality(DOMAIN f.chunk)
          BY <3>1, <4>1, ChunksFinite, FS_Subset
        <4>3. Cardinality(1..(f.chunkCount + 1)) = f.chunkCount + 1
          BY <3>2, FS_Interval
        <4> QED BY <3>1, <3>2, <4>2, <4>3
      <3>4. new \in 1..(f.chunkCount + 1) /\ new \notin DOMAIN f.chunk
        BY <3>3
      <3> HIDE DEF new
      <3>5. new \in 1..M
        BY <3>2, <3>4
      <3>6. PoolIs(a, M, F) /\ a.emptyCount = 1
        BY <2>1, <3>4, <3>5, AddedIs
      <3> HIDE DEF a
      <3>7. h = a
        BY <2>1
      <3> QED BY <3>6, <3>7
    <2>2. CASE ~(f.head["empty"] = NULL /\ ok)
      <3>1. h = f
        BY <2>2
      <3>2. f.emptyCount \in Nat
        BY DEF PoolOK, PoolIs, Chained, Shape
      <3> QED BY <3>1, <3>2 DEF PoolOK
    <2> QED BY <2>1, <2>2
  <1> HIDE DEF h
  <1>4. CASE h.head["empty"] = NULL
    BY <1>2, <1>4
  <1>5. CASE h.head["empty"] # NULL
    <2> DEFINE L == ByAvail(h)
               c == h.head["empty"]
               K == With(L, c, "free")
    <2>1. Chained(h, L, M, F) /\ Shape(h) /\ AllLinked(h, L) /\ Counted(h, L)
      BY <1>3 DEF PoolIs, Chained
    <2> HIDE DEF L
    <2>2. /\ c \in DOMAIN h.chunk /\ L[c] = "empty"
          /\ Shape(m) /\ SameBlocks(h, m) /\ AllLinked(m, K) /\ m.head["free"] = c
      BY <1>1, <1>5, <2>1, MoveHeadIs
    <2> HIDE DEF m
    <2>3. Chained(m, K, M, F)
      BY <2>1, <2>2, ChainedMoved
    <2> HIDE DEF c, new, a
    <2>4. K = With(L, c, "free")
      OBVIOUS
    <2> HIDE DEF K
    <2>5. Cardinality(In(K, "empty")) = Cardinality(In(L, "empty")) - 1
          /\ Cardinality(In(L, "empty")) \in Nat /\ Cardinality(In(K, "empty")) \in Nat
      <3>1. c \in DOMAIN L /\ IsFiniteSet(DOMAIN L) /\ L[c] = "empty"
        BY <2>1, <2>2, ListedFinite
      <3> QED BY <2>4, <3>1, CountIs
    <2>6. m.emptyCount - 1 = Cardinality(In(K, "empty"))
      BY <2>1, <2>2, <2>5 DEF Counted, SameBlocks
    <2>7. g = [m EXCEPT !.emptyCount = m.emptyCount - 1]
      BY <1>2, <1>5
    <2>8. /\ Chained(g, K, M, F) /\ g.emptyCount = m.emptyCount - 1
          /\ g.chunk = m.chunk /\ g.head = m.head
      BY <2>3, <2>5, <2>6, <2>7, ChainedCount
    <2>9. Counted(g, K)
      BY <2>6, <2>8 DEF Counted
    <2>10. /\ DOMAIN g.chunk = DOMAIN h.chunk
           /\ \A d \in DOMAIN h.chunk : g.chunk[d].avail = h.chunk[d].avail
           /\ g.head["free"] = c
      BY <2>2, <2>8 DEF SameBlocks
    <2>11. ByAvail(g) = L
      BY <2>10 DEF ByAvail, L
    <2>12. h.chunk[c].avail = Blocks
      BY <2>2 DEF L, ByAvail, OfAvail
    <2>13. g.emptyCount <= M \div 4 + 1
      <3>1. m.emptyCount = h.emptyCount /\ h.emptyCount \in Nat /\ M \div 4 \in Int
        BY <2>1, <2>2 DEF SameBlocks, Shape
      <3> QED BY <1>3, <1>5, <2>8, <3>1 DEF c
    <2>14. c \in DOMAIN g.chunk /\ g.chunk[c].avail # 0
      BY <2>2, <2>10, <2>12, BlocksIs
    <2> QED BY <2>4, <2>8, <2>9, <2>10, <2>11, <2>13, <2>14 DEF Ready
  <1> QED BY <1>4, <1>5

LEMMA FreeReady ==
    ASSUME NEW f, NEW M \in Nat, NEW F, PoolOK(f, M, F), f.head["free"] # NULL
    PROVE  Ready(f, M, F)
  <1> DEFINE L == ByAvail(f)
             c == f.head["free"]
  <1>1. Chained(f, L, M, F) /\ AllLinked(f, L) /\ Counted(f, L) /\ f.emptyCount <= M \div 4 + 1
    BY DEF PoolOK, PoolIs, Chained
  <1>2. c \in DOMAIN f.chunk /\ L[c] = "free"
    <2> HIDE DEF L
    <2>1. "free" \in Lists
      BY DEF Lists
    <2> QED BY <1>1, <2>1, HeadIs
  <1>3. f.chunk[c].avail # 0
    BY <1>2 DEF ByAvail, OfAvail
  <1>4. With(L, c, "free") = L
    BY <1>2 DEF With, ByAvail
  <1> QED BY <1>1, <1>2, <1>3, <1>4 DEF Ready

\* A chunk without free blocks leaves the free list.
Settled(h, c) == IF h.chunk[c].avail = 0 THEN MoveHead(h, "free", "full") ELSE h

\* The first block of the first chunk is taken.
LEMMA TakeFirst ==
    ASSUME NEW g, NEW M \in Nat, NEW F, Ready(g, M, F), NEW c, c = g.head["free"],
           NEW h, h = WithChunk(g, c, Take(g.chunk[c])), NEW r, r = Settled(h, c)
    PROVE  /\ c \in DOMAIN g.chunk /\ c # NULL /\ g.chunk[c].first \in F[c]
           /\ PoolOK(r, M, With(F, c, F[c] \ {g.chunk[c].first}))
  <1> DEFINE x == g.chunk[c].first
             L == With(ByAvail(g), c, "free")
             G == F[c] \ {x}
             E == With(F, c, G)
  <1>1. /\ c \in DOMAIN g.chunk /\ g.chunk[c].avail # 0 /\ g.emptyCount <= M \div 4 + 1
        /\ Chained(g, L, M, F) /\ Counted(g, L)
    BY DEF Ready
  <1>2. L[c] = "free" /\ DOMAIN L = DOMAIN g.chunk
        /\ \A d \in DOMAIN g.chunk : d # c => L[d] = OfAvail(g.chunk[d].avail)
    BY <1>1 DEF With, ByAvail
  <1> HIDE DEF L
  <1>3. /\ g.chunk[c] \in Chunk /\ FreeChain(g.chunk[c], F[c])
        /\ c # NULL /\ F[c] \in SUBSET (0..(Blocks - 1))
        /\ g.chunk[c].avail \in 1..Blocks
    <2>1. g.chunk[c] \in Chunk /\ FreeChain(g.chunk[c], F[c]) /\ c # NULL
      BY <1>1 DEF Chained, Shape
    <2>2. F[c] \in SUBSET (0..(Blocks - 1))
      BY <2>1 DEF FreeChain
    <2>3. g.chunk[c].avail \in 0..Blocks
      BY <2>1, AvailIs
    <2> QED BY <1>1, <2>1, <2>2, <2>3, BlocksIs
  <1>4. PICK k : k = Take(g.chunk[c])
    OBVIOUS
  <1>5. /\ x \in F[c] /\ k \in Chunk /\ FreeChain(k, G)
        /\ k.pre = Pr(g, c) /\ k.next = Nx(g, c) /\ k.avail = g.chunk[c].avail - 1
    BY <1>1, <1>3, <1>4, TakeIs DEF Pr, Nx
  <1>6. h = WithChunk(g, c, k)
    BY <1>4
  <1>7. G \in SUBSET (0..(Blocks - 1))
    BY <1>3
  <1> HIDE DEF G
  <1>8. E = With(F, c, G)
    OBVIOUS
  <1> HIDE DEF E
  <1>9. /\ Chained(h, L, M, E)
        /\ h.chunk[c] = k /\ \A d \in DOMAIN g.chunk : d # c => h.chunk[d] = g.chunk[d]
        /\ DOMAIN h.chunk = DOMAIN g.chunk /\ h.head = g.head
        /\ h.chunkCount = g.chunkCount /\ h.emptyCount = g.emptyCount
    <2>1. /\ Chained(g, L, M, F) /\ c \in DOMAIN g.chunk /\ k \in Chunk /\ Shape(g)
          /\ k.pre = Pr(g, c) /\ k.next = Nx(g, c) /\ FreeChain(k, G)
      BY <1>1, <1>5 DEF Chained
    <2> HIDE DEF x
    <2>2. Chained(h, L, M, E)
      BY <1>6, <1>8, <2>1, ChainedSet
    <2> QED BY <1>6, <2>1, <2>2, WithChunkIs
  <1>10. Counted(h, L)
    BY <1>1, <1>9 DEF Counted
  <1>11. k.avail \in 0..(Blocks - 1)
    <2>1. k.avail = g.chunk[c].avail - 1 /\ g.chunk[c].avail \in 1..Blocks
      BY <1>3, <1>5
    <2> QED BY <2>1, BlocksIs
  <1>12. PoolOK(r, M, E)
    <2>1. CASE k.avail # 0
      <3>1. r = h
        BY <1>9, <2>1 DEF Settled
      <3>2. OfAvail(k.avail) = "free"
        BY <1>11, <2>1, BlocksIs DEF OfAvail
      <3>3. ByAvail(h) = L
        <4>1. \A d \in DOMAIN g.chunk : L[d] = OfAvail(h.chunk[d].avail)
          BY <1>2, <1>9, <3>2
        <4>2. L \in [DOMAIN g.chunk -> Lists]
          BY <1>1 DEF Chained, AllLinked
        <4> QED BY <1>9, <4>1, <4>2 DEF ByAvail
      <3> QED BY <1>1, <1>9, <1>10, <3>1, <3>3 DEF PoolOK, PoolIs
    <2>2. CASE k.avail = 0
      <3> DEFINE K == With(L, c, "full")
      <3>1. r = MoveHead(h, "free", "full") /\ h.head["free"] = c
        BY <1>9, <2>2 DEF Settled
      <3>2. K = With(L, c, "full")
        OBVIOUS
      <3> HIDE DEF K
      <3>3. "free" \in Lists /\ "full" \in Lists
        BY DEF Lists
      <3>4. Shape(h) /\ AllLinked(h, L)
        BY <1>9 DEF Chained
      <3>5. Shape(r) /\ SameBlocks(h, r) /\ AllLinked(r, K)
        <4>1. h.head["free"] # NULL
          BY <1>3, <3>1
        <4>2. Shape(r) /\ SameBlocks(h, r) /\ AllLinked(r, With(L, h.head["free"], "full"))
          BY <3>1, <3>3, <3>4, <4>1, MoveHeadIs
        <4> QED BY <3>1, <3>2, <4>2
      <3>6. Chained(r, K, M, E)
        BY <1>9, <3>5, ChainedMoved
      <3>7. Counted(r, K)
        <4>1. c \in DOMAIN L /\ IsFiniteSet(DOMAIN L) /\ L[c] = "free"
          BY <1>1, <1>2, <1>9, ListedFinite
        <4>2. "full" # "empty" /\ "free" # "empty"
          OBVIOUS
        <4>3. Cardinality(In(K, "empty")) = Cardinality(In(L, "empty"))
          BY <3>2, <4>1, <4>2, CountIs
        <4> QED BY <1>10, <3>5, <4>3 DEF Counted, SameBlocks
      <3>8. ByAvail(r) = K
        <4>1. DOMAIN r.chunk = DOMAIN g.chunk
              /\ \A d \in DOMAIN g.chunk : r.chunk[d].avail = h.chunk[d].avail
          BY <1>9, <3>5 DEF SameBlocks
        <4>2. OfAvail(k.avail) = "full"
          BY <2>2 DEF OfAvail
        <4>3. L \in [DOMAIN g.chunk -> Lists]
          BY <1>1 DEF Chained, AllLinked
        <4>4. /\ K \in [DOMAIN g.chunk -> Lists] /\ K[c] = "full"
              /\ \A d \in DOMAIN g.chunk : d # c => K[d] = L[d]
          BY <1>1, <3>3, <3>2, <4>3 DEF With
        <4>5. ASSUME NEW d \in DOMAIN g.chunk PROVE K[d] = OfAvail(r.chunk[d].avail)
          <5>1. CASE d = c
            <6>1. r.chunk[d].avail = k.avail
              BY <1>9, <4>1, <5>1
            <6> QED BY <4>2, <4>4, <5>1, <6>1
          <5>2. CASE d # c
            <6>1. r.chunk[d].avail = g.chunk[d].avail
              BY <1>9, <4>1, <5>2
            <6> QED BY <1>2, <4>4, <5>2, <6>1
          <5> QED BY <5>1, <5>2
        <4> QED BY <4>1, <4>4, <4>5 DEF ByAvail
      <3>9. r.emptyCount = g.emptyCount
        BY <1>9, <3>5 DEF SameBlocks
      <3> QED BY <1>1, <3>6, <3>7, <3>8, <3>9 DEF PoolOK, PoolIs
    <2> QED BY <2>1, <2>2
  <1> QED BY <1>1, <1>3, <1>5, <1>12 DEF E, G

\* There may be a block in f, or memory to make one.
CanServe(f, M, F, ok) ==
    Ready(f, M, F) \/ (PoolOK(f, M, F) /\ (ok => DOMAIN f.chunk # 1..M))

\* What allocate_fixed of pool i returns: a free block, or none with the free blocks
\* as they were.
Served(r, i, M, F) ==
    \/ r.p = NullBlock /\ PoolOK(r.f, M, F)
    \/ \E c \in 1..M, b \in 0..(Blocks - 1) :
          /\ r.p = <<i, c, b>> /\ b \in F[c]
          /\ PoolOK(r.f, M, With(F, c, F[c] \ {b}))

LEMMA AllocateIs ==
    ASSUME NEW i, NEW f, NEW M \in Nat, NEW F, NEW ok \in BOOLEAN,
           CanServe(f, M, F, ok), NEW r, r = allocate_fixed(i, f, ok)
    PROVE  Served(r, i, M, F)
  <1>1. PICK g : g = IF f.head["free"] = NULL THEN create_chunk(f, ok) ELSE f
    OBVIOUS
  <1>2. PICK c : c = g.head["free"]
    OBVIOUS
  <1>3. PICK h : h = WithChunk(g, c, Take(g.chunk[c]))
    OBVIOUS
  <1>4. PICK s : s = Settled(h, c)
    OBVIOUS
  <1>5. r = IF c = NULL THEN [f |-> g, p |-> NullBlock]
            ELSE [f |-> s, p |-> <<i, c, g.chunk[c].first>>]
    BY <1>1, <1>2, <1>3, <1>4 DEF allocate_fixed, WithChunk, Settled
  <1>6. Ready(g, M, F) \/ (PoolOK(g, M, F) /\ g.head["free"] = NULL)
    <2>1. CASE Ready(f, M, F)
      <3>1. f.head["free"] # NULL
        BY <2>1 DEF Ready, Chained, Shape
      <3> QED BY <1>1, <2>1, <3>1
    <2>2. CASE PoolOK(f, M, F) /\ (ok => DOMAIN f.chunk # 1..M) /\ f.head["free"] = NULL
      <3>1. g = create_chunk(f, ok)
        BY <1>1, <2>2
      <3> QED BY <2>2, <3>1, CreateIs
    <2>3. CASE PoolOK(f, M, F) /\ f.head["free"] # NULL
      BY <1>1, <2>3, FreeReady
    <2> QED BY <2>1, <2>2, <2>3 DEF CanServe
  <1>7. CASE Ready(g, M, F)
    <2> DEFINE b == g.chunk[c].first
               E == With(F, c, F[c] \ {b})
    <2>1. c \in DOMAIN g.chunk /\ c # NULL /\ b \in F[c] /\ PoolOK(s, M, E)
      BY <1>2, <1>3, <1>4, <1>7, TakeFirst
    <2>2. r.f = s /\ r.p = <<i, c, b>>
      BY <1>5, <2>1
    <2>3. c \in 1..M /\ b \in 0..(Blocks - 1)
      BY <1>7, <2>1 DEF Ready, Chained
    <2> QED BY <2>1, <2>2, <2>3 DEF Served
  <1>8. CASE PoolOK(g, M, F) /\ g.head["free"] = NULL
    BY <1>2, <1>5, <1>8 DEF Served
  <1> QED BY <1>6, <1>7, <1>8

\* Without cs of the chunks.
LEMMA DeleteIs ==
    ASSUME NEW f, Shape(f), NEW cs, NEW n \in Nat, n = Cardinality(cs),
           f.chunkCount - n \in Nat, f.emptyCount - n \in Nat,
           NEW g, g = Delete(f, cs)
    PROVE  /\ Shape(g) /\ DOMAIN g.chunk = DOMAIN f.chunk \ cs
           /\ \A d \in DOMAIN f.chunk \ cs : g.chunk[d] = f.chunk[d]
           /\ g.head = f.head
           /\ g.chunkCount = f.chunkCount - n /\ g.emptyCount = f.emptyCount - n
  <1>1. PICK ch : ch = [d \in DOMAIN f.chunk \ cs |-> f.chunk[d]]
    OBVIOUS
  <1>2. /\ f = [chunk |-> f.chunk, head |-> f.head,
                chunkCount |-> f.chunkCount, emptyCount |-> f.emptyCount]
        /\ f.chunk \in [DOMAIN f.chunk -> Chunk]
    BY DEF Shape
  <1>3. g = [chunk |-> ch, head |-> f.head,
             chunkCount |-> f.chunkCount - n, emptyCount |-> f.emptyCount - n]
    <2>1. PICK x : x = [f EXCEPT !.chunk = ch]
      OBVIOUS
    <2>2. x = [chunk |-> ch, head |-> f.head,
               chunkCount |-> f.chunkCount, emptyCount |-> f.emptyCount]
      BY <1>2, <2>1
    <2>3. PICK y : y = [x EXCEPT !.chunkCount = f.chunkCount - n]
      OBVIOUS
    <2>4. y = [chunk |-> ch, head |-> f.head,
               chunkCount |-> f.chunkCount - n, emptyCount |-> f.emptyCount]
      BY <2>2, <2>3
    <2>5. g = [y EXCEPT !.emptyCount = f.emptyCount - n]
      BY <1>1, <2>1, <2>2, <2>3, <2>4 DEF Delete
    <2> QED BY <2>4, <2>5
  <1>4. /\ ch \in [DOMAIN f.chunk \ cs -> Chunk] /\ DOMAIN ch = DOMAIN f.chunk \ cs
        /\ \A d \in DOMAIN f.chunk \ cs : ch[d] = f.chunk[d]
    BY <1>1, <1>2
  <1>5. /\ g.chunk = ch /\ g.head = f.head
        /\ g.chunkCount = f.chunkCount - n /\ g.emptyCount = f.emptyCount - n
    BY <1>3
  <1>6. Shape(g)
    <2>1. DOMAIN ch \subseteq Nat \ {NULL} /\ f.head \in [Lists -> Nat]
      BY <1>4 DEF Shape
    <2>2. g = [chunk |-> g.chunk, head |-> g.head,
               chunkCount |-> g.chunkCount, emptyCount |-> g.emptyCount]
      BY <1>3
    <2> QED BY <1>4, <1>5, <2>1, <2>2 DEF Shape
  <1> QED BY <1>4, <1>5, <1>6

\* Empty chunks that are in no list any more are deleted.
LEMMA DeletedIs ==
    ASSUME NEW f, NEW M \in Nat, NEW F, PoolIs(f, M, F), NEW cs,
           cs \subseteq In(ByAvail(f), "empty"),
           NEW e, Shape(e), SameBlocks(f, e),
           \A l \in Lists : Linked(e, l, In(ByAvail(f), l) \ cs),
           NEW g, g = Delete(e, cs)
    PROVE  /\ PoolIs(g, M, F) /\ Cardinality(cs) \in Nat
           /\ g.emptyCount = f.emptyCount - Cardinality(cs)
  <1> DEFINE D == DOMAIN f.chunk
             L == ByAvail(f)
             n == Cardinality(cs)
  <1>1. /\ Shape(f) /\ AllLinked(f, L) /\ D \subseteq 1..M
        /\ F \in [1..M -> SUBSET (0..(Blocks - 1))]
        /\ \A c \in D : FreeChain(f.chunk[c], F[c])
        /\ \A c \in (1..M) \ D : F[c] = 0..(Blocks - 1)
        /\ f.chunkCount = Cardinality(D) /\ f.emptyCount = Cardinality(In(L, "empty"))
    BY DEF PoolIs, Chained, Counted
  <1>2. /\ L \in [D -> Lists] /\ \A d \in D : L[d] = OfAvail(f.chunk[d].avail)
        /\ In(L, "empty") \subseteq D
    <2>1. L \in [D -> Lists]
      BY <1>1 DEF AllLinked
    <2> QED BY <2>1 DEF ByAvail, In
  <1>3. cs \subseteq In(L, "empty")
    OBVIOUS
  <1>4. \A l \in Lists : Linked(e, l, In(L, l) \ cs)
    OBVIOUS
  <1> HIDE DEF L
  <1>5. /\ n \in Nat /\ IsFiniteSet(D)
        /\ f.chunkCount - n \in Nat /\ f.chunkCount - n = Cardinality(D \ cs)
        /\ f.emptyCount - n \in Nat /\ f.emptyCount - n = Cardinality(In(L, "empty") \ cs)
    <2>1. IsFiniteSet(D)
      BY <1>1, ChunksFinite
    <2>2. IsFiniteSet(In(L, "empty")) /\ IsFiniteSet(cs)
      BY <1>2, <1>3, <2>1, FS_Subset
    <2>3. D \cap cs = cs /\ In(L, "empty") \cap cs = cs
      BY <1>2, <1>3
    <2>4. /\ IsFiniteSet(D \ cs) /\ Cardinality(D \ cs) = Cardinality(D) - n
          /\ IsFiniteSet(In(L, "empty") \ cs)
          /\ Cardinality(In(L, "empty") \ cs) = Cardinality(In(L, "empty")) - n
      <3>1. IsFiniteSet(D \ cs) /\ Cardinality(D \ cs) = Cardinality(D) - Cardinality(D \cap cs)
        BY <2>1, FS_Difference
      <3> DEFINE S == In(L, "empty")
      <3>2. IsFiniteSet(S) /\ S \cap cs = cs
        BY <2>2, <2>3
      <3> HIDE DEF S
      <3>3. IsFiniteSet(S \ cs) /\ Cardinality(S \ cs) = Cardinality(S) - Cardinality(S \cap cs)
        BY <3>2, FS_Difference
      <3> QED BY <2>3, <3>1, <3>2, <3>3 DEF S
    <2>5. Cardinality(D \ cs) \in Nat /\ Cardinality(In(L, "empty") \ cs) \in Nat /\ n \in Nat
      BY <2>2, <2>4, FS_CardinalityType
    <2> QED BY <1>1, <2>1, <2>4, <2>5
  <1>6. /\ DOMAIN e.chunk = D /\ e.chunkCount = f.chunkCount /\ e.emptyCount = f.emptyCount
        /\ \A d \in D : /\ e.chunk[d].byte = f.chunk[d].byte
                        /\ e.chunk[d].first = f.chunk[d].first
                        /\ e.chunk[d].avail = f.chunk[d].avail
    BY DEF SameBlocks
  <1> HIDE DEF n, D
  <1>7. /\ Shape(g) /\ DOMAIN g.chunk = D \ cs
        /\ \A d \in D \ cs : g.chunk[d] = e.chunk[d]
        /\ g.head = e.head
        /\ g.chunkCount = f.chunkCount - n /\ g.emptyCount = f.emptyCount - n
    <2>1. n = Cardinality(cs)
      BY DEF n
    <2>2. e.chunkCount - n \in Nat /\ e.emptyCount - n \in Nat
      BY <1>5, <1>6
    <2> QED BY <1>5, <1>6, <2>1, <2>2, DeleteIs
  <1>8. PICK K : K = ByAvail(g)
    OBVIOUS
  <1>9. /\ K \in [DOMAIN g.chunk -> Lists] /\ \A d \in D \ cs : K[d] = L[d]
        /\ \A l : In(K, l) = In(L, l) \ cs
    <2>1. DOMAIN K = D \ cs /\ \A d \in D \ cs : K[d] = L[d]
      BY <1>2, <1>6, <1>7, <1>8 DEF ByAvail
    <2>2. K \in [DOMAIN g.chunk -> Lists]
      BY <1>8 DEF ByAvail, OfAvail, Lists
    <2> QED BY <1>2, <2>1, <2>2 DEF In
  <1>10. AllLinked(g, K)
    <2>1. ASSUME NEW l \in Lists PROVE Linked(g, l, In(K, l))
      <3>1. Linked(e, l, In(L, l) \ cs) /\ In(L, l) \ cs \subseteq D \ cs
        BY <1>2, <1>4 DEF In
      <3>2. \A d \in In(L, l) \ cs : Nx(g, d) = Nx(e, d) /\ Pr(g, d) = Pr(e, d)
        BY <1>7, <3>1 DEF Nx, Pr
      <3>3. Linked(g, l, In(L, l) \ cs)
        BY <1>7, <3>1, <3>2, LinkedSame
      <3> QED BY <1>9, <3>3
    <2> QED BY <1>9, <2>1 DEF AllLinked
  <1>11. \A d \in DOMAIN g.chunk : FreeChain(g.chunk[d], F[d])
    <2>1. \A k, m, G : FreeChain(k, G) /\ m.byte = k.byte /\ m.first = k.first
                                      /\ m.avail = k.avail => FreeChain(m, G)
      BY DEF FreeChain
    <2>2. \A d \in D \ cs : /\ FreeChain(f.chunk[d], F[d])
                            /\ g.chunk[d].byte = f.chunk[d].byte
                            /\ g.chunk[d].first = f.chunk[d].first
                            /\ g.chunk[d].avail = f.chunk[d].avail
      BY <1>1, <1>6, <1>7 DEF D
    <2> QED BY <1>7, <2>1, <2>2
  <1>12. \A d \in (1..M) \ DOMAIN g.chunk : F[d] = 0..(Blocks - 1)
    <2>1. ASSUME NEW d \in cs PROVE F[d] = 0..(Blocks - 1)
      <3>1. d \in D /\ L[d] = "empty"
        BY <1>2, <1>3 DEF In
      <3>2. f.chunk[d].avail = Blocks
        BY <1>2, <3>1 DEF OfAvail
      <3>3. FreeChain(f.chunk[d], F[d])
        BY <1>1, <3>1
      <3> QED BY <3>2, <3>3, AvailIs
    <2>2. \A d \in (1..M) \ D : F[d] = 0..(Blocks - 1)
      BY <1>1 DEF D
    <2> QED BY <1>7, <2>1, <2>2
  <1>13. Chained(g, K, M, F)
    <2>1. DOMAIN g.chunk \subseteq 1..M
      BY <1>1, <1>7 DEF D
    <2> QED BY <1>1, <1>5, <1>7, <1>10, <1>11, <1>12, <2>1 DEF Chained
  <1>14. Counted(g, K)
    BY <1>5, <1>7, <1>9 DEF Counted
  <1> QED BY <1>5, <1>7, <1>8, <1>13, <1>14 DEF PoolIs, n

\* gc_fixed changes no free blocks and leaves no more empty chunks, one less if one
\* is deleted.
LEMMA GcIs ==
    ASSUME NEW f, NEW M \in Nat, NEW F, PoolIs(f, M, F), NEW all \in BOOLEAN,
           NEW g, g = gc_fixed(f, all)
    PROVE  /\ PoolIs(g, M, F)
           /\ g.emptyCount \in Nat /\ g.emptyCount <= f.emptyCount
           /\ ~all /\ f.head["empty"] # NULL => g.emptyCount = f.emptyCount - 1
  <1> DEFINE L == ByAvail(f)
  <1>1. /\ Shape(f) /\ AllLinked(f, L) /\ \A l \in Lists : Linked(f, l, In(L, l))
        /\ f.emptyCount \in Nat /\ "empty" \in Lists
    BY DEF PoolIs, Chained, AllLinked, Shape, Lists
  <1>2. CASE f.head["empty"] = NULL
    BY <1>1, <1>2 DEF gc_fixed
  <1>3. CASE f.head["empty"] # NULL /\ all
    <2>1. InList(f, "empty") = In(L, "empty")
      <3> HIDE DEF L
      <3> QED BY <1>1, InListIs
    <2>2. PICK e : e = [f EXCEPT !.head["empty"] = NULL]
      OBVIOUS
    <2>3. g = Delete(e, In(L, "empty"))
      BY <1>3, <2>1, <2>2 DEF gc_fixed
    <2>4. /\ Shape(e) /\ SameBlocks(f, e) /\ e.chunk = f.chunk
          /\ e.head["empty"] = NULL /\ \A l \in Lists : l # "empty" => e.head[l] = f.head[l]
      <3>1. PICK hd : hd = [f.head EXCEPT !["empty"] = NULL]
        OBVIOUS
      <3>2. f = [chunk |-> f.chunk, head |-> f.head,
                 chunkCount |-> f.chunkCount, emptyCount |-> f.emptyCount]
        BY <1>1 DEF Shape
      <3>3. e = [chunk |-> f.chunk, head |-> hd,
                 chunkCount |-> f.chunkCount, emptyCount |-> f.emptyCount]
        BY <2>2, <3>1, <3>2
      <3>4. /\ hd \in [Lists -> Nat] /\ hd["empty"] = NULL
            /\ \A l \in Lists : l # "empty" => hd[l] = f.head[l]
        BY <1>1, <3>1 DEF Shape, NULL
      <3>5. /\ e.chunk = f.chunk /\ e.head = hd
            /\ e.chunkCount = f.chunkCount /\ e.emptyCount = f.emptyCount
        BY <3>3
      <3> QED BY <1>1, <3>3, <3>4, <3>5 DEF Shape, SameBlocks
    <2>5. \A l \in Lists : Linked(e, l, In(L, l) \ In(L, "empty"))
      <3> SUFFICES ASSUME NEW l \in Lists PROVE Linked(e, l, In(L, l) \ In(L, "empty"))
        OBVIOUS
      <3> HIDE DEF L
      <3>1. CASE l = "empty"
        <4>1. Linked(e, l, {})
          BY <2>4, <3>1 DEF Linked
        <4> QED BY <3>1, <4>1
      <3>2. CASE l # "empty"
        <4>1. In(L, l) \ In(L, "empty") = In(L, l)
          BY <3>2 DEF In
        <4>2. Linked(f, l, In(L, l)) /\ In(L, l) \subseteq DOMAIN e.chunk
          BY <1>1, <2>4 DEF Linked
        <4>3. Linked(e, l, In(L, l))
          BY <2>4, <3>2, <4>2, LinkedSame DEF Nx, Pr
        <4> QED BY <4>1, <4>3
      <3> QED BY <3>1, <3>2
    <2>6. PICK cs : cs = In(L, "empty")
      OBVIOUS
    <2>7. /\ PoolIs(g, M, F) /\ Cardinality(cs) \in Nat
          /\ g.emptyCount = f.emptyCount - Cardinality(cs)
      <3>1. cs \subseteq In(L, "empty") /\ g = Delete(e, cs)
            /\ \A l \in Lists : Linked(e, l, In(L, l) \ cs)
        BY <2>3, <2>5, <2>6
      <3> QED BY <2>4, <3>1, DeletedIs
    <2>8. g.emptyCount \in Nat
      BY <2>7 DEF PoolIs, Chained, Shape
    <2>9. g.emptyCount <= f.emptyCount
      BY <1>1, <2>7
    <2> QED BY <1>3, <2>7, <2>8, <2>9
  <1>4. CASE f.head["empty"] # NULL /\ ~all
    <2>1. PICK c : c = f.head["empty"]
      OBVIOUS
    <2>2. PICK e : e = PopHead(f, "empty")
      OBVIOUS
    <2>3. g = Delete(e, {c})
      BY <1>4, <2>1, <2>2 DEF gc_fixed
    <2>4. c \in DOMAIN f.chunk /\ c \in In(L, "empty") /\ Pr(f, c) = NULL
      BY <1>1, <1>4, <2>1 DEF Linked
    <2>5. Unlinked(f, "empty", c, e)
      BY <1>1, <2>1, <2>2, <2>4, PopHeadIs
    <2>6. Shape(e) /\ SameBlocks(f, e)
      BY <2>5 DEF Unlinked
    <2>7. \A l \in Lists : Linked(e, l, In(L, l) \ {c})
      <3> SUFFICES ASSUME NEW l \in Lists PROVE Linked(e, l, In(L, l) \ {c})
        OBVIOUS
      <3> HIDE DEF L
      <3>1. CASE l = "empty"
        BY <1>1, <2>4, <2>5, <3>1, UnlinkedLists
      <3>2. CASE l # "empty"
        <4>1. In(L, l) \ {c} = In(L, l) /\ In(L, l) \cap In(L, "empty") = {}
          BY <2>4, <3>2 DEF In
        <4>2. \A C : Linked(f, l, C) /\ C \cap In(L, "empty") = {} => Linked(e, l, C)
          BY <1>1, <2>4, <2>5, <3>2, UnlinkedLists
        <4>3. Linked(e, l, In(L, l))
          BY <1>1, <4>1, <4>2
        <4> QED BY <4>1, <4>3
      <3> QED BY <3>1, <3>2
    <2>8. PICK cs : cs = {c}
      OBVIOUS
    <2>9. PoolIs(g, M, F) /\ g.emptyCount = f.emptyCount - Cardinality(cs)
      <3>1. cs \subseteq In(L, "empty") /\ g = Delete(e, cs)
            /\ \A l \in Lists : Linked(e, l, In(L, l) \ cs)
        BY <2>3, <2>4, <2>7, <2>8
      <3> QED BY <2>6, <3>1, DeletedIs
    <2>10. Cardinality(cs) = 1
      BY <2>8, FS_Singleton
    <2>11. g.emptyCount \in Nat
      BY <2>9 DEF PoolIs, Chained, Shape
    <2>12. g.emptyCount <= f.emptyCount /\ g.emptyCount = f.emptyCount - 1
      BY <1>1, <2>9, <2>10
    <2> QED BY <2>9, <2>11, <2>12
  <1> QED BY <1>2, <1>3, <1>4

LEMMA ByAvailIs ==
    ASSUME NEW f, NEW L \in [DOMAIN f.chunk -> Lists],
           \A d \in DOMAIN f.chunk : L[d] = OfAvail(f.chunk[d].avail)
    PROVE  ByAvail(f) = L
  BY DEF ByAvail

\* A chunk that is to get a block back is in the free list.
Freed(f, c) == IF f.chunk[c].avail = 0 THEN Move(f, "full", "free", c) ELSE f

LEMMA FreedIs ==
    ASSUME NEW f, NEW M \in Nat, NEW F, PoolIs(f, M, F), NEW c \in DOMAIN f.chunk,
           f.chunk[c].avail # Blocks, NEW g, g = Freed(f, c)
    PROVE  /\ Chained(g, With(ByAvail(f), c, "free"), M, F)
           /\ Counted(g, With(ByAvail(f), c, "free"))
           /\ SameBlocks(f, g)
  <1> DEFINE L == ByAvail(f)
             K == With(L, c, "free")
  <1>1. /\ Chained(f, L, M, F) /\ Counted(f, L) /\ Shape(f) /\ AllLinked(f, L)
        /\ L \in [DOMAIN f.chunk -> Lists]
    BY DEF PoolIs, Chained, AllLinked
  <1>2. L[c] = IF f.chunk[c].avail = 0 THEN "full" ELSE "free"
    BY DEF ByAvail, OfAvail
  <1>3. "full" \in Lists /\ "free" \in Lists
    BY DEF Lists
  <1> HIDE DEF L
  <1>4. K = With(L, c, "free")
    OBVIOUS
  <1> HIDE DEF K
  <1>5. CASE f.chunk[c].avail = 0
    <2>1. g = Move(f, "full", "free", c) /\ L[c] = "full"
      BY <1>2, <1>5 DEF Freed
    <2>2. Shape(g) /\ SameBlocks(f, g) /\ AllLinked(g, K)
      BY <1>1, <1>3, <1>4, <2>1, MoveIs
    <2>3. Chained(g, K, M, F)
      BY <1>1, <2>2, ChainedMoved
    <2>4. Cardinality(In(K, "empty")) = Cardinality(In(L, "empty"))
      <3>1. "full" # "empty" /\ "free" # "empty"
        OBVIOUS
      <3>2. c \in DOMAIN L /\ IsFiniteSet(DOMAIN L)
        BY <1>1, <1>3, <1>4, ListedFinite
      <3> QED BY <1>1, <1>3, <1>4, <2>1, <3>1, <3>2, CountIs
    <2>5. Counted(g, K)
      BY <1>1, <2>2, <2>4 DEF Counted, SameBlocks
    <2> QED BY <2>2, <2>3, <2>5 DEF K, L
  <1>6. CASE f.chunk[c].avail # 0
    <2>1. g = f /\ L[c] = "free"
      BY <1>2, <1>6 DEF Freed
    <2>2. K = L
      BY <1>1, <1>4, <2>1 DEF With
    <2>3. SameBlocks(f, f)
      BY DEF SameBlocks
    <2> QED BY <1>1, <2>1, <2>2, <2>3 DEF K, L
  <1> QED BY <1>5, <1>6

\* A chunk that has all of its blocks goes to the list of empty ones.
Emptied(h, c) ==
    IF h.chunk[c].avail = Blocks
    THEN [Move(h, "free", "empty", c) EXCEPT !.emptyCount = @ + 1] ELSE h

LEMMA EmptiedIs ==
    ASSUME NEW h, NEW L, NEW M \in Nat, NEW F, Chained(h, L, M, F), Counted(h, L),
           NEW c \in DOMAIN h.chunk, L[c] = "free", h.chunk[c].avail # 0,
           \A d \in DOMAIN h.chunk : d # c => L[d] = OfAvail(h.chunk[d].avail),
           NEW e, e = Emptied(h, c)
    PROVE  /\ PoolIs(e, M, F) /\ e.emptyCount \in Nat /\ h.emptyCount \in Nat
           /\ e.emptyCount <= h.emptyCount + 1
  <1>1. /\ Shape(h) /\ AllLinked(h, L) /\ h.emptyCount \in Nat
        /\ L \in [DOMAIN h.chunk -> Lists]
    BY DEF Chained, Shape, AllLinked
  <1>2. "free" \in Lists /\ "empty" \in Lists /\ "free" # "empty"
    BY DEF Lists
  <1>3. CASE h.chunk[c].avail = Blocks
    <2>1. PICK m : m = Move(h, "free", "empty", c)
      OBVIOUS
    <2>2. PICK K : K = With(L, c, "empty")
      OBVIOUS
    <2>3. Shape(m) /\ SameBlocks(h, m) /\ AllLinked(m, K)
      BY <1>1, <1>2, <2>1, <2>2, MoveIs
    <2>4. Chained(m, K, M, F)
      BY <2>3, ChainedMoved
    <2>5. /\ Cardinality(In(K, "empty")) = Cardinality(In(L, "empty")) + 1
          /\ Cardinality(In(K, "empty")) \in Nat
      <3>1. L[c] # "empty"
        BY <1>2
      <3>2. c \in DOMAIN L /\ IsFiniteSet(DOMAIN L)
        BY <1>2, ListedFinite
      <3> QED BY <1>2, <2>2, <3>1, <3>2, CountIs
    <2>6. m.emptyCount + 1 = Cardinality(In(K, "empty")) /\ m.emptyCount = h.emptyCount
      BY <2>3, <2>5 DEF Counted, SameBlocks
    <2>7. e = [m EXCEPT !.emptyCount = m.emptyCount + 1]
      BY <1>3, <2>1 DEF Emptied
    <2>8. Chained(e, K, M, F) /\ e.emptyCount = m.emptyCount + 1 /\ e.chunk = m.chunk
      BY <2>4, <2>5, <2>6, <2>7, ChainedCount
    <2>9. ByAvail(e) = K
      <3>1. K \in [DOMAIN e.chunk -> Lists]
        BY <2>8 DEF Chained, AllLinked
      <3>2. DOMAIN e.chunk = DOMAIN h.chunk
            /\ \A d \in DOMAIN h.chunk : e.chunk[d].avail = h.chunk[d].avail
        BY <2>3, <2>8 DEF SameBlocks
      <3>3. OfAvail(Blocks) = "empty"
        BY BlocksIs DEF OfAvail
      <3>4. K[c] = "empty" /\ \A d \in DOMAIN h.chunk : d # c => K[d] = L[d]
        BY <1>1, <2>2 DEF With
      <3>5. ASSUME NEW d \in DOMAIN e.chunk PROVE K[d] = OfAvail(e.chunk[d].avail)
        <4>1. CASE d = c
          <5>1. e.chunk[d].avail = Blocks
            BY <1>3, <3>2, <4>1
          <5> QED BY <3>3, <3>4, <4>1, <5>1
        <4>2. CASE d # c
          <5>1. e.chunk[d].avail = h.chunk[d].avail
            BY <3>2
          <5> QED BY <3>2, <3>4, <4>2, <5>1
        <4> QED BY <4>1, <4>2
      <3> QED BY <3>1, <3>5, ByAvailIs
    <2>10. Counted(e, K)
      BY <2>6, <2>8 DEF Counted
    <2> QED BY <1>1, <2>6, <2>8, <2>9, <2>10 DEF PoolIs
  <1>4. CASE h.chunk[c].avail # Blocks
    <2>1. e = h
      BY <1>4 DEF Emptied
    <2>2. OfAvail(h.chunk[c].avail) = "free"
      BY <1>4 DEF OfAvail
    <2>3. ByAvail(h) = L
      <3>1. \A d \in DOMAIN h.chunk : L[d] = OfAvail(h.chunk[d].avail)
        BY <2>2
      <3> QED BY <1>1, <3>1, ByAvailIs
    <2> QED BY <1>1, <2>1, <2>3 DEF PoolIs
  <1> QED BY <1>3, <1>4

\* deallocate_fixed makes the block a free one, and keeps no more empty chunks than
\* a quarter of the most there can be, and one.
LEMMA DeallocateIs ==
    ASSUME NEW f, NEW M \in Nat, NEW F, PoolOK(f, M, F), NEW c \in DOMAIN f.chunk,
           NEW b \in (0..(Blocks - 1)) \ F[c],
           NEW r, r = deallocate_fixed(f, c, b)
    PROVE  PoolOK(r, M, With(F, c, F[c] \cup {b}))
  <1>1. PICK g : g = Freed(f, c)
    OBVIOUS
  <1>2. PICK k : k = Put(g.chunk[c], b)
    OBVIOUS
  <1>3. PICK h : h = WithChunk(g, c, k)
    OBVIOUS
  <1>4. PICK e : e = Emptied(h, c)
    OBVIOUS
  <1>5. r = IF e.emptyCount > e.chunkCount \div 4 + 1 THEN gc_fixed(e, FALSE) ELSE e
    <2> DEFINE x == IF f.chunk[c].avail = 0 THEN Move(f, "full", "free", c) ELSE f
               y == [x EXCEPT !.chunk[c] = Put(@, b)]
               z == IF y.chunk[c].avail = Blocks
                    THEN [Move(y, "free", "empty", c) EXCEPT !.emptyCount = @ + 1] ELSE y
    <2>1. r = IF z.emptyCount > z.chunkCount \div 4 + 1 THEN gc_fixed(z, FALSE) ELSE z
      BY DEF deallocate_fixed
    <2>2. x = g
      BY <1>1 DEF Freed
    <2> HIDE DEF x
    <2>3. y = h
      BY <1>2, <1>3, <2>2 DEF WithChunk
    <2> HIDE DEF y
    <2>4. z = e
      BY <1>4, <2>3 DEF Emptied
    <2> HIDE DEF z
    <2> QED BY <2>1, <2>4
  <1>6. PICK L : L = With(ByAvail(f), c, "free")
    OBVIOUS
  <1>7. PICK E : E = With(F, c, F[c] \cup {b})
    OBVIOUS
  <1>8. PoolIs(f, M, F) /\ f.emptyCount <= M \div 4 + 1
    BY DEF PoolOK
  <1>9. FreeChain(f.chunk[c], F[c]) /\ f.chunk[c].avail # Blocks
    <2>1. FreeChain(f.chunk[c], F[c])
      BY <1>8 DEF PoolIs, Chained
    <2> QED BY <2>1, AvailIs
  <1>10. Chained(g, L, M, F) /\ Counted(g, L) /\ SameBlocks(f, g)
    BY <1>1, <1>6, <1>8, <1>9, FreedIs
  <1>11. /\ L[c] = "free" /\ DOMAIN g.chunk = DOMAIN f.chunk
         /\ \A d \in DOMAIN g.chunk : d # c => L[d] = OfAvail(g.chunk[d].avail)
    BY <1>6, <1>10 DEF With, ByAvail, SameBlocks
  <1>12. g.chunk[c] \in Chunk /\ FreeChain(g.chunk[c], F[c]) /\ Shape(g)
    BY <1>10, <1>11 DEF Chained, Shape
  <1>13. /\ k \in Chunk /\ FreeChain(k, F[c] \cup {b})
         /\ k.pre = Pr(g, c) /\ k.next = Nx(g, c) /\ k.avail = g.chunk[c].avail + 1
    <2>1. PICK m, G : m = g.chunk[c] /\ G = F[c]
      OBVIOUS
    <2>2. m \in Chunk /\ FreeChain(m, G) /\ b \in (0..(Blocks - 1)) \ G /\ k = Put(m, b)
      BY <1>2, <1>12, <2>1
    <2>3. /\ k \in Chunk /\ FreeChain(k, G \cup {b})
          /\ k.pre = m.pre /\ k.next = m.next /\ k.avail = m.avail + 1
      BY <2>2, PutIs
    <2> QED BY <2>1, <2>3 DEF Pr, Nx
  <1>14. Chained(h, L, M, E)
    <2>1. PICK G : G = F[c] \cup {b}
      OBVIOUS
    <2> QED BY <1>3, <1>7, <1>10, <1>11, <1>13, <2>1, ChainedSet
  <1>15. /\ h.chunk[c] = k /\ \A d \in DOMAIN g.chunk : d # c => h.chunk[d] = g.chunk[d]
         /\ DOMAIN h.chunk = DOMAIN g.chunk /\ h.emptyCount = g.emptyCount
    BY <1>3, <1>11, <1>12, <1>13, WithChunkIs
  <1>16. Counted(h, L)
    BY <1>10, <1>15 DEF Counted
  <1>17. k.avail # 0
    <2>1. g.chunk[c].avail \in 0..Blocks
      BY <1>12, AvailIs
    <2> QED BY <1>13, <2>1, BlocksIs
  <1>18. /\ PoolIs(e, M, E) /\ e.emptyCount \in Nat /\ h.emptyCount \in Nat
         /\ e.emptyCount <= h.emptyCount + 1
    <2>1. \A d \in DOMAIN h.chunk : d # c => L[d] = OfAvail(h.chunk[d].avail)
      BY <1>11, <1>15
    <2>2. c \in DOMAIN h.chunk /\ h.chunk[c].avail # 0
      BY <1>11, <1>15, <1>17
    <2> QED BY <1>4, <1>11, <1>14, <1>16, <2>1, <2>2, EmptiedIs
  <1>19. h.emptyCount <= M \div 4 + 1
    BY <1>8, <1>10, <1>15 DEF SameBlocks
  <1>20. e.chunkCount \in 0..M
    <2>1. DOMAIN e.chunk \subseteq 1..M /\ e.chunkCount = Cardinality(DOMAIN e.chunk)
      BY <1>18 DEF PoolIs, Chained
    <2> QED BY <2>1, ChunksFinite
  <1>21. M \div 4 \in Nat /\ e.chunkCount \div 4 \in Nat /\ e.chunkCount \div 4 <= M \div 4
    BY <1>20, Z3
  <1>22. CASE e.emptyCount > e.chunkCount \div 4 + 1
    <2>1. r = gc_fixed(e, FALSE)
      BY <1>5, <1>22
    <2>2. e.emptyCount # 0
      BY <1>18, <1>21, <1>22
    <2>3. e.head["empty"] # NULL
      <3>1. SUFFICES ASSUME e.head["empty"] = NULL PROVE FALSE
        OBVIOUS
      <3>2. AllLinked(e, ByAvail(e)) /\ Counted(e, ByAvail(e)) /\ "empty" \in Lists
        BY <1>18 DEF PoolIs, Chained, Lists
      <3>3. In(ByAvail(e), "empty") = {}
        BY <3>1, <3>2, HeadIs
      <3>4. e.emptyCount = 0
        BY <3>2, <3>3, FS_EmptySet DEF Counted
      <3> QED BY <2>2, <3>4
    <2>4. PoolIs(r, M, E) /\ r.emptyCount = e.emptyCount - 1
      BY <1>18, <2>1, <2>3, GcIs
    <2>5. r.emptyCount <= M \div 4 + 1
      BY <1>18, <1>19, <1>21, <2>4
    <2> QED BY <1>7, <2>4, <2>5 DEF PoolOK
  <1>23. CASE ~(e.emptyCount > e.chunkCount \div 4 + 1)
    <2>1. r = e
      BY <1>5, <1>23
    <2>2. e.emptyCount <= M \div 4 + 1
      BY <1>18, <1>20, <1>21, <1>23
    <2> QED BY <1>7, <1>18, <2>1, <2>2 DEF PoolOK
  <1> QED BY <1>22, <1>23

-----------------------------------------------------------------------------
(* All pools, with H the blocks that were given out.                       *)

Given == {e.p : e \in held}

ClassOf(size) == IF size > MaxObjSize THEN Large ELSE IF size = 0 THEN 0 ELSE Index(size)

LEMMA LargeClass ==
    ASSUME NEW n \in Nat, n > MaxObjSize
    PROVE  Index(n) \in Nat /\ Index(n) >= Large
  <1>1. /\ OffSet \in Nat \ {0} /\ n - 1 \in Nat /\ MaxObjSize = Large * OffSet
        /\ Large \in Nat /\ MaxObjSize \in Nat /\ MaxObjSize <= n - 1
    BY AllocatorAssumption, Factors
  <1>2. Index(n) \in Nat /\ n - 1 < (Index(n) + 1) * OffSet
    BY <1>1, Division DEF Index
  <1>3. (Index(n) + 1) * OffSet \in Nat /\ Index(n) + 1 \in Nat
    BY <1>1, <1>2
  <1>4. Large * OffSet < (Index(n) + 1) * OffSet
    BY <1>1, <1>2, <1>3
  <1>5. Large < Index(n) + 1
    BY <1>1, <1>3, <1>4, Product
  <1> QED BY <1>1, <1>2, <1>5

LEMMA ClassOfIs ==
    ASSUME NEW n \in Nat
    PROVE  /\ ClassOf(n) \in 0..Large /\ (n > MaxObjSize <=> ClassOf(n) = Large)
           /\ \A m \in Nat : n # 0 /\ m # 0 /\ Index(n) = Index(m) => ClassOf(n) = ClassOf(m)
  <1>1. Large \in Nat \ {0} /\ MaxObjSize \in Nat
    BY AllocatorAssumption, Factors
  <1>2. \A m \in Nat \ {0} : m <= MaxObjSize => Index(m) \in Nat /\ Index(m) < Large
    BY Class
  <1>3. \A m \in Nat : m > MaxObjSize => Index(m) \in Nat /\ Index(m) >= Large
    BY LargeClass
  <1> QED BY <1>1, <1>2, <1>3 DEF ClassOf

LEMMA MemoryIs ==
    /\ \A i \in 0..(Large - 1) : MaxChunks[i] \in Nat \ {0}
    /\ MaxLarge \in Nat /\ Large \in Nat \ {0}
  BY AllocatorAssumption, Factors DEF Large

LEMMA BlockIs ==
    /\ \A i \in 0..(Large - 1) : \A c \in 1..MaxChunks[i], b \in 0..(Blocks - 1) :
          <<i, c, b>> \in Block
    /\ \A n \in 1..MaxLarge : <<Large, n, 0>> \in Block
    /\ \A p \in Block :
          \/ \E i \in 0..(Large - 1) : \E c \in 1..MaxChunks[i], b \in 0..(Blocks - 1) :
                p = <<i, c, b>>
          \/ \E n \in 1..MaxLarge : p = <<Large, n, 0>>
    /\ NullBlock \notin Block
  <1> DEFINE Of(i) == {i} \X (1..MaxChunks[i]) \X (0..(Blocks - 1))
  <1>1. \A p : p \in Block <=> \/ \E i \in 0..(Large - 1) : p \in Of(i)
                              \/ \E n \in 1..MaxLarge : p = <<Large, n, 0>>
    <2> DEFINE S == UNION {Of(i) : i \in 0..(Large - 1)}
               T == {<<Large, n, 0>> : n \in 1..MaxLarge}
    <2>1. Block = S \cup T
      BY DEF Block
    <2>2. \A p : p \in T <=> \E n \in 1..MaxLarge : p = <<Large, n, 0>>
      OBVIOUS
    <2> HIDE DEF T, Of
    <2>3. \A p : p \in S <=> \E i \in 0..(Large - 1) : p \in Of(i)
      OBVIOUS
    <2> HIDE DEF S
    <2> QED BY <2>1, <2>2, <2>3
  <1>2. \A i, p : p \in Of(i) <=> \E c \in 1..MaxChunks[i], b \in 0..(Blocks - 1) : p = <<i, c, b>>
    OBVIOUS
  <1> HIDE DEF Of
  <1>3. \A i \in 0..(Large - 1) : \A c \in 1..MaxChunks[i], b \in 0..(Blocks - 1) :
           <<i, c, b>> \in Block
    BY <1>1, <1>2
  <1>4. \A n \in 1..MaxLarge : <<Large, n, 0>> \in Block
    BY <1>1
  <1>5. ASSUME NEW p \in Block
        PROVE  \/ \E i \in 0..(Large - 1) : \E c \in 1..MaxChunks[i], b \in 0..(Blocks - 1) :
                     p = <<i, c, b>>
               \/ \E n \in 1..MaxLarge : p = <<Large, n, 0>>
    BY <1>1, <1>2
  <1>6. NullBlock \notin Block
    <2>1. SUFFICES ASSUME NullBlock \in Block PROVE FALSE
      OBVIOUS
    <2>2. NullBlock = <<Large, 0, 0>> /\ Large \notin 0..(Large - 1)
      BY MemoryIs DEF NullBlock
    <2> QED BY <1>5, <2>1, <2>2
  <1> QED BY <1>3, <1>4, <1>5, <1>6

Free(H, i) == [c \in 1..MaxChunks[i] |-> {b \in 0..(Blocks - 1) : <<i, c, b>> \notin H}]

PoolsOK(pools, H) ==
    /\ pools = [i \in DOMAIN pools |-> pools[i]]
    /\ DOMAIN pools \subseteq 0..(Large - 1)
    /\ \A i \in DOMAIN pools : PoolOK(pools[i], MaxChunks[i], Free(H, i))
    /\ H \subseteq Block
    /\ \A p \in H : p[1] # Large => p[1] \in DOMAIN pools

LEMMA FreeIs ==
    ASSUME NEW H, NEW i, NEW M, M = MaxChunks[i], NEW E, E = [c \in 1..M |-> E[c]],
           \A c \in 1..M : \A b : b \in E[c] <=> b \in 0..(Blocks - 1) /\ <<i, c, b>> \notin H
    PROVE  E = Free(H, i)
  <1>1. \A c \in 1..M : E[c] = {b \in 0..(Blocks - 1) : <<i, c, b>> \notin H}
    OBVIOUS
  <1> QED BY <1>1 DEF Free

\* A block of which the pool knows nothing more is given out, or comes back.
LEMMA FreeOther ==
    ASSUME NEW H, NEW G, NEW i,
           \A c \in 1..MaxChunks[i], b \in 0..(Blocks - 1) : <<i, c, b>> \in H <=> <<i, c, b>> \in G
    PROVE  Free(H, i) = Free(G, i)
  BY DEF Free

\* The pool that allocate takes a block from.
LEMMA PoolReady ==
    ASSUME NEW H, PoolsOK(m_pool, H), NEW i \in 0..(Large - 1), NEW ok \in BOOLEAN,
           ok /\ i \in DOMAIN m_pool => DOMAIN m_pool[i].chunk # 1..MaxChunks[i],
           NEW f, f = Pool(m_pool, i, ok)
    PROVE  CanServe(f, MaxChunks[i], Free(H, i), ok)
  <1>1. PICK M \in Nat \ {0} : M = MaxChunks[i]
    BY MemoryIs
  <1>2. CASE i \in DOMAIN m_pool
    BY <1>2 DEF Pool, PoolsOK, CanServe
  <1>3. CASE i \notin DOMAIN m_pool
    <2>1. f = create_chunk(NewPool, ok)
      BY <1>3 DEF Pool
    <2>2. Free(H, i) = [c \in 1..M |-> 0..(Blocks - 1)]
      <3>1. \A c, b : <<i, c, b>> \notin H
        <4> SUFFICES ASSUME NEW c, NEW b, <<i, c, b>> \in H PROVE FALSE
          OBVIOUS
        <4>1. <<i, c, b>>[1] = i /\ i # Large
          BY MemoryIs
        <4> QED BY <1>3, <4>1 DEF PoolsOK
      <3>2. \A c \in 1..M : {b \in 0..(Blocks - 1) : <<i, c, b>> \notin H} = 0..(Blocks - 1)
        BY <3>1
      <3> QED BY <1>1, <3>2 DEF Free
    <2>3. PoolOK(NewPool, M, Free(H, i))
      BY <2>2, NewPoolIs
    <2>4. DOMAIN NewPool.chunk # 1..M
      <3>1. DOMAIN NewPool.chunk = {} /\ 1 \in 1..M
        BY DEF NewPool
      <3> QED BY <3>1
    <2>5. f = NewPool \/ Ready(f, M, Free(H, i))
      BY <2>1, <2>3, <2>4, CreateIs
    <2> QED BY <1>1, <2>3, <2>4, <2>5 DEF CanServe
  <1> QED BY <1>2, <1>3

\* allocate gives a block that nobody has, of the class of its size, or none.
LEMMA PoolsAllocate ==
    ASSUME NEW H, H = Given, PoolsOK(m_pool, H),
           NEW size \in Nat, NEW ok \in BOOLEAN, ok => Memory(size),
           NEW a, a = allocate(m_pool, size, ok)
    PROVE  \/ a.p = NullBlock /\ PoolsOK(a.pools, H)
           \/ /\ a.p # NullBlock /\ a.p \in Block \ H /\ a.p[1] = ClassOf(size)
              /\ PoolsOK(a.pools, H \cup {a.p})
  <1>1. CASE size > MaxObjSize
    <2>1. a.pools = m_pool /\ a.p = IF ok THEN LargeBlock ELSE NullBlock
      BY <1>1 DEF allocate
    <2>2. CASE ~ok
      BY <2>1, <2>2
    <2>3. CASE ok
      <3>1. Cardinality(LargeHeld) < MaxLarge
        BY <1>1, <2>3 DEF Memory
      <3>2. \E n \in 1..MaxLarge : n \notin LargeHeld
        <4>1. SUFFICES ASSUME 1..MaxLarge \subseteq LargeHeld PROVE FALSE
          OBVIOUS
        <4>2. LargeHeld \subseteq 1..MaxLarge
          <5> SUFFICES ASSUME NEW e \in held, e.p[1] = Large PROVE e.p[2] \in 1..MaxLarge
            BY DEF LargeHeld
          <5>1. e.p \in Block /\ Large \notin 0..(Large - 1)
            BY MemoryIs DEF PoolsOK, Given
          <5> QED BY <5>1, BlockIs
        <4>3. Cardinality(1..MaxLarge) = MaxLarge
          BY FS_Interval, MemoryIs
        <4>4. LargeHeld = 1..MaxLarge
          BY <4>1, <4>2
        <4> QED BY <3>1, <4>3, <4>4, MemoryIs
      <3>3. PICK n : n = CHOOSE m \in 1..MaxLarge : m \notin LargeHeld
        OBVIOUS
      <3>4. n \in 1..MaxLarge /\ n \notin LargeHeld
        BY <3>2, <3>3
      <3>5. a.p = <<Large, n, 0>>
        BY <2>1, <2>3, <3>3 DEF LargeBlock
      <3>6. a.p \in Block
        BY <3>4, <3>5, BlockIs
      <3>7. a.p \notin H
        <4> SUFFICES ASSUME NEW e \in held, e.p = a.p PROVE FALSE
          BY DEF Given
        <4> QED BY <3>4, <3>5 DEF LargeHeld
      <3>8. PoolsOK(m_pool, H \cup {a.p})
        <4>1. \A i \in DOMAIN m_pool : Free(H \cup {a.p}, i) = Free(H, i)
          <5> SUFFICES ASSUME NEW i \in DOMAIN m_pool PROVE Free(H \cup {a.p}, i) = Free(H, i)
            OBVIOUS
          <5>1. i # Large
            BY MemoryIs DEF PoolsOK
          <5>2. \A c, b : <<i, c, b>> # a.p
            BY <3>5, <5>1
          <5> QED BY <5>2, FreeOther
        <4>2. a.p[1] = Large
          BY <3>5
        <4> QED BY <3>6, <4>1, <4>2 DEF PoolsOK
      <3>9. a.p[1] = ClassOf(size) /\ a.p # NullBlock
        BY <1>1, <3>5, <3>6, BlockIs DEF ClassOf
      <3> QED BY <2>1, <3>6, <3>7, <3>8, <3>9
    <2> QED BY <2>2, <2>3
  <1>2. CASE ~(size > MaxObjSize)
    <2>1. PICK i : i = IF size = 0 THEN 0 ELSE Index(size)
      OBVIOUS
    <2>2. i = ClassOf(size) /\ i \in 0..(Large - 1)
      <3>1. i = ClassOf(size)
        BY <1>2, <2>1 DEF ClassOf
      <3> QED BY <1>2, <3>1, ClassOfIs, MemoryIs
    <2>3. PICK f : f = Pool(m_pool, i, ok)
      OBVIOUS
    <2>4. PICK r : r = allocate_fixed(i, f, ok)
      OBVIOUS
    <2>5. /\ a.pools = [j \in DOMAIN m_pool \cup {i} |-> IF j = i THEN r.f ELSE m_pool[j]]
          /\ a.p = r.p
      BY <1>2, <2>1, <2>3, <2>4 DEF allocate
    <2>6. ok /\ i \in DOMAIN m_pool => DOMAIN m_pool[i].chunk # 1..MaxChunks[i]
      BY <1>2, <2>1 DEF Memory
    <2>7. PICK M \in Nat : M = MaxChunks[i]
      BY <2>2, MemoryIs
    <2>8. PICK F : F = Free(H, i)
      OBVIOUS
    <2>9. CanServe(f, M, F, ok)
      BY <2>2, <2>3, <2>6, <2>7, <2>8, PoolReady
    <2>10. Served(r, i, M, F)
      BY <2>4, <2>9, AllocateIs
    <2>11. ASSUME NEW G, H \subseteq G, G \subseteq Block, PoolOK(r.f, M, Free(G, i)),
                  \A p \in G \ H : p[1] = i
           PROVE  PoolsOK(a.pools, G)
      <3>1. a.pools = [j \in DOMAIN a.pools |-> a.pools[j]]
            /\ DOMAIN a.pools = DOMAIN m_pool \cup {i}
        BY <2>5
      <3>2. DOMAIN a.pools \subseteq 0..(Large - 1)
        BY <2>2, <3>1 DEF PoolsOK
      <3>3. ASSUME NEW j \in DOMAIN a.pools PROVE PoolOK(a.pools[j], MaxChunks[j], Free(G, j))
        <4>1. CASE j = i
          BY <2>5, <2>7, <2>11, <4>1
        <4>2. CASE j # i
          <5>1. j \in DOMAIN m_pool /\ a.pools[j] = m_pool[j]
            BY <2>5, <3>1, <4>2
          <5>2. \A c, b : <<j, c, b>> \in H <=> <<j, c, b>> \in G
            <6> SUFFICES ASSUME NEW c, NEW b, <<j, c, b>> \in G \ H PROVE FALSE
              BY <2>11
            <6>1. <<j, c, b>>[1] = j
              OBVIOUS
            <6> QED BY <2>11, <4>2, <6>1
          <5>3. Free(G, j) = Free(H, j)
            BY <5>2, FreeOther
          <5> QED BY <5>1, <5>3 DEF PoolsOK
        <4> QED BY <4>1, <4>2
      <3>4. \A p \in G : p[1] # Large => p[1] \in DOMAIN a.pools
        BY <2>11, <3>1 DEF PoolsOK
      <3> QED BY <2>11, <3>1, <3>2, <3>3, <3>4 DEF PoolsOK
    <2>12. CASE r.p = NullBlock /\ PoolOK(r.f, M, F)
      <3>1. H \subseteq Block
        BY DEF PoolsOK
      <3> QED BY <2>5, <2>8, <2>11, <2>12, <3>1
    <2>13. ASSUME NEW c \in 1..M, NEW b \in 0..(Blocks - 1), r.p = <<i, c, b>>, b \in F[c],
                  PoolOK(r.f, M, With(F, c, F[c] \ {b}))
           PROVE  /\ a.p # NullBlock /\ a.p \in Block \ H /\ a.p[1] = ClassOf(size)
                  /\ PoolsOK(a.pools, H \cup {a.p})
      <3>1. a.p \in Block /\ a.p = <<i, c, b>> /\ a.p[1] = i /\ H \subseteq Block
        BY <2>2, <2>5, <2>7, <2>13, BlockIs DEF PoolsOK
      <3>2. a.p # NullBlock
        BY <3>1, BlockIs
      <3>3. a.p \notin H
        BY <2>7, <2>8, <2>13, <3>1 DEF Free
      <3>4. With(F, c, F[c] \ {b}) = Free(H \cup {a.p}, i)
        <4>1. \A d \in 1..M, x \in 0..(Blocks - 1) : <<i, d, x>> = a.p <=> d = c /\ x = b
          BY <3>1
        <4>2. /\ F = [d \in 1..M |-> F[d]]
              /\ \A d \in 1..M : \A x : x \in F[d] <=> x \in 0..(Blocks - 1) /\ <<i, d, x>> \notin H
          BY <2>7, <2>8 DEF Free
        <4>3. PICK E : E = With(F, c, F[c] \ {b})
          OBVIOUS
        <4>4. /\ E = [d \in 1..M |-> E[d]] /\ E[c] = F[c] \ {b}
              /\ \A d \in 1..M : d # c => E[d] = F[d]
          BY <4>2, <4>3 DEF With
        <4>5. PICK G : G = H \cup {a.p}
          OBVIOUS
        <4>6. \A d \in 1..M : \A x : x \in E[d] <=> x \in 0..(Blocks - 1) /\ <<i, d, x>> \notin G
          BY <4>1, <4>2, <4>4, <4>5
        <4>7. E = Free(G, i)
          BY <2>7, <4>4, <4>6, FreeIs
        <4> QED BY <4>3, <4>5, <4>7
      <3>5. PoolsOK(a.pools, H \cup {a.p})
        <4>1. PICK G : G = H \cup {a.p}
          OBVIOUS
        <4>2. /\ H \subseteq G /\ G \subseteq Block /\ PoolOK(r.f, M, Free(G, i))
              /\ \A p \in G \ H : p[1] = i
          BY <2>13, <3>1, <3>4, <4>1
        <4>3. PoolsOK(a.pools, G)
          BY <2>11, <4>2
        <4> QED BY <4>1, <4>3
      <3> QED BY <2>2, <3>1, <3>2, <3>3, <3>5
    <2> QED BY <2>10, <2>12, <2>13 DEF Served
  <1> QED BY <1>1, <1>2

\* deallocate makes the block a free one again.
LEMMA PoolsDeallocate ==
    ASSUME NEW pools, NEW H, PoolsOK(pools, H), NEW p \in H,
           NEW size \in Nat \ {0}, p[1] = ClassOf(size),
           NEW d, d = deallocate(pools, p, size)
    PROVE  PoolsOK(d, H \ {p})
  <1>1. p \in Block
    BY DEF PoolsOK
  <1>2. ASSUME NEW j \in 0..(Large - 1), j # p[1] PROVE Free(H \ {p}, j) = Free(H, j)
    <2>1. \A c, b : <<j, c, b>> # p
      <3> SUFFICES ASSUME NEW c, NEW b, <<j, c, b>> = p PROVE FALSE
        OBVIOUS
      <3>1. <<j, c, b>>[1] = j
        OBVIOUS
      <3> QED BY <1>2, <3>1
    <2> QED BY <2>1, FreeOther
  <1>3. CASE size > MaxObjSize
    <2>1. d = pools /\ p[1] = Large
      BY <1>3, ClassOfIs DEF deallocate
    <2>2. \A j \in DOMAIN pools : Free(H \ {p}, j) = Free(H, j)
      <3>1. \A j \in DOMAIN pools : j \in 0..(Large - 1) /\ j # Large
        BY MemoryIs DEF PoolsOK
      <3> QED BY <1>2, <2>1, <3>1
    <2> QED BY <2>1, <2>2 DEF PoolsOK
  <1>4. CASE ~(size > MaxObjSize)
    <2>1. PICK i \in 0..(Large - 1) : i = Index(size) /\ p[1] = i
      <3>1. ClassOf(size) = Index(size) /\ ClassOf(size) \in 0..(Large - 1)
        BY <1>4, ClassOfIs, MemoryIs DEF ClassOf
      <3> QED BY <3>1
    <2>2. PICK M \in Nat : M = MaxChunks[i]
      BY MemoryIs
    <2>3. PICK c \in 1..M, b \in 0..(Blocks - 1) : p = <<i, c, b>>
      <3>1. i # Large
        BY MemoryIs
      <3>2. \/ \E j \in 0..(Large - 1) : \E x \in 1..MaxChunks[j], y \in 0..(Blocks - 1) :
                  p = <<j, x, y>>
            \/ \E n \in 1..MaxLarge : p = <<Large, n, 0>>
        BY <1>1, BlockIs
      <3> QED BY <2>1, <2>2, <3>1, <3>2
    <2>4. i \in DOMAIN pools
      BY <2>1, MemoryIs DEF PoolsOK
    <2>5. PICK F : F = Free(H, i)
      OBVIOUS
    <2>6. PICK f : f = pools[i]
      OBVIOUS
    <2>7. PoolOK(f, M, F)
      BY <2>2, <2>4, <2>5, <2>6 DEF PoolsOK
    <2>8. b \notin F[c] /\ c \in DOMAIN f.chunk
      <3>1. b \notin F[c]
        BY <2>2, <2>3, <2>5 DEF Free
      <3> QED BY <2>7, <3>1 DEF PoolOK, PoolIs, Chained
    <2>9. PICK r : r = deallocate_fixed(f, c, b)
      OBVIOUS
    <2>10. d = [pools EXCEPT ![i] = r]
      <3>1. p[2] = c /\ p[3] = b
        BY <2>3
      <3> QED BY <1>4, <2>1, <2>6, <2>9, <3>1 DEF deallocate
    <2>11. PoolOK(r, M, With(F, c, F[c] \cup {b}))
      BY <2>7, <2>8, <2>9, DeallocateIs
    <2>12. With(F, c, F[c] \cup {b}) = Free(H \ {p}, i)
      <3>1. \A e \in 1..M, x \in 0..(Blocks - 1) : <<i, e, x>> = p <=> e = c /\ x = b
        BY <2>3
      <3>2. /\ F = [e \in 1..M |-> F[e]]
            /\ \A e \in 1..M : \A x : x \in F[e] <=> x \in 0..(Blocks - 1) /\ <<i, e, x>> \notin H
        BY <2>2, <2>5 DEF Free
      <3>3. PICK E : E = With(F, c, F[c] \cup {b})
        OBVIOUS
      <3>4. /\ E = [e \in 1..M |-> E[e]] /\ E[c] = F[c] \cup {b}
            /\ \A e \in 1..M : e # c => E[e] = F[e]
        BY <3>2, <3>3 DEF With
      <3>5. PICK G : G = H \ {p}
        OBVIOUS
      <3>6. \A e \in 1..M : \A x : x \in E[e] <=> x \in 0..(Blocks - 1) /\ <<i, e, x>> \notin G
        BY <3>1, <3>2, <3>4, <3>5
      <3>7. E = Free(G, i)
        BY <2>2, <3>4, <3>6, FreeIs
      <3> QED BY <3>3, <3>5, <3>7
    <2>13. /\ d = [j \in DOMAIN d |-> d[j]] /\ DOMAIN d = DOMAIN pools /\ d[i] = r
           /\ \A j \in DOMAIN pools : j # i => d[j] = pools[j]
      <3>1. PICK D : D = DOMAIN pools
        OBVIOUS
      <3>2. pools = [j \in D |-> pools[j]]
        BY <3>1 DEF PoolsOK
      <3>3. d = [j \in D |-> IF j = i THEN r ELSE pools[j]]
        BY <2>4, <2>10, <3>1, <3>2
      <3>4. DOMAIN d = D /\ d[i] = r /\ \A j \in D : j # i => d[j] = pools[j]
        BY <2>4, <3>1, <3>3
      <3>5. d = [j \in DOMAIN d |-> d[j]]
        BY <3>3
      <3> QED BY <3>1, <3>4, <3>5
    <2>14. ASSUME NEW j \in DOMAIN d PROVE PoolOK(d[j], MaxChunks[j], Free(H \ {p}, j))
      <3>1. CASE j = i
        BY <2>2, <2>11, <2>12, <2>13, <3>1
      <3>2. CASE j # i
        <4>1. j \in DOMAIN pools /\ j \in 0..(Large - 1) /\ d[j] = pools[j]
          BY <2>13, <3>2 DEF PoolsOK
        <4>2. Free(H \ {p}, j) = Free(H, j)
          BY <1>2, <2>1, <3>2, <4>1
        <4> QED BY <4>1, <4>2 DEF PoolsOK
      <3> QED BY <3>1, <3>2
    <2> QED BY <2>13, <2>14 DEF PoolsOK
  <1> QED BY <1>3, <1>4

LEMMA PoolsGc ==
    ASSUME NEW H, PoolsOK(m_pool, H), NEW all \in BOOLEAN,
           NEW pools, pools = [i \in DOMAIN m_pool |-> gc_fixed(m_pool[i], all)]
    PROVE  PoolsOK(pools, H)
  <1>1. /\ pools = [i \in DOMAIN pools |-> pools[i]] /\ DOMAIN pools = DOMAIN m_pool
        /\ \A i \in DOMAIN m_pool : pools[i] = gc_fixed(m_pool[i], all)
    OBVIOUS
  <1>2. ASSUME NEW i \in DOMAIN pools PROVE PoolOK(pools[i], MaxChunks[i], Free(H, i))
    <2>1. PICK M \in Nat : M = MaxChunks[i]
      BY <1>1, MemoryIs DEF PoolsOK
    <2>2. PICK f : f = m_pool[i]
      OBVIOUS
    <2>3. PoolIs(f, M, Free(H, i)) /\ f.emptyCount <= M \div 4 + 1
      BY <1>1, <2>1, <2>2 DEF PoolsOK, PoolOK
    <2>4. PICK g : g = gc_fixed(f, all)
      OBVIOUS
    <2>5. PoolIs(g, M, Free(H, i)) /\ g.emptyCount \in Nat /\ g.emptyCount <= f.emptyCount
      BY <2>3, <2>4, GcIs
    <2>6. f.emptyCount \in Nat /\ M \div 4 \in Int
      BY <2>3 DEF PoolIs, Chained, Shape
    <2> QED BY <1>1, <2>1, <2>2, <2>3, <2>4, <2>5, <2>6 DEF PoolOK
  <1> QED BY <1>1, <1>2 DEF PoolsOK

-----------------------------------------------------------------------------
(* The invariant.                                                          *)

\* A block was given out to be of the class of its size.
HeldOK ==
    /\ \A d, e \in held : d.p = e.p => d = e
    /\ \A e \in held : e.size > 0 => e.p[1] = ClassOf(e.size)

AllocatorInv ==
    /\ Inv /\ PoolsOK(m_pool, Given) /\ HeldOK
    /\ ret \in [nothing : BOOLEAN, null : BOOLEAN]

LEMMA AllocatorInvInit == Init => AllocatorInv
  <1> SUFFICES ASSUME Init PROVE AllocatorInv
    OBVIOUS
  <1>1. m_pool = [i \in {} |-> NewPool] /\ held = {} /\ Given = {}
    BY DEF Init, Given
  <1>2. PoolsOK(m_pool, Given)
    <2>1. DOMAIN m_pool = {} /\ m_pool = [i \in DOMAIN m_pool |-> m_pool[i]]
      BY <1>1
    <2> QED BY <1>1, <2>1 DEF PoolsOK
  <1>3. ret \in [nothing : BOOLEAN, null : BOOLEAN]
    BY DEF Init
  <1> QED BY <1>1, <1>2, <1>3, InvInit DEF AllocatorInv, HeldOK

\* The block of e, or none, is replaced by the block of n.
LEMMA HeldAdd ==
    ASSUME NEW e, NEW n, n.p \notin Given, n.size > 0 => n.p[1] = ClassOf(n.size), HeldOK,
           held' = (held \ {e}) \cup {n}
    PROVE  HeldOK'
  <1>1. \A d \in held : d.p # n.p
    BY DEF Given
  <1> QED BY <1>1 DEF HeldOK

LEMMA AllocatorInvStep == AllocatorInv /\ [Next]_vars => AllocatorInv'
  <1> SUFFICES ASSUME AllocatorInv, [Next]_vars PROVE AllocatorInv'
    OBVIOUS
  <1>1. Inv /\ PoolsOK(m_pool, Given) /\ HeldOK /\ ret \in [nothing : BOOLEAN, null : BOOLEAN]
    BY DEF AllocatorInv
  <1>2. Inv'
    BY <1>1, StepInv
  <1>3. ASSUME NEW n, NEW p, Return(n, p) PROVE ret' \in [nothing : BOOLEAN, null : BOOLEAN]
    BY <1>3 DEF Return
  <1>4. Sizes \subseteq Nat \ {0}
    BY AllocatorAssumption
  <1>5. ASSUME NEW nsize \in Sizes \cup {0}, NEW ok \in BOOLEAN, ok => Memory(nsize),
               realloc_null(nsize, ok)
        PROVE  PoolsOK(m_pool, Given)' /\ HeldOK'
    <2>1. PICK a : a = allocate(m_pool, nsize, ok)
      OBVIOUS
    <2>2. PICK n : n = [p |-> a.p, size |-> nsize, room |-> a.room]
      OBVIOUS
    <2>3. m_pool' = a.pools /\ held' = held \cup IF a.p = NullBlock THEN {} ELSE {n}
      BY <1>5, <2>1, <2>2 DEF realloc_null
    <2>4. \/ a.p = NullBlock /\ PoolsOK(a.pools, Given)
          \/ /\ a.p # NullBlock /\ a.p \in Block \ Given /\ a.p[1] = ClassOf(nsize)
             /\ PoolsOK(a.pools, Given \cup {a.p})
      <3>1. nsize \in Nat
        BY <1>4
      <3> QED BY <1>1, <1>5, <2>1, <3>1, PoolsAllocate
    <2>5. CASE a.p = NullBlock
      <3>1. held' = held /\ PoolsOK(a.pools, Given)
        BY <2>3, <2>4, <2>5
      <3> QED BY <1>1, <2>3, <3>1 DEF HeldOK, Given
    <2>6. CASE a.p # NullBlock
      <3>1. held' = held \cup {n} /\ n.p = a.p /\ n.size = nsize
        BY <2>2, <2>3, <2>6
      <3>2. Given' = Given \cup {a.p}
        BY <3>1 DEF Given
      <3>3. HeldOK'
        <4>1. held' = (held \ {n}) \cup {n}
          BY <3>1
        <4> QED BY <1>1, <2>4, <2>6, <3>1, <4>1, HeldAdd
      <3> QED BY <2>3, <2>4, <2>6, <3>2, <3>3
    <2> QED BY <2>5, <2>6
  <1>6. ASSUME NEW e \in held, e.size > 0, realloc_free(e)
        PROVE  PoolsOK(m_pool, Given)' /\ HeldOK'
    <2>1. held' = held \ {e} /\ m_pool' = deallocate(m_pool, e.p, e.size)
      BY <1>6 DEF realloc_free
    <2>2. e.p \in Given /\ e.size \in Nat \ {0} /\ e.p[1] = ClassOf(e.size)
      BY <1>1, <1>6 DEF Given, HeldOK, Inv, Fits
    <2>3. Given' = Given \ {e.p}
      BY <1>1, <2>1 DEF Given, HeldOK
    <2>4. PoolsOK(m_pool', Given \ {e.p})
      BY <1>1, <2>1, <2>2, PoolsDeallocate
    <2> QED BY <1>1, <2>1, <2>3, <2>4 DEF HeldOK
  <1>7. ASSUME NEW e \in held, e.size > 0, NEW n, n.p = e.p, n.size \in Nat \ {0},
               ClassOf(n.size) = ClassOf(e.size),
               held' = (held \ {e}) \cup {n}, m_pool' = m_pool
        PROVE  PoolsOK(m_pool, Given)' /\ HeldOK'
    <2>1. Given' = Given
      BY <1>7 DEF Given
    <2>2. HeldOK'
      BY <1>1, <1>7 DEF HeldOK
    <2> QED BY <1>1, <1>7, <2>1, <2>2
  <1>8. ASSUME NEW e \in held, NEW nsize \in Sizes, e.size > 0, realloc_same(e, nsize)
        PROVE  PoolsOK(m_pool, Given)' /\ HeldOK'
    <2>1. PICK n : n = [e EXCEPT !.size = nsize]
      OBVIOUS
    <2>2. Fits(e) /\ nsize \in Nat \ {0}
      BY <1>1, <1>4 DEF Inv
    <2>3. n = [p |-> e.p, size |-> nsize, room |-> e.room]
      BY <2>1, <2>2 DEF Fits
    <2>4. /\ Index(e.size) = Index(nsize) /\ held' = (held \ {e}) \cup {n} /\ m_pool' = m_pool
      BY <1>8, <2>1 DEF realloc_same
    <2>5. e.size \in Nat /\ e.size # 0 /\ nsize \in Nat /\ nsize # 0
      BY <1>8, <2>2 DEF Fits
    <2>6. ClassOf(nsize) = ClassOf(e.size)
      BY <2>4, <2>5, ClassOfIs
    <2>7. n.p = e.p /\ n.size = nsize
      BY <2>3
    <2> QED BY <1>7, <1>8, <2>2, <2>4, <2>6, <2>7
  <1>9. ASSUME NEW e \in held, NEW nsize \in Sizes, e.size > 0, NEW ok \in BOOLEAN,
               realloc_large(e, nsize, ok)
        PROVE  PoolsOK(m_pool, Given)' /\ HeldOK'
    <2>1. PICK n : n = [e EXCEPT !.size = nsize, !.room = nsize]
      OBVIOUS
    <2>2. Fits(e) /\ nsize \in Nat \ {0}
      BY <1>1, <1>4 DEF Inv
    <2>3. n.p = e.p /\ n.size = nsize
      <3>1. PICK p, size, room : e = [p |-> p, size |-> size, room |-> room]
        BY <2>2 DEF Fits
      <3> QED BY <2>1, <3>1
    <2>4. /\ e.size > MaxObjSize /\ nsize > MaxObjSize /\ m_pool' = m_pool
          /\ held' = IF ok THEN (held \ {e}) \cup {n} ELSE held
      BY <1>9, <2>1 DEF realloc_large
    <2>5. ClassOf(nsize) = ClassOf(e.size)
      BY <2>4 DEF ClassOf
    <2>6. CASE ok
      BY <1>7, <1>9, <2>2, <2>3, <2>4, <2>5, <2>6
    <2>7. CASE ~ok
      BY <1>1, <2>4, <2>7 DEF HeldOK, Given
    <2> QED BY <2>6, <2>7
  <1>10. ASSUME NEW e \in held, NEW nsize \in Sizes, e.size > 0, NEW ok \in BOOLEAN,
               ok => Memory(nsize), realloc_move(e, nsize, ok)
        PROVE  PoolsOK(m_pool, Given)' /\ HeldOK'
    <2>1. PICK a : a = allocate(m_pool, nsize, ok)
      OBVIOUS
    <2>2. PICK n : n = [p |-> a.p, size |-> nsize, room |-> a.room]
      OBVIOUS
    <2>3. IF a.p = NullBlock
          THEN m_pool' = a.pools /\ held' = held
          ELSE /\ m_pool' = deallocate(a.pools, e.p, e.size)
               /\ held' = (held \ {e}) \cup {n}
      BY <1>10, <2>1, <2>2 DEF realloc_move
    <2>4. \/ a.p = NullBlock /\ PoolsOK(a.pools, Given)
          \/ /\ a.p # NullBlock /\ a.p \in Block \ Given /\ a.p[1] = ClassOf(nsize)
             /\ PoolsOK(a.pools, Given \cup {a.p})
      <3>1. nsize \in Nat
        BY <1>4
      <3> QED BY <1>1, <1>10, <2>1, <3>1, PoolsAllocate
    <2>5. CASE a.p = NullBlock
      <3>1. held' = held /\ m_pool' = a.pools /\ PoolsOK(a.pools, Given)
        BY <2>3, <2>4, <2>5
      <3> QED BY <1>1, <3>1 DEF HeldOK, Given
    <2>6. CASE a.p # NullBlock
      <3>1. /\ m_pool' = deallocate(a.pools, e.p, e.size) /\ held' = (held \ {e}) \cup {n}
            /\ n.p = a.p /\ n.size = nsize
        BY <2>2, <2>3, <2>6
      <3>2. e.p \in Given /\ e.size \in Nat \ {0} /\ e.p[1] = ClassOf(e.size)
        BY <1>1, <1>10 DEF Given, HeldOK, Inv, Fits
      <3>3. PICK G : G = Given \cup {a.p}
        OBVIOUS
      <3>4. PoolsOK(a.pools, G) /\ e.p \in G /\ a.p \notin Given
        BY <2>4, <2>6, <3>2, <3>3
      <3>5. Given' = G \ {e.p}
        BY <1>1, <3>1, <3>3, <3>4 DEF Given, HeldOK
      <3>6. PoolsOK(m_pool', G \ {e.p})
        BY <3>1, <3>2, <3>4, PoolsDeallocate
      <3>7. HeldOK'
        BY <1>1, <2>4, <2>6, <3>1, HeldAdd
      <3> QED BY <3>5, <3>6, <3>7
    <2> QED BY <2>5, <2>6
  <1>11. ASSUME gc PROVE AllocatorInv'
    <2>1. PICK all \in BOOLEAN : /\ m_pool' = [i \in DOMAIN m_pool |-> gc_fixed(m_pool[i], all)]
                                 /\ held' = held /\ ret' = ret
      BY <1>11 DEF gc
    <2>2. PoolsOK(m_pool', Given)
      BY <1>1, <2>1, PoolsGc
    <2> QED BY <1>1, <1>2, <2>1, <2>2 DEF AllocatorInv, HeldOK, Given
  <1>12. ASSUME UNCHANGED vars PROVE AllocatorInv'
    BY <1>1, <1>2, <1>12 DEF vars, AllocatorInv, HeldOK, Given
  <1>13. ASSUME reallocate PROVE AllocatorInv'
    <2>1. PICK nsize \in Sizes \cup {0}, ok \in BOOLEAN :
             \/ (ok => Memory(nsize)) /\ realloc_null(nsize, ok)
             \/ \E e \in held : e.size > 0 /\
                   \/ nsize = 0 /\ realloc_free(e)
                   \/ nsize > 0 /\ realloc_same(e, nsize)
                   \/ nsize > 0 /\ realloc_large(e, nsize, ok)
                   \/ nsize > 0 /\ (ok => Memory(nsize)) /\ realloc_move(e, nsize, ok)
      BY <1>13 DEF reallocate
    <2>2. nsize > 0 => nsize \in Sizes
      OBVIOUS
    <2>3. PoolsOK(m_pool, Given)' /\ HeldOK'
      BY <1>5, <1>6, <1>8, <1>9, <1>10, <2>1, <2>2
    <2>4. \E n, p : Return(n, p)
      BY <2>1 DEF realloc_null, realloc_free, realloc_same, realloc_large, realloc_move
    <2>5. ret' \in [nothing : BOOLEAN, null : BOOLEAN]
      BY <1>3, <2>4
    <2> QED BY <1>2, <2>3, <2>5 DEF AllocatorInv
  <1> QED BY <1>11, <1>12, <1>13 DEF Next

-----------------------------------------------------------------------------
(* What the invariant says of the pools.                                   *)

LEMMA InvTypeOK == AllocatorInv => TypeOK
  <1> SUFFICES ASSUME AllocatorInv PROVE TypeOK
    OBVIOUS
  <1>1. DOMAIN m_pool \subseteq 0..(Large - 1)
    BY DEF AllocatorInv, PoolsOK
  <1>2. ASSUME NEW i \in DOMAIN m_pool
        PROVE  /\ DOMAIN m_pool[i].chunk \subseteq 1..MaxChunks[i]
               /\ \A c \in DOMAIN m_pool[i].chunk : LET k == m_pool[i].chunk[c] IN
                     /\ k.byte \in [0..(Blocks - 1) -> Used..Blocks]
                     /\ k.first \in 0..Blocks /\ k.avail \in 0..Blocks
                     /\ {k.pre, k.next} \subseteq DOMAIN m_pool[i].chunk \cup {NULL}
               /\ \A list \in Lists :
                     m_pool[i].head[list] \in DOMAIN m_pool[i].chunk \cup {NULL}
    <2>1. PICK f : f = m_pool[i]
      OBVIOUS
    <2>2. PICK L : L = ByAvail(f)
      OBVIOUS
    <2>3. /\ Shape(f) /\ AllLinked(f, L) /\ DOMAIN f.chunk \subseteq 1..MaxChunks[i]
      BY <2>1, <2>2 DEF AllocatorInv, PoolsOK, PoolOK, PoolIs, Chained
    <2>4. ASSUME NEW c \in DOMAIN f.chunk
          PROVE  /\ f.chunk[c] \in Chunk
                 /\ {f.chunk[c].pre, f.chunk[c].next} \subseteq DOMAIN f.chunk \cup {NULL}
      <3>1. L[c] \in Lists /\ c \in In(L, L[c])
        BY <2>3 DEF AllLinked, In
      <3>2. Linked(f, L[c], In(L, L[c]))
        BY <2>3, <3>1 DEF AllLinked
      <3> QED BY <2>3, <3>1, <3>2 DEF Linked, Nx, Pr, Shape
    <2>5. \A list \in Lists : f.head[list] \in DOMAIN f.chunk \cup {NULL}
      BY <2>3, HeadIs
    <2> QED BY <2>1, <2>3, <2>4, <2>5 DEF Chunk
  <1>3. \A e \in held : e.p \in Block /\ {e.size, e.room} \subseteq Nat
    BY DEF AllocatorInv, PoolsOK, Given, Inv, Fits
  <1>4. ret \in [nothing : BOOLEAN, null : BOOLEAN]
    BY DEF AllocatorInv
  <1> QED BY <1>1, <1>2, <1>3, <1>4 DEF TypeOK

LEMMA InvListsOK == AllocatorInv => ListsOK
  <1> SUFFICES ASSUME AllocatorInv, NEW i \in DOMAIN m_pool, NEW f, f = m_pool[i]
               PROVE  /\ InList(f, "full") = {c \in DOMAIN f.chunk : f.chunk[c].avail = 0}
                      /\ InList(f, "free")
                            = {c \in DOMAIN f.chunk : f.chunk[c].avail \in 1..(Blocks - 1)}
                      /\ InList(f, "empty") = {c \in DOMAIN f.chunk : f.chunk[c].avail = Blocks}
                      /\ \A c \in DOMAIN f.chunk :
                            f.chunk[c].next # NULL => f.chunk[f.chunk[c].next].pre = c
                      /\ \A list \in Lists :
                            f.head[list] # NULL => f.chunk[f.head[list]].pre = NULL
                      /\ f.chunkCount = Cardinality(DOMAIN f.chunk)
                      /\ f.emptyCount = Cardinality(InList(f, "empty"))
                      /\ f.emptyCount <= MaxChunks[i] \div 4 + 1
    BY DEF ListsOK
  <1>1. PICK L : L = ByAvail(f)
    OBVIOUS
  <1>2. PICK F : F = Free(Given, i)
    OBVIOUS
  <1>3. /\ Shape(f) /\ AllLinked(f, L) /\ Counted(f, L)
        /\ \A c \in DOMAIN f.chunk : FreeChain(f.chunk[c], F[c])
        /\ f.chunkCount = Cardinality(DOMAIN f.chunk)
        /\ f.emptyCount <= MaxChunks[i] \div 4 + 1
    BY <1>1, <1>2 DEF AllocatorInv, PoolsOK, PoolOK, PoolIs, Chained
  <1>4. \A l \in Lists : Linked(f, l, In(L, l)) /\ InList(f, l) = In(L, l)
    BY <1>3, InListIs DEF AllLinked
  <1>5. \A c \in DOMAIN f.chunk :
           /\ f.chunk[c].avail \in 0..Blocks
           /\ L[c] = "full" <=> f.chunk[c].avail = 0
           /\ L[c] = "empty" <=> f.chunk[c].avail = Blocks
           /\ L[c] = "free" <=> f.chunk[c].avail \in 1..(Blocks - 1)
    <2> SUFFICES ASSUME NEW c \in DOMAIN f.chunk
                 PROVE  /\ f.chunk[c].avail \in 0..Blocks
                        /\ L[c] = "full" <=> f.chunk[c].avail = 0
                        /\ L[c] = "empty" <=> f.chunk[c].avail = Blocks
                        /\ L[c] = "free" <=> f.chunk[c].avail \in 1..(Blocks - 1)
      OBVIOUS
    <2>1. f.chunk[c].avail \in 0..Blocks
      BY <1>3, AvailIs
    <2>2. L[c] = OfAvail(f.chunk[c].avail)
      BY <1>1 DEF ByAvail
    <2> QED BY <2>1, <2>2, BlocksIs DEF OfAvail
  <1>6. DOMAIN L = DOMAIN f.chunk
    BY <1>1 DEF ByAvail
  <1>7. /\ InList(f, "full") = {c \in DOMAIN f.chunk : f.chunk[c].avail = 0}
        /\ InList(f, "free") = {c \in DOMAIN f.chunk : f.chunk[c].avail \in 1..(Blocks - 1)}
        /\ InList(f, "empty") = {c \in DOMAIN f.chunk : f.chunk[c].avail = Blocks}
    <2>1. /\ InList(f, "full") = In(L, "full") /\ InList(f, "free") = In(L, "free")
          /\ InList(f, "empty") = In(L, "empty")
      BY <1>4 DEF Lists
    <2> QED BY <1>5, <1>6, <2>1 DEF In
  <1>8. f.emptyCount = Cardinality(InList(f, "empty"))
    BY <1>3, <1>4 DEF Counted, Lists
  <1>9. ASSUME NEW c \in DOMAIN f.chunk, f.chunk[c].next # NULL
        PROVE  f.chunk[f.chunk[c].next].pre = c
    <2>1. L[c] \in Lists /\ c \in In(L, L[c])
      BY <1>3, <1>6 DEF AllLinked, In
    <2>2. Linked(f, L[c], In(L, L[c]))
      BY <1>4, <2>1
    <2> QED BY <1>9, <2>1, <2>2 DEF Linked, Nx, Pr
  <1>10. \A l \in Lists : f.head[l] # NULL => f.chunk[f.head[l]].pre = NULL
    BY <1>4 DEF Linked, Pr
  <1> QED BY <1>3, <1>7, <1>8, <1>9, <1>10

LEMMA InvBlocksOK == AllocatorInv => BlocksOK
  <1> SUFFICES ASSUME AllocatorInv PROVE BlocksOK
    OBVIOUS
  <1>1. PoolsOK(m_pool, Given) /\ HeldOK
    BY DEF AllocatorInv
  <1>2. ASSUME NEW e \in held, e.p[1] # Large
        PROVE  e.p[1] \in DOMAIN m_pool /\ e.p[2] \in DOMAIN m_pool[e.p[1]].chunk
    <2>1. e.p \in Given /\ e.p \in Block
      BY <1>1 DEF Given, PoolsOK
    <2>2. e.p[1] \in DOMAIN m_pool
      BY <1>1, <1>2, <2>1 DEF PoolsOK
    <2>3. PICK i \in 0..(Large - 1) : \E c \in 1..MaxChunks[i], b \in 0..(Blocks - 1) :
             e.p = <<i, c, b>>
      BY <1>2, <2>1, BlockIs
    <2>4. PICK c \in 1..MaxChunks[i], b \in 0..(Blocks - 1) : e.p = <<i, c, b>>
      BY <2>3
    <2>5. e.p[1] = i /\ e.p[2] = c
      BY <2>4
    <2>6. PICK F : F = Free(Given, i)
      OBVIOUS
    <2>7. b \notin F[c]
      BY <2>1, <2>4, <2>6 DEF Free
    <2>8. \A d \in (1..MaxChunks[i]) \ DOMAIN m_pool[i].chunk : F[d] = 0..(Blocks - 1)
      BY <1>1, <2>2, <2>5, <2>6 DEF PoolsOK, PoolOK, PoolIs, Chained
    <2>9. c \in DOMAIN m_pool[i].chunk
      BY <2>7, <2>8
    <2> QED BY <2>2, <2>5, <2>9
  <1>3. ASSUME NEW i \in DOMAIN m_pool, NEW c \in DOMAIN m_pool[i].chunk
        PROVE  LET k == m_pool[i].chunk[c]
                   used == {b \in 0..(Blocks - 1) : \E e \in held : e.p = <<i, c, b>>}
               IN  Cardinality(Chain(k)) = k.avail /\ Chain(k) = 0..(Blocks - 1) \ used
    <2>1. PICK k : k = m_pool[i].chunk[c]
      OBVIOUS
    <2>2. PICK F : F = Free(Given, i)
      OBVIOUS
    <2>3. k \in Chunk /\ FreeChain(k, F[c]) /\ c \in 1..MaxChunks[i]
      BY <1>1, <2>1, <2>2 DEF PoolsOK, PoolOK, PoolIs, Chained, Shape
    <2>4. Chain(k) = F[c]
      BY <2>3, ChainIs
    <2>5. Cardinality(Chain(k)) = k.avail
      BY <2>3, <2>4 DEF FreeChain
    <2>6. F[c] = {b \in 0..(Blocks - 1) : <<i, c, b>> \notin Given}
      BY <2>2, <2>3 DEF Free
    <2>7. F[c] = (0..(Blocks - 1)) \ {b \in 0..(Blocks - 1) : \E e \in held : e.p = <<i, c, b>>}
      BY <2>6 DEF Given
    <2> QED BY <2>1, <2>4, <2>5, <2>7
  <1> QED BY <1>1, <1>2, <1>3 DEF BlocksOK, HeldOK

\* For any memory, sizes and order of calls, pools, chunks and blocks are what they
\* should be: no link leaves its pool and no free block names one that is not there.
THEOREM AllocatorTypeOK == Spec => []TypeOK
  BY AllocatorInvInit, AllocatorInvStep, InvTypeOK, PTL DEF Spec

\* For any memory, sizes and order of calls, each chunk is in the one list its free
\* blocks put it in (SmallAllocator.cpp:143-153, 176-182, 192-226, 248-260), linked
\* both ways, and no more empty ones are kept than a quarter of all, and one.
THEOREM AllocatorListsOK == Spec => []ListsOK
  BY AllocatorInvInit, AllocatorInvStep, InvListsOK, PTL DEF Spec

\* For any memory, sizes and order of calls, the free blocks of a chunk are all but
\* those that were given out, and are in the chain once: no block is given out twice,
\* none is lost, and no chunk is deleted with a block of it in use.
THEOREM AllocatorBlocksOK == Spec => []BlocksOK
  BY AllocatorInvInit, AllocatorInvStep, InvBlocksOK, PTL DEF Spec

-----------------------------------------------------------------------------
(* Shared and weak pointers.                                               *)

PtrCounted == shared = Cardinality(Owners) /\ weak = Cardinality(Observers)

Safe == Owners # {} => revived \/ (released = 0 /\ doomed = {})

\* What a drop still does when it has found that the object has no owner.
Releasing == {"loaded", "no_shared", "no_weak", "refs", "delete", "release"}
DoomedDrops == \A p \in doomed : st[p] \in Releasing

\* Somebody has released the object without owners, or is going to.
ReleaseLeft ==
    Owners = {} => released > 0 \/ doomed # {} \/ \E p \in Shareds : st[p] = "dec"

\* Somebody has deleted the counter nothing points to, or is going to.
Deleting == {"dec", "loaded", "no_shared", "no_weak", "delete"}
DeleteLeft ==
    Owners = {} /\ Observers = {} => freed > 0 \/ \E p \in Ptrs : st[p] \in Deleting

\* What the one drop under way has read stays so until it is done.
OneDrop ==
    /\ \A p, q \in Dropping : p = q
    /\ \A p \in Ptrs :
          /\ st[p] = "delete" => Owners = {} /\ Observers = {}
          /\ st[p] = "no_shared" => Owners = {}
          /\ st[p] = "no_weak" => Observers = {} \/ Owners # {}

ReleasedOnce ==
    /\ released > 0 \/ doomed # {} => \A p \in Ptrs : st[p] # "dec"
    /\ released > 0 => released = 1 /\ doomed = {}
    /\ \A p, q \in doomed : p = q

FreedOnce ==
    /\ ~broken
    /\ freed > 0 => freed = 1 /\ Owners = {} /\ Observers = {} /\ Dropping = {}

Once == overlap \/ revived \/ (OneDrop /\ ReleasedOnce /\ FreedOnce)

PtrInv ==
    /\ PtrTypeOK /\ PtrCounted /\ Safe /\ DoomedDrops
    /\ ReleaseLeft /\ DeleteLeft /\ Once

-----------------------------------------------------------------------------
\* The sets of pointers that count are finite.
LEMMA Sets ==
    /\ IsFiniteSet(Owners) /\ IsFiniteSet(Observers)
    /\ Owners \subseteq Shareds /\ Observers \subseteq Weaks
  <1>1. Owners \in SUBSET Shareds /\ Observers \in SUBSET Weaks
    BY DEF Owners, Observers
  <1> QED BY <1>1, FS_Subset, PtrAssumption

\* A counter is zero when there is nothing to count.
LEMMA Zero ==
    PtrCounted => (shared = 0 <=> Owners = {}) /\ (weak = 0 <=> Observers = {})
  BY Sets, FS_EmptySet DEF PtrCounted

LEMMA Natural == PtrCounted => shared \in Nat /\ weak \in Nat
  BY Sets, FS_CardinalityType DEF PtrCounted

\* One more or one less pointer, one more or one less counted.
LEMMA More ==
    ASSUME NEW S, NEW x, IsFiniteSet(S), x \notin S
    PROVE  Cardinality(S \cup {x}) = Cardinality(S) + 1
  BY FS_AddElement

LEMMA Less ==
    ASSUME NEW S, NEW x, IsFiniteSet(S), x \in S
    PROVE  Cardinality(S \ {x}) = Dec(Cardinality(S))
  <1>1. Cardinality(S) # 0
    BY FS_EmptySet
  <1> QED BY <1>1, FS_RemoveElement DEF Dec

\* Initially one SharedPtr owns the object.
LEMMA PtrInvInit == PtrInit => PtrInv
  <1> SUFFICES ASSUME PtrInit PROVE PtrInv
    OBVIOUS
  <1>1. PICK p \in Shareds : st = [q \in Ptrs |-> IF q = p THEN "held" ELSE "null"]
    BY DEF PtrInit
  <1>2. Owners = {p} /\ Observers = {} /\ Dropping = {}
    BY <1>1, PtrAssumption DEF Owners, Observers, Dropping, Counting, Ptrs
  <1>3. PtrTypeOK
    <2>1. st \in [Ptrs -> {"null", "held", "locking", "delete", "release"} \cup Counting]
      BY <1>1
    <2>2. \A q \in Ptrs : st[q] \in {"null", "held"}
      BY <1>1
    <2>3. broken \in BOOLEAN /\ overlap \in BOOLEAN /\ revived \in BOOLEAN
      BY Zenon DEF PtrInit
    <2> QED
      BY <2>1, <2>2, <2>3 DEF PtrInit, PtrTypeOK, Ptrs
  <1>4. PtrCounted
    BY <1>2, FS_Singleton, FS_EmptySet DEF PtrInit, PtrCounted
  <1> QED
    BY <1>1, <1>2, <1>3, <1>4
    DEF PtrInv, PtrInit, Safe, DoomedDrops, ReleaseLeft, DeleteLeft, Once, OneDrop,
        ReleasedOnce, FreedOnce
-----------------------------------------------------------------------------
\* A copy is made while there is an owner, so nothing is released or deleted.
LEMMA CopyStep ==
    ASSUME PtrInv, NEW p \in Shareds, NEW q \in Shareds, copy(p, q)
    PROVE  PtrInv'
  <1> USE DEF PtrInv
  <1>1. p \in Ptrs /\ p \notin Weaks /\ DOMAIN st = Ptrs /\ st' = [st EXCEPT ![p] = "held"]
    BY PtrAssumption DEF copy, PtrTypeOK, Ptrs
  <1>2. Owners' = Owners \cup {p} /\ p \notin Owners /\ Observers' = Observers
    BY <1>1, PtrAssumption DEF Owners, Observers, copy, Ptrs
  <1>3. Dropping' = Dropping
    BY <1>1 DEF Dropping, Counting, copy
  <1>4. PtrTypeOK'
    BY <1>1, Natural DEF PtrTypeOK, copy, Counting
  <1>5. PtrCounted'
    BY <1>2, Sets, More DEF PtrCounted, copy
  <1>6. Owners # {} /\ Owners' # {}
    BY <1>2 DEF copy
  <1>7. Safe' /\ ReleaseLeft' /\ DeleteLeft'
    BY <1>6 DEF Safe, ReleaseLeft, DeleteLeft, copy
  <1>8. DoomedDrops'
    BY <1>1 DEF DoomedDrops, copy, Releasing, PtrTypeOK
  <1>9. Once'
    BY <1>1, <1>2, <1>3, <1>6 DEF Once, OneDrop, ReleasedOnce, FreedOnce, copy
  <1> QED BY <1>4, <1>5, <1>7, <1>8, <1>9

\* A new WeakPtr is made of another pointer, which counts already.
LEMMA ObserveStep ==
    ASSUME PtrInv, NEW w \in Weaks, NEW q \in Ptrs, observe(w, q)
    PROVE  PtrInv'
  <1> USE DEF PtrInv
  <1>1. w \in Ptrs /\ w \notin Shareds /\ DOMAIN st = Ptrs /\ st' = [st EXCEPT ![w] = "held"]
    BY PtrAssumption DEF observe, PtrTypeOK, Ptrs
  <1>2. Owners' = Owners /\ w \notin Observers /\ Observers' = Observers \cup {w}
    BY <1>1, PtrAssumption DEF Owners, Observers, observe, Ptrs
  <1>3. Dropping' = Dropping
    BY <1>1 DEF Dropping, Counting, observe
  <1>4. PtrTypeOK'
    BY <1>1, Natural DEF PtrTypeOK, observe, Counting
  <1>5. PtrCounted'
    BY <1>2, Sets, More DEF PtrCounted, observe
  <1>6. Owners \cup Observers # {}
    BY <1>2 DEF observe
  <1>7. Safe' /\ ReleaseLeft' /\ DeleteLeft'
    BY <1>1, <1>2 DEF Safe, ReleaseLeft, DeleteLeft, observe
  <1>8. DoomedDrops'
    BY <1>1, PtrAssumption DEF DoomedDrops, observe, Releasing, PtrTypeOK
  <1>9. Once'
    BY <1>1, <1>2, <1>3, <1>6 DEF Once, OneDrop, ReleasedOnce, FreedOnce, observe
  <1> QED BY <1>4, <1>5, <1>7, <1>8, <1>9

\* lock's check changes no count.
LEMMA NotExpiredStep ==
    ASSUME PtrInv, NEW w \in Weaks, not_expired(w)
    PROVE  PtrInv'
  <1> USE DEF PtrInv
  <1>1. w \in Ptrs /\ w \notin Shareds /\ DOMAIN st = Ptrs /\ st' = [st EXCEPT ![w] = "locking"]
    BY PtrAssumption DEF not_expired, PtrTypeOK, Ptrs
  <1>2. Owners' = Owners /\ Observers' = Observers
    BY <1>1, PtrAssumption DEF Owners, Observers, not_expired, Ptrs
  <1>3. Dropping' = Dropping
    BY <1>1 DEF Dropping, Counting, not_expired
  <1>4. PtrTypeOK'
    BY <1>1 DEF PtrTypeOK, not_expired, Counting
  <1>5. PtrCounted'
    BY <1>2 DEF PtrCounted, not_expired
  <1>6. Owners # {}
    BY Zero DEF not_expired
  <1>7. Safe' /\ ReleaseLeft' /\ DeleteLeft'
    BY <1>2, <1>6 DEF Safe, ReleaseLeft, DeleteLeft, not_expired
  <1>8. DoomedDrops'
    BY <1>1, PtrAssumption DEF DoomedDrops, not_expired, Releasing, PtrTypeOK
  <1>9. Once'
    BY <1>1, <1>2, <1>3 DEF Once, OneDrop, ReleasedOnce, FreedOnce, not_expired
  <1> QED BY <1>4, <1>5, <1>7, <1>8, <1>9

\* A SharedPtr of a WeakPtr revives the object or joins its owners.
LEMMA FromWeakStep ==
    ASSUME PtrInv, NEW p \in Shareds, NEW w \in Weaks, from_weak(p, w)
    PROVE  PtrInv'
  <1> USE DEF PtrInv
  <1>1. /\ p \in Ptrs /\ w \in Ptrs /\ p \notin Weaks /\ w \notin Shareds
        /\ DOMAIN st = Ptrs /\ st' = [st EXCEPT ![p] = "held", ![w] = "held"]
    BY PtrAssumption DEF from_weak, PtrTypeOK, Ptrs
  <1>2. Owners' = Owners \cup {p} /\ p \notin Owners /\ Observers' = Observers
    BY <1>1, PtrAssumption DEF Owners, Observers, from_weak, Ptrs
  <1>3. Dropping' = Dropping
    BY <1>1 DEF Dropping, Counting, from_weak, Observers
  <1>4. PtrTypeOK'
    <2>1. revived' \in BOOLEAN
      BY DEF from_weak, PtrTypeOK
    <2>2. shared' \in Nat
      BY Natural DEF from_weak
    <2>3. st' \in [Ptrs -> {"null", "held", "locking", "delete", "release"} \cup Counting]
      BY <1>1 DEF PtrTypeOK
    <2>4. (\A r \in Shareds : st'[r] # "locking") /\ (\A v \in Weaks : st'[v] # "dec")
      BY <1>1 DEF PtrTypeOK, Ptrs
    <2> QED BY <2>1, <2>2, <2>3, <2>4 DEF PtrTypeOK, from_weak
  <1>5. PtrCounted'
    BY <1>2, Sets, More DEF PtrCounted, from_weak
  <1>6. Owners # {} \/ revived'
    BY Zero DEF from_weak
  <1>7. Safe' /\ ReleaseLeft' /\ DeleteLeft'
    BY <1>2, <1>6 DEF Safe, ReleaseLeft, DeleteLeft, from_weak
  <1>8. DoomedDrops'
    <2>1. \A r \in Ptrs : r = p \/ r = w \/ st'[r] = st[r]
      BY <1>1
    <2>2. doomed' = doomed /\ doomed \subseteq Ptrs /\ p \notin doomed /\ w \notin doomed
      BY <1>1 DEF from_weak, PtrTypeOK, Ptrs, DoomedDrops, Releasing
    <2> QED BY <2>1, <2>2 DEF DoomedDrops
  <1>9. Once'
    BY <1>1, <1>2, <1>3, <1>6 DEF Once, OneDrop, ReleasedOnce, FreedOnce, from_weak
  <1> QED BY <1>4, <1>5, <1>7, <1>8, <1>9

-----------------------------------------------------------------------------
\* A drop that begins alone finds no other; the last one will find no owner.
LEMMA DecSharedStep ==
    ASSUME PtrInv, NEW p \in Shareds, dec_shared(p)
    PROVE  PtrInv'
  <1> USE DEF PtrInv
  <1>1. p \in Ptrs /\ p \notin Weaks /\ DOMAIN st = Ptrs /\ st' = [st EXCEPT ![p] = "dec"]
    BY PtrAssumption DEF dec_shared, PtrTypeOK, Ptrs
  <1>2. Owners' = Owners \ {p} /\ p \in Owners /\ Observers' = Observers
    BY <1>1, PtrAssumption DEF Owners, Observers, dec_shared, Ptrs
  <1>3. Dropping' = Dropping \cup {p}
    BY <1>1 DEF Dropping, Counting
  <1>4. PtrTypeOK'
    <2>1. overlap' \in BOOLEAN
      BY Zenon DEF dec_shared, PtrTypeOK
    <2>2. shared' \in Nat
      BY Natural DEF dec_shared, Dec
    <2> QED BY <1>1, <2>1, <2>2 DEF PtrTypeOK, dec_shared, Counting
  <1>5. PtrCounted'
    BY <1>2, Sets, Less DEF PtrCounted, dec_shared
  <1>6. st'[p] = "dec" /\ \A r \in Ptrs \ {p} : st'[r] = st[r]
    BY <1>1
  <1>7. Safe' /\ ReleaseLeft' /\ DeleteLeft'
    BY <1>1, <1>2, <1>6 DEF Safe, ReleaseLeft, DeleteLeft, Deleting, dec_shared
  <1>8. DoomedDrops'
    BY <1>1, <1>2, <1>6 DEF DoomedDrops, dec_shared, Releasing, PtrTypeOK, Safe, Owners, Ptrs
  <1>9. Once'
    <2> SUFFICES ASSUME ~overlap', ~revived' PROVE (OneDrop /\ ReleasedOnce /\ FreedOnce)'
      BY DEF Once
    <2>1. ~overlap /\ ~revived /\ Dropping = {} /\ Dropping' = {p}
      BY <1>3 DEF dec_shared
    <2>2. \A r \in Ptrs \ {p} : st'[r] \notin Counting \cup {"delete"}
      BY <1>6, <2>1 DEF Dropping
    <2>3. released = 0 /\ doomed = {} /\ freed = 0 /\ ~broken
      BY <1>2, <2>1 DEF Safe, Once, FreedOnce, dec_shared, Alive
    <2> QED BY <1>6, <2>1, <2>2, <2>3 DEF OneDrop, ReleasedOnce, FreedOnce, dec_shared, Counting
  <1> QED BY <1>4, <1>5, <1>7, <1>8, <1>9

LEMMA DecWeakStep ==
    ASSUME PtrInv, NEW w \in Weaks, dec_weak(w)
    PROVE  PtrInv'
  <1> USE DEF PtrInv
  <1>1. w \in Ptrs /\ w \notin Shareds /\ DOMAIN st = Ptrs /\ st' = [st EXCEPT ![w] = "loaded"]
    BY PtrAssumption DEF dec_weak, PtrTypeOK, Ptrs
  <1>2. Owners' = Owners /\ w \in Observers /\ Observers' = Observers \ {w}
    BY <1>1, PtrAssumption DEF Owners, Observers, dec_weak, Ptrs
  <1>3. Dropping' = Dropping \cup {w}
    BY <1>1 DEF Dropping, Counting
  <1>4. PtrTypeOK'
    <2>1. overlap' \in BOOLEAN
      BY Zenon DEF dec_weak, PtrTypeOK
    <2>2. weak' \in Nat
      BY Natural DEF dec_weak, Dec
    <2> QED BY <1>1, <2>1, <2>2 DEF PtrTypeOK, dec_weak, Counting
  <1>5. PtrCounted'
    BY <1>2, Sets, Less DEF PtrCounted, dec_weak
  <1>6. st'[w] = "loaded" /\ \A r \in Ptrs \ {w} : st'[r] = st[r]
    BY <1>1
  <1>7. Safe' /\ ReleaseLeft' /\ DeleteLeft'
    <2>1. Safe' /\ DeleteLeft'
      BY <1>1, <1>2, <1>6 DEF Safe, DeleteLeft, Deleting, dec_weak
    <2>2. ReleaseLeft'
      BY <1>1, <1>2, <1>6 DEF ReleaseLeft, dec_weak, Ptrs
    <2> QED BY <2>1, <2>2
  <1>8. DoomedDrops'
    BY <1>1, <1>6 DEF DoomedDrops, dec_weak, PtrTypeOK, Ptrs
  <1>9. Once'
    <2> SUFFICES ASSUME ~overlap', ~revived' PROVE (OneDrop /\ ReleasedOnce /\ FreedOnce)'
      BY DEF Once
    <2>1. ~overlap /\ ~revived /\ Dropping = {} /\ Dropping' = {w}
      BY <1>3 DEF dec_weak
    <2>2. \A r \in Ptrs \ {w} : st'[r] \notin Counting \cup {"delete"}
      BY <1>6, <2>1 DEF Dropping
    <2>3. freed = 0 /\ ~broken /\ ReleasedOnce
      BY <2>1 DEF Once, FreedOnce, dec_weak, Alive
    <2> QED BY <1>6, <2>1, <2>2, <2>3 DEF OneDrop, ReleasedOnce, FreedOnce, dec_weak, Counting
  <1> QED BY <1>4, <1>5, <1>7, <1>8, <1>9

\* What a drop reads of the counters, and what it concludes, moves no pointer.
\* The read for the object: there is no owner, or one that will look for it.
LEMMA LoadSharedStep ==
    ASSUME PtrInv, NEW p \in Shareds, load_shared(p)
    PROVE  PtrInv'
  <1> USE DEF PtrInv
  <1>1. p \in Ptrs /\ p \notin Weaks /\ DOMAIN st = Ptrs /\ st' = [st EXCEPT ![p] = "loaded"]
    BY PtrAssumption DEF load_shared, PtrTypeOK, Ptrs
  <1>2. Owners' = Owners /\ Observers' = Observers /\ Dropping' = Dropping
    BY <1>1, PtrAssumption DEF Owners, Observers, Dropping, Counting, load_shared, Ptrs
  <1>3. st'[p] = "loaded" /\ \A r \in Ptrs \ {p} : st'[r] = st[r]
    BY <1>1
  <1>4. PtrTypeOK'
    BY <1>1 DEF PtrTypeOK, load_shared, Counting
  <1>5. PtrCounted'
    BY <1>2 DEF PtrCounted, load_shared
  <1>6. doomed' = IF Owners = {} THEN doomed \cup {p} ELSE doomed
    BY Zero DEF load_shared
  <1>7. Safe' /\ ReleaseLeft' /\ DeleteLeft'
    BY <1>1, <1>2, <1>3, <1>6 DEF Safe, ReleaseLeft, DeleteLeft, Deleting, load_shared
  <1>8. DoomedDrops'
    BY <1>1, <1>3, <1>6 DEF DoomedDrops, Releasing, PtrTypeOK, Ptrs
  <1>9. Once'
    <2> SUFFICES ASSUME ~overlap', ~revived' PROVE (OneDrop /\ ReleasedOnce /\ FreedOnce)'
      BY DEF Once
    <2>1. OneDrop /\ ReleasedOnce /\ FreedOnce /\ p \in Dropping
      BY <1>1 DEF Once, load_shared, Dropping, Counting
    <2>2. released = 0 /\ doomed = {} /\ freed = 0
      BY <1>1, <2>1 DEF ReleasedOnce, FreedOnce, PtrTypeOK, load_shared
    <2>3. \A r \in Ptrs : st'[r] # "dec"
      BY <1>3, <2>1 DEF OneDrop, Dropping, Counting
    <2> QED
      BY <1>2, <1>3, <1>6, <2>1, <2>2, <2>3 DEF OneDrop, ReleasedOnce, FreedOnce, load_shared
  <1> QED BY <1>4, <1>5, <1>7, <1>8, <1>9

\* The first read of has_refs.
LEMMA OneCountStep ==
    ASSUME PtrInv, NEW p \in Ptrs, one_count(p)
    PROVE  PtrInv'
  <1> USE DEF PtrInv
  <1>1. PICK s \in {"no_shared", "no_weak", "refs"} :
           /\ st' = [st EXCEPT ![p] = s]
           /\ s = "no_shared" => shared = 0
           /\ s = "no_weak" => weak = 0
           /\ s = "refs" => shared # 0 \/ weak # 0
    BY DEF one_count
  <1>2. DOMAIN st = Ptrs /\ st[p] = "loaded"
    BY DEF one_count, PtrTypeOK
  <1>3. st'[p] = s /\ \A r \in Ptrs \ {p} : st'[r] = st[r]
    BY <1>1, <1>2
  <1>4. Owners' = Owners /\ Observers' = Observers /\ Dropping' = Dropping
    BY <1>1, <1>2, <1>3 DEF Owners, Observers, Dropping, Counting, Ptrs
  <1>5. PtrTypeOK'
    <2>1. st' \in [Ptrs -> {"null", "held", "locking", "delete", "release"} \cup Counting]
      BY <1>1, <1>2 DEF PtrTypeOK, Counting
    <2>2. (\A r \in Shareds : st'[r] # "locking") /\ (\A r \in Weaks : st'[r] # "dec")
      BY <1>3 DEF PtrTypeOK, Ptrs
    <2> QED BY <2>1, <2>2 DEF PtrTypeOK, one_count
  <1>6. PtrCounted' /\ Safe'
    BY <1>4 DEF PtrCounted, Safe, one_count
  <1>7. ReleaseLeft'
    BY <1>2, <1>3, <1>4 DEF ReleaseLeft, one_count, Ptrs
  <1>8. DeleteLeft'
    <2> SUFFICES ASSUME Owners = {}, Observers = {}, freed = 0
                 PROVE  s \in Deleting \/ \E r \in Ptrs \ {p} : st[r] \in Deleting
      BY <1>3, <1>4 DEF DeleteLeft, one_count, PtrTypeOK
    <2>1. shared = 0 /\ weak = 0
      BY Zero
    <2> QED BY <1>1, <2>1 DEF Deleting
  <1>9. DoomedDrops'
    BY <1>3 DEF DoomedDrops, Releasing, one_count, PtrTypeOK, Ptrs
  <1>10. Once'
    <2> SUFFICES ASSUME ~overlap', ~revived' PROVE (OneDrop /\ ReleasedOnce /\ FreedOnce)'
      BY DEF Once
    <2>1. OneDrop /\ ReleasedOnce /\ FreedOnce
      BY DEF Once, one_count
    <2>2. (s = "no_shared" => Owners = {}) /\ (s = "no_weak" => Observers = {})
      BY <1>1, Zero
    <2>3. OneDrop'
      BY <1>3, <1>4, <2>1, <2>2 DEF OneDrop
    <2>4. ReleasedOnce' /\ FreedOnce'
      BY <1>3, <1>4, <2>1 DEF ReleasedOnce, FreedOnce, one_count
    <2> QED BY <2>3, <2>4
  <1> QED BY <1>5, <1>6, <1>7, <1>8, <1>9, <1>10

\* The second read of has_refs.
LEMMA OtherCountStep ==
    ASSUME PtrInv, NEW p \in Ptrs, other_count(p)
    PROVE  PtrInv'
  <1> USE DEF PtrInv
  <1> DEFINE s == IF NoRefs(p) THEN "delete" ELSE "release"
  <1>1. DOMAIN st = Ptrs /\ st[p] \in {"no_shared", "no_weak", "refs"}
    BY DEF other_count, PtrTypeOK
  <1>2. st' = [st EXCEPT ![p] = s] /\ s \in {"delete", "release"}
    BY DEF other_count
  <1>3. st'[p] = s /\ \A r \in Ptrs \ {p} : st'[r] = st[r]
    BY <1>1, <1>2
  <1>4. Owners' = Owners /\ Observers' = Observers
    BY <1>1, <1>2, <1>3 DEF Owners, Observers, Ptrs
  <1>5. Dropping' \subseteq Dropping
    BY <1>1, <1>3 DEF Dropping, Counting
  <1>6. NoRefs(p) => \/ st[p] = "no_shared" /\ Observers = {}
                     \/ st[p] = "no_weak" /\ Owners = {}
    BY Zero DEF NoRefs
  <1>7. PtrTypeOK'
    <2>1. st' \in [Ptrs -> {"null", "held", "locking", "delete", "release"} \cup Counting]
      BY <1>1, <1>2 DEF PtrTypeOK, Counting
    <2>2. (\A r \in Shareds : st'[r] # "locking") /\ (\A r \in Weaks : st'[r] # "dec")
      BY <1>2, <1>3 DEF PtrTypeOK, Ptrs
    <2> QED BY <2>1, <2>2 DEF PtrTypeOK, other_count
  <1>8. PtrCounted' /\ Safe'
    BY <1>4 DEF PtrCounted, Safe, other_count
  <1>9. ReleaseLeft'
    BY <1>1, <1>3, <1>4 DEF ReleaseLeft, other_count, Ptrs
  <1>10. DeleteLeft'
    <2> SUFFICES ASSUME Owners = {}, Observers = {}, freed = 0
                 PROVE  s \in Deleting \/ \E r \in Ptrs \ {p} : st[r] \in Deleting
      BY <1>3, <1>4 DEF DeleteLeft, other_count, PtrTypeOK
    <2>1. shared = 0 /\ weak = 0
      BY Zero
    <2>2. CASE st[p] = "refs"
      BY <2>2 DEF DeleteLeft, Deleting
    <2>3. CASE st[p] # "refs"
      BY <1>1, <2>1, <2>3 DEF NoRefs, Deleting
    <2> QED BY <2>2, <2>3
  <1>11. DoomedDrops'
    BY <1>2, <1>3 DEF DoomedDrops, Releasing, other_count, PtrTypeOK, Ptrs
  <1>12. Once'
    <2> SUFFICES ASSUME ~overlap', ~revived' PROVE (OneDrop /\ ReleasedOnce /\ FreedOnce)'
      BY DEF Once
    <2>1. OneDrop /\ ReleasedOnce /\ FreedOnce /\ freed = 0
      BY DEF Once, other_count, Alive
    <2>2. s = "delete" => Owners = {} /\ Observers = {}
      BY <1>6, <2>1 DEF OneDrop
    <2>3. OneDrop'
      BY <1>2, <1>3, <1>4, <1>5, <2>1, <2>2 DEF OneDrop
    <2>4. ReleasedOnce' /\ FreedOnce'
      BY <1>2, <1>3, <2>1 DEF ReleasedOnce, FreedOnce, other_count
    <2> QED BY <2>3, <2>4
  <1> QED BY <1>7, <1>8, <1>9, <1>10, <1>11, <1>12

\* Nothing points to the counter when it is deleted the first time.
LEMMA DeleteStep ==
    ASSUME PtrInv, NEW p \in Ptrs, delete(p)
    PROVE  PtrInv'
  <1> USE DEF PtrInv
  <1>1. DOMAIN st = Ptrs /\ st[p] = "delete" /\ st' = [st EXCEPT ![p] = "release"]
    BY DEF delete, PtrTypeOK
  <1>2. st'[p] = "release" /\ \A r \in Ptrs \ {p} : st'[r] = st[r]
    BY <1>1
  <1>3. Owners' = Owners /\ Observers' = Observers /\ Dropping' = Dropping \ {p}
    BY <1>1, <1>2 DEF Owners, Observers, Dropping, Counting, Ptrs
  <1>4. PtrTypeOK'
    <2>1. st' \in [Ptrs -> {"null", "held", "locking", "delete", "release"} \cup Counting]
      BY <1>1 DEF PtrTypeOK
    <2>2. (\A r \in Shareds : st'[r] # "locking") /\ (\A r \in Weaks : st'[r] # "dec")
      BY <1>2 DEF PtrTypeOK, Ptrs
    <2> QED BY <2>1, <2>2 DEF PtrTypeOK, delete, Twice
  <1>5. PtrCounted' /\ Safe'
    BY <1>3 DEF PtrCounted, Safe, delete
  <1>6. ReleaseLeft' /\ DeleteLeft'
    BY <1>1, <1>2, <1>3 DEF ReleaseLeft, DeleteLeft, delete, Twice, Ptrs
  <1>7. DoomedDrops'
    BY <1>2 DEF DoomedDrops, Releasing, delete, PtrTypeOK, Ptrs
  <1>8. Once'
    <2> SUFFICES ASSUME ~overlap', ~revived' PROVE (OneDrop /\ ReleasedOnce /\ FreedOnce)'
      BY DEF Once
    <2>1. OneDrop /\ ReleasedOnce /\ FreedOnce
      BY DEF Once, delete
    <2>2. p \in Dropping /\ Owners = {} /\ Observers = {}
      BY <1>1, <2>1 DEF OneDrop, Dropping
    <2>3. freed = 0 /\ Dropping' = {}
      BY <1>3, <2>1, <2>2 DEF OneDrop, FreedOnce, PtrTypeOK
    <2>4. OneDrop' /\ FreedOnce'
      BY <1>2, <1>3, <2>1, <2>2, <2>3 DEF OneDrop, FreedOnce, delete, Twice
    <2>5. ReleasedOnce'
      BY <1>2, <2>1 DEF ReleasedOnce, delete
    <2> QED BY <2>4, <2>5
  <1> QED BY <1>4, <1>5, <1>6, <1>7, <1>8

\* The end of a drop.
LEMMA ReleaseStep ==
    ASSUME PtrInv, NEW p \in Ptrs, release(p)
    PROVE  PtrInv'
  <1> USE DEF PtrInv
  <1>1. DOMAIN st = Ptrs /\ st[p] = "release" /\ st' = [st EXCEPT ![p] = "null"]
    BY DEF release, PtrTypeOK
  <1>2. st'[p] = "null" /\ \A r \in Ptrs \ {p} : st'[r] = st[r]
    BY <1>1
  <1>3. Owners' = Owners /\ Observers' = Observers /\ Dropping' = Dropping
    BY <1>1, <1>2 DEF Owners, Observers, Dropping, Counting, Ptrs
  <1>4. PtrTypeOK'
    <2>1. st' \in [Ptrs -> {"null", "held", "locking", "delete", "release"} \cup Counting]
      BY <1>1 DEF PtrTypeOK
    <2>2. (\A r \in Shareds : st'[r] # "locking") /\ (\A r \in Weaks : st'[r] # "dec")
      BY <1>2 DEF PtrTypeOK, Ptrs
    <2> QED BY <2>1, <2>2 DEF PtrTypeOK, release, Twice
  <1>5. released' = released \/ (p \in doomed /\ released' \in {1, 2})
    BY DEF release, Twice
  <1>6. PtrCounted' /\ Safe'
    BY <1>3, <1>5 DEF PtrCounted, Safe, release
  <1>7. ReleaseLeft'
    <2>1. released' > 0 \/ (released' = released /\ doomed' = doomed)
      BY <1>5 DEF release, Twice
    <2> QED BY <1>1, <1>2, <1>3, <2>1 DEF ReleaseLeft, Ptrs
  <1>8. DeleteLeft'
    BY <1>1, <1>2, <1>3 DEF DeleteLeft, Deleting, release
  <1>9. DoomedDrops'
    BY <1>2 DEF DoomedDrops, release, PtrTypeOK, Ptrs
  <1>10. Once'
    <2> SUFFICES ASSUME ~overlap', ~revived' PROVE (OneDrop /\ ReleasedOnce /\ FreedOnce)'
      BY DEF Once
    <2>1. OneDrop /\ ReleasedOnce /\ FreedOnce
      BY DEF Once, release
    <2>2. OneDrop' /\ FreedOnce'
      BY <1>2, <1>3, <2>1 DEF OneDrop, FreedOnce, release
    <2>3. ReleasedOnce'
      BY <1>2, <2>1 DEF ReleasedOnce, release, Twice, PtrTypeOK
    <2> QED BY <2>2, <2>3
  <1> QED BY <1>4, <1>6, <1>7, <1>8, <1>9, <1>10

\* Nobody is left to use a counter that was deleted once.
LEMMA UseDeletedStep ==
    ASSUME PtrInv, use_deleted
    PROVE  PtrInv'
  <1> USE DEF PtrInv
  <1>1. UNCHANGED <<Owners, Observers, Dropping>>
    BY DEF use_deleted, Owners, Observers, Dropping
  <1>2. PtrTypeOK' /\ PtrCounted' /\ Safe' /\ DoomedDrops' /\ ReleaseLeft' /\ DeleteLeft'
    BY <1>1 DEF use_deleted, PtrTypeOK, PtrCounted, Safe, DoomedDrops, ReleaseLeft, DeleteLeft
  <1>3. freed > 0
    BY DEF use_deleted, Alive, PtrTypeOK
  <1>4. overlap \/ revived
    BY <1>3 DEF Once, FreedOnce, use_deleted, Dropping
  <1> QED BY <1>2, <1>4 DEF use_deleted, Once

-----------------------------------------------------------------------------
LEMMA PtrInvNext == PtrInv /\ [PtrNext]_ptrVars => PtrInv'
  <1> SUFFICES ASSUME PtrInv, [PtrNext]_ptrVars PROVE PtrInv'
    OBVIOUS
  <1>1. ASSUME NEW p \in Shareds, NEW q \in Shareds, copy(p, q) PROVE PtrInv'
    BY <1>1, CopyStep
  <1>2. ASSUME NEW p \in Shareds, NEW w \in Weaks, from_weak(p, w) PROVE PtrInv'
    BY <1>2, FromWeakStep
  <1>3. ASSUME NEW p \in Shareds, dec_shared(p) PROVE PtrInv'
    BY <1>3, DecSharedStep
  <1>4. ASSUME NEW p \in Shareds, load_shared(p) PROVE PtrInv'
    BY <1>4, LoadSharedStep
  <1>5. ASSUME NEW w \in Weaks, NEW q \in Ptrs, observe(w, q) PROVE PtrInv'
    BY <1>5, ObserveStep
  <1>6. ASSUME NEW w \in Weaks, not_expired(w) PROVE PtrInv'
    BY <1>6, NotExpiredStep
  <1>7. ASSUME NEW w \in Weaks, dec_weak(w) PROVE PtrInv'
    BY <1>7, DecWeakStep
  <1>8. ASSUME NEW p \in Ptrs, one_count(p) PROVE PtrInv'
    BY <1>8, OneCountStep
  <1>9. ASSUME NEW p \in Ptrs, other_count(p) PROVE PtrInv'
    BY <1>9, OtherCountStep
  <1>10. ASSUME NEW p \in Ptrs, delete(p) PROVE PtrInv'
    BY <1>10, DeleteStep
  <1>11. ASSUME NEW p \in Ptrs, release(p) PROVE PtrInv'
    BY <1>11, ReleaseStep
  <1>12. CASE use_deleted
    BY <1>12, UseDeletedStep
  <1>13. CASE UNCHANGED ptrVars
    <2>1. UNCHANGED <<Owners, Observers, Dropping>>
      BY <1>13 DEF ptrVars, Owners, Observers, Dropping
    <2> QED
      BY <1>13, <2>1 DEF ptrVars, PtrInv, PtrTypeOK, PtrCounted, Safe, DoomedDrops, ReleaseLeft,
         DeleteLeft, Once, OneDrop, ReleasedOnce, FreedOnce
  <1> QED
    BY <1>1, <1>2, <1>3, <1>4, <1>5, <1>6, <1>7, <1>8, <1>9, <1>10, <1>11, <1>12, <1>13
    DEF PtrNext

\* However many pointers are copied, made of WeakPtrs and dropped in whatever
\* order: the object is not released while a SharedPtr of it is held, unless one
\* was made of a WeakPtr that came too late.
THEOREM HeldIsAliveAlways == PtrSpec => []HeldIsAlive
  <1>1. PtrInv => HeldIsAlive
    BY DEF PtrInv, PtrCounted, Safe, HeldIsAlive
  <1> QED BY PtrInvInit, PtrInvNext, <1>1, PTL DEF PtrSpec

\* Without two drops at the same time, as in a program with one thread, the object
\* is released once, and the counter deleted once and not used afterwards.
THEOREM DeletedOnceAlways == PtrSpec => []DeletedOnce
  <1>1. PtrInv => DeletedOnce
    BY DEF PtrInv, Once, ReleasedOnce, FreedOnce, DeletedOnce, PtrTypeOK
  <1> QED BY PtrInvInit, PtrInvNext, <1>1, PTL DEF PtrSpec

\* When no pointer is left, nothing is left of the object and its counter.
THEOREM NothingLeaksAlways == PtrSpec => []NothingLeaks
  <1>1. ASSUME PtrInv, \A p \in Ptrs : st[p] = "null"
        PROVE  released > 0 /\ freed > 0
    <2>1. Owners = {} /\ Observers = {}
      BY <1>1 DEF Owners, Observers, Ptrs
    <2>2. doomed = {}
      BY <1>1 DEF PtrInv, DoomedDrops, Releasing, PtrTypeOK, Ptrs
    <2> QED BY <1>1, <2>1, <2>2 DEF PtrInv, ReleaseLeft, DeleteLeft, Deleting, Ptrs
  <1>2. PtrInv => NothingLeaks
    BY <1>1 DEF NothingLeaks
  <1> QED BY PtrInvInit, PtrInvNext, <1>2, PTL DEF PtrSpec
=============================================================================
