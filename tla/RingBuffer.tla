----------------------------- MODULE RingBuffer -----------------------------
(***************************************************************************)
(* LightInk::RingBuffer (src/src/Common/Memory/RingBuffer.cpp), the buffer *)
(* in which a link keeps the bytes its socket would not take.  The data    *)
(* lies in segment A, from m_readIndexA to m_writeIndexA, and, once A has  *)
(* reached the end of the memory, in segment B, from 0 to m_writeIndexB.   *)
(* The variable `call` is the last call with its arguments, `ret` what it  *)
(* returned and `out` what it copied to the caller.                        *)
(***************************************************************************)
EXTENDS Integers, Sequences

CONSTANTS Size,    \* m_size
          Byte,    \* the values of a char
          AsChar,  \* what a length becomes when it is converted to a char
          MaxArg   \* bound on the length, size or offset a caller passes

ASSUME RingAssumption == Size \in Nat /\ MaxArg \in Nat /\ Byte # {}
ASSUME CharAssumption == AsChar \in [0..Size -> Byte]

VARIABLES buf,     \* m_buffer
          readA,   \* m_readIndexA
          writeA,  \* m_writeIndexA
          writeB,  \* m_writeIndexB
          call, ret, out

indices == <<readA, writeA, writeB>>
vars == <<buf, readA, writeA, writeB, call, ret, out>>

Least(a, b) == IF a <= b THEN a ELSE b

Request == UNION {[1..n -> Byte] : n \in 0..MaxArg}

get_data_size == writeA - readA + writeB
get_free_size == Size - writeA + readA - writeB
is_full == writeA >= Size /\ writeB = readA
is_empty == readA = writeA

\* operator[]: the place in memory of byte i of the data.
Place(i) == IF readA + i >= Size THEN readA + i - Size ELSE readA + i

\* The n bytes of memory from place p on, as a sequence.
Bytes(p, n) == [i \in 1..n |-> buf[p + i - 1]]

-----------------------------------------------------------------------------
\* malloc leaves the memory with arbitrary contents.
Init ==
    /\ buf \in [0..(Size - 1) -> Byte]
    /\ readA = 0 /\ writeA = 0 /\ writeB = 0
    /\ call = <<>> /\ ret = 0 /\ out = <<>>

\* A fault to check SegmentsOK and TypeOK against: Split that gives B the rest
\* of the memory and does not stop at segment A.
SplitOverA(size) ==
    IF writeA >= Size THEN [a |-> 0, b |-> Least(size, Size)]
    ELSE [a |-> Least(size, Size - writeA), b |-> 0]

\* How set_data and insert divide size bytes between the room behind A and
\* the room behind B; what neither has room for is not taken.
Split(size) ==
    IF size = 0 \/ is_full THEN [a |-> 0, b |-> 0]
    ELSE IF writeA >= Size                                  \* have B
    THEN [a |-> 0, b |-> Least(size, readA - writeB)]
    ELSE IF size <= Size - writeA
    THEN [a |-> size, b |-> 0]
    ELSE [a |-> Size - writeA, b |-> Least(size - (Size - writeA), readA)]

Advance(n) ==
    /\ writeA' = writeA + n.a
    /\ writeB' = writeB + n.b
    /\ ret' = n.a + n.b
    /\ out' = <<>>
    /\ UNCHANGED readA

\* A fault to check ImplementsFifo against: the second memcpy starts at src
\* again, not where the first one stopped.
StoreTwice(src, n) ==
    buf' = [k \in 0..(Size - 1) |->
              IF k \in writeA .. (writeA + n.a - 1) THEN src[k - writeA + 1]
              ELSE IF k \in writeB .. (writeB + n.b - 1) THEN src[k - writeB + 1]
              ELSE buf[k]]

\* The two memcpy calls of set_data.
Store(src, n) ==
    buf' = [k \in 0..(Size - 1) |->
              IF k \in writeA .. (writeA + n.a - 1) THEN src[k - writeA + 1]
              ELSE IF k \in writeB .. (writeB + n.b - 1) THEN src[n.a + k - writeB + 1]
              ELSE buf[k]]

set_data(src) == Store(src, Split(Len(src))) /\ Advance(Split(Len(src)))

insert(size) == Advance(Split(size)) /\ UNCHANGED buf

\* The block a caller may write into before it calls insert: its place and
\* its length, 0 when there is none.
get_free_block ==
    IF writeA >= Size                                       \* A full
    THEN IF writeB >= readA THEN [p |-> 0, size |-> 0]      \* B full
         ELSE [p |-> writeB, size |-> readA - writeB]
    ELSE [p |-> writeA, size |-> Size - writeA]

\* A caller that receives src straight into the free block and then says how
\* many bytes it wrote.
receive(src) ==
    LET free == get_free_block IN
    /\ Len(src) <= free.size
    /\ buf' = [k \in 0..(Size - 1) |->
                 IF k \in free.p .. (free.p + Len(src) - 1)
                 THEN src[k - free.p + 1] ELSE buf[k]]
    /\ Advance(Split(Len(src)))

-----------------------------------------------------------------------------
remove(size) ==
    /\ out' = <<>>
    /\ UNCHANGED buf
    /\ \/ /\ size = 0 \/ is_empty
          /\ ret' = 0
          /\ UNCHANGED indices
       \/ /\ size > 0 /\ ~is_empty
          /\ writeA < Size                                  \* only A
          /\ ret' = Least(size, writeA - readA)
          /\ readA' = readA + Least(size, writeA - readA)
          /\ UNCHANGED <<writeA, writeB>>
       \/ /\ size > 0 /\ ~is_empty
          /\ writeA >= Size /\ size < Size - readA          \* stays in A
          /\ ret' = size
          /\ readA' = readA + size
          /\ UNCHANGED <<writeA, writeB>>
       \/ /\ size > 0 /\ ~is_empty
          /\ writeA >= Size /\ size >= Size - readA         \* B becomes A
          /\ LET n == Least(size - (Size - readA), writeB) IN
               /\ ret' = Size - readA + n
               /\ readA' = n
          /\ writeA' = writeB
          /\ writeB' = 0

clear ==
    /\ readA' = 0 /\ writeA' = 0 /\ writeB' = 0
    /\ ret' = 0 /\ out' = <<>>
    /\ UNCHANGED buf

get_data ==
    \/ /\ is_empty
       /\ ret' = 0 /\ out' = <<>>
       /\ UNCHANGED <<buf, readA, writeA, writeB>>
    \/ /\ ~is_empty
       /\ LET a == (IF writeA < Size THEN writeA ELSE Size) - readA
              b == IF writeA < Size THEN 0 ELSE writeB IN
            /\ out' = Bytes(readA, a) \o Bytes(0, b)
            /\ ret' = a + b
       /\ readA' = 0 /\ writeA' = 0 /\ writeB' = 0
       /\ UNCHANGED buf

\* What get_data_block(char *, start, size) copies: two pieces of memory.
Pieces(start, size) ==
    LET index == readA + start IN
    IF size = 0 \/ is_empty THEN <<>>
    ELSE IF writeA < Size                                   \* only A
    THEN IF index >= writeA THEN <<>>
         ELSE Bytes(index, Least(size, writeA - index))
    ELSE IF index >= Size                                   \* start from B
    THEN IF index - Size >= writeB THEN <<>>
         ELSE Bytes(index - Size, Least(size, writeB - (index - Size)))
    ELSE IF size <= Size - index
    THEN Bytes(index, size)
    ELSE Bytes(index, Size - index)
           \o Bytes(0, Least(size - (Size - index), writeB))

get_data_block(start, size) ==
    /\ out' = Pieces(start, size)
    /\ ret' = Len(Pieces(start, size))
    /\ UNCHANGED <<buf, readA, writeA, writeB>>

\* The read goes on from the end of segment A to segment B.
Crosses(start, size) ==
    /\ size > 0 /\ ~is_empty
    /\ writeA >= Size
    /\ readA + start < Size /\ size > Size - (readA + start)

\* What get_data_block(string &, start, size) appends.  Between the pieces of A
\* and B the char overload moves its pointer on by the length of the first; the
\* same words (RingBuffer.cpp:156) append that length to the string, as a char.
StringPieces(start, size) ==
    LET a == Size - (readA + start) IN
    IF Crosses(start, size)
    THEN Bytes(readA + start, a) \o <<AsChar[a]>> \o Bytes(0, Least(size - a, writeB))
    ELSE Pieces(start, size)

\* The string overload; the char it adds is not counted.
get_data_block_string(start, size) ==
    /\ out' = StringPieces(start, size)
    /\ ret' = Len(Pieces(start, size))
    /\ UNCHANGED <<buf, readA, writeA, writeB>>

\* get_ab_data: the addresses and lengths of both segments, read by the caller.
get_ab_data ==
    /\ out' = Bytes(readA, writeA - readA) \o Bytes(0, writeB)
    /\ ret' = writeA - readA + writeB
    /\ UNCHANGED <<buf, readA, writeA, writeB>>

Next ==
    \/ \E src \in Request : set_data(src) /\ call' = <<"put", src>>
    \/ \E src \in Request : receive(src) /\ call' = <<"put", src>>
    \/ \E size \in 0..MaxArg : insert(size) /\ call' = <<"grow", size>>
    \/ \E size \in 0..MaxArg : remove(size) /\ call' = <<"drop", size>>
    \/ \E start, size \in 0..MaxArg :
          get_data_block(start, size) /\ call' = <<"peek", start, size>>
    \/ \E start, size \in 0..MaxArg :
          get_data_block_string(start, size) /\ call' = <<"append", start, size>>
    \/ get_data /\ call' = <<"take">>
    \/ get_ab_data /\ call' = <<"look">>
    \/ clear /\ call' = <<"clear">>

Spec == Init /\ [][Next]_vars

-----------------------------------------------------------------------------
TypeOK ==
    /\ buf \in [0..(Size - 1) -> Byte]
    /\ readA \in 0..Size /\ writeA \in 0..Size /\ writeB \in 0..Size
    /\ ret \in Nat
    /\ out \in Seq(Byte)

\* Segment A lies behind segment B, B is used only once A has reached the end
\* of the memory, and A is then not exhausted: what every call needs for its
\* unsigned subtractions not to wrap and its copies not to leave the memory or
\* the data (RingBuffer.cpp:241-367, RingBuffer.h:69-74).
SegmentsOK ==
    /\ readA <= writeA
    /\ writeB <= readA
    /\ writeA < Size => writeB = 0
    /\ writeA = Size /\ Size > 0 => readA < Size

\* The bytes the buffer holds, oldest first, as operator[] numbers them.
Contents == [i \in 1..get_data_size |-> buf[Place(i - 1)]]

\* The ring buffer implements the byte queue: for every sequence of calls, what
\* was written comes out once, in order, whatever the wrap from A to B did, and
\* each call returns the count it promises (RingBuffer.cpp:82-377).  Of the string
\* overload of get_data_block the queue promises less, since it does not append what
\* the char overload copies (RingBuffer.cpp:156): its count is right and it appends
\* the bytes asked for, in order, but one more may stand among them.
Fifo == INSTANCE ByteFifo WITH fifo <- Contents
ImplementsFifo == Fifo!Spec
=============================================================================
