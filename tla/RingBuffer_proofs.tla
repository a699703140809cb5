------------------------- MODULE RingBuffer_proofs -------------------------
(***************************************************************************)
(* Proofs about RingBuffer, for every memory size, every set of byte       *)
(* values and every bound on the arguments: its indices are safe, and it   *)
(* implements ByteFifo.                                                    *)
(***************************************************************************)
EXTENDS RingBuffer, SequenceTheorems, TLAPS

Inv == TypeOK /\ SegmentsOK

-----------------------------------------------------------------------------
(* The arithmetic of the indices.                                          *)

\* The byte counts the header computes are natural numbers: no subtraction of
\* RingBuffer.h:69-70 wraps.
LEMMA SizesAreNat ==
    ASSUME Inv
    PROVE  /\ get_data_size \in 0..Size
           /\ get_free_size = Size - get_data_size
           /\ is_full <=> get_data_size = Size
           /\ is_empty <=> get_data_size = 0
  BY RingAssumption DEF Inv, TypeOK, SegmentsOK, get_data_size, get_free_size, is_full, is_empty

\* A call takes as many bytes as there is room for, fills A before it starts B
\* and stays within both.
LEMMA SplitBounds ==
    ASSUME Inv, NEW size \in Nat
    PROVE  /\ Split(size) = [a |-> Split(size).a, b |-> Split(size).b]
           /\ Split(size).a \in 0..(Size - writeA)
           /\ Split(size).b \in 0..(readA - writeB)
           /\ Split(size).a + Split(size).b = Least(size, Size - get_data_size)
           /\ Split(size).b > 0 => Split(size).a = Size - writeA
  <1> USE RingAssumption DEF Inv, TypeOK, SegmentsOK, get_data_size, Least, is_full
  <1>1. CASE size = 0 \/ is_full
    BY <1>1 DEF Split
  <1>2. CASE ~(size = 0 \/ is_full) /\ writeA >= Size
    BY <1>2 DEF Split
  <1>3. CASE ~(size = 0 \/ is_full) /\ writeA < Size /\ size <= Size - writeA
    BY <1>3 DEF Split
  <1>4. CASE ~(size = 0 \/ is_full) /\ writeA < Size /\ size > Size - writeA
    BY <1>4 DEF Split
  <1> QED BY <1>1, <1>2, <1>3, <1>4

\* A call that takes Split(size) bytes, and no more, keeps the segments sound.
LEMMA AdvanceSafe ==
    ASSUME Inv, NEW size \in Nat, Advance(Split(size))
    PROVE  /\ readA' \in 0..Size /\ writeA' \in 0..Size /\ writeB' \in 0..Size
           /\ ret' \in Nat /\ out' \in Seq(Byte)
           /\ SegmentsOK'
  <1> DEFINE a == Split(size).a  b == Split(size).b
  <1>1. /\ a \in 0..(Size - writeA) /\ b \in 0..(readA - writeB)
        /\ b > 0 => a = Size - writeA
    BY SplitBounds
  <1>2. writeA' = writeA + a /\ writeB' = writeB + b /\ ret' = a + b /\ readA' = readA /\ out' = <<>>
    BY DEF Advance
  <1> HIDE DEF a, b
  <1>3. out' \in Seq(Byte)
    BY <1>2
  <1>4. SegmentsOK'
    BY <1>1, <1>2, RingAssumption DEF Inv, TypeOK, SegmentsOK
  <1> QED BY <1>1, <1>2, <1>3, <1>4, RingAssumption DEF Inv, TypeOK, SegmentsOK

-----------------------------------------------------------------------------
(* Every call keeps the types and the segments.                            *)

\* A piece of memory is a sequence of bytes.
LEMMA BytesSeq ==
    ASSUME Inv, NEW p \in Nat, NEW n \in Nat, p + n <= Size
    PROVE  /\ Bytes(p, n) \in Seq(Byte)
           /\ Len(Bytes(p, n)) = n
           /\ \A i \in 1..n : Bytes(p, n)[i] = buf[p + i - 1]
  <1>1. \A i \in 1..n : buf[p + i - 1] \in Byte
    BY RingAssumption DEF Inv, TypeOK
  <1> QED BY <1>1 DEF Bytes

\* What a caller passes is a sequence of bytes.
LEMMA RequestSeq ==
    ASSUME NEW src \in Request
    PROVE  src \in Seq(Byte) /\ Len(src) \in Nat /\ Len(src) <= MaxArg
           /\ \A i \in 1..Len(src) : src[i] \in Byte
  <1>1. PICK n \in 0..MaxArg : src \in [1..n -> Byte]
    BY DEF Request
  <1>2. Len(src) = n /\ src \in Seq(Byte)
    BY <1>1, RingAssumption
  <1> QED BY <1>1, <1>2, RingAssumption

\* The pieces of get_data_block are part of the data, in order.
LEMMA PiecesBounds ==
    ASSUME Inv, NEW start \in Nat, NEW size \in Nat
    PROVE  /\ Pieces(start, size) \in Seq(Byte)
           /\ Len(Pieces(start, size)) =
                IF start >= get_data_size THEN 0
                ELSE Least(size, get_data_size - start)
           /\ \A i \in 1..Len(Pieces(start, size)) :
                Pieces(start, size)[i] = buf[Place(start + i - 1)]
  <1> DEFINE index == readA + start
             tail == Least(size - (Size - index), writeB)
  <1> USE RingAssumption
  <1>0. /\ readA \in 0..Size /\ writeA \in 0..Size /\ writeB \in 0..Size
        /\ SegmentsOK /\ Size \in Nat
        /\ index = readA + start /\ index \in Nat
    BY DEF Inv, TypeOK
  <1> HIDE DEF index
  <1>1. CASE size = 0 \/ is_empty
    <2>1. Pieces(start, size) = <<>>
      BY <1>1 DEF Pieces
    <2> QED BY <2>1, <1>1, SizesAreNat DEF Least
  <1>2. CASE ~(size = 0 \/ is_empty) /\ writeA < Size
    <2>1. get_data_size = writeA - readA
      BY <1>0, <1>2 DEF SegmentsOK, get_data_size
    <2>2. CASE index >= writeA
      <3>1. Pieces(start, size) = <<>>
        BY <1>0, <1>2, <2>2 DEF Pieces
      <3> QED BY <3>1, <2>1, <2>2, <1>0
    <2>3. CASE index < writeA
      <3> DEFINE n == Least(size, writeA - index)
      <3>1. Pieces(start, size) = Bytes(index, n)
        BY <1>0, <1>2, <2>3 DEF Pieces
      <3>2. n \in Nat /\ index + n <= writeA
        BY <1>0, <2>3 DEF Least
      <3>3. \A i \in 1..n : Place(start + i - 1) = index + i - 1
        BY <1>0, <3>2, <1>2 DEF Place
      <3> HIDE DEF n
      <3>4. /\ Bytes(index, n) \in Seq(Byte) /\ Len(Bytes(index, n)) = n
            /\ \A i \in 1..n : Bytes(index, n)[i] = buf[index + i - 1]
        BY <1>0, <3>2, BytesSeq
      <3>5. n = IF start >= get_data_size THEN 0 ELSE Least(size, get_data_size - start)
        BY <1>0, <2>1, <2>3 DEF n, Least
      <3> QED BY <3>1, <3>3, <3>4, <3>5
    <2> QED BY <2>2, <2>3, <1>0
  <1>3. CASE ~(size = 0 \/ is_empty) /\ writeA >= Size /\ index >= Size
    <2>1. get_data_size = Size - readA + writeB
      BY <1>0, <1>3 DEF get_data_size
    <2>2. CASE index - Size >= writeB
      <3>1. Pieces(start, size) = <<>>
        BY <1>0, <1>3, <2>2 DEF Pieces
      <3> QED BY <3>1, <2>1, <2>2, <1>0
    <2>3. CASE index - Size < writeB
      <3> DEFINE p == index - Size
                 n == Least(size, writeB - p)
      <3>1. Pieces(start, size) = Bytes(p, n)
        BY <1>0, <1>3, <2>3 DEF Pieces
      <3>2. p \in Nat /\ n \in Nat /\ p + n <= writeB
        BY <1>0, <2>3, <1>3 DEF Least
      <3>3. \A i \in 1..n : Place(start + i - 1) = p + i - 1
        BY <1>0, <3>2, <1>3 DEF Place
      <3> HIDE DEF n, p
      <3>4. /\ Bytes(p, n) \in Seq(Byte) /\ Len(Bytes(p, n)) = n
            /\ \A i \in 1..n : Bytes(p, n)[i] = buf[p + i - 1]
        <4>1. p + n <= Size
          BY <1>0, <3>2
        <4> QED BY <4>1, <3>2, BytesSeq
      <3>5. n = IF start >= get_data_size THEN 0 ELSE Least(size, get_data_size - start)
        BY <1>0, <2>1, <2>3, <1>3 DEF n, p, Least
      <3> QED BY <3>1, <3>3, <3>4, <3>5
    <2> QED BY <2>2, <2>3, <1>0
  <1>4. CASE ~(size = 0 \/ is_empty) /\ writeA >= Size /\ index < Size /\ size <= Size - index
    <2>1. get_data_size = Size - readA + writeB
      BY <1>0, <1>4 DEF get_data_size
    <2>2. Pieces(start, size) = Bytes(index, size)
      BY <1>0, <1>4 DEF Pieces
    <2>3. /\ Bytes(index, size) \in Seq(Byte) /\ Len(Bytes(index, size)) = size
          /\ \A i \in 1..size : Bytes(index, size)[i] = buf[index + i - 1]
      BY <1>0, <1>4, BytesSeq
    <2>4. \A i \in 1..size : Place(start + i - 1) = index + i - 1
      BY <1>0, <1>4 DEF Place
    <2>5. size = IF start >= get_data_size THEN 0 ELSE Least(size, get_data_size - start)
      BY <1>0, <2>1, <1>4 DEF Least
    <2> QED BY <2>2, <2>3, <2>4, <2>5
  <1>5. CASE ~(size = 0 \/ is_empty) /\ writeA >= Size /\ index < Size /\ size > Size - index
    <2> DEFINE n == Size - index
    <2>1. get_data_size = Size - readA + writeB
      BY <1>0, <1>5 DEF get_data_size
    <2>2. Pieces(start, size) = Bytes(index, n) \o Bytes(0, tail)
      BY <1>0, <1>5 DEF Pieces
    <2>3. n \in Nat /\ tail \in Nat /\ tail <= writeB /\ index + n = Size
      BY <1>0, <1>5 DEF Least
    <2>4. n + tail = IF start >= get_data_size THEN 0 ELSE Least(size, get_data_size - start)
      BY <1>0, <2>1, <1>5 DEF Least
    <2>5. \A i \in 1..(n + tail) :
            Place(start + i - 1) = IF i <= n THEN index + i - 1 ELSE i - n - 1
      BY <1>0, <2>3, <1>5 DEF Place
    <2> HIDE DEF n, tail
    <2>6. /\ Bytes(index, n) \in Seq(Byte) /\ Len(Bytes(index, n)) = n
          /\ \A i \in 1..n : Bytes(index, n)[i] = buf[index + i - 1]
      BY <1>0, <2>3, BytesSeq
    <2>7. /\ Bytes(0, tail) \in Seq(Byte) /\ Len(Bytes(0, tail)) = tail
          /\ \A i \in 1..tail : Bytes(0, tail)[i] = buf[0 + i - 1]
      BY <1>0, <2>3, BytesSeq
    <2> DEFINE u == Bytes(index, n)  v == Bytes(0, tail)  p == Pieces(start, size)
    <2>8. /\ u \in Seq(Byte) /\ Len(u) = n /\ v \in Seq(Byte) /\ Len(v) = tail
          /\ p = u \o v
          /\ \A i \in 1..n : u[i] = buf[index + i - 1]
          /\ \A i \in 1..tail : v[i] = buf[i - 1]
      BY <2>2, <2>6, <2>7
    <2> HIDE DEF u, v, p
    <2>9. /\ p \in Seq(Byte) /\ Len(p) = n + tail
          /\ \A i \in 1..(n + tail) : p[i] = IF i <= n THEN u[i] ELSE v[i - n]
      <3>1. u \in Seq(Byte) /\ v \in Seq(Byte) /\ Len(u) = n /\ Len(v) = tail
        BY <2>8
      <3>2. /\ u \o v \in Seq(Byte) /\ Len(u \o v) = n + tail
            /\ \A i \in 1..(n + tail) : (u \o v)[i] = IF i <= n THEN u[i] ELSE v[i - n]
        BY <3>1, ConcatProperties
      <3> QED BY <3>2, <2>8
    <2>10. ASSUME NEW i \in 1..(n + tail)
           PROVE  p[i] = buf[Place(start + i - 1)]
      <3>1. CASE i <= n
        BY <3>1, <2>3, <2>5, <2>8, <2>9
      <3>2. CASE i > n
        <4>1. i - n \in 1..tail
          BY <3>2, <2>3
        <4>2. p[i] = buf[(i - n) - 1]
          BY <3>2, <4>1, <2>3, <2>8, <2>9
        <4> QED BY <3>2, <4>2, <2>3, <2>5
      <3> QED BY <3>1, <3>2, <2>3
    <2> QED BY <2>4, <2>9, <2>10 DEF p
  <1> QED BY <1>0, <1>1, <1>2, <1>3, <1>4, <1>5

\* A read that crosses copies the rest of A and the beginning of B.
LEMMA PiecesCrossing ==
    ASSUME Inv, NEW start \in Nat, NEW size \in Nat, Crosses(start, size)
    PROVE  LET a == Size - (readA + start)
               b == Least(size - a, writeB)
               u == Bytes(readA + start, a)
               v == Bytes(0, b)
           IN /\ a \in 1..Size
              /\ u \in Seq(Byte) /\ Len(u) = a
              /\ v \in Seq(Byte) /\ AsChar[a] \in Byte
              /\ Pieces(start, size) = u \o v
              /\ StringPieces(start, size) = u \o <<AsChar[a]>> \o v
  <1> DEFINE index == readA + start  a == Size - index  b == Least(size - a, writeB)
  <1>1. /\ readA \in 0..Size /\ writeB \in 0..Size /\ Size \in Nat /\ index \in Nat
        /\ size > 0 /\ ~is_empty /\ ~(writeA < Size) /\ index < Size /\ size > a
    BY RingAssumption DEF Crosses, Inv, TypeOK
  <1>2. a \in 1..Size /\ index + a = Size /\ b \in Nat /\ b <= writeB
    BY <1>1 DEF Least
  <1>3. Pieces(start, size) = Bytes(index, a) \o Bytes(0, b)
    BY <1>1 DEF Pieces
  <1>4. StringPieces(start, size) = Bytes(index, a) \o <<AsChar[a]>> \o Bytes(0, b)
    BY DEF StringPieces
  <1>5. Bytes(index, a) \in Seq(Byte) /\ Len(Bytes(index, a)) = a
    <2>1. index \in Nat /\ a \in Nat /\ index + a <= Size
      BY <1>1, <1>2
    <2> HIDE DEF index, a
    <2> QED BY <2>1, BytesSeq
  <1>6. Bytes(0, b) \in Seq(Byte)
    <2>1. b \in Nat /\ 0 + b <= Size
      BY <1>1, <1>2
    <2> HIDE DEF b
    <2> QED BY <2>1, BytesSeq
  <1>7. AsChar[a] \in Byte
    BY <1>2, CharAssumption
  <1> QED BY <1>2, <1>3, <1>4, <1>5, <1>6, <1>7

\* The string overload appends bytes.
LEMMA StringPiecesSeq ==
    ASSUME Inv, NEW start \in Nat, NEW size \in Nat
    PROVE  StringPieces(start, size) \in Seq(Byte)
  <1>1. CASE Crosses(start, size)
    <2>1. PICK u \in Seq(Byte), v \in Seq(Byte), c \in Byte :
            StringPieces(start, size) = u \o <<c>> \o v
      BY <1>1, PiecesCrossing
    <2>2. <<c>> \in Seq(Byte)
      OBVIOUS
    <2> QED BY <2>1, <2>2, ConcatProperties
  <1>2. CASE ~Crosses(start, size)
    BY <1>2, PiecesBounds DEF StringPieces
  <1> QED BY <1>1, <1>2

\* The data is a sequence of bytes, at most Size of them.
LEMMA ContentsSeq ==
    ASSUME Inv
    PROVE  /\ Contents \in Seq(Byte)
           /\ Len(Contents) = get_data_size
           /\ \A i \in 1..get_data_size : Contents[i] = buf[Place(i - 1)]
  <1>1. get_data_size \in Nat
    BY SizesAreNat, RingAssumption
  <1>2. \A i \in 1..get_data_size : buf[Place(i - 1)] \in Byte
    BY RingAssumption DEF Inv, TypeOK, SegmentsOK, get_data_size, Place
  <1> QED BY <1>1, <1>2 DEF Contents

\* The two segments, one after the other, are the data.
LEMMA SegmentsAreContents ==
    ASSUME Inv
    PROVE  Bytes(readA, writeA - readA) \o Bytes(0, writeB) = Contents
  <1> DEFINE n == writeA - readA
             u == Bytes(readA, n)  v == Bytes(0, writeB)
  <1>1. /\ readA \in Nat /\ n \in Nat /\ writeB \in Nat /\ get_data_size = n + writeB
        /\ readA + n <= Size /\ 0 + writeB <= Size
    BY RingAssumption DEF Inv, TypeOK, SegmentsOK, get_data_size
  <1>2. \A i \in 1..(n + writeB) : Place(i - 1) = IF i <= n THEN readA + i - 1 ELSE i - n - 1
    BY RingAssumption DEF Inv, TypeOK, SegmentsOK, Place
  <1> HIDE DEF n
  <1>3. u \in Seq(Byte) /\ Len(u) = n /\ \A i \in 1..n : u[i] = buf[readA + i - 1]
    BY <1>1, BytesSeq
  <1>4. v \in Seq(Byte) /\ Len(v) = writeB /\ \A i \in 1..writeB : v[i] = buf[0 + i - 1]
    BY <1>1, BytesSeq
  <1> HIDE DEF u, v
  <1>5. u \in Seq(Byte) /\ v \in Seq(Byte) /\ Len(u) = n /\ Len(v) = writeB
    BY <1>3, <1>4
  <1>6. /\ u \o v \in Seq(Byte) /\ Len(u \o v) = n + writeB
        /\ \A i \in 1..(n + writeB) : (u \o v)[i] = IF i <= n THEN u[i] ELSE v[i - n]
    BY <1>5, ConcatProperties
  <1>7. ASSUME NEW i \in 1..(n + writeB)
        PROVE  (u \o v)[i] = Contents[i]
    <2>0. i <= n \/ i > n
      BY <1>1
    <2>1. CASE i <= n
      <3>1. i \in 1..n /\ Place(i - 1) = readA + i - 1
        BY <2>1, <1>1, <1>2
      <3>2. (u \o v)[i] = buf[readA + i - 1]
        BY <2>1, <3>1, <1>3, <1>6
      <3>3. Contents[i] = buf[Place(i - 1)]
        BY <1>1, ContentsSeq
      <3> QED BY <3>1, <3>2, <3>3
    <2>2. CASE i > n
      <3>1. i - n \in 1..writeB
        BY <2>2, <1>1
      <3>2. (u \o v)[i] = buf[0 + (i - n) - 1]
        BY <2>2, <3>1, <1>1, <1>4, <1>6
      <3>3. Contents[i] = buf[i - n - 1]
        BY <2>2, <1>1, <1>2, ContentsSeq
      <3> QED BY <3>1, <3>2, <3>3, <1>1
    <2> QED BY <2>0, <2>1, <2>2
  <1>8. Contents \in Seq(Byte) /\ Len(Contents) = n + writeB
    BY <1>1, ContentsSeq
  <1>9. u \o v = Contents
    BY <1>6, <1>7, <1>8, SeqEqual
  <1> QED BY <1>9 DEF u, v, n

\* The constructor establishes the invariant.
LEMMA InitInv == Init => Inv
  BY RingAssumption DEF Init, Inv, TypeOK, SegmentsOK

\* The two memcpy calls leave a memory of Size bytes.
LEMMA StoreType ==
    ASSUME Inv, NEW src \in Request, Store(src, Split(Len(src)))
    PROVE  buf' \in [0..(Size - 1) -> Byte]
  <1> DEFINE a == Split(Len(src)).a  b == Split(Len(src)).b
  <1>1. /\ a \in Nat /\ b \in Nat /\ a + b <= Len(src)
        /\ readA \in Nat /\ writeA \in Nat /\ writeB \in Nat /\ Len(src) \in Nat
    <2>1. /\ readA \in 0..Size /\ writeA \in 0..Size /\ writeB \in 0..Size /\ Size \in Nat
          /\ writeB <= readA /\ Len(src) \in Nat
      BY RequestSeq, RingAssumption DEF Inv, TypeOK, SegmentsOK
    <2>2. /\ a \in 0..(Size - writeA) /\ b \in 0..(readA - writeB)
          /\ a + b = Least(Len(src), Size - get_data_size)
      BY <2>1, SplitBounds
    <2>3. get_data_size \in 0..Size
      BY SizesAreNat
    <2> HIDE DEF a, b
    <2> QED BY <2>1, <2>2, <2>3 DEF Least
  <1>2. buf' = [k \in 0..(Size - 1) |->
                  IF k \in writeA .. (writeA + a - 1) THEN src[k - writeA + 1]
                  ELSE IF k \in writeB .. (writeB + b - 1) THEN src[a + k - writeB + 1]
                  ELSE buf[k]]
    BY DEF Store
  <1> HIDE DEF a, b
  <1>3. \A i \in 1..Len(src) : src[i] \in Byte
    BY RequestSeq
  <1>4. ASSUME NEW k \in 0..(Size - 1)
        PROVE  buf'[k] \in Byte
    <2>1. CASE k \in writeA .. (writeA + a - 1)
      <3>1. k - writeA + 1 \in 1..Len(src)
        BY <2>1, <1>1, RingAssumption
      <3> QED BY <2>1, <3>1, <1>2, <1>3
    <2>2. CASE k \notin writeA .. (writeA + a - 1) /\ k \in writeB .. (writeB + b - 1)
      <3>1. a + k - writeB + 1 \in 1..Len(src)
        BY <2>2, <1>1, RingAssumption
      <3> QED BY <2>2, <3>1, <1>2, <1>3
    <2>3. CASE k \notin writeA .. (writeA + a - 1) /\ k \notin writeB .. (writeB + b - 1)
      BY <2>3, <1>2 DEF Inv, TypeOK
    <2> QED BY <2>1, <2>2, <2>3
  <1> QED BY <1>2, <1>4

\* Every call preserves the invariant: one step per operation.
LEMMA StepInv == Inv /\ [Next]_vars => Inv'
  <1> SUFFICES ASSUME Inv, [Next]_vars PROVE Inv'
    OBVIOUS
  <1> USE RingAssumption
  <1>1. ASSUME NEW src \in Request, set_data(src) PROVE Inv'
    <2>1. buf' \in [0..(Size - 1) -> Byte]
      BY <1>1, StoreType DEF set_data
    <2>2. Len(src) \in Nat /\ Advance(Split(Len(src)))
      BY <1>1, RequestSeq DEF set_data
    <2> QED BY <2>1, <2>2, AdvanceSafe DEF Inv, TypeOK
  <1>2. ASSUME NEW src \in Request, receive(src) PROVE Inv'
    <2> DEFINE p == get_free_block.p
    <2>1. buf' = [k \in 0..(Size - 1) |->
                    IF k \in p .. (p + Len(src) - 1) THEN src[k - p + 1] ELSE buf[k]]
      BY <1>2 DEF receive
    <2>2. p \in Nat /\ Len(src) \in Nat
      BY RequestSeq DEF get_free_block, Inv, TypeOK
    <2> HIDE DEF p
    <2>3. \A k \in 0..(Size - 1) : k \in p .. (p + Len(src) - 1) => src[k - p + 1] \in Byte
      <3>1. \A i \in 1..Len(src) : src[i] \in Byte
        BY RequestSeq
      <3>2. \A k \in 0..(Size - 1) : k \in p .. (p + Len(src) - 1) => k - p + 1 \in 1..Len(src)
        BY <2>2
      <3> QED BY <3>1, <3>2
    <2>4. buf' \in [0..(Size - 1) -> Byte]
      BY <2>1, <2>3 DEF Inv, TypeOK
    <2>5. Advance(Split(Len(src)))
      BY <1>2 DEF receive
    <2> QED BY <2>2, <2>4, <2>5, AdvanceSafe DEF Inv, TypeOK
  <1>3. ASSUME NEW size \in 0..MaxArg, insert(size) PROVE Inv'
    <2>1. size \in Nat /\ Advance(Split(size)) /\ buf' = buf
      BY <1>3 DEF insert
    <2> QED BY <2>1, AdvanceSafe DEF Inv, TypeOK
  <1>4. ASSUME NEW size \in 0..MaxArg, remove(size) PROVE Inv'
    BY <1>4 DEF remove, Inv, TypeOK, SegmentsOK, Least, is_empty, indices
  <1>5. ASSUME NEW start \in 0..MaxArg, NEW size \in 0..MaxArg, get_data_block(start, size) PROVE Inv'
    <2>1. start \in Nat /\ size \in Nat
      OBVIOUS
    <2>2. Pieces(start, size) \in Seq(Byte)
      BY <2>1, PiecesBounds
    <2>3. Len(Pieces(start, size)) \in Nat
      BY <2>2
    <2> QED BY <2>2, <2>3, <1>5 DEF get_data_block, Inv, TypeOK, SegmentsOK
  <1>6. ASSUME NEW start \in 0..MaxArg, NEW size \in 0..MaxArg, get_data_block_string(start, size)
         PROVE  Inv'
    <2>1. start \in Nat /\ size \in Nat
      OBVIOUS
    <2>2. StringPieces(start, size) \in Seq(Byte)
      BY <2>1, StringPiecesSeq
    <2>3. Len(Pieces(start, size)) \in Nat
      BY <2>1, PiecesBounds
    <2> QED BY <2>2, <2>3, <1>6 DEF get_data_block_string, Inv, TypeOK, SegmentsOK
  <1>7. ASSUME get_data PROVE Inv'
    <2>1. CASE is_empty /\ ret' = 0 /\ out' = <<>> /\ UNCHANGED <<buf, readA, writeA, writeB>>
      BY <2>1 DEF Inv, TypeOK, SegmentsOK
    <2>2. CASE ~is_empty
      <3>1. /\ out' = Bytes(readA, writeA - readA) \o Bytes(0, writeB)
            /\ ret' = writeA - readA + writeB
            /\ readA' = 0 /\ writeA' = 0 /\ writeB' = 0 /\ buf' = buf
        <4>1. CASE writeA < Size
          <5>1. writeB = 0 /\ writeA - readA + 0 = writeA - readA + writeB
            BY <4>1 DEF Inv, SegmentsOK
          <5> QED BY <1>7, <2>2, <4>1, <5>1 DEF get_data
        <4>2. CASE ~(writeA < Size)
          <5>1. writeA = Size
            BY <4>2 DEF Inv, TypeOK
          <5> QED BY <1>7, <2>2, <4>2, <5>1 DEF get_data
        <4> QED BY <4>1, <4>2
      <3>2. out' \in Seq(Byte)
        BY <3>1, SegmentsAreContents, ContentsSeq
      <3> QED BY <3>1, <3>2 DEF Inv, TypeOK, SegmentsOK
    <2> QED BY <2>1, <2>2, <1>7 DEF get_data
  <1>8. ASSUME get_ab_data PROVE Inv'
    <2>1. out' \in Seq(Byte)
      BY <1>8, SegmentsAreContents, ContentsSeq DEF get_ab_data
    <2> QED BY <1>8, <2>1 DEF get_ab_data, Inv, TypeOK, SegmentsOK
  <1>9. ASSUME clear PROVE Inv'
    BY <1>9 DEF clear, Inv, TypeOK, SegmentsOK
  <1>10. ASSUME UNCHANGED vars PROVE Inv'
    BY <1>10 DEF vars, Inv, TypeOK, SegmentsOK
  <1> QED BY <1>1, <1>2, <1>3, <1>4, <1>5, <1>6, <1>7, <1>8, <1>9, <1>10 DEF Next

\* The indices are those of two segments of one memory in every reachable
\* state, whatever calls were made: no unsigned subtraction wraps and no copy
\* leaves the memory (RingBuffer.cpp:241-367).
THEOREM RingSafe == Spec => [](TypeOK /\ SegmentsOK)
  <1>1. Inv => TypeOK /\ SegmentsOK
    BY DEF Inv
  <1> QED BY <1>1, InitInv, StepInv, PTL DEF Spec

\* The indices stay in the memory and each call's record keeps its form, for every
\* memory size and bound (RingBuffer.cpp:61-377).
THEOREM RingTypeOK == Spec => []TypeOK
  <1>1. Inv => TypeOK
    BY DEF Inv
  <1> QED BY <1>1, InitInv, StepInv, PTL DEF Spec

-----------------------------------------------------------------------------
(* The buffer implements the byte queue.                                   *)

ContentsFacts ==
    /\ Contents \in Seq(Byte)
    /\ get_data_size \in Nat
    /\ Len(Contents) = get_data_size
    /\ \A i \in 1..get_data_size : Contents[i] = buf[Place(i - 1)]

\* What the invariant says about the data, in one formula for the temporal rule.
LEMMA ContentsInv == Inv => ContentsFacts
  BY ContentsSeq, SizesAreNat, RingAssumption DEF ContentsFacts

\* The same after the step.
LEMMA ContentsSeqNext ==
    ASSUME Inv'
    PROVE  /\ Contents' \in Seq(Byte)
           /\ get_data_size' \in Nat
           /\ Len(Contents') = get_data_size'
           /\ \A i \in 1..get_data_size' : Contents'[i] = buf'[Place(i - 1)']
  <1>1. Inv' => ContentsFacts'
    BY ContentsInv, PTL
  <1> QED BY <1>1 DEF ContentsFacts

\* A step that leaves the data where it is and places s behind it appends s.
LEMMA AppendContents ==
    ASSUME Inv, Inv', NEW s \in Seq(Byte),
           get_data_size' = get_data_size + Len(s),
           \A i \in 1..get_data_size : buf'[Place(i - 1)'] = buf[Place(i - 1)],
           \A i \in (get_data_size + 1) .. (get_data_size + Len(s)) :
             buf'[Place(i - 1)'] = s[i - get_data_size]
    PROVE  Contents' = Contents \o s
  <1> DEFINE n == get_data_size  m == Len(s)  c == Contents  d == Contents'
  <1>1. /\ n \in Nat /\ m \in Nat /\ c \in Seq(Byte) /\ Len(c) = n
        /\ d \in Seq(Byte) /\ Len(d) = n + m
    BY ContentsSeq, ContentsSeqNext, SizesAreNat, RingAssumption
  <1>2. \A i \in 1..n : d[i] = c[i]
    <2>1. \A i \in 1..n : c[i] = buf[Place(i - 1)]
      BY ContentsSeq
    <2>2. \A i \in 1..(n + m) : d[i] = buf'[Place(i - 1)']
      BY ContentsSeqNext
    <2>3. \A i \in 1..n : i \in 1..(n + m) /\ i \in 1..get_data_size
      BY <1>1
    <2> QED BY <2>1, <2>2, <2>3
  <1>3. \A i \in (n + 1) .. (n + m) : d[i] = s[i - n]
    <2>1. \A i \in 1..(n + m) : d[i] = buf'[Place(i - 1)']
      BY ContentsSeqNext
    <2>2. \A i \in (n + 1) .. (n + m) : i \in 1..(n + m)
      BY <1>1
    <2> QED BY <2>1, <2>2
  <1>4. s \in Seq(Byte) /\ Len(s) = m
    OBVIOUS
  <1> HIDE DEF n, m, c, d
  <1>5. /\ c \o s \in Seq(Byte) /\ Len(c \o s) = n + m
        /\ \A i \in 1..(n + m) : (c \o s)[i] = IF i <= n THEN c[i] ELSE s[i - n]
    BY <1>1, <1>4, ConcatProperties
  <1>6. ASSUME NEW i \in 1..(n + m) PROVE d[i] = (c \o s)[i]
    <2>0. i <= n \/ i > n
      BY <1>1
    <2>1. CASE i <= n
      <3>1. i \in 1..n
        BY <2>1, <1>1
      <3> QED BY <3>1, <2>1, <1>2, <1>5
    <2>2. CASE i > n
      <3>1. i \in (n + 1) .. (n + m) /\ ~(i <= n)
        BY <2>2, <1>1
      <3> QED BY <3>1, <1>3, <1>5
    <2> QED BY <2>0, <2>1, <2>2
  <1>7. d = c \o s
    BY <1>1, <1>5, <1>6, SeqEqual
  <1> QED BY <1>7 DEF c, d

\* Where the bytes go that a call adds: behind the data, in order.
LEMMA AdvancePlaces ==
    ASSUME Inv, NEW size \in Nat, Advance(Split(size))
    PROVE  LET a == Split(size).a
               b == Split(size).b
               n == Least(size, Size - get_data_size) IN
           /\ n = a + b /\ n \in Nat /\ n <= size /\ ret' = n
           /\ get_data_size' = get_data_size + n
           /\ \A i \in 1..get_data_size :
                /\ Place(i - 1)' = Place(i - 1)
                /\ Place(i - 1) \in 0..(Size - 1)
                /\ Place(i - 1) \notin writeA .. (writeA + a - 1)
                /\ Place(i - 1) \notin writeB .. (writeB + b - 1)
           /\ \A i \in (get_data_size + 1) .. (get_data_size + n) :
                LET j == i - get_data_size IN
                /\ Place(i - 1)' \in 0..(Size - 1)
                /\ j <= a => Place(i - 1)' = writeA + j - 1
                /\ j > a => /\ Place(i - 1)' = writeB + (j - a) - 1
                            /\ Place(i - 1)' \notin writeA .. (writeA + a - 1)
  <1> DEFINE a == Split(size).a  b == Split(size).b
             n == Least(size, Size - get_data_size)
  <1>1. /\ a \in 0..(Size - writeA) /\ b \in 0..(readA - writeB)
        /\ a + b = n /\ (b > 0 => a = Size - writeA)
    BY SplitBounds
  <1>2. writeA' = writeA + a /\ writeB' = writeB + b /\ ret' = a + b /\ readA' = readA
    BY DEF Advance
  <1>3. n \in Nat /\ n <= size
    BY SizesAreNat, RingAssumption DEF Least
  <1> HIDE DEF a, b, n
  <1> USE RingAssumption DEF Inv, TypeOK, SegmentsOK, get_data_size, Place
  <1>4. get_data_size' = get_data_size + n
    BY <1>1, <1>2
  <1>5. \A i \in 1..get_data_size :
          /\ Place(i - 1)' = Place(i - 1)
          /\ Place(i - 1) \in 0..(Size - 1)
          /\ Place(i - 1) \notin writeA .. (writeA + a - 1)
          /\ Place(i - 1) \notin writeB .. (writeB + b - 1)
    BY <1>1, <1>2
  <1>6. \A i \in (get_data_size + 1) .. (get_data_size + n) :
          LET j == i - get_data_size IN
          /\ Place(i - 1)' \in 0..(Size - 1)
          /\ j <= a => Place(i - 1)' = writeA + j - 1
          /\ j > a => /\ Place(i - 1)' = writeB + (j - a) - 1
                      /\ Place(i - 1)' \notin writeA .. (writeA + a - 1)
    BY <1>1, <1>2
  <1> QED BY <1>1, <1>2, <1>3, <1>4, <1>5, <1>6 DEF a, b, n

\* The abstract and the detailed specification share Least and Request.
LEMMA SameHelpers ==
    /\ \A x, y : Fifo!Least(x, y) = Least(x, y)
    /\ Fifo!Request = Request
  BY DEF Fifo!Least, Least, Fifo!Request, Request

\* A prefix of what a caller passes.
LEMMA PrefixSeq ==
    ASSUME NEW src \in Seq(Byte), NEW n \in Nat, n <= Len(src)
    PROVE  /\ SubSeq(src, 1, n) \in Seq(Byte)
           /\ Len(SubSeq(src, 1, n)) = n
           /\ \A i \in 1..n : SubSeq(src, 1, n)[i] = src[i]
  <1>1. \A i \in 1..n : src[i] \in Byte
    OBVIOUS
  <1> QED BY <1>1, SubSeqProperties

\* A step that moves the write indices as set_data and insert do, and writes
\* src, or as much of it as there is room for, into the room it takes.
LEMMA PutStep ==
    ASSUME Inv, Inv', NEW src \in Seq(Byte), Advance(Split(Len(src))),
           \A k \in 0..(Size - 1) :
             buf'[k] = IF k \in writeA .. (writeA + Split(Len(src)).a - 1)
                       THEN src[k - writeA + 1]
                       ELSE IF k \in writeB .. (writeB + Split(Len(src)).b - 1)
                       THEN src[Split(Len(src)).a + k - writeB + 1]
                       ELSE buf[k]
    PROVE  Fifo!Put(src)
  <1> DEFINE a == Split(Len(src)).a  b == Split(Len(src)).b
             n == Least(Len(src), Size - get_data_size)
             s == SubSeq(src, 1, n)
             ds == get_data_size
  <1>0. Len(src) \in Nat
    OBVIOUS
  <1>1. /\ n = a + b /\ n \in Nat /\ n <= Len(src) /\ ret' = n
        /\ get_data_size' = ds + n
    BY <1>0, AdvancePlaces
  <1>2. \A i \in 1..ds :
          /\ Place(i - 1)' = Place(i - 1)
          /\ Place(i - 1) \in 0..(Size - 1)
          /\ Place(i - 1) \notin writeA .. (writeA + a - 1)
          /\ Place(i - 1) \notin writeB .. (writeB + b - 1)
    BY <1>0, AdvancePlaces
  <1>3. \A i \in (ds + 1) .. (ds + n) :
          LET j == i - ds IN
          /\ Place(i - 1)' \in 0..(Size - 1)
          /\ j <= a => Place(i - 1)' = writeA + j - 1
          /\ j > a => /\ Place(i - 1)' = writeB + (j - a) - 1
                      /\ Place(i - 1)' \notin writeA .. (writeA + a - 1)
    BY <1>0, AdvancePlaces
  <1>4. /\ a \in Nat /\ b \in Nat /\ ds \in Nat /\ writeA \in Nat /\ writeB \in Nat
    <2>1. /\ writeA \in 0..Size /\ writeB \in 0..readA /\ readA \in 0..Size /\ Size \in Nat
          /\ ds \in 0..Size
      BY SizesAreNat, RingAssumption DEF Inv, TypeOK, SegmentsOK
    <2>2. a \in 0..(Size - writeA) /\ b \in 0..(readA - writeB)
      BY <1>0, SplitBounds
    <2> HIDE DEF a, b, ds
    <2> QED BY <2>1, <2>2
  <1>5. s \in Seq(Byte) /\ Len(s) = n /\ \A i \in 1..n : s[i] = src[i]
    BY <1>1, PrefixSeq
  <1>6. out' = <<>>
    BY DEF Advance
  <1>7. \A k \in 0..(Size - 1) :
          buf'[k] = IF k \in writeA .. (writeA + a - 1) THEN src[k - writeA + 1]
                    ELSE IF k \in writeB .. (writeB + b - 1) THEN src[a + k - writeB + 1]
                    ELSE buf[k]
    OBVIOUS
  <1> HIDE DEF a, b, n, s
  <1>8. \A i \in 1..ds : buf'[Place(i - 1)'] = buf[Place(i - 1)]
    BY <1>2, <1>7
  <1>9. ASSUME NEW i \in (ds + 1) .. (ds + n)
        PROVE  buf'[Place(i - 1)'] = s[i - ds]
    <2> DEFINE j == i - ds  p == Place(i - 1)'
    <2>1. j \in 1..n /\ (j <= a \/ j > a) /\ j \in Nat
      BY <1>1, <1>4
    <2>2. /\ p \in 0..(Size - 1)
          /\ j <= a => p = writeA + j - 1
          /\ j > a => p = writeB + (j - a) - 1 /\ p \notin writeA .. (writeA + a - 1)
      BY <1>3
    <2>3. s[j] = src[j]
      BY <2>1, <1>5
    <2> HIDE DEF j, p
    <2>4. CASE j <= a
      <3>1. p \in writeA .. (writeA + a - 1) /\ p - writeA + 1 = j
        BY <2>1, <2>2, <2>4, <1>4
      <3> QED BY <3>1, <2>2, <2>3, <1>7 DEF j, p
    <2>5. CASE j > a
      <3>1. /\ p \in writeB .. (writeB + b - 1) /\ p \notin writeA .. (writeA + a - 1)
            /\ a + p - writeB + 1 = j
        BY <2>1, <2>2, <2>5, <1>1, <1>4
      <3> QED BY <3>1, <2>2, <2>3, <1>7 DEF j, p
    <2> QED BY <2>1, <2>4, <2>5
  <1>10. Contents' = Contents \o s
    <2>1. get_data_size' = get_data_size + Len(s)
      BY <1>1, <1>5
    <2>2. \A i \in (ds + 1) .. (ds + Len(s)) : buf'[Place(i - 1)'] = s[i - ds]
      BY <1>5, <1>9
    <2> QED BY <2>1, <2>2, <1>5, <1>8, AppendContents
  <1>11. Len(Contents) = get_data_size
    BY ContentsSeq
  <1> QED BY <1>1, <1>6, <1>10, <1>11, SameHelpers DEF Fifo!Put, n, s

\* insert: the bytes that join the data are the ones the memory held.
LEMMA InsertStep ==
    ASSUME Inv, Inv', NEW size \in Nat, insert(size)
    PROVE  Fifo!Grow(size)
  <1> DEFINE a == Split(size).a  b == Split(size).b
  <1>1. PICK w \in Byte : TRUE
    BY RingAssumption
  <1> DEFINE src == [i \in 1..size |->
                       IF i <= a THEN buf[writeA + i - 1]
                       ELSE IF i <= a + b THEN buf[writeB + (i - a) - 1] ELSE w]
  <1>2. /\ a \in 0..(Size - writeA) /\ b \in 0..(readA - writeB)
        /\ b > 0 => a = Size - writeA
    BY SplitBounds
  <1>3. /\ readA \in 0..Size /\ writeA \in 0..Size /\ writeB \in 0..Size
        /\ writeB <= readA /\ readA <= writeA
        /\ Size \in Nat /\ buf \in [0..(Size - 1) -> Byte]
    BY RingAssumption DEF Inv, TypeOK, SegmentsOK
  <1>4. Advance(Split(size)) /\ buf' = buf
    BY DEF insert
  <1>5. a + b <= size
    BY AdvancePlaces, <1>4
  <1> HIDE DEF a, b
  <1>6. \A i \in 1..size :
          (IF i <= a THEN buf[writeA + i - 1]
           ELSE IF i <= a + b THEN buf[writeB + (i - a) - 1] ELSE w) \in Byte
    BY <1>1, <1>2, <1>3
  <1>7. src \in [1..size -> Byte] /\ src \in Seq(Byte) /\ Len(src) = size
    BY <1>6
  <1>8. \A k \in 0..(Size - 1) :
          buf'[k] = IF k \in writeA .. (writeA + a - 1) THEN src[k - writeA + 1]
                    ELSE IF k \in writeB .. (writeB + b - 1) THEN src[a + k - writeB + 1]
                    ELSE buf[k]
    <2> SUFFICES ASSUME NEW k \in 0..(Size - 1)
                 PROVE  buf[k] = IF k \in writeA .. (writeA + a - 1) THEN src[k - writeA + 1]
                                 ELSE IF k \in writeB .. (writeB + b - 1)
                                 THEN src[a + k - writeB + 1]
                                 ELSE buf[k]
      BY <1>4
    <2>1. CASE k \in writeA .. (writeA + a - 1)
      <3> DEFINE i == k - writeA + 1
      <3>1. i \in 1..size /\ i <= a /\ writeA + i - 1 = k
        BY <2>1, <1>2, <1>3, <1>5
      <3> HIDE DEF i
      <3>2. src[i] = buf[k]
        BY <3>1
      <3> QED BY <3>2, <2>1 DEF i
    <2>2. CASE k \notin writeA .. (writeA + a - 1) /\ k \in writeB .. (writeB + b - 1)
      <3> DEFINE i == a + k - writeB + 1
      <3>1. /\ i \in 1..size /\ ~(i <= a) /\ i <= a + b
            /\ writeB + (i - a) - 1 = k
        BY <2>2, <1>2, <1>3, <1>5
      <3> HIDE DEF i
      <3>2. src[i] = buf[k]
        BY <3>1
      <3> HIDE DEF src
      <3> QED BY <3>2, <2>2 DEF i
    <2> QED BY <2>1, <2>2
  <1> HIDE DEF src
  <1>9. Fifo!Put(src)
    BY <1>4, <1>7, <1>8, PutStep DEF a, b
  <1> QED BY <1>7, <1>9 DEF Fifo!Grow

\* set_data appends what it has room for (RingBuffer.cpp:241-285).
LEMMA SetDataStep ==
    ASSUME Inv, Inv', NEW src \in Request, set_data(src)
    PROVE  Fifo!Put(src)
  <1>1. src \in Seq(Byte)
    BY RequestSeq
  <1>2. Advance(Split(Len(src))) /\ Store(src, Split(Len(src)))
    BY DEF set_data
  <1>3. \A k \in 0..(Size - 1) :
          buf'[k] = IF k \in writeA .. (writeA + Split(Len(src)).a - 1)
                    THEN src[k - writeA + 1]
                    ELSE IF k \in writeB .. (writeB + Split(Len(src)).b - 1)
                    THEN src[Split(Len(src)).a + k - writeB + 1]
                    ELSE buf[k]
    BY <1>2 DEF Store
  <1> QED BY <1>1, <1>2, <1>3, PutStep

\* get_free_block and insert append what was written into the block.
LEMMA ReceiveStep ==
    ASSUME Inv, Inv', NEW src \in Request, receive(src)
    PROVE  Fifo!Put(src)
  <1> DEFINE m == Len(src)  p == get_free_block.p
             a == Split(m).a  b == Split(m).b
  <1>1. src \in Seq(Byte) /\ m \in Nat
    BY RequestSeq
  <1>2. /\ Advance(Split(m)) /\ m <= get_free_block.size
        /\ buf' = [k \in 0..(Size - 1) |->
                     IF k \in p .. (p + m - 1) THEN src[k - p + 1] ELSE buf[k]]
    BY DEF receive
  <1>3. /\ readA \in 0..Size /\ writeA \in 0..Size /\ writeB \in 0..Size
        /\ writeB <= readA /\ readA <= writeA /\ Size \in Nat
    BY RingAssumption DEF Inv, TypeOK, SegmentsOK
  <1>4. \/ m = 0 /\ a = 0 /\ b = 0 /\ p \in Nat
        \/ m > 0 /\ a = m /\ b = 0 /\ p = writeA
        \/ m > 0 /\ a = 0 /\ b = m /\ p = writeB /\ writeA = Size
    <2>1. CASE m = 0
      BY <2>1, <1>3 DEF Split, get_free_block
    <2>2. CASE m > 0 /\ writeA >= Size
      <3>1. get_free_block = [p |-> writeB, size |-> readA - writeB]
        BY <2>2, <1>1, <1>2, <1>3 DEF get_free_block
      <3>2. ~is_full /\ Least(m, readA - writeB) = m
        BY <2>2, <3>1, <1>1, <1>2, <1>3 DEF is_full, Least
      <3> QED BY <2>2, <3>1, <3>2, <1>1, <1>3 DEF Split
    <2>3. CASE m > 0 /\ writeA < Size
      <3>1. get_free_block = [p |-> writeA, size |-> Size - writeA]
        BY <2>3, <1>3 DEF get_free_block
      <3>2. ~is_full
        BY <2>3, <1>3 DEF is_full
      <3> QED BY <2>3, <3>1, <3>2, <1>1, <1>2, <1>3 DEF Split
    <2> QED BY <2>1, <2>2, <2>3, <1>1, <1>3
  <1> HIDE DEF m, p, a, b
  <1>5. \A k \in 0..(Size - 1) :
          buf'[k] = IF k \in writeA .. (writeA + a - 1) THEN src[k - writeA + 1]
                    ELSE IF k \in writeB .. (writeB + b - 1) THEN src[a + k - writeB + 1]
                    ELSE buf[k]
    <2> SUFFICES ASSUME NEW k \in 0..(Size - 1)
                 PROVE  buf'[k] = IF k \in writeA .. (writeA + a - 1) THEN src[k - writeA + 1]
                                  ELSE IF k \in writeB .. (writeB + b - 1)
                                  THEN src[a + k - writeB + 1]
                                  ELSE buf[k]
      OBVIOUS
    <2>1. buf'[k] = IF k \in p .. (p + m - 1) THEN src[k - p + 1] ELSE buf[k]
      BY <1>2
    <2>2. CASE m = 0 /\ a = 0 /\ b = 0 /\ p \in Nat
      BY <2>1, <2>2, <1>3
    <2>3. CASE m > 0 /\ a = m /\ b = 0 /\ p = writeA
      BY <2>1, <2>3, <1>1, <1>3
    <2>4. CASE m > 0 /\ a = 0 /\ b = m /\ p = writeB /\ writeA = Size
      <3>1. k \notin writeA .. (writeA + a - 1) /\ a + k - writeB + 1 = k - p + 1
        BY <2>4, <1>1, <1>3
      <3> QED BY <2>1, <2>4, <3>1
    <2> QED BY <2>2, <2>3, <2>4, <1>4
  <1> QED BY <1>1, <1>2, <1>5, PutStep DEF a, b, m

\* A step that moves the start of the data by n bytes forgets the oldest n.
LEMMA DropContents ==
    ASSUME Inv, Inv', NEW n \in Nat, n <= get_data_size,
           get_data_size' = get_data_size - n, buf' = buf,
           \A i \in 1..get_data_size' : Place(i - 1)' = Place(n + i - 1)
    PROVE  Contents' = SubSeq(Contents, n + 1, Len(Contents))
  <1> DEFINE m == get_data_size  c == Contents  d == Contents'
             t == SubSeq(c, n + 1, m)
  <1>1. m \in Nat /\ c \in Seq(Byte) /\ Len(c) = m /\ d \in Seq(Byte) /\ Len(d) = m - n
    BY ContentsSeq, ContentsSeqNext, SizesAreNat, RingAssumption
  <1>2. \A i \in 1..(m - n) : d[i] = buf'[Place(i - 1)'] /\ Place(i - 1)' = Place(n + i - 1)
    BY ContentsSeqNext
  <1>3. \A i \in 1..m : c[i] = buf[Place(i - 1)]
    BY ContentsSeq
  <1>4. n \in Nat /\ n <= m /\ buf' = buf
    OBVIOUS
  <1>5. \A i \in 1..(m - n) : d[i] = c[n + i]
    <2>1. \A i \in 1..(m - n) : n + i \in 1..m /\ (n + i) - 1 = n + i - 1
      BY <1>1, <1>4
    <2> HIDE DEF m, c, d
    <2>2. \A i \in 1..(m - n) : c[n + i] = buf[Place(n + i - 1)]
      BY <1>3, <2>1
    <2> QED BY <1>2, <1>4, <2>2
  <1> HIDE DEF m, c, d
  <1>6. /\ t \in Seq(Byte) /\ Len(t) = m - n
        /\ \A i \in 1..(m - n) : t[i] = c[n + i]
    <2>1. \A i \in (n + 1) .. m : c[i] \in Byte
      BY <1>1, <1>4
    <2>2. n + 1 \in Int /\ m \in Int /\ m - (n + 1) + 1 = m - n
          /\ (IF n + 1 <= m THEN m - (n + 1) + 1 ELSE 0) = m - n
      BY <1>1, <1>4
    <2>3. /\ t \in Seq(Byte)
          /\ Len(t) = IF n + 1 <= m THEN m - (n + 1) + 1 ELSE 0
          /\ \A i \in 1 .. m - (n + 1) + 1 : t[i] = c[(n + 1) + i - 1]
      BY <2>1, <2>2, SubSeqProperties
    <2>4. \A i \in 1..(m - n) : (n + 1) + i - 1 = n + i
      BY <1>1, <1>4
    <2> QED BY <2>2, <2>3, <2>4
  <1> HIDE DEF t
  <1>7. d = t
    BY <1>1, <1>5, <1>6, SeqEqual
  <1> QED BY <1>1, <1>7 DEF d, t, c, m

\* remove forgets the oldest bytes (RingBuffer.cpp:329-367).
LEMMA RemoveStep ==
    ASSUME Inv, Inv', NEW size \in Nat, remove(size)
    PROVE  Fifo!Drop(size)
  <1> DEFINE n == Least(size, get_data_size)
  <1>1. /\ n \in Nat /\ n <= get_data_size /\ buf' = buf /\ out' = <<>>
        /\ ret' = n /\ get_data_size' = get_data_size - n
        /\ \A i \in 1..get_data_size' : Place(i - 1)' = Place(n + i - 1)
    <2>1. /\ readA \in 0..Size /\ writeA \in 0..Size /\ writeB \in 0..Size
          /\ SegmentsOK /\ Size \in Nat
      BY RingAssumption DEF Inv, TypeOK
    <2> USE DEF get_data_size, Least, Place, SegmentsOK, is_empty, indices
    <2>2. CASE (size = 0 \/ is_empty) /\ ret' = 0 /\ UNCHANGED indices
      BY <2>1, <2>2 DEF remove
    <2>3. CASE /\ size > 0 /\ ~is_empty /\ writeA < Size
               /\ ret' = Least(size, writeA - readA)
               /\ readA' = readA + Least(size, writeA - readA)
               /\ UNCHANGED <<writeA, writeB>>
      BY <2>1, <2>3 DEF remove
    <2>4. CASE /\ size > 0 /\ ~is_empty /\ writeA >= Size /\ size < Size - readA
               /\ ret' = size /\ readA' = readA + size
               /\ UNCHANGED <<writeA, writeB>>
      BY <2>1, <2>4 DEF remove
    <2>5. CASE /\ size > 0 /\ ~is_empty /\ writeA >= Size /\ size >= Size - readA
               /\ LET k == Least(size - (Size - readA), writeB) IN
                    ret' = Size - readA + k /\ readA' = k
               /\ writeA' = writeB /\ writeB' = 0
      BY <2>1, <2>5 DEF remove
    <2> QED BY <2>2, <2>3, <2>4, <2>5 DEF remove
  <1> HIDE DEF n
  <1>2. Contents' = SubSeq(Contents, n + 1, Len(Contents))
    BY <1>1, DropContents
  <1>3. Len(Contents) = get_data_size
    BY ContentsSeq
  <1> QED BY <1>1, <1>2, <1>3, SameHelpers DEF Fifo!Drop, n

\* A call that changes neither memory nor indices leaves the data alone.
LEMMA SameContents ==
    ASSUME UNCHANGED <<buf, readA, writeA, writeB>>
    PROVE  Contents' = Contents
  BY DEF Contents, get_data_size, Place

\* The pieces of memory that get_data_block copies are the bytes asked for.
LEMMA PiecesAsked ==
    ASSUME Inv, NEW start \in Nat, NEW size \in Nat
    PROVE  LET n == Fifo!Count(start, size) IN
           /\ Pieces(start, size) = SubSeq(Contents, start + 1, start + n)
           /\ Len(Pieces(start, size)) = n
  <1> DEFINE m == get_data_size  c == Contents  p == Pieces(start, size)
             n == IF start >= m THEN 0 ELSE Least(size, m - start)
             t == SubSeq(c, start + 1, start + n)
  <1>1. m \in Nat /\ c \in Seq(Byte) /\ Len(c) = m
    BY ContentsSeq, SizesAreNat, RingAssumption
  <1>2. p \in Seq(Byte) /\ Len(p) = n
    BY PiecesBounds
  <1>3. \A i \in 1..Len(p) : p[i] = buf[Place(start + i - 1)]
    BY PiecesBounds
  <1>4. \A i \in 1..m : c[i] = buf[Place(i - 1)]
    BY ContentsSeq
  <1>5. /\ n \in Nat /\ (n > 0 => start + n <= m)
    BY <1>1 DEF Least
  <1>6. Fifo!Count(start, size) = n
    BY <1>1, SameHelpers DEF Fifo!Count
  <1> HIDE DEF m, c, p
  <1>7. /\ t \in Seq(Byte) /\ Len(t) = n /\ \A i \in 1..n : t[i] = c[start + i]
    <2> HIDE DEF n
    <2>1. \A i \in (start + 1) .. (start + n) : c[i] \in Byte
      BY <1>1, <1>5
    <2>2. /\ start + 1 \in Int /\ start + n \in Int /\ (start + n) - (start + 1) + 1 = n
          /\ (IF start + 1 <= start + n THEN (start + n) - (start + 1) + 1 ELSE 0) = n
      BY <1>1, <1>5
    <2>3. /\ t \in Seq(Byte)
          /\ Len(t) = IF start + 1 <= start + n THEN (start + n) - (start + 1) + 1 ELSE 0
          /\ \A i \in 1 .. (start + n) - (start + 1) + 1 : t[i] = c[(start + 1) + i - 1]
      BY <2>1, <2>2, SubSeqProperties
    <2>4. \A i \in 1..n : (start + 1) + i - 1 = start + i
      BY <1>5
    <2> QED BY <2>2, <2>3, <2>4
  <1>8. \A i \in 1..n : p[i] = t[i]
    <2>1. \A i \in 1..n : start + i \in 1..m
      BY <1>1, <1>5
    <2> HIDE DEF n, t
    <2>2. \A i \in 1..n : c[start + i] = buf[Place(start + i - 1)]
      BY <1>4, <2>1
    <2> QED BY <1>2, <1>3, <1>7, <2>2
  <1> HIDE DEF t, n
  <1>9. p = t
    BY <1>2, <1>7, <1>8, SeqEqual
  <1> QED BY <1>2, <1>6, <1>9 DEF t, c, p

\* get_data_block copies the bytes asked for (RingBuffer.cpp:170-230).
LEMMA PeekStep ==
    ASSUME Inv, NEW start \in Nat, NEW size \in Nat, get_data_block(start, size)
    PROVE  Fifo!Peek(start, size)
  <1>1. out' = Pieces(start, size) /\ ret' = Len(Pieces(start, size)) /\ Contents' = Contents
    BY SameContents DEF get_data_block
  <1> QED BY <1>1, PiecesAsked DEF Fifo!Peek

\* A sequence of two halves gives them back.
LEMMA Halves ==
    ASSUME NEW u \in Seq(Byte), NEW v \in Seq(Byte)
    PROVE  /\ SubSeq(u \o v, 1, Len(u)) = u
           /\ SubSeq(u \o v, Len(u) + 1, Len(u \o v)) = v
  <1> DEFINE w == u \o v  m == Len(u)  n == Len(v)
             x == SubSeq(w, 1, m)  y == SubSeq(w, m + 1, m + n)
  <1>1. /\ m \in Nat /\ n \in Nat /\ w \in Seq(Byte) /\ Len(w) = m + n
        /\ \A i \in 1..(m + n) : w[i] = IF i <= m THEN u[i] ELSE v[i - m]
    BY ConcatProperties
  <1>2. u \in Seq(Byte) /\ v \in Seq(Byte) /\ Len(u) = m /\ Len(v) = n
    OBVIOUS
  <1> HIDE DEF w, m, n
  <1>3. \A i \in 1..(m + n) : w[i] \in Byte
    BY <1>1
  <1>4. x \in Seq(Byte) /\ Len(x) = m /\ \A i \in 1..m : x[i] = w[i]
    <2>1. \A i \in 1..m : w[i] \in Byte
      BY <1>1, <1>3
    <2>2. /\ x \in Seq(Byte) /\ Len(x) = IF 1 <= m THEN m - 1 + 1 ELSE 0
          /\ \A i \in 1..(m - 1 + 1) : x[i] = w[1 + i - 1]
      BY <1>1, <2>1, SubSeqProperties
    <2> QED BY <1>1, <2>2
  <1>5. y \in Seq(Byte) /\ Len(y) = n /\ \A i \in 1..n : y[i] = w[m + i]
    <2>1. \A i \in (m + 1) .. (m + n) : w[i] \in Byte
      BY <1>1, <1>3
    <2>2. /\ y \in Seq(Byte)
          /\ Len(y) = IF m + 1 <= m + n THEN (m + n) - (m + 1) + 1 ELSE 0
          /\ \A i \in 1..((m + n) - (m + 1) + 1) : y[i] = w[(m + 1) + i - 1]
      BY <1>1, <2>1, SubSeqProperties
    <2> QED BY <1>1, <2>2
  <1> HIDE DEF x, y
  <1>6. \A i \in 1..m : x[i] = u[i]
    BY <1>1, <1>4
  <1>7. \A i \in 1..n : y[i] = v[i]
    BY <1>1, <1>5
  <1>8. x = u
    BY <1>2, <1>4, <1>6, SeqEqual
  <1>9. y = v
    BY <1>2, <1>5, <1>7, SeqEqual
  <1> QED BY <1>1, <1>8, <1>9 DEF w, m, n, x, y

\* The string overload counts right and appends the bytes asked for, with one
\* more between those of A and those of B (RingBuffer.cpp:108-168).
LEMMA StringStep ==
    ASSUME Inv, NEW start \in Nat, NEW size \in Nat, get_data_block_string(start, size)
    PROVE  Fifo!PeekString(start, size)
  <1> DEFINE n == Fifo!Count(start, size)  p == Pieces(start, size)
  <1>1. /\ out' = StringPieces(start, size) /\ ret' = Len(p) /\ Contents' = Contents
    BY SameContents DEF get_data_block_string
  <1>2. p = SubSeq(Contents, start + 1, start + n) /\ Len(p) = n
    BY PiecesAsked
  <1>3. \/ out' = p
        \/ \E k \in 1..n, c \in Byte : out' = SubSeq(p, 1, k) \o <<c>> \o SubSeq(p, k + 1, n)
    <2>1. CASE Crosses(start, size)
      <3>1. PICK u \in Seq(Byte), v \in Seq(Byte), c \in Byte :
              /\ Len(u) \in 1..Size /\ p = u \o v
              /\ StringPieces(start, size) = u \o <<c>> \o v
        BY <2>1, PiecesCrossing
      <3>2. SubSeq(p, 1, Len(u)) = u /\ SubSeq(p, Len(u) + 1, n) = v
        <4>1. SubSeq(u \o v, 1, Len(u)) = u /\ SubSeq(u \o v, Len(u) + 1, Len(u \o v)) = v
          BY Halves
        <4> HIDE DEF n, p
        <4> QED BY <4>1, <3>1, <1>2
      <3>3. Len(u) \in 1..n
        <4>1. Len(u \o v) = Len(u) + Len(v) /\ Len(v) \in Nat
          BY ConcatProperties
        <4>2. n = Len(u) + Len(v)
          <5> HIDE DEF n, p
          <5> QED BY <4>1, <3>1, <1>2
        <4> HIDE DEF n, p
        <4> QED BY <4>1, <4>2, <3>1, RingAssumption
      <3> QED BY <1>1, <3>1, <3>2, <3>3
    <2>2. CASE ~Crosses(start, size)
      BY <1>1, <2>2 DEF StringPieces
    <2> QED BY <2>1, <2>2
  <1> HIDE DEF n, p
  <1> QED BY <1>1, <1>2, <1>3 DEF Fifo!PeekString, n

\* A buffer whose segments are empty holds nothing.
LEMMA NoData ==
    ASSUME readA = 0, writeA = 0, writeB = 0
    PROVE  Contents = <<>>
  BY DEF Contents, get_data_size

\* The same after the step.
LEMMA NoDataNext ==
    ASSUME readA' = 0, writeA' = 0, writeB' = 0
    PROVE  Contents' = <<>>
  BY DEF Contents, get_data_size

\* get_ab_data shows all of the data (RingBuffer.cpp:232-239).
LEMMA LookStep ==
    ASSUME Inv, get_ab_data
    PROVE  Fifo!Look
  <1>1. out' = Contents
    BY SegmentsAreContents DEF get_ab_data
  <1>2. Contents' = Contents
    BY SameContents DEF get_ab_data
  <1>3. ret' = Len(Contents)
    BY ContentsSeq DEF get_ab_data, get_data_size
  <1> QED BY <1>1, <1>2, <1>3 DEF Fifo!Look

\* get_data copies everything out and empties the buffer (RingBuffer.cpp:82-106).
LEMMA TakeStep ==
    ASSUME Inv, get_data
    PROVE  Fifo!Take
  <1>1. CASE is_empty /\ ret' = 0 /\ out' = <<>> /\ UNCHANGED <<buf, readA, writeA, writeB>>
    <2>1. Contents \in Seq(Byte) /\ Len(Contents) = 0
      BY <1>1, ContentsSeq, SizesAreNat
    <2>2. Contents = <<>>
      BY <2>1, EmptySeq, SeqEqual
    <2>3. Contents' = Contents
      BY <1>1, SameContents
    <2> QED BY <1>1, <2>1, <2>2, <2>3 DEF Fifo!Take
  <1>2. CASE ~is_empty
    <2>1. /\ out' = Bytes(readA, writeA - readA) \o Bytes(0, writeB)
          /\ ret' = writeA - readA + writeB
          /\ readA' = 0 /\ writeA' = 0 /\ writeB' = 0
      <3>1. CASE writeA < Size
        <4>1. writeB = 0 /\ writeA - readA + 0 = writeA - readA + writeB
          BY <3>1, RingAssumption DEF Inv, SegmentsOK
        <4> QED BY <1>2, <3>1, <4>1 DEF get_data
      <3>2. CASE ~(writeA < Size)
        <4>1. writeA = Size
          BY <3>2, RingAssumption DEF Inv, TypeOK
        <4> QED BY <1>2, <3>2, <4>1 DEF get_data
      <3> QED BY <3>1, <3>2
    <2>2. out' = Contents /\ Contents' = <<>>
      BY <2>1, SegmentsAreContents, NoDataNext
    <2>3. ret' = Len(Contents)
      BY <2>1, ContentsSeq DEF get_data_size
    <2> QED BY <2>2, <2>3 DEF Fifo!Take
  <1> QED BY <1>1, <1>2 DEF get_data

\* clear empties the buffer (RingBuffer.h:74).
LEMMA ClearStep ==
    ASSUME clear
    PROVE  Fifo!Clear
  BY NoDataNext DEF clear, Fifo!Clear

\* A new buffer is an empty queue.
LEMMA InitFifo == Init => Fifo!Init
  BY NoData DEF Init, Fifo!Init

\* Every call is a step of the byte queue: one step per operation.
LEMMA StepFifo == Inv /\ Inv' /\ [Next]_vars => [Fifo!Next]_(Fifo!vars)
  <1> SUFFICES ASSUME Inv, Inv', [Next]_vars PROVE [Fifo!Next]_(Fifo!vars)
    OBVIOUS
  <1>1. ASSUME NEW src \in Request, set_data(src), call' = <<"put", src>> PROVE Fifo!Next
    BY <1>1, SetDataStep, SameHelpers DEF Fifo!Next
  <1>2. ASSUME NEW src \in Request, receive(src), call' = <<"put", src>> PROVE Fifo!Next
    BY <1>2, ReceiveStep, SameHelpers DEF Fifo!Next
  <1>3. ASSUME NEW size \in 0..MaxArg, insert(size), call' = <<"grow", size>> PROVE Fifo!Next
    <2>1. size \in Nat
      BY RingAssumption
    <2> QED BY <1>3, <2>1, InsertStep DEF Fifo!Next
  <1>4. ASSUME NEW size \in 0..MaxArg, remove(size), call' = <<"drop", size>> PROVE Fifo!Next
    <2>1. size \in Nat
      BY RingAssumption
    <2> QED BY <1>4, <2>1, RemoveStep DEF Fifo!Next
  <1>5. ASSUME NEW start \in 0..MaxArg, NEW size \in 0..MaxArg,
               get_data_block(start, size), call' = <<"peek", start, size>>
        PROVE  Fifo!Next
    <2>1. start \in Nat /\ size \in Nat
      BY RingAssumption
    <2> QED BY <1>5, <2>1, PeekStep DEF Fifo!Next
  <1>6. ASSUME NEW start \in 0..MaxArg, NEW size \in 0..MaxArg,
               get_data_block_string(start, size), call' = <<"append", start, size>>
        PROVE  Fifo!Next
    <2>1. start \in Nat /\ size \in Nat
      BY RingAssumption
    <2> QED BY <1>6, <2>1, StringStep DEF Fifo!Next
  <1>7. ASSUME get_data, call' = <<"take">> PROVE Fifo!Next
    BY <1>7, TakeStep DEF Fifo!Next
  <1>8. ASSUME get_ab_data, call' = <<"look">> PROVE Fifo!Next
    BY <1>8, LookStep DEF Fifo!Next
  <1>9. ASSUME clear, call' = <<"clear">> PROVE Fifo!Next
    BY <1>9, ClearStep DEF Fifo!Next
  <1>10. ASSUME UNCHANGED vars PROVE UNCHANGED Fifo!vars
    BY <1>10, SameContents DEF vars, Fifo!vars
  <1> QED BY <1>1, <1>2, <1>3, <1>4, <1>5, <1>6, <1>7, <1>8, <1>9, <1>10 DEF Next

\* The ring buffer implements the byte queue, for every size of the memory and
\* every request: nothing written is lost, duplicated or reordered, every call
\* returns the count it promises, and what it copies is what the queue shows.  Only
\* the string overload of get_data_block is held to less: among the bytes it
\* appends may be one that nobody wrote (RingBuffer.cpp:82-377).
THEOREM RingImplementsFifo == Spec => ImplementsFifo
  <1>1. Spec => []Inv
    BY InitInv, StepInv, PTL DEF Spec
  <1>2. Spec => Fifo!Spec
    BY <1>1, InitFifo, StepFifo, PTL DEF Spec, Fifo!Spec
  <1> QED BY <1>2 DEF ImplementsFifo
=============================================================================
