------------------------------ MODULE ByteFifo ------------------------------
(***************************************************************************)
(* What LightInk::RingBuffer promises its callers: a first-in first-out    *)
(* queue of at most Size bytes.  Every call, with its arguments in `call`,  *)
(* answers with a count in `ret` and, when it copies bytes out, with those *)
(* bytes in `out`.                                                         *)
(***************************************************************************)
EXTENDS Integers, Sequences

CONSTANTS Size,    \* capacity of the buffer, in bytes
          Byte,    \* the values a byte takes
          MaxArg   \* bound on the length, size or offset a caller passes

VARIABLES fifo, call, ret, out
vars == <<fifo, call, ret, out>>

Least(a, b) == IF a <= b THEN a ELSE b

Request == UNION {[1..n -> Byte] : n \in 0..MaxArg}

TypeOK ==
    /\ fifo \in Seq(Byte) /\ Len(fifo) <= Size
    /\ ret \in Nat
    /\ out \in Seq(Byte)

Init == fifo = <<>> /\ call = <<>> /\ ret = 0 /\ out = <<>>

\* Append as many bytes of src as there is room for.
Put(src) ==
    LET n == Least(Len(src), Size - Len(fifo)) IN
    /\ fifo' = fifo \o SubSeq(src, 1, n)
    /\ ret' = n
    /\ out' = <<>>

\* Append size bytes of unspecified content, or as many as there is room for.
Grow(size) ==
    \E src \in [1..size -> Byte] : Put(src)

\* Forget the oldest size bytes, or all there are.
Drop(size) ==
    LET n == Least(size, Len(fifo)) IN
    /\ fifo' = SubSeq(fifo, n + 1, Len(fifo))
    /\ ret' = n
    /\ out' = <<>>

\* How many bytes there are from offset start on, size of them at most.
Count(start, size) ==
    IF start >= Len(fifo) THEN 0 ELSE Least(size, Len(fifo) - start)

\* Copy out at most size bytes from offset start on, and keep them.
Peek(start, size) ==
    LET n == Count(start, size) IN
    /\ out' = SubSeq(fifo, start + 1, start + n)
    /\ ret' = n
    /\ UNCHANGED fifo

\* Append them to the caller's string.  This promises less than Peek: a byte that
\* nobody wrote, and that is not counted, may stand behind one of them.
PeekString(start, size) ==
    LET n == Count(start, size)
        s == SubSeq(fifo, start + 1, start + n)
    IN
    /\ \/ out' = s
       \/ \E k \in 1..n, c \in Byte :
             out' = SubSeq(s, 1, k) \o <<c>> \o SubSeq(s, k + 1, n)
    /\ ret' = n
    /\ UNCHANGED fifo

\* Show everything and keep it.
Look ==
    /\ out' = fifo
    /\ ret' = Len(fifo)
    /\ UNCHANGED fifo

\* Copy everything out and empty the queue.
Take ==
    /\ out' = fifo
    /\ ret' = Len(fifo)
    /\ fifo' = <<>>

Clear ==
    /\ fifo' = <<>>
    /\ ret' = 0
    /\ out' = <<>>

Next ==
    \/ \E src \in Request : Put(src) /\ call' = <<"put", src>>
    \/ \E size \in 0..MaxArg : Grow(size) /\ call' = <<"grow", size>>
    \/ \E size \in 0..MaxArg : Drop(size) /\ call' = <<"drop", size>>
    \/ \E start, size \in 0..MaxArg :
          Peek(start, size) /\ call' = <<"peek", start, size>>
    \/ \E start, size \in 0..MaxArg :
          PeekString(start, size) /\ call' = <<"append", start, size>>
    \/ Take /\ call' = <<"take">>
    \/ Look /\ call' = <<"look">>
    \/ Clear /\ call' = <<"clear">>

Spec == Init /\ [][Next]_vars
=============================================================================
