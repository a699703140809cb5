------------------------------ MODULE Msgpack ------------------------------
(***************************************************************************)
(* A message from its writer to its reader: values are packed into a        *)
(* PackBuffer<DataFixBuffer> (src/include/Msgpack/Packer.cpp,               *)
(* DataFixBuffer.cpp), carried as they are, through CapCompresser or        *)
(* through XxteaEncrypter, and unpacked by whatever types the reader asks   *)
(* for (Unpacker.cpp).                                                     *)
(*                                                                         *)
(* A byte has Bits bits, 8 in the code, and every limit of the format that  *)
(* is a power of two of the width of a byte scales with it: 64-bit integers *)
(* are 8 bytes wide, a group of the compresser is Bits bytes.  A byte that  *)
(* is the head of a value is [of, n] with what it says; all others, fixints  *)
(* too, are "data" with their number.  A reader out of step with its writer *)
(* never takes data for a head here; the properties end where it gets so.   *)
(***************************************************************************)
EXTENDS Integers, SequencesExt

CONSTANTS Bits,      \* of a byte
          FixLen,    \* the size of the DataFixBuffer
          FixStr,    \* strings shorter than this have their length in the head, 32
          FixArray,  \* arrays and maps, 16
          Word,      \* bytes of a word of the cipher, 4
          Items,     \* the values that are packed
          Asks,      \* the types the reader asks for
          MaxItems   \* bound on the values in a message

VARIABLES
    buf,     \* the buffer up to m_writePos
    pos,     \* m_readPos
    sent,    \* the values packed
    torn,    \* a value was packed in part
    how,     \* how the message was carried, "none" while it is packed
    orig,    \* what it was before
    got      \* what unpack was asked for, returned and gave, call by call

vars == <<buf, pos, sent, torn, how, orig, got>>

\* 2^n, and the values that k bytes have.
Power2[n \in 0..Bits] == IF n = 0 THEN 1 ELSE 2 * Power2[n - 1]
B == Power2[Bits]
Values[k \in 0..8] == IF k = 0 THEN 1 ELSE B * Values[k - 1]

Widths == {1, 2, 4, 8}
Type == [signed : BOOLEAN, width : Widths]
HasValue(t, v) ==
    LET values == Values[t.width] IN
    IF t.signed THEN -(values \div 2) <= v /\ v < values \div 2 ELSE 0 <= v /\ v < values

Data(n) == [of |-> "data", n |-> n]
Mark(of, n) == [of |-> of, n |-> n]

\* _msgpack_store and load
Store(v, k) == [i \in 1..k |-> Data((v \div Values[k - i]) % B)]
Load(bytes) ==
    LET Upto[n \in 0..Len(bytes)] == IF n = 0 THEN 0 ELSE Upto[n - 1] * B + bytes[n].n
    IN  Upto[Len(bytes)]
Signed(u, k) == IF u >= Values[k] \div 2 THEN u - Values[k] ELSE u

\* static_cast to t.
Cast(v, t) == LET u == v % Values[t.width] IN IF t.signed THEN Signed(u, t.width) ELSE u

-----------------------------------------------------------------------------
\* Packer

PositiveFix == 0..(B \div 2 - 1)
NegativeFix == -(B \div 8)..(-1)

\* Fault for Unpacked: the first integer that is no fixint becomes one.
pack_int_late(v) ==
    IF v \in NegativeFix \cup 0..(B \div 2) THEN <<Data(v % B)>>
    ELSE LET k == CHOOSE w \in Widths : \A x \in Widths : HasValue([signed |-> v < 0, width |-> x], v) <=> w <= x
         IN  <<Mark(IF v < 0 THEN "int" ELSE "uint", k)>> \o Store(v, k)

\* pack_imp_uint8 to pack_imp_int64: the shortest form, signed only for what is
\* below 0.
pack_int(v) ==
    IF v \in NegativeFix \cup PositiveFix THEN <<Data(v % B)>>
    ELSE LET k == CHOOSE w \in Widths : \A x \in Widths : HasValue([signed |-> v < 0, width |-> x], v) <=> w <= x
         IN  <<Mark(IF v < 0 THEN "int" ELSE "uint", k)>> \o Store(v, k)

\* pack_fix_uint8 to pack_fix_int64.
pack_fix(t, v) == <<Mark(IF t.signed THEN "int" ELSE "uint", t.width)>> \o Store(v, t.width)

\* pack_str, pack_array and pack_map.
pack_str(l) == IF l < FixStr THEN <<Mark("fixstr", l)>>
               ELSE LET k == CHOOSE w \in {1, 2, 4} : \A x \in {1, 2, 4} : l < Values[x] <=> w <= x
                    IN  <<Mark("str", k)>> \o Store(l, k)
pack_array(l) == IF l < FixArray THEN <<Mark("fixarray", l)>>
                 ELSE LET k == IF l < Values[2] THEN 2 ELSE 4
                      IN  <<Mark("array", k)>> \o Store(l, k)
pack_map(n) == IF n < FixArray THEN <<Mark("fixmap", n)>>
               ELSE LET k == IF n < Values[2] THEN 2 ELSE 4
                    IN  <<Mark("map", k)>> \o Store(n, k)

\* What pack of a value writes, write by write: a float is its bits, a map its keys
\* and values by turns, and the members of a class ("args") have nothing around them.
Writes(item) ==
    CASE item.kind = "int" -> <<pack_int(item.v[1])>>
      [] item.kind = "fix" -> <<pack_fix(item.type, item.v[1])>>
      [] item.kind = "nil" -> << <<Mark("nil", 0)>> >>
      [] item.kind = "bool" -> << <<Mark("bool", item.v[1])>> >>
      [] item.kind \in {"float", "double"} ->
            << <<Mark(item.kind, item.type.width)>> \o Store(item.v[1], item.type.width) >>
      [] item.kind = "str" -> <<pack_str(Len(item.v)), [i \in DOMAIN item.v |-> Data(item.v[i])]>>
      [] item.kind = "map" -> <<pack_map(Len(item.v) \div 2)>> \o [i \in DOMAIN item.v |-> pack_int(item.v[i])]
      [] item.kind = "args" -> [i \in DOMAIN item.v |-> pack_int(item.v[i])]
      [] item.kind = "array" -> <<pack_array(Len(item.v))>> \o [i \in DOMAIN item.v |-> pack_int(item.v[i])]

Bytes(item) == FlattenSeq(Writes(item))

\* Fault for TypeOK: what does not fit is written.
Fits(bytes, chunk) == Len(bytes) <= FixLen

\* DataFixBuffer::write
CanWrite(bytes, chunk) == Len(bytes) + Len(chunk) <= FixLen

\* A pack stops at the write that fails and leaves what was written.
Written(item) ==
    LET w == Writes(item)
        Upto[n \in 0..Len(w)] ==
            IF n = 0 THEN [buf |-> buf, ok |-> TRUE]
            ELSE LET s == Upto[n - 1] IN
                 IF s.ok /\ CanWrite(s.buf, w[n]) THEN [s EXCEPT !.buf = @ \o w[n]]
                 ELSE [s EXCEPT !.ok = FALSE]
    IN  Upto[Len(w)]

Members == 2   \* of the class that is packed

\* Integers by pack or by pack_fix and all others, as sequences of integers.
Fixed == [nil |-> 0, bool |-> 1, int |-> 1, fix |-> 1, float |-> 1, double |-> 1, args |-> Members]
Kinds == DOMAIN Fixed \cup {"str", "array", "map"}
TypeOf(kind) == CASE kind = "str" -> [signed |-> FALSE, width |-> 1]
                  [] kind = "float" -> [signed |-> FALSE, width |-> 4]
                  [] kind = "double" -> [signed |-> FALSE, width |-> 8]
Packable(item) ==
    /\ item.kind \in Kinds /\ item.type \in Type
    /\ item.v \in Seq(Int) /\ Len(item.v) < Values[4]
    /\ item.kind \in DOMAIN Fixed => Len(item.v) = Fixed[item.kind]
    /\ \A i \in DOMAIN item.v : HasValue(item.type, item.v[i])
    /\ item.kind \in {"str", "float", "double"} => item.type = TypeOf(item.kind)
    /\ item.kind = "bool" => item.v[1] \in {0, 1}
    /\ item.kind = "map" => Len(item.v) % 2 = 0

ASSUME MsgpackAssumption ==
    /\ Bits \in Nat /\ Bits >= 3
    /\ FixLen \in Nat /\ FixStr \in Nat /\ FixArray \in Nat /\ MaxItems \in Nat
    /\ Word \in Nat \ {0} /\ 2 * Word <= B \div 2
    /\ \A item \in Items : Packable(item)
    /\ \A ask \in Asks : ask.kind \in Kinds \ {"fix"} /\ ask.type \in Type

-----------------------------------------------------------------------------
\* CapCompresser: of each group of Bits bytes the flag says which are not zero,
\* and only those follow.

Zero == Data(0)
\* Bytes a to b, the last of which may be missing.
Part(src, a, b) == SubSeq(src, a, IF b <= Len(src) THEN b ELSE Len(src))

compress_group(bytes) ==
    LET Upto[n \in 0..Len(bytes)] ==
            IF n = 0 THEN [flag |-> 0, kept |-> << >>]
            ELSE LET s == Upto[n - 1] IN
                 IF bytes[n] = Zero THEN s
                 ELSE [flag |-> s.flag + Power2[n - 1], kept |-> Append(s.kept, bytes[n])]
        all == Upto[Len(bytes)]
    IN  <<Data(all.flag)>> \o all.kept

compress_groups(src) ==
    LET groups == (Len(src) + Bits - 1) \div Bits
        Upto[g \in 0..groups] ==
            IF g = 0 THEN << >>
            ELSE Upto[g - 1] \o compress_group(Part(src, (g - 1) * Bits + 1, g * Bits))
    IN  Upto[groups]

\* Fault for Carried: the length of a short last group is left out when it is 1.
compress_one_short(src) ==
    LET mod == Len(src) % Bits
    IN  compress_groups(src) \o IF mod > 1 THEN <<Data(mod)>> ELSE << >>

\* Both compress: only a last group that is short says how long it is.
compress(src) ==
    LET mod == Len(src) % Bits
    IN  compress_groups(src) \o IF mod > 0 THEN <<Data(mod)>> ELSE << >>

\* A group of uncompress with its flag, the bytes of which are from at to end.
uncompress_group(src, end, flag, at) ==
    LET Upto[j \in 0..Bits] ==
            IF j = 0 THEN [at |-> at, dest |-> << >>]
            ELSE LET s == Upto[j - 1] IN
                 IF (flag \div Power2[j - 1]) % 2 = 1 /\ s.at <= end
                 THEN [at |-> s.at + 1, dest |-> Append(s.dest, src[s.at])]
                 ELSE [at |-> s.at, dest |-> Append(s.dest, Zero)]
    IN  Upto[Bits]

\* What the loop of uncompress makes of src up to end: at is where the next flag is.
Groups(src, end) ==
    LET Upto[n \in 0..end] ==
            IF n = 0 THEN [at |-> 1, dest |-> << >>]
            ELSE LET s == Upto[n - 1] IN
                 IF s.at >= end THEN s
                 ELSE LET g == uncompress_group(src, end, src[s.at].n, s.at + 1)
                      IN  [at |-> g.at, dest |-> s.dest \o g.dest]
    IN  Upto[end].dest

\* A byte as a char; the heads are below any fixint.
Char(b) == IF b.of = "data" THEN Signed(b.n, 1) ELSE -(B \div 2)

\* The last byte is taken for the length of the last group whatever it is.
\* write_pos of more than the buffer is the whole of it, here without what the
\* loop did not write.
uncompress(src, end) ==
    LET dest == Groups(src, end)
        len == Len(dest) - (Bits - Char(src[Len(src)]))
    IN  IF len \in 0..Len(dest) THEN SubSeq(dest, 1, len) ELSE dest

\* XxteaEncrypter: at least two words, the last bytes of which say how many of them
\* are not the message's.
encrypt(src) ==
    LET n == Len(src) \div Word + 1
        rest == (IF n <= 1 THEN 2 ELSE n) * Word - Len(src)
    IN  src \o [i \in 1..rest |-> Data(rest)]

\* Its rounds undo those of encrypt, which are left out of both.
decrypt(src) ==
    LET n == Char(src[Len(src)]) IN
    IF n > Word THEN << >> ELSE SubSeq(src, 1, Len(src) - n)

\* Through buffers, and through pointers, where the length is not part of the loop.
Carry(via, src) ==
    LET c == compress(src) IN
    CASE via = "plain" -> src
      [] via = "buffer" -> uncompress(c, Len(c))
      [] via = "pointer" -> uncompress(c, Len(c) - 1)
      [] via = "xxtea" -> decrypt(encrypt(src))

-----------------------------------------------------------------------------
\* Unpacker: each from p on gives the position behind, success and the value.

Has(p, k) == p + k <= Len(buf)
Result(p, ok, v) == [pos |-> p, ok |-> ok, v |-> v]

\* A fixint is taken by all types, but a negative one not by uint8.
TakesFixint(t, n) == n \in PositiveFix \/ (n >= B - B \div 8 /\ (t.width > 1 \/ t.signed))

\* unpack_imp_uint8 to unpack_imp_int64 and unpack_imp_check_int, by the head.
TakesHead(t, h) ==
    /\ h.of \in {"int", "uint"}
    /\ \/ t.width = 1 /\ h.n = 1 /\ h.of = (IF t.signed THEN "int" ELSE "uint")
       \/ t.width > 1 /\ h.n < 8
       \/ t.width = 8 /\ h.n = 8 /\ (t.signed \/ h.of = "uint")

\* The head is gone, whatever becomes of the rest.
unpack_int(t, p) ==
    LET h == buf[p + 1]
        u == Load(SubSeq(buf, p + 2, p + 1 + h.n))
    IN  IF ~Has(p, 1) THEN Result(p, FALSE, << >>)
        ELSE IF h.of = "data" /\ TakesFixint(t, h.n) THEN Result(p + 1, TRUE, <<Cast(Signed(h.n, 1), t)>>)
        ELSE IF TakesHead(t, h) /\ Has(p + 1, h.n)
        THEN Result(p + 1 + h.n, TRUE, <<Cast(IF h.of = "int" THEN Signed(u, h.n) ELSE u, t)>>)
        ELSE Result(p + 1, FALSE, << >>)

\* unpack_nil, unpack_bool, unpack_float and unpack_double.
unpack_nil(p) == Result(IF Has(p, 1) THEN p + 1 ELSE p, Has(p, 1) /\ buf[p + 1].of = "nil", << >>)
unpack_bool(p) ==
    IF Has(p, 1) /\ buf[p + 1].of = "bool" THEN Result(p + 1, TRUE, <<buf[p + 1].n>>)
    ELSE Result(IF Has(p, 1) THEN p + 1 ELSE p, FALSE, << >>)
unpack_float(kind, p) ==
    LET k == TypeOf(kind).width IN
    IF ~Has(p, 1) THEN Result(p, FALSE, << >>)
    ELSE IF buf[p + 1].of = kind /\ Has(p + 1, k)
    THEN Result(p + 1 + k, TRUE, <<Load(SubSeq(buf, p + 2, p + 1 + k))>>)
    ELSE Result(p + 1, FALSE, << >>)

\* unpack_str, unpack_array and unpack_map, whose callers do not look at the error:
\* 0 is left.
unpack_len(kind, fix, p) ==
    LET h == buf[p + 1] IN
    CASE ~Has(p, 1) -> [pos |-> p, n |-> 0]
      [] Has(p, 1) /\ h.of = fix -> [pos |-> p + 1, n |-> h.n]
      [] Has(p, 1) /\ h.of = kind /\ Has(p + 1, h.n) ->
            [pos |-> p + 1 + h.n, n |-> Load(SubSeq(buf, p + 2, p + 1 + h.n))]
      [] OTHER -> [pos |-> p + 1, n |-> 0]

unpack_str_string(p) ==
    LET l == unpack_len("str", "fixstr", p) IN
    IF Has(l.pos, l.n) THEN Result(l.pos + l.n, TRUE, [i \in 1..l.n |-> buf[l.pos + i].n])
                       ELSE Result(l.pos, FALSE, << >>)

\* n integers, one after the other until one fails: unpack_args, and what the others
\* do with their elements.
unpack_args(t, n, p) ==
    LET Upto[i \in 0..n] ==
            IF i = 0 THEN Result(p, TRUE, << >>)
            ELSE LET r == Upto[i - 1]  e == unpack_int(t, r.pos) IN
                 IF r.ok THEN Result(e.pos, e.ok, r.v \o e.v) ELSE r
    IN  Upto[n]

unpack_vector(t, p) == LET l == unpack_len("array", "fixarray", p) IN unpack_args(t, l.n, l.pos)

\* std::map::insert of the pairs in v, of which those with a key that is there are
\* dropped.
Inserted(v) ==
    LET Upto[i \in 0..(Len(v) \div 2)] ==
            IF i = 0 THEN << >>
            ELSE LET m == Upto[i - 1]  k == v[2 * i - 1] IN
                 IF \E j \in 1..(Len(m) \div 2) : m[2 * j - 1] = k THEN m ELSE m \o <<k, v[2 * i]>>
    IN  Upto[Len(v) \div 2]

unpack_map(t, p) ==
    LET l == unpack_len("map", "fixmap", p)
        r == unpack_args(t, 2 * l.n, l.pos)
    IN  [r EXCEPT !.v = Inserted(@)]

Unpack(ask) ==
    CASE ask.kind = "int" -> unpack_int(ask.type, pos)
      [] ask.kind = "nil" -> unpack_nil(pos)
      [] ask.kind = "bool" -> unpack_bool(pos)
      [] ask.kind \in {"float", "double"} -> unpack_float(ask.kind, pos)
      [] ask.kind = "str" -> unpack_str_string(pos)
      [] ask.kind = "array" -> unpack_vector(ask.type, pos)
      [] ask.kind = "map" -> unpack_map(ask.type, pos)
      [] ask.kind = "args" -> unpack_args(ask.type, Members, pos)

-----------------------------------------------------------------------------
Init == /\ buf = << >> /\ pos = 0 /\ sent = << >> /\ torn = FALSE
        /\ how = "none" /\ orig = << >> /\ got = << >>

\* The writer goes on after a pack that failed.
pack(item) ==
    /\ how = "none" /\ Len(sent) < MaxItems
    /\ LET w == Written(item) IN
          /\ buf' = w.buf
          /\ sent' = IF w.ok THEN Append(sent, item) ELSE sent
          /\ torn' = (torn \/ (~w.ok /\ w.buf # buf))
    /\ UNCHANGED <<pos, how, orig, got>>

\* compress and encrypt refuse an empty buffer.
carry(via) ==
    /\ how = "none" /\ (via # "plain" => buf # << >>)
    /\ how' = via /\ orig' = buf /\ buf' = Carry(via, buf)
    /\ UNCHANGED <<pos, sent, torn, got>>

\* The reader goes on after an unpack that failed.
unpack(ask) ==
    /\ how # "none" /\ Len(got) < MaxItems
    /\ LET r == Unpack(ask) IN
          pos' = r.pos /\ got' = Append(got, [ask |-> ask, ok |-> r.ok, v |-> r.v])
    /\ UNCHANGED <<buf, sent, torn, how, orig>>

Next == \/ \E item \in Items : pack(item)
        \/ \E via \in {"plain", "buffer", "pointer", "xxtea"} : carry(via)
        \/ \E ask \in Asks : unpack(ask)

Spec == Init /\ [][Next]_vars

-----------------------------------------------------------------------------
\* The bytes are bytes, of a message no more than fit, and nothing is read from
\* behind what was written.
Byte ==
    [of : {"data"}, n : 0..(B - 1)]
    \cup [of : {"int", "uint", "float", "double", "str", "array", "map"}, n : Widths]
    \cup [of : {"nil", "bool"}, n : {0, 1}]
    \cup [of : {"fixstr"}, n : 0..(FixStr - 1)]
    \cup [of : {"fixarray", "fixmap"}, n : 0..(FixArray - 1)]

TypeOK ==
    /\ buf \in Seq(Byte) /\ orig \in Seq(Byte)
    /\ Len(orig) <= FixLen /\ (how = "none" => Len(buf) <= FixLen)
    /\ pos \in 0..Len(buf)
    /\ got \in Seq([ask : Asks, ok : BOOLEAN, v : Seq(Int)])

\* The first n calls of unpack succeeded, and strings, vectors, maps and classes were
\* asked for where there was one and nowhere else.  Strings, vectors and maps asked
\* for in place of something else are empty, with success, and its head is gone
\* (Unpacker.cpp:928, UnpackerAdaptor.h:270, 290).
Agree(n) ==
    /\ n <= Len(sent) /\ ~torn /\ buf = orig
    /\ \A i \in 1..n :
          /\ got[i].ok
          /\ {got[i].ask.kind, sent[i].kind} \cap {"str", "array", "map", "args"} # {} =>
                got[i].ask.kind = sent[i].kind

As(ask, v) == CASE ask.kind \in {"int", "array", "args"} -> [i \in DOMAIN v |-> Cast(v[i], ask.type)]
                [] ask.kind = "map" -> Inserted([i \in DOMAIN v |-> Cast(v[i], ask.type)])
                [] OTHER -> v

\* As long as writer and reader agree, each value comes out as the C++ conversion
\* of what went in, silently where the type is too small for it, and the reader
\* stands at the next.  An integer packed in the shortest form is not refused by
\* any type that has its value.
Unpacked ==
    \A n \in DOMAIN got :
        /\ Agree(n) => got[n].v = As(got[n].ask, sent[n].v)
        /\ Agree(n) /\ n = Len(got) => pos = Len(FlattenSeq([i \in 1..n |-> Bytes(sent[i])]))
        /\ Agree(n - 1) /\ n <= Len(sent) /\ ~got[n].ok =>
              \/ got[n].ask.kind # sent[n].kind
              \/ \E i \in DOMAIN sent[n].v : ~HasValue(got[n].ask.type, sent[n].v[i])

\* A message comes out of the compresser as it went in, unless its length is a
\* multiple of the group's (CapCompresser.h:79, 152) or, through pointers, its last
\* group is all zero (CapCompresser.cpp:98), and out of the cipher unless it is shorter
\* than a word, which encrypt takes and decrypt refuses (XxteaEncrypter.cpp:45, 70).
Carried ==
    \/ how \in {"none", "plain"} \/ buf = orig
    \/ how = "xxtea" /\ Len(orig) < Word
    \/ how \in {"buffer", "pointer"} /\ Len(orig) % Bits = 0
    \/ how = "pointer" /\ \A i \in 0..((Len(orig) % Bits) - 1) : orig[Len(orig) - i] = Zero
=============================================================================
