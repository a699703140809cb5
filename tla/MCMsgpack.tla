----------------------------- MODULE MCMsgpack -----------------------------
(* Msgpack with bytes of three bits: integers around every limit of the format,
   short and long strings, vectors and maps, some with zeros, and a map two keys of
   which are the same in a smaller type.                                   *)
EXTENDS Msgpack

T(signed, width) == [signed |-> signed, width |-> width]
Byte8 == T(FALSE, 1)

MCValues == {-(Values[4] \div 2) - 1, -(Values[2] \div 2) - 1, -(B \div 2) - 1, -(B \div 2), -(B \div 8) - 1, -1, 0,
             B \div 2 - 1, B \div 2, B - 1, B, Values[2], Values[2] \div 2, Values[4] - 1, Values[4]}

MCItems ==
    [kind : {"int"}, type : {T(TRUE, 8)}, v : {<<v>> : v \in MCValues}]
    \cup [kind : {"fix"}, type : {T(FALSE, 1), T(TRUE, 4), T(FALSE, 8)}, v : {<<0>>, <<B - 1>>}]
    \cup [kind : {"str"}, type : {Byte8}, v : {<<3>>, <<0, 5>>, <<0, 0, 0>>, [i \in 1..B |-> i % B]}]
    \cup {[kind |-> "nil", type |-> Byte8, v |-> << >>], [kind |-> "bool", type |-> Byte8, v |-> <<1>>]}
    \cup {[kind |-> "float", type |-> T(FALSE, 4), v |-> <<B>>], [kind |-> "double", type |-> T(FALSE, 8), v |-> <<Values[4]>>]}
    \cup [kind : {"args"}, type : {T(TRUE, 2)}, v : {<<0, B>>, <<-1, B>>}]
    \cup {[kind |-> "map", type |-> T(TRUE, 4), v |-> v] : v \in {<< >>, <<0, B>>, <<0, 1, Values[2], 2>>}}
    \cup {[kind |-> "array", type |-> T(TRUE, 2), v |-> v] : v \in {<< >>, <<0, 0>>, <<B, -B, 1>>}}

MCAsks ==
    [kind : {"int"}, type : {T(TRUE, 1), T(FALSE, 1), T(TRUE, 2), T(FALSE, 2), T(TRUE, 4), T(TRUE, 8), T(FALSE, 8)}]
    \cup [kind : {"nil", "bool", "str"}, type : {Byte8}] \cup [kind : {"array", "args"}, type : {T(TRUE, 2)}]
    \cup [kind : {"float"}, type : {T(FALSE, 4)}] \cup [kind : {"double"}, type : {T(FALSE, 8)}]
    \cup [kind : {"map"}, type : {T(TRUE, 2)}]
=============================================================================
