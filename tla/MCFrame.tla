------------------------------ MODULE MCFrame ------------------------------
(* Bytes of three values: MaxU24 is 26 and the longest TLV value 8.        *)
EXTENDS Frame

T(ext, field, value) == [ext |-> ext, field |-> field, len |-> Len(value), value |-> value]
Zeros(k) == [i \in 1 .. k |-> 0]

Msg(ext, type, params) == [ext |-> ext, type |-> type, params |-> params]

\* Empty, short, as long as a header can say, and too long.
MCMsgs == {Msg(0, 1, <<>>), Msg(4, 2, <<2, 1>>), Msg(0, 2, [i \in 1 .. MaxU24 |-> i % 3]),
           Msg(0, 1, Zeros(MaxU24 + 1))}

\* None, an empty one, three out of order, one whose value is too long.
MCTLVLists ==
  {<<>>, <<T(1, 0, <<>>)>>, <<T(5, 1, <<1>>), T(3, 2, <<2, 2>>), T(3, 1, <<>>)>>,
   <<T(4, 0, <<1>>), T(1, 1, Zeros(Limit64K + 1))>>}

\* Nothing, a few bytes, a TLV whose value is missing.
MCTrailers == {<<>>, <<2, 0, 1, 2>>, <<1, 0, 1, 2, 0>>}
=============================================================================
