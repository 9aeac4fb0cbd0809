---------------------------- MODULE MCSerialLink ----------------------------
(***************************************************************************)
(* A small serial link: what the microcontroller may send.                 *)
(***************************************************************************)
EXTENDS SerialLink

CAN == 48
Intact(cmd, data) == [bytes |-> Frame(cmd, data), intact |-> <<cmd>>]
Damaged(bytes) == [bytes |-> bytes, intact |-> <<>>]
Pad(n) == Damaged([i \in 1 .. n |-> IF i < n THEN FILL_BYTE ELSE HEAD_1])
a ++ b == [bytes |-> a.bytes \o b.bytes, intact |-> a.intact \o b.intact]

Req == Intact(REQ_CMD, <<1>>)
Can == Intact(CAN, <<HEAD_1>>)

\* A frame whose data is a frame.
Nested == Intact(CAN, Frame(REQ_CMD, <<>>))

\* A request whose data was changed on the way, and one whose length was.
BadData == Damaged(<<HEAD_1, HEAD_2, Check(<<REQ_CMD, 1, 1>>), REQ_CMD, 1, 2>>)
BadLength == Damaged(<<HEAD_1, HEAD_2, Check(<<REQ_CMD, 1, 1>>), REQ_CMD, 4, 1>>)
TooLong == Damaged(<<HEAD_1, HEAD_2, Check(<<REQ_CMD, 1, 1>>), REQ_CMD, 20, 1>>)

\* With blocks of seven bytes a head is cut in two by the end of a block.
MCStreams ==
    {Req ++ Can, Pad(2) ++ Can, Pad(6) ++ Can, Can ++ Can, Nested ++ Can,
     BadData ++ Pad(1) ++ Can, BadLength ++ Can, TooLong ++ Can}
=============================================================================
