---------------------------- MODULE SerialFrames ----------------------------
(***************************************************************************)
(* The frames of the serial link (yx_demo_main/serial_link): what          *)
(* _yx_serial_link_rxrec() finds in the bytes that came.  A header has two *)
(* head bytes, the check byte, the command and the length, a byte each;    *)
(* the device type, which nobody looks at, is left out.  Offsets start at  *)
(* zero, as in the code.                                                   *)
(***************************************************************************)
EXTENDS Naturals, Sequences, Functions, FiniteSetsExt

CONSTANT RxMax  \* YX_SERIAL_LINK_RX_LEN_MAX

HEAD_1 == 85
HEAD_2 == 122
REQ_CMD == 1
BEAT_CMD == 2
FILL_BYTE == 0
HeadLen == 5

At(buf, o) == buf[o + 1]
From(buf, o) == SubSeq(buf, o + 1, Len(buf))

\* yx_chksum_getxor(); like the exclusive or, a sum tells a changed byte.
Check(bytes) == FoldFunction(LAMBDA b, sum : b + sum, 0, bytes)

\* _yx_serial_link_findframehead(), from an offset: a head, the last byte when
\* a head may begin there, or the end.
FindHead(buf, o) ==
    Min({i \in o .. Len(buf) : i + 1 < Len(buf) /\ At(buf, i) = HEAD_1 /\ At(buf, i + 1) = HEAD_2}
        \cup {i \in o .. Len(buf) : i + 1 = Len(buf) /\ At(buf, i) = HEAD_1}
        \cup {Len(buf)})

Cmd(buf, h) == At(buf, h + 3)
Size(buf, h) == At(buf, h + 4)
EndOf(buf, h) == h + HeadLen + Size(buf, h)
Whole(buf, h) == EndOf(buf, h) <= Len(buf)
Sound(buf, h) == At(buf, h + 2) = Check(SubSeq(buf, h + 4, EndOf(buf, h)))

AfterClaimed(buf, h) == EndOf(buf, h)
\* Where the search goes on after a frame whose check is wrong.
AfterBad(buf, h) == h + 2
AfterFrame(buf, h) == EndOf(buf, h)

\* What is found from an offset on: the commands of the sound frames, and the
\* offset from which bytes are kept.  More than RxMax bytes never come together.
Kept(o) == [cmds |-> <<>>, rest |-> o]
Before(cmd, found) == [found EXCEPT !.cmds = <<cmd>> \o @]
FoundFrom(buf, start) ==
    LET from[o \in 0 .. Len(buf)] ==
            LET h == FindHead(buf, o)
            IN  IF h + HeadLen > Len(buf) THEN Kept(h)
                ELSE IF Whole(buf, h)
                     THEN IF Sound(buf, h) THEN Before(Cmd(buf, h), from[AfterFrame(buf, h)])
                          ELSE from[AfterBad(buf, h)]
                     ELSE IF Len(buf) > RxMax THEN from[AfterBad(buf, h)] ELSE Kept(h)
    IN  from[start]
Analysed(buf) == IF Len(buf) < HeadLen THEN Kept(0) ELSE FoundFrom(buf, 0)

\* A frame of the microcontroller.
Frame(cmd, data) ==
    LET body == <<cmd, Len(data)>> \o data
    IN  <<HEAD_1, HEAD_2, Check(body)>> \o body
=============================================================================
