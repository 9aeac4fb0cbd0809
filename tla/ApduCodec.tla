------------------------------ MODULE ApduCodec ------------------------------
(***************************************************************************)
(* How an APDU crosses the link of the remote SIM apps: the daemon frames a *)
(* command (sendApduRequest), the client parses it (sendApduToSim), frames *)
(* the card's answer (sendApduResponse) and the daemon parses that         *)
(* (handleApduTransfer).  An AtR is framed and parsed in the same way as an *)
(* answer, without the identifier.                                         *)
(*                                                                         *)
(* A byte holds 0 .. Byte - 1; the code's Byte is 256.  TCP knows no       *)
(* messages: a read() returns the frame, or the frame and the beginning of *)
(* what follows it, or a part of the frame, and then the next read()       *)
(* begins inside it.  What a read() returned is parsed as one message.     *)
(* Reads that begin with an earlier message are that message's.            *)
(***************************************************************************)
EXTENDS Integers, Sequences

CONSTANTS
    Byte,       \* 2^8
    MaxData,    \* bound: bytes in a command's or an answer's data
    Ids,        \* bound: identifiers the modem gives to commands
    Tails,      \* bound: what is coalesced behind a frame, << >> for nothing
    MaxReads    \* bound: read() calls that a frame is cut into

ASSUME CodecAssumption ==
    /\ Byte \in Nat /\ Byte > 8
    /\ MaxData \in Nat /\ Ids \subseteq Nat
    /\ << >> \in Tails /\ Tails \subseteq Seq(0 .. Byte - 1)
    /\ MaxReads \in Nat

APDU_TRANSFER_MSG == 0
CARD_RESET_MSG == 5
CARD_INSERTED_MSG == 6

\* The value of a variable of type uint8_t assigned from a wider one.
Uint8(n) == n % Byte

Bytes(n) == [1 .. n -> {0, 1}]
Data == UNION {Bytes(n) : n \in 0 .. MaxData}

\* A command APDU by its case (ETSI TS 102 221, 10.1): the header's four bytes
\* stand as one, data is present when Lc is, and -1 marks an absent Le.
Command == {c \in [header : {1}, data : Data, le : -1 .. 2] : Len(c.data) < Byte}

HeaderBytes(h) == <<h, h, h, h>>

\* The bytes the modem hands to onApduTransfer() for a command.
CommandBytes(c) ==
    HeaderBytes(c.header)
    \o (IF c.data = << >> THEN << >> ELSE <<Len(c.data)>> \o c.data)
    \o (IF c.le = -1 THEN << >> ELSE <<c.le>>)

-----------------------------------------------------------------------------
(* The framing.                                                            *)

\* SimConnection::sendApduRequest().
ApduRequest(id, apdu) == <<APDU_TRANSFER_MSG, Uint8(id)>> \o apdu

\* SimConnection::sendApduResponse().
ApduResponse(id, data) == <<APDU_TRANSFER_MSG, Uint8(id), Uint8(Len(data))>> \o data

\* SimConnection::sendCardResetResponse() and sendCardInsertedMessage().
AtrMessage(type, atr) == <<type, Uint8(Len(atr))>> \o atr

-----------------------------------------------------------------------------
(* The parsers.  buf[i] in C++ is buf[i + 1] here.                         *)

Dropped == [dropped |-> TRUE]

\* Lc is there when the message has at least APDU_MSG_CASE_3_LEN bytes.
LcOffByOne(buf) == IF Len(buf) < 9 THEN 0 ELSE buf[7]
LcOf(buf) == IF Len(buf) < 8 THEN 0 ELSE buf[7]

LeOf(buf, lc) == IF Len(buf) = 7 THEN buf[7]
                 ELSE IF Len(buf) > lc + 7 THEN buf[lc + 8] ELSE 0

\* CardControl::sendApduToSim(): the call of transmitApdu(), if any.
SendApduToSim(buf) ==
    LET lc == LcOf(buf) IN
    IF Len(buf) < 6 \/ (lc > 0 /\ Len(buf) < lc + 7)
    THEN Dropped
    ELSE [id |-> buf[2], header |-> buf[3], lc |-> lc,
          data |-> SubSeq(buf, 8, 7 + lc), le |-> LeOf(buf, lc)]

\* RemoteSimDaemon::handleApduTransfer(): the call of sendApdu(), if any.
LengthCovered(buf, header) == buf[header] <= Len(buf) - header
LengthAgrees(buf, header) == buf[header] = Len(buf) - header

HandleApduTransfer(buf) ==
    IF Len(buf) < 3 \/ ~LengthAgrees(buf, 3)
    THEN Dropped ELSE [id |-> buf[2], data |-> SubSeq(buf, 4, 3 + buf[3])]

\* handleCardReset() and handleCardInserted(): the AtR given to the modem.  A
\* one-byte message reads buf[1] beyond its end, where memset() left 0, and is
\* then malformed.
HandleAtr(buf) ==
    IF Len(buf) < 2 \/ ~LengthAgrees(buf, 2)
    THEN Dropped ELSE [type |-> buf[1], data |-> SubSeq(buf, 3, 2 + buf[2])]

\* A message of another type is handled by its first byte alone.
Other(buf) == [type |-> buf[1]]

\* SapCardProvider::handleDaemonMsg() and RemoteSimDaemon::handleClientMsg().
HandleDaemonMsg(buf) == IF buf[1] = APDU_TRANSFER_MSG THEN SendApduToSim(buf) ELSE Other(buf)
HandleClientMsg(buf) ==
    CASE buf[1] = APDU_TRANSFER_MSG -> HandleApduTransfer(buf)
      [] buf[1] \in {CARD_RESET_MSG, CARD_INSERTED_MSG} -> HandleAtr(buf)
      [] OTHER -> Other(buf)

-----------------------------------------------------------------------------
(* One message on its way.                                                 *)

VARIABLES
    kind,       \* "command", "answer" or "atr"
    msg,        \* what is sent
    unread,     \* what the receiver has still to read of it
    wire,       \* what the last read() returned, << >> when it is parsed
    coalesced,  \* a read() returned more than the frame
    cut,        \* a read() returned a part of the frame
    got         \* what the parser made of each read(), from the frame's first byte on

codecVars == <<kind, msg, unread, wire, coalesced, cut, got>>

Answer == [id : Ids, data : Data]
Atr == [type : {CARD_RESET_MSG, CARD_INSERTED_MSG}, data : Data]

CodecInit ==
    /\ \/ kind = "command" /\ msg \in [id : Ids, cmd : Command]
       \/ kind = "answer" /\ msg \in Answer
       \/ kind = "atr" /\ msg \in Atr
    /\ unread = << >> /\ wire = << >> /\ coalesced = FALSE /\ cut = FALSE /\ got = << >>

\* The frame of the message.
Frame == CASE kind = "command" -> ApduRequest(msg.id, CommandBytes(msg.cmd))
           [] kind = "answer"  -> ApduResponse(msg.id, msg.data)
           [] OTHER            -> AtrMessage(msg.type, msg.data)

Send ==
    /\ unread = << >> /\ wire = << >> /\ got = << >>
    /\ unread' = Frame
    /\ UNCHANGED <<kind, msg, wire, coalesced, cut, got>>

\* read() returns all there is, and what was coalesced behind it, ...
ReadAll ==
    /\ unread # << >> /\ wire = << >>
    /\ \E tail \in Tails :
         wire' = unread \o tail /\ coalesced' = (tail # << >>)
    /\ unread' = << >>
    /\ UNCHANGED <<kind, msg, cut, got>>

\* ... or what has arrived so far, or as much as fits into BUF_LEN.
ReadPart ==
    /\ unread # << >> /\ wire = << >> /\ Len(got) + 1 < MaxReads
    /\ \E n \in 1 .. Len(unread) - 1 :
         wire' = SubSeq(unread, 1, n) /\ unread' = SubSeq(unread, n + 1, Len(unread))
    /\ cut' = TRUE
    /\ UNCHANGED <<kind, msg, coalesced, got>>

Handled(buf) == IF kind = "command" THEN HandleDaemonMsg(buf) ELSE HandleClientMsg(buf)

Receive ==
    /\ wire # << >>
    /\ got' = Append(got, Handled(wire))
    /\ wire' = << >>
    /\ UNCHANGED <<kind, msg, unread, coalesced, cut>>

CodecNext == Send \/ ReadAll \/ ReadPart \/ Receive

CodecSpec == CodecInit /\ [][CodecNext]_codecVars

-----------------------------------------------------------------------------
(* Properties.                                                             *)

\* What transmitApdu() has to be called with.
Wanted(m) == [id |-> m.id, header |-> m.cmd.header, lc |-> Len(m.cmd.data),
              data |-> m.cmd.data, le |-> IF m.cmd.le = -1 THEN 0 ELSE m.cmd.le]

\* A command of any of the four cases that arrives alone and in one read() reaches
\* the card, once, with its own data, Lc and Le, under its own identifier.
CommandIntact ==
    kind = "command" /\ got # << >> /\ ~coalesced /\ ~cut /\ msg.id < Byte => got = <<Wanted(msg)>>

\* What the modem has to be given of an answer or an AtR.
Said == IF kind = "answer" THEN [id |-> Uint8(msg.id), data |-> msg.data]
        ELSE [type |-> msg.type, data |-> msg.data]
TooLong == Len(msg.data) >= Byte

\* Of an answer or an AtR that was not cut the modem is given what the card said, or
\* nothing, whatever was read with it; nothing only if the data do not fit their
\* length byte (SimConnection.cpp:341) or came with another message.  The first part
\* of one that was cut gives nothing, if the data fit: what the other parts are taken
\* for (RemoteSimDaemon.cpp:319-353), and an overlong one's first part, may be anything.
AnswerIntact ==
    kind \in {"answer", "atr"} /\ got # << >> =>
      /\ ~cut => got \in {<<Said>>, <<Dropped>>}
      /\ ~cut /\ ~coalesced /\ ~TooLong => got = <<Said>>
      /\ cut /\ ~TooLong => got[1] = Dropped

=============================================================================
