----------------------------- MODULE MCApduCodec -----------------------------
(* An instance of ApduCodec whose byte holds nine values: the code's message *)
(* types, and data both shorter and longer than a byte can count.           *)
EXTENDS ApduCodec

\* Nothing, a one-byte message (CONN_KEEPALIVE_MSG, CARD_CONNECT_MSG), the
\* beginning of an APDU and the whole of an answer.
MCTails == {<< >>, <<8>>, <<1>>, <<0, 1, 1>>, <<0, 1, 2, 1, 1>>}
=============================================================================
