--------------------------- MODULE MCMsgQueueHandler ---------------------------
(* Small instances of MsgQueueHandler: a message without bytes, one whose   *)
(* bytes outgrow the buffer, one with an illegal length.                    *)
EXTENDS MsgQueueHandler

MCLens  == {-1, 0, 2}
MCShort == {0, 1}
=============================================================================
