---------------------------- MODULE MCFileServer ----------------------------
(* An instance of the server that keeps its packets in a file: a client    *)
(* whose packet is longer than the stream's buffer and who goes on sending *)
(* after it, and the timer.                                                *)
EXTENDS FileServer, TLC

CONSTANTS
    c1,                 \* a client
    a1, b1,             \* characters other than the newline
    Tick                \* the text of a timestamp

Empty == <<>>
OnePacket == c1 :> <<a1, b1, NL, b1>>
OneStamp == <<Tick, NL>>
=============================================================================
