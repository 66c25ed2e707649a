---------------------------- MODULE MCAesdSocket ----------------------------
(* Instances of the server.  The characters the clients send differ, so    *)
(* that a byte on the device tells whose it is.                            *)
EXTENDS AesdSocket, TLC

CONSTANTS
    c1, c2,             \* clients
    a1, b1, a2, a3      \* characters other than the newline

(* One line of each client. *)
OneLineEach == (c1 :> <<a1, NL>>) @@ (c2 :> <<a2, NL>>)

(* A line of several bytes, and an empty line with a byte after it. *)
TwoLines == (c1 :> <<a1, b1, NL>>) @@ (c2 :> <<NL, a2>>)

(* The device has two lines when the server starts, one client adds        *)
(* another and goes on sending, and one asks for byte 10 of line 1.        *)
Empty    == <<>>
TwoLinesStored == <<<<a3, NL>>, <<a3, a3, a3, a3, a3, a3, a3, a3, a3, a3, b1, NL>>>>
SeekSecondLine ==
    (c1 :> <<a1, NL, a1>>) @@ (c2 :> <<SeekHead, SeekTail, 1, Comma, 1, 0, NL>>)
=============================================================================
