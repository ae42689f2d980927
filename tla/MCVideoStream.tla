----------------------------- MODULE MCVideoStream -----------------------------
(* VideoStream with a decoder thread or direct submission, and with or without RFI. *)
EXTENDS VideoStream
AllModes == [direct: BOOLEAN, strict: BOOLEAN]
(* With a thread between, a decoder that is strict waits as it does without *)
(* one: the packets of larger blocks are combined with the other three.    *)
PacketModes == AllModes \ {[direct |-> FALSE, strict |-> TRUE]}
================================================================================
