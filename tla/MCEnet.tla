-------------------------------- MODULE MCEnet ---------------------------------
EXTENDS Enet
Nothing == [up |-> TRUE, sends |-> {}, messages |-> 0, leaves |-> {}, pings |-> 0, copies |-> 0]
\* A connection comes up, carries a message and is left; datagrams come twice.
Handshake == [Nothing EXCEPT !.up = FALSE, !.sends = {"reliable"}, !.messages = 1, !.copies = 1,
                             !.leaves = {<<"client", "later">>, <<"client", "now">>}]
\* The messages of a connection cross the wrap of the reliable numbers.
Stream == [Nothing EXCEPT !.sends = {"reliable", "big", "unreliable"}, !.messages = 2]
Repeats == [Nothing EXCEPT !.sends = {"reliable", "unreliable", "unsequenced"}, !.messages = 2, !.copies = 1]
\* Either side leaves while messages are in flight, or the line is idle.
Parting == [Nothing EXCEPT !.sends = {"big"}, !.messages = 1,
                           !.leaves = {"client"} \X {"later", "now"} \cup {<<"server", "disconnect">>}]
\* The client leaves while data that may be throttled waits.
Fading == [Nothing EXCEPT !.sends = {"unreliable", "reliable"}, !.messages = 2, !.leaves = {<<"client", "later">>}]
Idle == [Nothing EXCEPT !.pings = 2, !.leaves = Departures]
All == {Handshake, Stream, Repeats, Parting, Fading, Idle}
================================================================================
