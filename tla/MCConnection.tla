----------------------------- MODULE MCConnection -----------------------------
(***************************************************************************)
(* The scenarios of Connection that TLC explores.  Each opens a few of the *)
(* things that can happen, so that together they meet every one of them.   *)
(***************************************************************************)
EXTENDS Connection

Msg(kind, ctl, n) == [kind |-> kind, ctl |-> ctl, n |-> n]

\* Nothing goes wrong on a UDP connection with a decoder thread.
Quiet == [tcp |-> FALSE, direct |-> FALSE, rfi |-> TRUE, fails |-> FALSE, interrupts |-> FALSE,
          errors |-> FALSE, slow |-> FALSE, losses |-> FALSE, inputs |-> FALSE, bundled |-> FALSE,
          frames |-> FALSE, stops |-> TRUE, msgs |-> <<>>, leaves |-> {}]

MCScenarios ==
    { \* any call of a start may fail, and any start be interrupted
      [Quiet EXCEPT !.fails = TRUE, !.interrupts = TRUE],
      [Quiet EXCEPT !.tcp = TRUE, !.direct = TRUE, !.fails = TRUE, !.interrupts = TRUE],
      \* frames are lost
      [Quiet EXCEPT !.direct = TRUE, !.losses = TRUE],
      [Quiet EXCEPT !.tcp = TRUE, !.rfi = FALSE, !.direct = TRUE, !.losses = TRUE, !.leaves = {"leaving"}],
      \* sockets fail, and every thread may be the first to see it
      [Quiet EXCEPT !.errors = TRUE, !.direct = TRUE, !.rfi = FALSE, !.slow = TRUE],
      \* the host talks and leaves
      [Quiet EXCEPT !.direct = TRUE, !.rfi = FALSE, !.stops = FALSE,
                    !.msgs = <<Msg("rumble", 1, 1), Msg("rumble", 2, 2), Msg("rumble", 1, 3)>>,
                    !.leaves = {"leaving"}],
      [Quiet EXCEPT !.direct = TRUE, !.rfi = FALSE, !.bundled = TRUE, !.stops = FALSE,
                    !.msgs = <<Msg("hdr", 0, 1), Msg("noise", 0, 2)>>,
                    !.leaves = {"leaving"}],
      [Quiet EXCEPT !.direct = TRUE, !.rfi = FALSE, !.stops = FALSE, !.frames = TRUE,
                    !.msgs = <<Msg("ended", 0, 1)>>, !.leaves = {"leaving"}],
      [Quiet EXCEPT !.direct = TRUE, !.rfi = FALSE, !.inputs = TRUE, !.stops = FALSE,
                    !.msgs = <<Msg("failed", 0, 1)>>, !.leaves = {"dead"}],
      [Quiet EXCEPT !.direct = TRUE, !.rfi = FALSE, !.msgs = <<Msg("motion", 1, 1), Msg("led", 1, 2)>>] }
===============================================================================
