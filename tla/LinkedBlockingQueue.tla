-------------------------- MODULE LinkedBlockingQueue --------------------------
(***************************************************************************)
(* LinkedBlockingQueue.c: the bounded queue between two threads of         *)
(* moonlight-common-c.  Every call holds the mutex from its first look at  *)
(* the queue to its last change, so a call is one operator on the queue's  *)
(* record; the threads, the wait on the condition variable and the signal  *)
(* that follows the unlock are steps of the modules that use the queue.    *)
(***************************************************************************)
EXTENDS Naturals, Sequences

(* LbqInitializeLinkedBlockingQueue *)
EmptyLbq(bound) == [items |-> <<>>, bound |-> bound,
                    shutdown |-> FALSE, draining |-> FALSE, userWake |-> FALSE]

LbqOf(S, bound) ==
    [items: Seq(S), bound: {bound}, shutdown: BOOLEAN, draining: BOOLEAN, userWake: BOOLEAN]

(* LbqSignalQueueShutdown, LbqSignalQueueDrain, LbqSignalQueueUserWake *)
LbqShutdown(q) == [q EXCEPT !.shutdown = TRUE]
LbqDrain(q)    == [q EXCEPT !.draining = TRUE]
LbqUserWake(q) == [q EXCEPT !.userWake = TRUE]

(* LbqFlushQueueItems empties the queue; what it held is the caller's. *)
LbqFlush(q) == [q EXCEPT !.items = <<>>]

(* LbqOfferQueueItem: an answer, the queue after it, and whether the       *)
(* producer signals: only the first element of an empty queue wakes.       *)
LbqOfferAnswer(q) ==
    CASE q.shutdown \/ q.draining   -> "interrupted"
      [] Len(q.items) = q.bound     -> "bound"
      [] OTHER                      -> "success"
LbqOffer(q, x) ==
    IF LbqOfferAnswer(q) = "success" THEN [q EXCEPT !.items = Append(@, x)] ELSE q
LbqOfferSignals(q) == LbqOfferAnswer(q) = "success" /\ q.items = <<>>

(* LbqPeekQueueElement and LbqPollQueueElement answer alike; a poll takes. *)
LbqPollAnswer(q) ==
    CASE q.shutdown                      -> "interrupted"
      [] q.items = <<>> /\ q.draining    -> "interrupted"
      [] q.items = <<>> /\ ~q.draining   -> "none"
      [] OTHER                           -> "success"
LbqPoll(q) ==
    IF LbqPollAnswer(q) = "success" THEN [q EXCEPT !.items = Tail(@)] ELSE q

(* LbqWaitForQueueElement: the loop's condition, and what the call answers *)
(* once it is out of the loop.                                             *)
LbqMustWait(q) == q.items = <<>> /\ ~q.draining /\ ~q.shutdown /\ ~q.userWake
LbqWaitAnswer(q) ==
    CASE q.shutdown                      -> "interrupted"
      [] ~q.shutdown /\ q.userWake       -> "wake"
      [] OTHER -> IF q.items = <<>> THEN "interrupted" ELSE "success"
LbqWait(q) ==
    CASE LbqWaitAnswer(q) = "wake"    -> [q EXCEPT !.userWake = FALSE]
      [] LbqWaitAnswer(q) = "success" -> [q EXCEPT !.items = Tail(@)]
      [] OTHER                        -> q
================================================================================
