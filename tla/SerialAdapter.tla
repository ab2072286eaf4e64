--------------------------- MODULE SerialAdapter ---------------------------
(***************************************************************************)
(* One serial adapter (serial.rs): the owner's ComTransport and the worker *)
(* thread that opens the port and performs the blocking calls.             *)
(*                                                                         *)
(* The two share a one-slot request mailbox, a one-slot completion channel *)
(* and an atomic stop intent, and nothing else.  An operator below is one  *)
(* owner call, or one step of the worker up to its next shared access; a   *)
(* driver call that never returns is a worker step that is never taken.    *)
(***************************************************************************)
EXTENDS Naturals, FiniteSets

CONSTANT MaxAttempts   \* opens one worker tries (RECONNECT_OPEN_MAX_ATTEMPTS)

\* spawn_retrying: the thread exists, the port is not open.
Spawned(resource) ==
    [res |-> resource, dropped |-> FALSE,
     state |-> "opening", fault |-> FALSE, pending |-> FALSE, opened |-> FALSE,
     stop |-> FALSE, mail |-> "empty", done |-> "empty",
     at |-> "start", word |-> "none", device |-> FALSE, attempts |-> 0]

\* An adapter that start-up left open and idle.
Running(resource) ==
    [Spawned(resource) EXCEPT !.state = "online", !.opened = TRUE, !.at = "receive",
                              !.device = TRUE, !.attempts = 1]

-----------------------------------------------------------------------------
(* The owner's calls.                                                      *)

\* The effect of one received completion.
Received(a) ==
    LET b == [a EXCEPT !.done = "empty"] IN
    CASE a.done = "opened" ->
             [b EXCEPT !.opened = TRUE, !.state = IF @ = "closing" THEN @ ELSE "online"]
      [] a.done = "done"   -> [b EXCEPT !.pending = FALSE]
      [] a.done = "failed" ->
             [b EXCEPT !.pending = FALSE, !.fault = TRUE,
                       !.state = IF @ = "closing" THEN @ ELSE "offline"]
      [] a.done = "stopped" -> [b EXCEPT !.pending = FALSE, !.state = "closed"]
      [] OTHER ->
             IF a.at = "finished" /\ a.state \notin {"closing", "closed"}
             THEN [b EXCEPT !.pending = FALSE, !.fault = TRUE, !.state = "offline"] ELSE b

\* drain_completion: at most one completion; a finished thread closes a retired session.
Drain(a) ==
    LET b == Received(a) IN
    IF b.state = "closing" /\ b.at = "finished"
    THEN [b EXCEPT !.pending = FALSE, !.state = "closed"] ELSE b

\* retire: the stop intent persists; the mailbox only carries a wake-up hint.
Retire(a) ==
    IF a.state = "closed" THEN [a EXCEPT !.stop = TRUE]
    ELSE [a EXCEPT !.stop = TRUE, !.state = "closing", !.fault = TRUE,
                   !.mail = IF @ = "empty" /\ a.at # "finished" THEN "stop" ELSE @]

\* try_shutdown; it is complete when the session is closed afterwards.
TryShutdown(a) == Drain(Retire(a))
IsClosed(a) == a.state = "closed"

\* open_status: ready, failed or still opening, after Drain.
IsReady(a) == a.state = "online" /\ a.opened
IsFailed(a) == a.state \in {"offline", "closing", "closed"}

\* Whether try_write (or the request of try_read) takes the bytes now.
TakesRequest(a) ==
    a.state = "online" /\ ~a.fault /\ ~a.pending /\ a.mail = "empty" /\ a.at # "finished"
Request(a) == [a EXCEPT !.pending = TRUE, !.mail = "io"]

\* Drop: an unfinished worker is detached and nobody observes it any more.
Dropped(a) == [Drain(Retire(a)) EXCEPT !.dropped = TRUE]

-----------------------------------------------------------------------------
(* The worker thread.                                                      *)

Says(a, word) == [a EXCEPT !.at = "send", !.word = word]
StopsOr(a, next) == IF a.stop THEN Says(a, "stopped") ELSE next

\* worker_main up to the factory call; the first check of the intent.
WorkerStart(a) ==
    IF a.at # "start" THEN {}
    ELSE {StopsOr(a, [a EXCEPT !.at = "opening", !.attempts = @ + 1])}

\* The factory returns; only a transient failure within the policy is retried.
WorkerOpens(a) ==
    IF a.at # "opening" THEN {}
    ELSE LET open == [a EXCEPT !.device = TRUE] IN {StopsOr(open, Says(open, "opened"))}
WorkerOpenFails(a) ==
    IF a.at # "opening" THEN {}
    ELSE {Says(a, "failed")}
         \cup (IF a.attempts < MaxAttempts THEN {[a EXCEPT !.at = "retry"]} ELSE {})

\* wait_for_open_retry: stopped, past the deadline, or ready for another attempt.
WorkerRetries(a) ==
    IF a.at # "retry" THEN {}
    ELSE IF a.stop THEN {Says(a, "stopped")}
    ELSE {Says(a, "failed"), [a EXCEPT !.at = "start"]}

\* A completion is sent when the slot is free; nobody hears a dropped adapter.
WorkerSends(a) ==
    IF a.at # "send" \/ (a.done # "empty" /\ ~a.dropped) THEN {}
    ELSE IF a.dropped \/ a.word = "stopped" \/ ~a.device
    THEN {[a EXCEPT !.at = "exit", !.done = IF a.dropped THEN @ ELSE a.word]}
    ELSE {[a EXCEPT !.at = IF a.word = "opened" THEN "loop" ELSE "after", !.done = a.word]}

\* worker_request_loop: the intent is read before and after every OS call.
WorkerChecks(a) ==
    IF a.at \notin {"loop", "after"} THEN {} ELSE {StopsOr(a, [a EXCEPT !.at = "receive"])}
WorkerReceives(a) ==
    IF a.at # "receive" THEN {}
    ELSE IF a.mail = "empty" THEN IF a.dropped THEN {[a EXCEPT !.at = "exit"]} ELSE {}
    ELSE LET b == [a EXCEPT !.mail = "empty"] IN
         {StopsOr(b, IF a.mail = "io" THEN [b EXCEPT !.at = "io"]
                     ELSE Says([b EXCEPT !.stop = TRUE], "stopped"))}
WorkerReturns(a, word) == IF a.at # "io" THEN {} ELSE {Says(a, word)}

\* The closure returns: the device is released only now.
WorkerExits(a) ==
    IF a.at # "exit" THEN {} ELSE {[a EXCEPT !.at = "finished", !.device = FALSE]}

\* Steps in which no device misbehaves, and those in which one does.
WorkerGood(a) ==
    WorkerStart(a) \cup WorkerOpens(a) \cup WorkerRetries(a) \cup WorkerSends(a)
      \cup WorkerChecks(a) \cup WorkerReceives(a) \cup WorkerReturns(a, "done")
      \cup WorkerExits(a)
WorkerBad(a) == WorkerOpenFails(a) \cup WorkerReturns(a, "failed")

\* The worker may still touch the port: it opens it, or holds it and has not
\* yet announced its stop.
UsesPort(a) == a.at \notin {"exit", "finished"} /\ ~(a.at = "send" /\ a.word = "stopped")
=============================================================================
