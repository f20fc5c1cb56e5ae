---------------------------- MODULE HttpSession -----------------------------
(***************************************************************************)
(* One HTTP connection: HttpSession and its Queue of pending responses     *)
(* (src/src/HttpSession.hpp, src/src/HttpSession.cpp).                     *)
(*                                                                         *)
(* Every handler of a session runs on the session's strand, so a handler   *)
(* is one atomic action.  What interleaves is the completion of the three  *)
(* asynchronous operations a session may have outstanding (a read of the   *)
(* next request, a write of the response at the head of the queue, a wait  *)
(* on the timer) with the handlers and with the passing of time.  An       *)
(* operation that has completed, but whose handler has not run yet, keeps  *)
(* its outcome: cancelling no longer reaches it.                           *)
(***************************************************************************)
EXTENDS Integers, Sequences

CONSTANTS
    Limit,          \* Queue::limit, 16 in the code
    Timeout,        \* ticks of the timer set by doRead, 15 s in the code
    MaxRequests     \* bound: requests the peer sends on the connection

ASSUME LimitAssumption    == Limit \in Nat \ {0}
ASSUME TimeoutAssumption  == Timeout \in Nat \ {0}
ASSUME RequestsAssumption == MaxRequests \in Nat

VARIABLES
    started,    \* run() has been executed on the strand
    sock,       \* the socket member: "open", "closed", "moved" (upgraded)
    workers,    \* Queue::workers, the responses not yet taken off the queue
    reading,    \* the outstanding async_read, or the outcome awaiting onRead
    writing,    \* the outstanding async_write, or the outcome for onWrite
    wait,       \* the outstanding timer wait, or the outcome for onTimer
    expiry,     \* ticks until the timer's expiry, or MinTime, or MaxTime
    handled,    \* history: requests given to the router's handler
    written,    \* history: responses completely written to the peer
    quiet,      \* history: ticks since the last doRead, at most Timeout
    ioError     \* history: onRead or onWrite reported an I/O error

ioVars  == <<reading, writing, wait>>
history == <<handled, written, quiet, ioError>>
vars    == <<started, sock, workers, ioVars, expiry, history>>

MinTime == -1               \* steady_clock::time_point::min()
MaxTime == Timeout + 1      \* steady_clock::time_point::max()

\* The response to the id-th request; eof is message::need_eof(): the client
\* asked for the connection to be closed, or keep-alive does not apply.
Response == [id : Nat, eof : BOOLEAN]

ReadState  == {"none", "pending", "request", "eof", "error", "aborted"}
WriteState == {"none", "pending", "ok", "error", "aborted"}
WaitState  == {"none", "pending", "fired", "aborted"}

TypeOK ==
    /\ started \in BOOLEAN
    /\ sock \in {"open", "closed", "moved"}
    /\ workers \in Seq(Response)
    /\ reading \in ReadState
    /\ writing \in WriteState
    /\ wait \in WaitState
    /\ expiry \in MinTime .. MaxTime
    /\ handled \in Nat
    /\ written \in Seq(Response)
    /\ quiet \in 0 .. Timeout
    /\ ioError \in BOOLEAN

(***************************************************************************)
(* Plausible errors in the operators below, used to show that the          *)
(* properties notice them.  None is part of the specification.             *)
(***************************************************************************)
ExpiredWithoutLooking         == TRUE
CancelledNothing(op)          == op
WriteEvenIfBusy(queue)        == TRUE
NeverWrite(queue)             == FALSE
CloseIgnored(response)        == FALSE

(***************************************************************************)
(* The pieces of the handlers.                                             *)
(***************************************************************************)

\* Queue::isFull
IsFull(queue) == Len(queue) >= Limit

\* The last test of onTimer: the deadline may have moved since the wait began.
Expired == expiry <= 0

\* Closing the socket, or moving the timer, completes what is outstanding
\* with operation_aborted; what has already completed keeps its outcome.
Cancelled(op) == IF op = "pending" THEN "aborted" ELSE op

\* An operation started on a socket that is no longer open fails at once.
StartWrite == IF sock = "open" THEN "pending" ELSE "error"

\* Queue::operator() starts the write only for the first response queued.
FirstInLine(queue) == queue = <<>>

\* Queue::onWrite starts the next write if the queue holds another response.
HasNext(queue) == queue # <<>>

\* onWrite closes the connection after a response that needs it.
ClosesAfter(response) == response.eof

\* doRead's expires_after, onRead's expires_at on an upgrade.
ReadDeadline    == Timeout
UpgradeDeadline == MinTime

\* onTimer's async_wait at its end.
WaitAgain == "pending"

\* doClose, and the end of onTimer: shutdown and close of the socket member.
\* If the socket has been moved away there is nothing left to close.
DoClose(read, write) ==
    /\ sock' = IF sock = "open" THEN "closed" ELSE sock
    /\ reading' = IF sock = "open" THEN Cancelled(read) ELSE read
    /\ writing' = IF sock = "open" THEN Cancelled(write) ELSE write

\* doRead: a new deadline, which cancels the wait in progress, and a read.
\* On a socket that is not open the read fails, unless the buffer already
\* holds the rest of a pipelined request: taken is the number taken so far.
DoRead(taken) ==
    /\ expiry' = ReadDeadline
    /\ wait' = Cancelled(wait)
    /\ quiet' = 0
    /\ \/ sock = "open" /\ reading' = "pending"
       \/ sock # "open" /\ reading' = "error"
       \/ sock # "open" /\ taken < MaxRequests /\ reading' = "request"

KeepTimer == UNCHANGED <<expiry, wait, quiet>>

-----------------------------------------------------------------------------
(* The handlers, in the strand. *)

Init ==
    /\ started = FALSE
    /\ sock = "open"
    /\ workers = <<>>
    /\ reading = "none" /\ writing = "none" /\ wait = "none"
    /\ expiry = MaxTime
    /\ handled = 0
    /\ written = <<>>
    /\ quiet = 0
    /\ ioError = FALSE

\* run: onTimer({}) finds the timer at time_point::max() and starts the wait,
\* which doRead cancels at once by setting the first deadline.
Run ==
    /\ ~started
    /\ started' = TRUE
    /\ expiry' = ReadDeadline /\ wait' = "aborted" /\ quiet' = 0
    /\ reading' = "pending"
    /\ UNCHANGED <<sock, workers, writing, handled, written, ioError>>

\* onTimer after an upgrade: the chain of waits ends.
OnTimerUpgraded ==
    /\ wait \in {"fired", "aborted"}
    /\ expiry = MinTime
    /\ wait' = "none"
    /\ UNCHANGED <<started, sock, workers, reading, writing, expiry, history>>

\* onTimer past the deadline: close the socket, and wait no more.
OnTimerExpired ==
    /\ wait \in {"fired", "aborted"}
    /\ expiry # MinTime /\ Expired
    /\ DoClose(reading, writing)
    /\ wait' = "none"
    /\ UNCHANGED <<started, workers, expiry, history>>

\* onTimer when the deadline has moved: wait again.
OnTimerMoved ==
    /\ wait \in {"fired", "aborted"}
    /\ expiry # MinTime /\ ~Expired
    /\ wait' = WaitAgain
    /\ UNCHANGED <<started, sock, workers, reading, writing, expiry, history>>

OnTimer == OnTimerUpgraded \/ OnTimerExpired \/ OnTimerMoved

\* onRead after the socket was closed under the read: nothing to do.
OnReadAborted ==
    /\ reading = "aborted"
    /\ reading' = "none"
    /\ KeepTimer
    /\ UNCHANGED <<started, sock, workers, writing, handled, written, ioError>>

\* onRead at the end of the stream: the peer has closed, so do we, and a
\* response still being written is given up.
OnReadEof ==
    /\ reading = "eof"
    /\ DoClose("none", writing)
    /\ KeepTimer
    /\ UNCHANGED <<started, workers, handled, written, ioError>>

\* onRead with any other error: it is logged; the timer will close the socket.
OnReadError ==
    /\ reading = "error"
    /\ reading' = "none"
    /\ ioError' = TRUE
    /\ KeepTimer
    /\ UNCHANGED <<started, sock, workers, writing, handled, written>>

\* onRead of a WebSocket upgrade: the timer's expiry marks the upgrade for
\* onTimer, and the socket moves to the WebsocketSession.  A write in progress
\* stays with the descriptor; there is no further read.
OnReadUpgrade ==
    /\ reading = "request"
    /\ reading' = "none"
    /\ sock' = IF sock = "open" THEN "moved" ELSE sock
    /\ expiry' = UpgradeDeadline
    /\ wait' = Cancelled(wait)
    /\ UNCHANGED <<started, workers, writing, handled, written, quiet, ioError>>

\* onRead of a request: the router's handler runs and hands one response to
\* the queue, whose operator() starts the write if the response is first in
\* line; unless the queue is now full, the next request is read.
OnReadRequest(eof) ==
    LET response == [id |-> handled + 1, eof |-> eof]
    IN  /\ reading = "request"
        /\ handled' = handled + 1
        /\ workers' = Append(workers, response)
        /\ writing' = IF FirstInLine(workers) THEN StartWrite ELSE writing
        /\ IF IsFull(workers')
           THEN /\ reading' = "none"
                /\ KeepTimer
           ELSE DoRead(handled + 1)
        /\ UNCHANGED <<started, sock, written, ioError>>

OnRead ==
    \/ OnReadAborted
    \/ OnReadEof
    \/ OnReadError
    \/ OnReadUpgrade
    \/ \E eof \in BOOLEAN : OnReadRequest(eof)

\* onWrite after the socket was closed under the write: nothing to do.
OnWriteAborted ==
    /\ writing = "aborted"
    /\ writing' = "none"
    /\ KeepTimer
    /\ UNCHANGED <<started, sock, workers, reading, handled, written, ioError>>

\* onWrite with an error: it is logged, and the response stays at the head of
\* the queue, so that nothing is written after it.
OnWriteError ==
    /\ writing = "error"
    /\ writing' = "none"
    /\ ioError' = TRUE
    /\ KeepTimer
    /\ UNCHANGED <<started, sock, workers, reading, handled, written>>

\* onWrite of a response that ends the connection.  It too stays at the head.
OnWriteClose ==
    /\ writing = "ok"
    /\ ClosesAfter(Head(workers))
    /\ DoClose(reading, "none")
    /\ KeepTimer
    /\ UNCHANGED <<started, workers, handled, written, ioError>>

\* onWrite otherwise: Queue::onWrite takes the response off the queue, starts
\* the next write, and says whether the queue was full, in which case reading
\* had stopped and is taken up again.
OnWriteNext ==
    /\ writing = "ok"
    /\ ~ClosesAfter(Head(workers))
    /\ workers' = Tail(workers)
    /\ writing' = IF HasNext(workers') THEN StartWrite ELSE "none"
    /\ IF IsFull(workers)
       THEN DoRead(handled)
       ELSE /\ KeepTimer
            /\ UNCHANGED reading
    /\ UNCHANGED <<started, sock, handled, written, ioError>>

OnWrite == OnWriteAborted \/ OnWriteError \/ OnWriteClose \/ OnWriteNext

-----------------------------------------------------------------------------
(* The operating system and the peer. *)

\* A request, the end of the stream or an error reaches the pending read.
ReadCompletes ==
    /\ reading = "pending"
    /\ \/ handled < MaxRequests /\ reading' = "request"
       \/ reading' \in {"eof", "error"}
    /\ UNCHANGED <<started, sock, workers, writing, wait, expiry, history>>

\* The response at the head of the queue is on the wire.
WriteSucceeds ==
    /\ writing = "pending"
    /\ writing' = "ok"
    /\ written' = Append(written, Head(workers))
    /\ UNCHANGED <<started, sock, workers, reading, wait, expiry, handled,
                   quiet, ioError>>

\* The write fails.  Once the socket has moved, what remains of it fails on the
\* empty socket member, or is aborted when the WebsocketSession closes.
WriteFails ==
    /\ writing = "pending"
    /\ \/ writing' = "error"
       \/ sock = "moved" /\ writing' = "aborted"
    /\ UNCHANGED <<started, sock, workers, reading, wait, expiry, history>>

TimerFires ==
    /\ wait = "pending"
    /\ Expired
    /\ wait' = "fired"
    /\ UNCHANGED <<started, sock, workers, reading, writing, expiry, history>>

Tick ==
    /\ expiry \in 1 .. Timeout
    /\ expiry' = expiry - 1
    /\ quiet' = IF quiet < Timeout THEN quiet + 1 ELSE quiet
    /\ UNCHANGED <<started, sock, workers, ioVars, handled, written, ioError>>

\* No handler holds the session any more and it is destroyed.
Released ==
    /\ started
    /\ reading = "none" /\ writing = "none" /\ wait = "none"

Destroyed == Released /\ UNCHANGED vars

Next ==
    \/ Run \/ OnTimer \/ OnRead \/ OnWrite
    \/ ReadCompletes \/ WriteSucceeds \/ WriteFails \/ TimerFires \/ Tick
    \/ Destroyed

Spec == Init /\ [][Next]_vars

\* The io_context's threads run every handler that is ready, and time passes.
\* Nothing is assumed of the peer: it may never send and never receive.
Fairness ==
    /\ WF_vars(Run) /\ WF_vars(OnTimer) /\ WF_vars(OnRead) /\ WF_vars(OnWrite)
    /\ WF_vars(TimerFires) /\ WF_vars(Tick)

FairSpec == Spec /\ Fairness

-----------------------------------------------------------------------------
(* Properties. *)

\* A slow client is held back: no read is outstanding while the queue is full
\* (HttpSession.cpp:132, :158), so at most Limit requests that the session has
\* taken are without their complete response.
Backpressure ==
    /\ reading # "none" => Len(workers) < Limit
    /\ handled - Len(written) <= Limit

\* Unless an I/O error was reported, an open session always has its next step
\* under way: a read is outstanding or the queue is full, and a write is
\* outstanding exactly when the queue holds a response.  Pausing the reads at
\* the limit never loses the moment to take them up again.
NoLostWakeup ==
    started /\ sock = "open" /\ ~ioError =>
        /\ reading # "none" \/ Len(workers) = Limit
        /\ writing # "none" <=> workers # <<>>

\* An open session is always watched by its timer: the chain of waits that
\* doRead keeps cancelling (HttpSession.cpp:44) is taken up again by onTimer
\* until the socket is closed or moved.
TimerGuards == started /\ sock = "open" => wait # "none"

\* After an upgrade the session reads nothing more from the connection that is
\* now the WebsocketSession's, and never moves the deadline off time_point::min
\* by which onTimer recognises the upgrade, whatever responses were pending.
UpgradeIsFinal ==
    sock = "moved" => reading = "none" /\ expiry = MinTime

\* The timer closes the socket only when the current read was begun at least
\* Timeout ago (HttpSession.cpp:76), even if it fired for an older deadline.
NoEarlyTimeout ==
    [][sock = "open" /\ sock' = "closed" /\ wait # "none" /\ wait' = "none"
         => quiet >= Timeout]_vars

\* The session promises its client what ResponsePipeline specifies.
Pipeline == INSTANCE ResponsePipeline
                WITH accepted <- handled,
                     answered <- [i \in 1 .. Len(written) |-> written[i].id],
                     final    <- written # <<>> /\ written[Len(written)].eof

\* Responses go out in the order of the requests, one for each, never more than
\* Limit behind, and none after the one that ends the connection.
ImplementsPipeline == Pipeline!PipelineSpec

\* The session lets go of the connection: the socket is closed or moved, and
\* no read and no wait, and on a closed socket no write, holds the session.
LetGo ==
    /\ sock # "open"
    /\ reading = "none" /\ wait = "none"
    /\ sock = "closed" => writing = "none"

\* Whatever the peer does or fails to do (a stalled reader, a silent client, a
\* half request), the session is let go once its requests have stopped coming.
EventuallyLetGo == <>LetGo

-----------------------------------------------------------------------------
(* The inductive invariant. *)

\* The head of the queue is on the wire, but onWrite has not taken it off: its
\* handler is still to run, or has kept it because it ends the connection.
HeadWritten ==
    workers # <<>> /\ written # <<>> /\ Head(workers).id = Len(written)

\* What is written and what is queued are the responses to all the requests
\* handled, in their order; both hold the head of the queue if it is written.
Bookkeeping ==
    /\ \A i \in 1 .. Len(written) : written[i].id = i
    /\ \A i \in 1 .. Len(workers) : workers[i].id = handled - Len(workers) + i
    /\ handled = Len(written) + Len(workers) - (IF HeadWritten THEN 1 ELSE 0)
    /\ HeadWritten => Head(workers) = written[Len(written)]

\* A write under way is that of the head of the queue, and has succeeded only
\* if the head is written; a written head awaits its handler or is final.
WriteInv ==
    /\ writing # "none" => workers # <<>>
    /\ writing = "ok" => HeadWritten
    /\ writing \in {"pending", "error", "aborted"} => ~HeadWritten
    /\ HeadWritten /\ writing = "none" =>
         Head(workers).eof /\ sock # "open"
    /\ \A i \in 1 .. Len(written) :
         written[i].eof => i = Len(written) /\ HeadWritten
    /\ writing = "aborted" => sock # "open"

ReadInv ==
    /\ Len(workers) <= Limit
    /\ reading # "none" => Len(workers) < Limit
    /\ reading = "aborted" => sock # "open"
    /\ sock = "moved" =>
         reading = "none" /\ expiry = MinTime /\ Len(workers) < Limit
    /\ ~started =>
         /\ sock = "open" /\ workers = <<>>
         /\ reading = "none" /\ writing = "none" /\ wait = "none"

TimeInv ==
    /\ TimerGuards
    /\ sock = "open" /\ started => expiry \in 0 .. Timeout
    /\ expiry \in 0 .. Timeout => expiry + quiet >= Timeout
    /\ expiry = MaxTime => ~started

SessionInv ==
    /\ TypeOK /\ Bookkeeping /\ WriteInv /\ ReadInv /\ TimeInv /\ NoLostWakeup
=============================================================================
