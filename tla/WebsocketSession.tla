-------------------------- MODULE WebsocketSession --------------------------
(***************************************************************************)
(* One WebSocket connection: WebsocketSession                              *)
(* (src/src/WebsocketSession.cpp), from the upgrade of an HTTP session on. *)
(*                                                                         *)
(* The handlers of a session run on its strand, one at a time, and a       *)
(* handler is one action.  The strand is not alone: a detached thread, the *)
(* worker, takes the messages that onRead puts in the queue, and reads     *)
(* ws.is_open() while the handlers change it: a data race, modelled as a   *)
(* read of the status before or after the change.  The worker's steps are  *)
(* those between which it leaves the queue's mutex or reads the stream.    *)
(*                                                                         *)
(* write and onWrite are not modelled: nothing calls them.                 *)
(*                                                                         *)
(* What a message says is not modelled: the worker only parses it.         *)
(***************************************************************************)
EXTENDS Integers

CONSTANTS
    Timeout,            \* timeout, 15 s
    MaxFrames           \* bound: frames the peer sends

ASSUME TimeoutAssumption  == Timeout \in Nat \ {0}
ASSUME FramesAssumption   == MaxFrames \in Nat

VARIABLES
    accepting,  \* "new", "pending" while async_accept is, then "none"
    sock,       \* the TCP socket below the stream: "open", "closed"
    status,     \* the stream's status, "open" if ws.is_open()
    reading,    \* the outstanding async_read; "refused" on a stream not open
    pings,      \* async_pings outstanding
    pingState,
    wait,       \* the outstanding timer wait, or the outcome for onTimer
    expiry,     \* ticks until the timer's expiry
    queue,      \* number of messages in the queue
    worker,     \* where the worker thread is in processProc
    frames,     \* history: frames the peer has sent
    quiet,      \* history: ticks since the last activity, at most 2 * Timeout
    readError,  \* history: onRead has had an error other than closed, aborted
    spurious    \* history: the worker has woken without a notification

strandVars == <<accepting, sock, status, reading, pings, pingState>>
timerVars  == <<wait, expiry, quiet>>
workerVars == <<queue, worker>>
history    == <<frames, readError, spurious>>
vars       == <<strandVars, timerVars, workerVars, history>>

TypeOK ==
    /\ accepting \in {"new", "pending", "none"}
    /\ sock \in {"open", "closed"}
    /\ status \in {"handshake", "open", "closing", "closed", "failed"}
    /\ reading \in {"none", "pending", "refused"}
    /\ pings \in Nat
    /\ pingState \in 0 .. 2
    /\ wait \in {"none", "pending", "fired", "aborted"}
    /\ expiry \in 0 .. Timeout
    /\ queue \in Nat
    /\ worker \in {"none", "check", "pick", "waiting", "woken", "done", "undefined"}
    /\ frames \in 0 .. MaxFrames
    /\ quiet \in 0 .. 2 * Timeout
    /\ readError \in BOOLEAN
    /\ spurious \in BOOLEAN

(***************************************************************************)
(* Plausible errors, used to show that the properties notice them.         *)
(***************************************************************************)
PingsNever            == FALSE
PingsForEver          == status = "open"
EmptyIfOneLeft        == queue <= 1
NeverEmpty            == FALSE
NotifiedNot           == worker
RunsForEver           == TRUE

(***************************************************************************)
(* The pieces of the handlers.                                             *)
(***************************************************************************)

IsOpen == status = "open"

\* onTimer: the deadline has passed.
Expired == expiry = 0

\* The deadline of doAccept, of a ping and of activity.
Deadline == Timeout

\* onTimer's choice, once the deadline has passed, between a ping and the end.
PingsFirst == IsOpen /\ pingState = 0

\* onTimer's async_wait at its end.
WaitAgain == "pending"

Cancelled(op) == IF op = "pending" THEN "aborted" ELSE op

\* activity: the peer is alive.
Activity ==
    /\ pingState' = 0
    /\ expiry' = Deadline
    /\ wait' = Cancelled(wait)
    /\ quiet' = 0

\* doRead: on a stream that is not open the read is refused with
\* operation_aborted.
DoRead(state) == reading' = IF state = "open" THEN "pending" ELSE "refused"

\* notify_one
Notified == IF worker = "waiting" THEN "woken" ELSE worker

\* A message is put in the queue, with the mutex held over the notification.
Enqueue ==
    /\ queue' = queue + 1
    /\ worker' = Notified

\* pickMsg finds no message.
QueueEmpty == queue = 0

-----------------------------------------------------------------------------
(* The handlers, in the strand. *)

Init ==
    /\ accepting = "new"
    /\ sock = "open" /\ status = "handshake"
    /\ reading = "none"
    /\ pings = 0 /\ pingState = 0
    /\ wait = "none" /\ expiry = Timeout /\ quiet = 0
    /\ queue = 0 /\ worker = "none"
    /\ frames = 0 /\ readError = FALSE /\ spurious = FALSE

\* doAccept, called by HttpSession::onRead: onTimer({}) begins a wait for the
\* end of time, which the first deadline cancels; the response to the upgrade
\* is on its way.
DoAccept ==
    /\ accepting = "new"
    /\ accepting' = "pending"
    /\ expiry' = Deadline /\ wait' = "aborted" /\ quiet' = 0
    /\ UNCHANGED <<sock, status, reading, pings, pingState, workerVars, history>>

\* onAccept: the worker is started and detached, and the first read begun.
OnAccept ==
    /\ accepting = "pending"
    /\ accepting' = "none"
    /\ status' = "open"
    /\ worker' = "check"
    /\ DoRead("open")
    /\ UNCHANGED <<sock, pings, pingState, timerVars, queue, history>>

\* onAccept with an error, logged or not: the timer will close the socket.
OnAcceptError ==
    /\ accepting = "pending"
    /\ accepting' = "none"
    /\ UNCHANGED <<sock, status, reading, pings, pingState, timerVars,
                   workerVars, history>>

\* onTimer past the deadline, with no ping sent since the last activity.
OnTimerPing ==
    /\ wait \in {"fired", "aborted"}
    /\ Expired /\ PingsFirst
    /\ pingState' = 1
    /\ pings' = pings + 1
    /\ expiry' = Deadline
    /\ wait' = WaitAgain
    /\ UNCHANGED <<accepting, sock, status, reading, quiet, workerVars, history>>

\* onTimer past the deadline otherwise: the end, and no further wait.
OnTimerClose ==
    /\ wait \in {"fired", "aborted"}
    /\ Expired /\ ~PingsFirst
    /\ sock' = "closed"
    /\ wait' = "none"
    /\ UNCHANGED <<accepting, status, reading, pings, pingState, expiry, quiet,
                   workerVars, history>>

\* onTimer when the deadline has moved.
OnTimerMoved ==
    /\ wait \in {"fired", "aborted"}
    /\ ~Expired
    /\ wait' = WaitAgain
    /\ UNCHANGED <<strandVars, expiry, quiet, workerVars, history>>

OnTimer == OnTimerPing \/ OnTimerClose \/ OnTimerMoved

\* onPing: the ping is on the wire, unless the peer has been active since; or
\* it has failed, and so has the stream; or the socket was closed under it.
OnPing ==
    /\ pings > 0
    /\ pings' = pings - 1
    /\ \/ pingState' = (IF pingState = 1 THEN 2 ELSE pingState)
          /\ UNCHANGED status
       \/ status' = (IF IsOpen THEN "failed" ELSE status)
          /\ UNCHANGED pingState
    /\ UNCHANGED <<accepting, sock, reading, timerVars, workerVars, history>>

\* onControlCallback: a ping, a pong, or the peer's close frame, while a read
\* is going on.
OnControlCallback ==
    /\ reading = "pending" /\ IsOpen
    /\ frames < MaxFrames
    /\ frames' = frames + 1
    /\ Activity
    /\ status' \in {"open", "closing"}
    /\ UNCHANGED <<accepting, sock, reading, pings, workerVars, readError,
                   spurious>>

\* onRead of a message.
OnReadMessage ==
    /\ reading = "pending" /\ status \in {"open", "failed"}
    /\ frames < MaxFrames
    /\ frames' = frames + 1
    /\ Activity
    /\ Enqueue
    /\ DoRead(status)
    /\ UNCHANGED <<accepting, sock, status, pings, readError, spurious>>

\* onRead after the closing handshake, in which the socket was closed too: the
\* session returns, and tells the worker nothing.
OnReadClosed ==
    /\ reading = "pending" /\ status = "closing"
    /\ reading' = "none"
    /\ status' = "closed" /\ sock' = "closed"
    /\ UNCHANGED <<accepting, pings, pingState, timerVars, workerVars, history>>

\* onRead after the timer has closed the socket, or on a stream that was not
\* open: the session returns, and tells the worker nothing.
OnReadAborted ==
    /\ \/ reading = "pending" /\ sock = "closed"
       \/ reading = "refused"
    /\ reading' = "none"
    /\ status' = IF status \in {"open", "closing"} THEN "failed" ELSE status
    /\ UNCHANGED <<accepting, sock, pings, pingState, timerVars, workerVars,
                   history>>

\* onRead with any other error, logged: it goes on as if a message had come.
OnReadError ==
    /\ reading = "pending"
    /\ status' = "failed"
    /\ readError' = TRUE
    /\ Activity
    /\ Enqueue
    /\ DoRead("failed")
    /\ UNCHANGED <<accepting, sock, pings, frames, spurious>>

OnRead == OnReadMessage \/ OnReadClosed \/ OnReadAborted \/ OnReadError

-----------------------------------------------------------------------------
(* processProc, in the worker. *)

\* The condition of the while: the stream is open.
LoopsOn == IsOpen

WorkerCheck ==
    /\ worker = "check"
    /\ worker' = IF LoopsOn THEN "pick" ELSE "done"
    /\ UNCHANGED <<strandVars, timerVars, queue, history>>

\* front() and pop_front(): there is no telling what they do to an empty list.
Pop ==
    IF queue = 0
    THEN worker' = "undefined" /\ UNCHANGED queue
    ELSE worker' = "check" /\ queue' = queue - 1

\* pickMsg: take a message, or wait for one ...
WorkerPick ==
    /\ worker = "pick"
    /\ IF QueueEmpty
       THEN worker' = "waiting" /\ UNCHANGED queue
       ELSE Pop
    /\ UNCHANGED <<strandVars, timerVars, history>>

\* ... and when the wait has returned take a message, without looking again.
WorkerWoken ==
    /\ worker = "woken"
    /\ Pop
    /\ UNCHANGED <<strandVars, timerVars, history>>

\* A condition variable may wake its waiter without a notification.
SpuriousWakeup ==
    /\ worker = "waiting"
    /\ worker' = "woken"
    /\ spurious' = TRUE
    /\ UNCHANGED <<strandVars, timerVars, queue, frames, readError>>

Worker == WorkerCheck \/ WorkerPick \/ WorkerWoken

-----------------------------------------------------------------------------
(* The timer and the clock. *)

TimerFires ==
    /\ wait = "pending" /\ Expired
    /\ wait' = "fired"
    /\ UNCHANGED <<strandVars, expiry, quiet, workerVars, history>>

Tick ==
    /\ accepting # "new"
    /\ expiry > 0
    /\ expiry' = expiry - 1
    /\ quiet' = IF quiet < 2 * Timeout THEN quiet + 1 ELSE quiet
    /\ UNCHANGED <<strandVars, wait, workerVars, history>>

\* The strand has nothing more to do for the session.
StrandDone ==
    /\ accepting = "none" /\ reading = "none" /\ wait = "none" /\ pings = 0

Ended == StrandDone /\ UNCHANGED vars

Next ==
    \/ DoAccept \/ OnAccept \/ OnAcceptError
    \/ OnTimer \/ OnPing \/ OnControlCallback \/ OnRead
    \/ Worker \/ SpuriousWakeup
    \/ TimerFires \/ Tick
    \/ Ended

Spec == Init /\ [][Next]_vars

\* The threads run what is ready, time passes, and closing the socket ends what
\* is outstanding on it.  Nothing is assumed of the peer.
Fairness ==
    /\ WF_vars(DoAccept)
    /\ WF_vars(OnTimer) /\ WF_vars(TimerFires) /\ WF_vars(Tick)
    /\ WF_vars(sock = "closed" /\ OnAcceptError)
    /\ WF_vars(OnReadAborted) /\ WF_vars(sock = "closed" /\ OnPing)
    /\ WF_vars(Worker)

FairSpec == Spec /\ Fairness

-----------------------------------------------------------------------------
(* Properties. *)

\* The worker never sleeps on a message: the notification and the test of the
\* queue cannot miss each other, spurious wakeups or not.
NoLostNotification == worker = "waiting" => queue = 0

\* Unless it has woken without cause, the worker finds a message when it wakes:
\* it never takes one from an empty queue (WebsocketSession.cpp:182-190).
PopsOnlyMessages == ~spurious => worker # "undefined"

\* An open connection is always watched by its timer, which every activity and
\* every ping moves.
TimerGuards == accepting # "new" /\ sock = "open" => wait # "none"

\* The timer closes an open stream only if the peer has been silent for two
\* timeouts, one before the ping and one after it; however late a ping
\* completes, the pong or any other frame counts.
NoEarlyClose ==
    [][sock = "open" /\ sock' = "closed" /\ wait # "none" /\ wait' = "none"
         /\ IsOpen => quiet >= 2 * Timeout]_vars

\* If the peer falls silent, or the response to the upgrade or a ping never
\* leaves, the socket is closed and the strand's work for the session ends.
StrandReleased == <>[](sock = "closed" /\ StrandDone)

\* The worker takes every message, unless it ends before that, as it does only
\* once the stream is no longer open, or has taken one that was not there: it is
\* never left waiting with messages in the queue.
MessagesTaken == queue > 0 ~> queue = 0 \/ worker \in {"done", "undefined"}

\* A read that ends with an error other than closed or aborted wakes the
\* worker, which ends: only the closing handshake and the timer leave a worker
\* waiting for good.
ErrorEndsWorker == readError ~> worker \in {"done", "undefined"}

-----------------------------------------------------------------------------
(* The inductive invariant. *)

\* Silence and the time left until the deadline make up a timeout, or two if
\* there has been a ping since the last activity.
TimeInv ==
    /\ TimerGuards
    /\ pingState = 0 => expiry + quiet >= Timeout
    /\ pingState # 0 => expiry + quiet >= 2 * Timeout

\* A worker that sleeps has no message; one that was woken by a message has it.
WorkerInv ==
    /\ NoLostNotification
    /\ ~spurious => worker # "undefined" /\ (worker = "woken" => queue > 0)

\* Before the upgrade is accepted there is no worker and no read.
StartInv ==
    /\ accepting = "new" =>
         /\ expiry = Timeout /\ wait = "none" /\ sock = "open"
         /\ pingState = 0 /\ pings = 0
    /\ accepting # "none" => worker = "none" /\ reading = "none"

SessionInv == TypeOK /\ TimeInv /\ WorkerInv /\ StartInv
=============================================================================
