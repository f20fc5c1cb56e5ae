----------------------- MODULE WebsocketSessionProofs -----------------------
(***************************************************************************)
(* Theorems about WebsocketSession, for every timeout, whatever the peer   *)
(* sends, and however the worker wakes.  They rest on SessionInv,          *)
(* which counts the silence of the peer against the deadline, and relates  *)
(* where the worker is to the number of messages.                          *)
(***************************************************************************)
EXTENDS WebsocketSession, TLAPS

\* The invariant holds before doAccept is called.
LEMMA SessionInit == Init => SessionInv
<1> SUFFICES ASSUME Init PROVE SessionInv
  OBVIOUS
<1> USE TimeoutAssumption, FramesAssumption DEF Init
<1>1. TypeOK
  <2>1. /\ pings \in Nat /\ queue \in Nat /\ pingState \in 0 .. 2
        /\ expiry \in 0 .. Timeout /\ frames \in 0 .. MaxFrames
        /\ quiet \in 0 .. 2 * Timeout
    OBVIOUS
  <2> QED
    BY <2>1, Zenon DEF TypeOK
<1>2. TimeInv
  BY DEF TimeInv, TimerGuards
<1>3. WorkerInv /\ StartInv
  BY DEF WorkerInv, NoLostNotification, StartInv
<1> QED
  BY <1>1, <1>2, <1>3 DEF SessionInv

\* Every step preserves the invariant.
LEMMA SessionStep == SessionInv /\ [Next]_vars => SessionInv'
<1> SUFFICES ASSUME SessionInv, [Next]_vars
             PROVE  SessionInv'
  OBVIOUS
<1> USE TimeoutAssumption, FramesAssumption
<1> USE DEF SessionInv, TypeOK, TimeInv, TimerGuards, WorkerInv,
            NoLostNotification, StartInv, strandVars, timerVars, workerVars,
            history, Deadline, WaitAgain, Cancelled, Expired, IsOpen
<1>1. CASE DoAccept
  BY <1>1 DEF DoAccept
<1>2. CASE OnAccept
  BY <1>2 DEF OnAccept, DoRead
<1>3. CASE OnAcceptError
  BY <1>3 DEF OnAcceptError
<1>4. CASE OnTimerPing
  BY <1>4 DEF OnTimerPing, PingsFirst
<1>5. CASE OnTimerClose
  BY <1>5 DEF OnTimerClose, PingsFirst
<1>6. CASE OnTimerMoved
  BY <1>6 DEF OnTimerMoved
<1>7. CASE OnPing
  BY <1>7 DEF OnPing
<1>8. CASE OnControlCallback
  BY <1>8 DEF OnControlCallback, Activity
<1>9. CASE OnReadMessage
  BY <1>9 DEF OnReadMessage, Activity, Enqueue, Notified, DoRead
<1>10. CASE OnReadClosed
  BY <1>10 DEF OnReadClosed
<1>11. CASE OnReadAborted
  BY <1>11 DEF OnReadAborted
<1>12. CASE OnReadError
  BY <1>12 DEF OnReadError, Activity, Enqueue, Notified, DoRead
<1>13. CASE WorkerCheck
  BY <1>13 DEF WorkerCheck, LoopsOn
<1>14. CASE WorkerPick
  BY <1>14 DEF WorkerPick, QueueEmpty, Pop
<1>15. CASE WorkerWoken
  BY <1>15 DEF WorkerWoken, Pop
<1>16. CASE SpuriousWakeup
  BY <1>16 DEF SpuriousWakeup
<1>17. CASE TimerFires
  BY <1>17 DEF TimerFires
<1>18. CASE Tick
  BY <1>18 DEF Tick
<1>19. CASE Ended \/ UNCHANGED vars
  BY <1>19 DEF Ended, vars
<1> QED
  BY <1>1, <1>2, <1>3, <1>4, <1>5, <1>6, <1>7, <1>8, <1>9, <1>10, <1>11,
     <1>12, <1>13, <1>14, <1>15, <1>16, <1>17, <1>18, <1>19
     DEF Next, OnTimer, OnRead, Worker

\* The invariant holds in every state of every session.
THEOREM SessionInvariant == Spec => []SessionInv
BY SessionInit, SessionStep, PTL DEF Spec

\* Every variable keeps to its type.
THEOREM TypeCorrect == Spec => []TypeOK
<1>1. SessionInv => TypeOK
  BY DEF SessionInv
<1> QED
  BY <1>1, SessionInvariant, PTL

\* The worker never sleeps while there is a message.
THEOREM NotificationIsNeverLost == Spec => []NoLostNotification
<1>1. SessionInv => NoLostNotification
  BY DEF SessionInv, WorkerInv
<1> QED
  BY <1>1, SessionInvariant, PTL

\* The worker never takes a message from an empty queue unless it has woken
\* without a notification.
THEOREM QueueIsNeverOverrun == Spec => []PopsOnlyMessages
<1>1. SessionInv => PopsOnlyMessages
  BY DEF SessionInv, WorkerInv, PopsOnlyMessages
<1> QED
  BY <1>1, SessionInvariant, PTL

\* An open connection is always watched by its timer.
THEOREM TimerAlwaysGuards == Spec => []TimerGuards
<1>1. SessionInv => TimerGuards
  BY DEF SessionInv, TimeInv
<1> QED
  BY <1>1, SessionInvariant, PTL

\* An open stream is closed only after two timeouts of silence.
THEOREM CloseIsNeverEarly == Spec => NoEarlyClose
<1> DEFINE Step == sock = "open" /\ sock' = "closed" /\ wait # "none"
                     /\ wait' = "none" /\ IsOpen => quiet >= 2 * Timeout
<1>1. SessionInv /\ [Next]_vars => [Step]_vars
  <2> SUFFICES ASSUME SessionInv, Next, sock = "open", sock' = "closed",
                      wait # "none", wait' = "none", IsOpen
               PROVE  quiet >= 2 * Timeout
    OBVIOUS
  <2>1. OnTimerClose
    BY DEF Next, DoAccept, OnAccept, OnAcceptError, OnTimer, OnTimerPing,
           OnTimerMoved, OnPing, OnControlCallback, OnRead, OnReadMessage,
           OnReadClosed, OnReadAborted, OnReadError, Worker, WorkerCheck,
           WorkerPick, WorkerWoken, SpuriousWakeup, TimerFires, Tick, Ended,
           strandVars, timerVars, vars
  <2> QED
    BY <2>1, TimeoutAssumption
       DEF OnTimerClose, PingsFirst, Expired, SessionInv, TimeInv, TypeOK
<1> QED
  BY <1>1, SessionInvariant, PTL DEF Spec, NoEarlyClose
=============================================================================
