------------------------- MODULE HttpSessionProofs -------------------------
(***************************************************************************)
(* Proofs about HttpSession for every Limit, Timeout and MaxRequests.      *)
(*                                                                         *)
(* SessionInv is inductive; the safety properties are consequences of it,  *)
(* and so is the implementation of ResponsePipeline.                       *)
(***************************************************************************)
EXTENDS HttpSession, TLAPS, SequenceTheorems

USE DEF MinTime, MaxTime

\* Appending to a sequence keeps its elements and adds the last one.
LEMMA AppendFacts ==
    ASSUME NEW S, NEW s \in Seq(S), NEW e \in S
    PROVE  /\ Append(s, e) \in Seq(S)
           /\ Len(Append(s, e)) = Len(s) + 1
           /\ \A i \in 1 .. Len(s) : Append(s, e)[i] = s[i]
           /\ Append(s, e)[Len(s) + 1] = e
           /\ s # <<>> => Head(Append(s, e)) = Head(s)
           /\ s = <<>> => Head(Append(s, e)) = e
           /\ Append(s, e) # <<>>
BY AppendProperties

\* The tail of a sequence holds its elements one place further down.
LEMMA TailFacts ==
    ASSUME NEW S, NEW s \in Seq(S), s # <<>>
    PROVE  /\ Head(s) = s[1]
           /\ Head(s) \in S
           /\ Len(s) \in Nat \ {0}
           /\ Tail(s) \in Seq(S)
           /\ Len(Tail(s)) = Len(s) - 1
           /\ \A i \in 1 .. Len(s) - 1 : Tail(s)[i] = s[i + 1]
BY HeadTailProperties, LenProperties

\* The invariant holds before run() is executed.
LEMMA SessionInit == Init => SessionInv
<1> SUFFICES ASSUME Init PROVE SessionInv
  OBVIOUS
<1> USE LimitAssumption, TimeoutAssumption DEF Init
<1>1. TypeOK
  <2>1. <<>> \in Seq(Response)
    OBVIOUS
  <2>2. expiry \in MinTime .. MaxTime /\ quiet \in 0 .. Timeout
    OBVIOUS
  <2>3. QED
    BY <2>1, <2>2, Zenon DEF TypeOK, ReadState, WriteState, WaitState
<1>2. Bookkeeping
  BY DEF Bookkeeping, HeadWritten
<1>3. WriteInv
  BY DEF WriteInv, HeadWritten
<1>4. ReadInv
  BY DEF ReadInv
<1>5. TimeInv /\ NoLostWakeup
  BY DEF TimeInv, TimerGuards, NoLostWakeup
<1> QED
  BY <1>1, <1>2, <1>3, <1>4, <1>5 DEF SessionInv

\* Taking the written response off the queue preserves the invariant: the next
\* head has not been written, and a full queue has its reading taken up again.
LEMMA OnWriteNextStep ==
    ASSUME SessionInv, OnWriteNext PROVE SessionInv'
<1> USE LimitAssumption, TimeoutAssumption
<1>1. TypeOK /\ Bookkeeping /\ WriteInv /\ ReadInv /\ TimeInv /\ NoLostWakeup
  BY DEF SessionInv
<1>2. /\ writing = "ok" /\ ~Head(workers).eof
      /\ workers' = Tail(workers)
      /\ writing' = IF workers' # <<>> THEN StartWrite ELSE "none"
      /\ UNCHANGED <<started, sock, handled, written, ioError>>
  BY DEF OnWriteNext, ClosesAfter, HasNext
<1>3. /\ workers # <<>> /\ HeadWritten
      /\ workers \in Seq(Response) /\ written \in Seq(Response)
      /\ handled \in Nat
  BY <1>1, <1>2 DEF WriteInv, TypeOK
<1>4. /\ Head(workers) = workers[1]
      /\ Len(workers) \in Nat \ {0}
      /\ workers' \in Seq(Response)
      /\ Len(workers') = Len(workers) - 1
      /\ \A i \in 1 .. Len(workers) - 1 : workers'[i] = workers[i + 1]
  BY <1>2, <1>3, TailFacts
<1>5. \/ Len(workers) >= Limit /\ DoRead(handled)
      \/ Len(workers) < Limit /\ KeepTimer /\ UNCHANGED reading
  <2>1. IF Len(workers) >= Limit THEN DoRead(handled)
                                 ELSE KeepTimer /\ UNCHANGED reading
    BY DEF OnWriteNext, IsFull
  <2>2. Len(workers) \in Nat /\ Limit \in Nat
    BY <1>4
  <2> HIDE DEF DoRead, KeepTimer
  <2> QED
    BY <2>1, <2>2
<1>6. \A i \in 1 .. Len(workers') :
        workers'[i].id = handled' - Len(workers') + i
  <2> SUFFICES ASSUME NEW i \in 1 .. Len(workers) - 1
               PROVE  workers'[i].id = handled - (Len(workers) - 1) + i
    BY <1>2, <1>4
  <2>1. workers'[i] = workers[i + 1] /\ i + 1 \in 1 .. Len(workers)
    BY <1>4
  <2>2. workers[i + 1].id = handled - Len(workers) + (i + 1)
    BY <1>1, <2>1 DEF Bookkeeping
  <2> QED
    BY <1>3, <1>4, <2>1, <2>2
<1>7. handled = Len(written) + Len(workers) - 1
  BY <1>1, <1>3 DEF Bookkeeping
<1>8. ~HeadWritten'
  <2> SUFFICES ASSUME workers' # <<>>
               PROVE  Head(workers').id # Len(written)
    BY <1>2 DEF HeadWritten
  <2>1. Head(workers') = workers'[1] /\ Len(workers') \in Nat \ {0}
    BY <1>4, TailFacts
  <2>2. Head(workers').id = handled - Len(workers') + 1
    BY <1>2, <1>6, <2>1
  <2> QED
    BY <1>3, <1>4, <1>7, <2>1, <2>2, LenProperties
<1>9. TypeOK'
  BY <1>1, <1>2, <1>4, <1>5
     DEF TypeOK, DoRead, KeepTimer, Cancelled, ReadDeadline, StartWrite,
         ReadState, WriteState, WaitState
<1>10. Bookkeeping'
  <2>1. handled' = Len(written') + Len(workers')
    BY <1>2, <1>3, <1>4, <1>7, LenProperties
  <2>2. handled' = Len(written') + Len(workers')
                     - (IF HeadWritten' THEN 1 ELSE 0)
    BY <1>2, <1>3, <1>4, <1>8, <2>1, LenProperties
  <2> QED
    BY <1>1, <1>2, <1>6, <1>8, <2>2 DEF Bookkeeping
<1>11. WriteInv'
  BY <1>1, <1>2, <1>3, <1>8 DEF WriteInv, StartWrite, Bookkeeping
<1>12. ReadInv'
  BY <1>1, <1>2, <1>3, <1>4, <1>5 DEF ReadInv, DoRead, KeepTimer, ReadDeadline
<1>13. TimeInv'
  BY <1>1, <1>2, <1>3, <1>5
     DEF TypeOK, TimeInv, TimerGuards, ReadInv, DoRead, KeepTimer, Cancelled,
         ReadDeadline
<1>14. NoLostWakeup'
  <2> SUFFICES ASSUME started, sock = "open", ~ioError
               PROVE  /\ reading' # "none"
                      /\ writing' # "none" <=> workers' # <<>>
    BY <1>2 DEF NoLostWakeup
  <2>1. reading' # "none"
    <3>1. CASE Len(workers) < Limit /\ UNCHANGED reading
      BY <1>1, <1>4, <3>1 DEF NoLostWakeup
    <3>2. CASE DoRead(handled)
      BY <3>2 DEF DoRead
    <3> QED
      BY <1>5, <3>1, <3>2
  <2>2. writing' # "none" <=> workers' # <<>>
    BY <1>2 DEF StartWrite
  <2> QED
    BY <2>1, <2>2
<1> QED
  BY <1>9, <1>10, <1>11, <1>12, <1>13, <1>14 DEF SessionInv

\* Every step preserves the invariant.
LEMMA SessionStep == SessionInv /\ [Next]_vars => SessionInv'
<1> SUFFICES ASSUME SessionInv, [Next]_vars PROVE SessionInv'
  OBVIOUS
<1> USE LimitAssumption, TimeoutAssumption, RequestsAssumption
        DEF SessionInv, TypeOK, Bookkeeping, WriteInv, ReadInv, TimeInv,
            NoLostWakeup, TimerGuards, HeadWritten, ReadState, WriteState,
            WaitState
<1>1. CASE UNCHANGED vars
  BY <1>1 DEF vars, ioVars, history
<1>2. CASE Run
  BY <1>2 DEF Run, ReadDeadline
<1>3. CASE OnTimerUpgraded
  BY <1>3 DEF OnTimerUpgraded, history
<1>4. CASE OnTimerExpired
  BY <1>4 DEF OnTimerExpired, DoClose, Cancelled, Expired, history
<1>5. CASE OnTimerMoved
  BY <1>5 DEF OnTimerMoved, WaitAgain, Expired, history
<1>6. CASE OnReadAborted
  BY <1>6 DEF OnReadAborted, KeepTimer
<1>7. CASE OnReadEof
  BY <1>7 DEF OnReadEof, DoClose, Cancelled, KeepTimer
<1>8. CASE OnReadError
  BY <1>8 DEF OnReadError, KeepTimer
<1>9. CASE OnReadUpgrade
  BY <1>9 DEF OnReadUpgrade, Cancelled, UpgradeDeadline
<1>10. CASE \E eof \in BOOLEAN : OnReadRequest(eof)
  <2> PICK eof \in BOOLEAN : OnReadRequest(eof)
    BY <1>10
  <2> DEFINE response == [id |-> handled + 1, eof |-> eof]
  <2>1. response \in Response
    BY DEF Response
  <2>2. workers' = Append(workers, response)
    BY DEF OnReadRequest
  <2>3. /\ workers' \in Seq(Response)
        /\ Len(workers') = Len(workers) + 1
        /\ \A i \in 1 .. Len(workers) : workers'[i] = workers[i]
        /\ workers'[Len(workers) + 1] = response
        /\ workers # <<>> => Head(workers') = Head(workers)
        /\ workers = <<>> => Head(workers') = response
        /\ workers' # <<>>
    BY <2>1, <2>2, AppendFacts
  <2> HIDE DEF response
  <2>4. response.id = handled + 1
    BY DEF response
  <2>5. /\ reading = "request" /\ handled' = handled + 1
        /\ writing' = IF FirstInLine(workers) THEN StartWrite ELSE writing
        /\ UNCHANGED <<started, sock, written, ioError>>
    BY DEF OnReadRequest
  <2>6. HeadWritten' <=> HeadWritten
    BY <2>3, <2>4, <2>5
  <2>7. Bookkeeping'
    <3>1. \A i \in 1 .. Len(workers') :
            workers'[i].id = handled' - Len(workers') + i
      <4> SUFFICES ASSUME NEW i \in 1 .. Len(workers) + 1
                   PROVE  workers'[i].id = handled - Len(workers) + i
        BY <2>3, <2>5
      <4>1. CASE i = Len(workers) + 1
        BY <4>1, <2>3, <2>4
      <4>2. CASE i \in 1 .. Len(workers)
        BY <4>2, <2>3
      <4> QED
        BY <4>1, <4>2
    <3>2. handled' = Len(written') + Len(workers')
                       - (IF HeadWritten' THEN 1 ELSE 0)
      BY <2>3, <2>5, <2>6
    <3>3. HeadWritten' => Head(workers') = written'[Len(written')]
      BY <2>3, <2>5, <2>6
    <3> QED
      BY <2>5, <3>1, <3>2, <3>3
  <2>8. WriteInv'
    BY <2>3, <2>5, <2>6 DEF FirstInLine, StartWrite
  <2>9. \/ /\ Len(workers') >= Limit /\ reading' = "none"
           /\ KeepTimer
        \/ /\ Len(workers') < Limit
           /\ DoRead(handled + 1)
    BY <2>3 DEF OnReadRequest, IsFull
  <2>10. TypeOK'
    BY <2>3, <2>5, <2>9
       DEF DoRead, KeepTimer, Cancelled, ReadDeadline, StartWrite
  <2>11. ReadInv'
    BY <2>3, <2>5, <2>9 DEF DoRead, KeepTimer, ReadDeadline
  <2>12. TimeInv'
    BY <2>5, <2>9 DEF DoRead, KeepTimer, Cancelled, ReadDeadline
  <2>13. NoLostWakeup'
    BY <2>3, <2>5, <2>9 DEF DoRead, KeepTimer, FirstInLine, StartWrite
  <2> QED
    BY <2>7, <2>8, <2>10, <2>11, <2>12, <2>13
<1>11. CASE OnWriteAborted
  BY <1>11 DEF OnWriteAborted, KeepTimer
<1>12. CASE OnWriteError
  BY <1>12 DEF OnWriteError, KeepTimer
<1>13. CASE OnWriteClose
  BY <1>13 DEF OnWriteClose, DoClose, Cancelled, KeepTimer, ClosesAfter
<1>14. CASE OnWriteNext
  BY <1>14, OnWriteNextStep
<1>15. CASE ReadCompletes
  BY <1>15 DEF ReadCompletes, history
<1>16. CASE WriteSucceeds
  <2>1. /\ writing = "pending" /\ writing' = "ok" /\ workers # <<>>
        /\ written' = Append(written, Head(workers))
        /\ UNCHANGED <<started, sock, workers, reading, wait, expiry, handled,
                       quiet, ioError>>
    BY <1>16 DEF WriteSucceeds
  <2>2. /\ Head(workers) = workers[1] /\ Head(workers) \in Response
        /\ Len(workers) \in Nat \ {0}
    BY <2>1, TailFacts
  <2>3. /\ written' \in Seq(Response)
        /\ Len(written') = Len(written) + 1
        /\ \A i \in 1 .. Len(written) : written'[i] = written[i]
        /\ written'[Len(written) + 1] = Head(workers)
        /\ written' # <<>>
    BY <2>1, <2>2, AppendFacts
  <2>4. Head(workers).id = Len(written) + 1 /\ ~HeadWritten
    BY <2>1, <2>2
  <2>5. HeadWritten'
    BY <2>1, <2>3, <2>4
  <2>6. Bookkeeping'
    BY <2>1, <2>3, <2>4, <2>5
  <2>7. WriteInv'
    BY <2>1, <2>3, <2>4, <2>5
  <2>8. QED
    BY <2>1, <2>3, <2>6, <2>7
<1>17. CASE WriteFails
  BY <1>17 DEF WriteFails, history
<1>18. CASE TimerFires
  BY <1>18 DEF TimerFires, history
<1>19. CASE Tick
  BY <1>19 DEF Tick, ioVars
<1>20. CASE Destroyed
  BY <1>1, <1>20 DEF Destroyed
<1>21. QED
  BY <1>1, <1>2, <1>3, <1>4, <1>5, <1>6, <1>7, <1>8, <1>9, <1>10, <1>11, <1>12,
     <1>13, <1>14, <1>15, <1>16, <1>17, <1>18, <1>19, <1>20
     DEF Next, OnTimer, OnRead, OnWrite

\* The invariant holds in every state of every session.
THEOREM SessionInvariant == Spec => []SessionInv
BY SessionInit, SessionStep, PTL DEF Spec

\* Every variable keeps to its type.
THEOREM TypeCorrect == Spec => []TypeOK
<1>1. SessionInv => TypeOK
  BY DEF SessionInv
<1> QED
  BY <1>1, SessionInvariant, PTL

\* No read is outstanding while the queue is full, and the session is never
\* more than Limit responses behind its requests.
THEOREM BackpressureHolds == Spec => []Backpressure
<1>1. SessionInv => Backpressure
  <2> SUFFICES ASSUME SessionInv PROVE Backpressure
    OBVIOUS
  <2>1. /\ workers \in Seq(Response) /\ written \in Seq(Response)
        /\ handled <= Len(written) + Len(workers)
        /\ Len(workers) <= Limit /\ handled \in Nat
        /\ reading # "none" => Len(workers) < Limit
    BY LenProperties DEF SessionInv, TypeOK, Bookkeeping, ReadInv
  <2> QED
    BY <2>1, LenProperties, LimitAssumption DEF Backpressure
<1> QED
  BY <1>1, SessionInvariant, PTL

\* An open session without I/O errors never forgets to read or to write.
THEOREM NoWakeupIsLost == Spec => []NoLostWakeup
<1>1. SessionInv => NoLostWakeup
  BY DEF SessionInv
<1> QED
  BY <1>1, SessionInvariant, PTL

\* An open session is always watched by its timer.
THEOREM TimerAlwaysGuards == Spec => []TimerGuards
<1>1. SessionInv => TimerGuards
  BY DEF SessionInv, TimeInv
<1> QED
  BY <1>1, SessionInvariant, PTL

\* Nothing is read, and the deadline does not move, after an upgrade.
THEOREM UpgradeStaysFinal == Spec => []UpgradeIsFinal
<1>1. SessionInv => UpgradeIsFinal
  BY DEF SessionInv, ReadInv, UpgradeIsFinal
<1> QED
  BY <1>1, SessionInvariant, PTL

\* The timer closes the socket only after Timeout ticks without a new read.
THEOREM TimeoutIsNeverEarly == Spec => NoEarlyTimeout
<1>1. SessionInv /\ [Next]_vars =>
        [sock = "open" /\ sock' = "closed" /\ wait # "none" /\ wait' = "none"
           => quiet >= Timeout]_vars
  <2> SUFFICES ASSUME SessionInv, Next, sock = "open", sock' = "closed",
                      wait # "none", wait' = "none"
               PROVE  quiet >= Timeout
    OBVIOUS
  <2>1. OnTimerExpired
    BY DEF Next, Run, OnTimer, OnTimerUpgraded, OnTimerMoved, OnRead,
           OnReadAborted, OnReadEof, OnReadError, OnReadUpgrade, OnReadRequest,
           OnWrite, OnWriteAborted, OnWriteError, OnWriteClose, OnWriteNext,
           ReadCompletes, WriteSucceeds, WriteFails, TimerFires, Tick,
           Destroyed, KeepTimer, Cancelled, ioVars, vars
  <2>2. expiry = 0 /\ quiet \in Nat
    BY <2>1, TimeoutAssumption DEF OnTimerExpired, Expired, SessionInv, TypeOK
  <2> QED
    BY <2>2, TimeoutAssumption DEF SessionInv, TimeInv
<1> QED
  BY <1>1, SessionInvariant, PTL DEF Spec, NoEarlyTimeout

-----------------------------------------------------------------------------
(* The session implements the pipeline. *)

\* What the pipeline calls answered and final.
Answers == [i \in 1 .. Len(written) |-> written[i].id]
Final   == written # <<>> /\ written[Len(written)].eof

\* The response ids on the wire are 1, 2, ..., and a pending write finds no
\* response before it that ended the connection.
LEMMA AnswersFacts ==
    ASSUME SessionInv
    PROVE  /\ Answers \in Seq(Nat)
           /\ Len(Answers) = Len(written)
           /\ Len(written) \in Nat
           /\ \A i \in 1 .. Len(written) : Answers[i] = i
BY LenProperties DEF Answers, SessionInv, TypeOK, Bookkeeping, Response

\* A session starts as a pipeline starts.
LEMMA PipelineStart == Init => Pipeline!PipelineInit
BY DEF Init, Pipeline!PipelineInit

\* Every step is a step of the pipeline or leaves it alone: a request that is
\* read is accepted, a response that is written answers.
LEMMA PipelineStep ==
    SessionInv /\ [Next]_vars =>
        [Pipeline!PipelineNext]_(Pipeline!pipelineVars)
<1> SUFFICES ASSUME SessionInv, [Next]_vars
             PROVE  [Pipeline!PipelineNext]_(Pipeline!pipelineVars)
  OBVIOUS
<1>1. CASE UNCHANGED <<handled, written>>
  BY <1>1 DEF Pipeline!pipelineVars
<1>2. CASE \E eof \in BOOLEAN : OnReadRequest(eof)
  <2>1. /\ handled' = handled + 1 /\ written' = written
        /\ reading = "request"
    BY <1>2 DEF OnReadRequest
  <2>2. handled - Len(Answers) < Limit
    <3>1. /\ Len(workers) < Limit /\ Len(workers) \in Nat /\ handled \in Nat
          /\ handled <= Len(written) + Len(workers) /\ Len(written) \in Nat
      BY <2>1, LenProperties
         DEF SessionInv, TypeOK, ReadInv, Bookkeeping
    <3> QED
      BY <3>1, AnswersFacts, LimitAssumption
  <2>3. Answers' = Answers /\ Final' = Final
    BY <2>1 DEF Answers, Final
  <2> QED
    BY <2>1, <2>2, <2>3
       DEF Pipeline!PipelineNext, Pipeline!Accept, Answers, Final
<1>3. CASE WriteSucceeds
  <2>1. /\ writing = "pending" /\ handled' = handled
        /\ written' = Append(written, Head(workers))
    BY <1>3 DEF WriteSucceeds
  <2>2. /\ workers # <<>> /\ ~HeadWritten
        /\ workers \in Seq(Response) /\ written \in Seq(Response)
        /\ handled \in Nat
        /\ handled = Len(written) + Len(workers)
        /\ \A i \in 1 .. Len(written) : ~written[i].eof
    BY <2>1, LenProperties DEF SessionInv, TypeOK, WriteInv, Bookkeeping
  <2>3. /\ Head(workers) = workers[1] /\ Head(workers) \in Response
        /\ Len(workers) \in Nat \ {0}
    BY <2>2, TailFacts
  <2>4. Head(workers).id = Len(written) + 1
    BY <2>2, <2>3, LenProperties DEF SessionInv, Bookkeeping
  <2>5. /\ written' \in Seq(Response)
        /\ Len(written') = Len(written) + 1
        /\ \A i \in 1 .. Len(written) : written'[i] = written[i]
        /\ written'[Len(written) + 1] = Head(workers)
        /\ written' # <<>>
    BY <2>1, <2>2, <2>3, AppendFacts
  <2>6. Answers' = Append(Answers, Len(Answers) + 1)
    BY <2>4, <2>5, AnswersFacts DEF Answers
  <2>7. ~Final
    BY <2>2, LenProperties DEF Final
  <2>8. Final' \in BOOLEAN
    BY <2>3, <2>5 DEF Final, Response
  <2>9. Len(Answers) < handled
    BY <2>2, <2>3, AnswersFacts
  <2> QED
    BY <2>1, <2>6, <2>7, <2>8, <2>9
       DEF Pipeline!PipelineNext, Pipeline!Answer, Answers, Final
<1> QED
  BY <1>1, <1>2, <1>3
     DEF Next, Run, OnTimer, OnTimerUpgraded, OnTimerExpired, OnTimerMoved,
         OnRead, OnReadAborted, OnReadEof, OnReadError, OnReadUpgrade, OnWrite,
         OnWriteAborted, OnWriteError, OnWriteClose, OnWriteNext, ReadCompletes,
         WriteFails, TimerFires, Tick, Destroyed, vars, history

\* Every session implements ResponsePipeline: its responses are those to its
\* requests, in order, at most Limit behind, none after the last one.
THEOREM SessionImplementsPipeline == Spec => ImplementsPipeline
BY PipelineStart, PipelineStep, SessionInvariant, PTL
   DEF Spec, ImplementsPipeline, Pipeline!PipelineSpec
=============================================================================
