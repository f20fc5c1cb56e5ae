------------------------- MODULE HttpListenerProofs -------------------------
(***************************************************************************)
(* Proofs about the life of the process, for any numbers of threads,       *)
(* connections and errors.                                                 *)
(***************************************************************************)
EXTENDS HttpListener, FiniteSetTheorems, TLAPS

\* The handlers that wait, and the places where a thread may be.
Handlers == Links \union {"session", "stop"}
Places   == Links \union {"none", "run", "session", "stop", "returned"}

\* What is appended to the queue, and what is taken from it.
LEMMA Appended ==
    ASSUME ready \in Seq(Handlers), NEW h \in Handlers, Ready(h)
    PROVE  /\ ready' \in Seq(Handlers)
           /\ \A i \in 1 .. Len(ready') :
                ready'[i] = h \/ \E j \in 1 .. Len(ready) : ready'[i] = ready[j]
BY DEF Ready

LEMMA Taken ==
    ASSUME ready \in Seq(Handlers), ready # <<>>, ready' = Tail(ready)
    PROVE  /\ ready' \in Seq(Handlers)
           /\ Head(ready) \in Handlers /\ Head(ready) = ready[1]
           /\ 1 \in 1 .. Len(ready)
           /\ \A i \in 1 .. Len(ready') : \E j \in 1 .. Len(ready) : ready'[i] = ready[j]
<1>1. \A i \in 1 .. Len(ready') : i + 1 \in 1 .. Len(ready) /\ ready'[i] = ready[i + 1]
  OBVIOUS
<1> QED
  BY <1>1

LEMMA InitInv == Init => ListenerInv
<1> SUFFICES ASSUME Init PROVE ListenerInv
  OBVIOUS
<1>1. threads \in Nat
  BY ConcurrencyAssumption DEF Init
<1>2. TypeOK
  BY <1>1 DEF Init, TypeOK
<1>3. SignalInv /\ StartedInv /\ ReturnsAlone
  <2>1. \A t \in 0 .. threads : at[t] = "none"
    BY DEF Init
  <2>2. 0 \in 0 .. threads /\ \A t \in 1 .. threads : t \in 0 .. threads
    BY <1>1
  <2>3. ready = <<>> /\ stopped = FALSE /\ outcome = "none"
    BY DEF Init
  <2>4. SignalInv
    BY <2>1, <2>3 DEF SignalInv
  <2>5. StartedInv
    BY <2>1, <2>2, Zenon DEF StartedInv
  <2>6. ReturnsAlone
    BY <2>3 DEF ReturnsAlone
  <2> QED
    BY <2>4, <2>5, <2>6
<1>4. ChainInv
  BY DEF Init, ChainInv, InNoHandler, InNoThread, Links
<1> QED
  BY <1>2, <1>3, <1>4 DEF ListenerInv

\* The steps of main.
LEMMA MainType ==
    ASSUME TypeOK, Main
    PROVE  TypeOK'
<1>1. threads \in Nat /\ at \in [0 .. threads -> Places] /\ ready \in Seq(Handlers)
  BY ConcurrencyAssumption DEF TypeOK, Handlers, Places
<1>2. CASE Construct \/ ConstructFails \/ Join
  BY <1>2 DEF TypeOK, Construct, ConstructFails, Join, Ends, ioVars, netVars
<1>3. CASE RunServer
  <2>1. ready' \in Seq(Handlers)
    BY <1>1, <1>3, Appended DEF RunServer, Handlers, Links
  <2> QED
    BY <1>3, <2>1 DEF TypeOK, RunServer, netVars, Handlers
<1>4. CASE StartRunner
  <2>1. /\ runners \in Nat
        /\ runners' = runners + 1 /\ runners < threads - 1
    BY <1>4, Zenon DEF TypeOK, StartRunner
  <2>2. /\ runners' \in Nat /\ runners' < threads + 1
        /\ runners + 1 \in 0 .. threads
    BY <1>1, <2>1
  <2>3. at' \in [0 .. threads -> Places]
    BY <1>1, <1>4, <2>2 DEF StartRunner, Goes, Places
  <2> QED
    BY <1>4, <2>2, <2>3 DEF TypeOK, StartRunner, netVars, Places
<1>5. CASE StartFails
  BY <1>5 DEF TypeOK, StartFails, ThrownInMain, Ends, ioVars, netVars
<1>6. CASE RunMain
  <2>1. at' \in [0 .. threads -> Places]
    BY <1>1, <1>6 DEF RunMain, Goes, Places
  <2> QED
    BY <1>6, <2>1 DEF TypeOK, RunMain, netVars, Places
<1> QED
  BY <1>2, <1>3, <1>4, <1>5, <1>6 DEF Main

\* The steps of the threads that run the io_context.
LEMMA ThreadType ==
    ASSUME TypeOK, NEW t \in 0 .. threads, Thread(t)
    PROVE  TypeOK'
<1>1. threads \in Nat /\ at \in [0 .. threads -> Places] /\ ready \in Seq(Handlers)
  BY ConcurrencyAssumption DEF TypeOK, Handlers, Places
<1>2. CASE Take(t)
  <2>1. ready' \in Seq(Handlers) /\ Head(ready) \in Handlers
    BY <1>1, <1>2, Taken DEF Take
  <2>2. at' \in [0 .. threads -> Places]
    BY <1>1, <1>2, <2>1 DEF Take, Goes, Places, Handlers
  <2> QED
    BY <1>2, <2>1, <2>2 DEF TypeOK, Take, mainVars, netVars, Places, Handlers
<1>3. CASE ReturnFromRun(t)
  <2>1. at' \in [0 .. threads -> Places]
    BY <1>1, <1>3 DEF ReturnFromRun, Goes, Places
  <2> QED
    BY <1>3, <2>1 DEF TypeOK, ReturnFromRun, netVars, Places
<1>4. CASE OnAccept(t)
  <2>1. at' \in [0 .. threads -> Places]
    BY <1>1, <1>4 DEF OnAccept, AfterAccept, Goes, Places, Links
  <2> QED
    BY <1>4, <2>1 DEF TypeOK, OnAccept, mainVars, netVars, Places
<1>5. CASE DoAccept(t)
  <2>1. at' \in [0 .. threads -> Places]
    BY <1>1, <1>5 DEF DoAccept, Goes, Places
  <2>2. accepting \in Nat /\ accepting' = accepting + 1
    BY <1>5, Zenon DEF TypeOK, DoAccept, AsyncAccept
  <2>3. accepting' \in Nat
    BY <2>2
  <2> QED
    BY <1>5, <2>1, <2>3 DEF TypeOK, DoAccept, mainVars, Places
<1>6. CASE OnSignal(t)
  <2>1. at' \in [0 .. threads -> Places]
    BY <1>1, <1>6 DEF OnSignal, StopContext, Goes, Places
  <2> QED
    BY <1>6, <2>1 DEF TypeOK, OnSignal, StopContext, mainVars, netVars, Places
<1>7. CASE OnSession(t)
  <2>1. at' \in [0 .. threads -> Places]
    BY <1>1, <1>7 DEF OnSession, Goes, Places
  <2> QED
    BY <1>7, <2>1 DEF TypeOK, OnSession, mainVars, netVars, Places
<1> QED
  BY <1>2, <1>3, <1>4, <1>5, <1>6, <1>7 DEF Thread

\* What the system and the peers do.
LEMMA OutsideType ==
    ASSUME TypeOK, Arrive \/ Accept \/ AcceptFails \/ SessionReady \/ Signal
    PROVE  TypeOK'
<1>1. threads \in Nat /\ at \in [0 .. threads -> Places] /\ ready \in Seq(Handlers)
  BY ConcurrencyAssumption DEF TypeOK, Handlers, Places
<1>2. \A h \in Handlers : Ready(h) => ready' \in Seq(Handlers)
  BY <1>1, Appended
<1>3. /\ accepting \in Nat /\ arrived \in Nat /\ taken \in 0 .. arrived /\ errors \in Nat
      /\ "accepted" \in Handlers /\ "error" \in Handlers
  BY DEF TypeOK, Handlers, Links
<1>4. CASE Arrive
  <2>1. arrived' \in Nat /\ taken' \in 0 .. arrived'
    BY <1>4, <1>3 DEF Arrive
  <2> QED
    BY <1>4, <2>1 DEF TypeOK, Arrive, mainVars, ioVars
<1>5. CASE Accept
  <2>1. accepting' \in Nat /\ taken' \in 0 .. arrived' /\ ready' \in Seq(Handlers)
    BY <1>2, <1>5, <1>3 DEF Accept
  <2> QED
    BY <1>5, <2>1 DEF TypeOK, Accept, mainVars, Handlers
<1>6. CASE AcceptFails
  <2>1. accepting' \in Nat /\ errors' \in Nat /\ ready' \in Seq(Handlers)
    BY <1>2, <1>6, <1>3 DEF AcceptFails
  <2> QED
    BY <1>6, <2>1 DEF TypeOK, AcceptFails, mainVars, Handlers
<1>7. CASE SessionReady
  <2>1. ready' \in Seq(Handlers)
    BY <1>2, <1>7 DEF SessionReady, Handlers
  <2> QED
    BY <1>7, <2>1 DEF TypeOK, SessionReady, mainVars, netVars, Handlers
<1>8. CASE Signal
  <2>1. /\ ready' \in Seq(Handlers)
        /\ outcome' \in {"none", "exit 1", "return 0", "terminate", "killed"}
    <3>1. CASE main \in {"construct", "run server"}
      BY <1>1, <1>8, <3>1 DEF Signal, Ends
    <3>2. CASE main \notin {"construct", "run server"}
      BY <1>2, <1>8, <3>2 DEF TypeOK, Signal, Handlers
    <3> QED
      BY <3>1, <3>2
  <2> QED
    BY <1>8, <2>1 DEF TypeOK, Signal, netVars, Handlers
<1> QED
  BY <1>4, <1>5, <1>6, <1>7, <1>8

LEMMA TypeStep ==
    ASSUME TypeOK, [Next]_vars
    PROVE  TypeOK'
<1>1. ASSUME NEW t \in 0 .. threads, OnAcceptThrows(t) PROVE TypeOK'
  BY <1>1 DEF TypeOK, OnAcceptThrows, ThrownInMain, Ends, ioVars, netVars
<1>2. CASE UNCHANGED vars
  BY <1>2 DEF TypeOK, vars, mainVars, ioVars, netVars
<1> QED
  BY <1>1, <1>2, MainType, ThreadType, OutsideType DEF Next

\* Only the signal's handler stops the io_context.
LEMMA SignalStep ==
    ASSUME TypeOK, SignalInv, [Next]_vars
    PROVE  SignalInv'
<1>1. threads \in Nat /\ at \in [0 .. threads -> Places] /\ ready \in Seq(Handlers)
  BY ConcurrencyAssumption DEF TypeOK, Handlers, Places
<1>2. ASSUME UNCHANGED <<threads, ready, stopped, at>>, signalled => signalled'
      PROVE  SignalInv'
  BY <1>2 DEF SignalInv
<1>3. ASSUME NEW h \in Handlers, Ready(h), h = "stop" => signalled',
             UNCHANGED <<threads, stopped, at>>, signalled => signalled'
      PROVE  SignalInv'
  BY <1>1, <1>3, Appended DEF SignalInv
<1>4. ASSUME NEW t \in 0 .. threads, NEW place, Goes(t, place),
             UNCHANGED <<threads, signalled, ready>>,
             stopped' => signalled, place \in {"stop", "returned"} => signalled
      PROVE  SignalInv'
  BY <1>1, <1>4 DEF SignalInv, Goes
<1>5. ASSUME Main PROVE SignalInv'
  <2>1. CASE Construct \/ ConstructFails \/ StartFails \/ Join
    BY <1>2, <2>1 DEF Construct, ConstructFails, StartFails, Join, ioVars
  <2>2. CASE RunServer
    BY <1>3, <2>2 DEF RunServer, Handlers, Links
  <2>3. CASE StartRunner
    <3>1. runners + 1 \in 0 .. threads
      <4>1. runners \in Nat /\ runners < threads - 1
        BY <2>3, Zenon DEF TypeOK, StartRunner
      <4> QED
        BY <1>1, <4>1
    <3> QED
      BY <1>4, <2>3, <3>1, Zenon DEF StartRunner, SignalInv
  <2>4. CASE RunMain
    <3>1. 0 \in 0 .. threads
      BY <1>1
    <3> QED
      BY <1>4, <2>4, <3>1, Zenon DEF RunMain, SignalInv
  <2> QED
    BY <1>5, <2>1, <2>2, <2>3, <2>4 DEF Main
<1>6. ASSUME NEW t \in 0 .. threads, Thread(t) PROVE SignalInv'
  <2>1. CASE Take(t)
    <3>1. /\ Head(ready) = "stop" => signalled
          /\ Head(ready) \in Handlers
          /\ \A i \in 1 .. Len(ready') : ready'[i] = "stop" => signalled
      BY <1>1, <2>1, Taken DEF Take, SignalInv
    <3>2. Head(ready) # "returned"
      BY <3>1 DEF Handlers, Links
    <3> QED
      BY <1>1, <2>1, <3>1, <3>2 DEF Take, Goes, SignalInv, mainVars
  <2>2. CASE ReturnFromRun(t)
    BY <1>4, <2>2 DEF ReturnFromRun, SignalInv
  <2>3. CASE OnAccept(t)
    BY <1>4, <2>3 DEF OnAccept, AfterAccept, SignalInv, mainVars
  <2>4. CASE DoAccept(t)
    BY <1>4, <2>4, Zenon DEF DoAccept, SignalInv, mainVars
  <2>5. CASE OnSignal(t)
    BY <1>4, <2>5 DEF OnSignal, StopContext, SignalInv, mainVars
  <2>6. CASE OnSession(t)
    BY <1>4, <2>6 DEF OnSession, SignalInv, mainVars
  <2> QED
    BY <1>6, <2>1, <2>2, <2>3, <2>4, <2>5, <2>6 DEF Thread
<1>7. ASSUME NEW t \in 0 .. threads, OnAcceptThrows(t) PROVE SignalInv'
  BY <1>2, <1>7 DEF OnAcceptThrows, ioVars
<1>8. CASE Arrive
  BY <1>2, <1>8, Zenon DEF Arrive, mainVars, ioVars
<1>9. CASE Accept \/ AcceptFails \/ SessionReady
  <2>1. "accepted" \in Handlers /\ "error" \in Handlers /\ "session" \in Handlers
    BY DEF Handlers, Links
  <2> QED
    BY <1>3, <1>9, <2>1 DEF Accept, AcceptFails, SessionReady, mainVars
<1>10. CASE Signal
  <2>1. CASE main \in {"construct", "run server"}
    BY <1>2, <1>10, <2>1 DEF Signal
  <2>2. CASE main \notin {"construct", "run server"}
    BY <1>3, <1>10, <2>2 DEF Signal, Handlers
  <2> QED
    BY <2>1, <2>2
<1>11. CASE UNCHANGED vars
  BY <1>2, <1>11 DEF vars, mainVars, ioVars
<1> QED
  BY <1>5, <1>6, <1>7, <1>8, <1>9, <1>10, <1>11 DEF Next

\* Runners are started one by one, and a runner is nowhere before it is.
LEMMA StartedStep ==
    ASSUME TypeOK, StartedInv, [Next]_vars
    PROVE  StartedInv'
<1>1. threads \in Nat /\ at \in [0 .. threads -> Places] /\ runners \in Nat
  BY ConcurrencyAssumption DEF TypeOK, Places
<1>2. ASSUME UNCHANGED <<threads, runners, at>>,
             main' \notin {"run", "join"} => main \notin {"run", "join"}
      PROVE  StartedInv'
  BY <1>2 DEF StartedInv
<1>3. ASSUME NEW t \in 0 .. threads, at[t] # "none", NEW place,
             Goes(t, place), UNCHANGED <<threads, runners>>,
             main' \in {main, "run", "join"}
      PROVE  StartedInv'
  BY <1>1, <1>3 DEF StartedInv, Goes
<1>4. CASE StartRunner
  <2>1. /\ Goes(runners + 1, "run") /\ runners' = runners + 1
        /\ threads' = threads /\ main' = main
    BY <1>4, Zenon DEF StartRunner
  <2> QED
    BY <1>1, <2>1 DEF StartedInv, Goes
<1>5. CASE RunMain
  <2>1. at' = [at EXCEPT ![0] = "run"] /\ main' = "run" /\ UNCHANGED <<threads, runners>>
    BY <1>5, Zenon DEF RunMain, Goes
  <2> QED
    BY <1>1, <2>1 DEF StartedInv
<1>6. CASE Construct \/ ConstructFails \/ RunServer \/ StartFails \/ Join
  BY <1>2, <1>6 DEF Construct, ConstructFails, RunServer, StartFails, Join, ioVars
<1>7. ASSUME NEW t \in 0 .. threads, Thread(t) PROVE StartedInv'
  <2>1. CASE DoAccept(t)
    <3>1. at[t] # "none" /\ Goes(t, "run") /\ UNCHANGED <<threads, runners, main>>
      BY <2>1 DEF DoAccept, mainVars
    <3> QED
      BY <1>3, <3>1
  <2>2. CASE Take(t) \/ ReturnFromRun(t) \/ OnAccept(t) \/ OnSignal(t) \/ OnSession(t)
    BY <1>3, <2>2 DEF Take, ReturnFromRun, OnAccept, OnSignal, StopContext, OnSession,
                      mainVars
  <2> QED
    BY <1>7, <2>1, <2>2 DEF Thread
<1>8. CASE Arrive \/ Accept \/ AcceptFails \/ SessionReady
  <2>1. UNCHANGED <<threads, runners, at, main>>
    BY <1>8, Zenon DEF Arrive, Accept, AcceptFails, SessionReady, mainVars, ioVars
  <2> QED
    BY <1>2, <2>1
<1>9. CASE Signal \/ \E t \in 0 .. threads : OnAcceptThrows(t)
  BY <1>2, <1>9 DEF Signal, OnAcceptThrows, ioVars
<1>10. CASE UNCHANGED vars
  BY <1>2, <1>10 DEF vars, mainVars, ioVars
<1> QED
  BY <1>4, <1>5, <1>6, <1>7, <1>8, <1>9, <1>10 DEF Next, Main

\* main returns after it has joined all runners, or when it has started none.
LEMMA AloneStep ==
    ASSUME TypeOK, SignalInv, StartedInv, ReturnsAlone, [Next]_vars
    PROVE  ReturnsAlone'
<1>1. /\ threads \in Nat /\ at \in [0 .. threads -> Places] /\ runners \in Nat
      /\ DOMAIN at = 0 .. threads
  BY ConcurrencyAssumption DEF TypeOK, Places
<1> DEFINE Alone == \A t \in 0 .. threads \ {0} :
                       /\ at[t] \in {"none", "returned"}
                       /\ at[t] # "none" => signalled
<1>2. ASSUME outcome' = "return 0", outcome = "none", Next
      PROVE  Alone /\ UNCHANGED <<at, signalled>>
  <2>1. CASE Join
    <3>1. \A t \in 1 .. runners : at[t] = "returned"
      BY <2>1 DEF Join, Joined
    <3>2. \A t \in 1 .. threads : t > runners => at[t] = "none"
      BY DEF StartedInv
    <3>3. \A t \in 0 .. threads \ {0} : at[t] \in {"none", "returned"}
      BY <1>1, <3>1, <3>2
    <3> QED
      BY <2>1, <3>3 DEF Join, ioVars, SignalInv
  <2>2. ASSUME runners = 0 PROVE Alone
    BY <1>1, <2>2 DEF StartedInv
  <2>3. CASE StartFails \/ \E t \in 0 .. threads : OnAcceptThrows(t)
    <3>1. /\ UNCHANGED <<at, signalled>>
          /\ ThrownInMain \/ Ends("terminate")
      BY <2>3, Zenon DEF StartFails, OnAcceptThrows, ioVars
    <3>2. ~(runners > 0)
      BY <1>2, <3>1, Zenon DEF ThrownInMain, Ends
    <3>3. runners = 0
      BY <1>1, <3>2
    <3> QED
      BY <2>2, <3>1, <3>3
  <2>4. CASE Construct \/ ConstructFails \/ RunServer \/ StartRunner \/ RunMain \/ Signal
    BY <1>2, <2>4 DEF Construct, ConstructFails, RunServer, StartRunner, RunMain,
                      Signal, Ends
  <2>5. ASSUME NEW t \in 0 .. threads, Thread(t) PROVE FALSE
    <3>1. outcome' = outcome
      BY <2>5, Zenon DEF Thread, Take, ReturnFromRun, OnAccept, DoAccept, OnSignal,
                         OnSession, mainVars
    <3> QED
      BY <1>2, <3>1
  <2>6. CASE Arrive \/ Accept \/ AcceptFails \/ SessionReady
    <3>1. outcome' = outcome
      BY <2>6, Zenon DEF Arrive, Accept, AcceptFails, SessionReady, mainVars
    <3> QED
      BY <1>2, <3>1
  <2> QED
    BY <1>2, <2>1, <2>3, <2>4, <2>5, <2>6 DEF Next, Main
<1>3. CASE outcome = "return 0"
  <2>1. UNCHANGED <<at, signalled, outcome>>
    BY <1>3, Zenon DEF Next, vars, mainVars, ioVars
  <2> QED
    BY <1>3, <2>1 DEF ReturnsAlone
<1>4. CASE outcome # "return 0" /\ outcome' = "return 0"
  <2>1. Next /\ outcome = "none"
    BY <1>4, Zenon DEF Next, vars, mainVars
  <2>2. Alone /\ UNCHANGED <<at, signalled>>
    BY <1>2, <1>4, <2>1
  <2> QED
    BY <1>1, <2>2 DEF ReturnsAlone
<1> QED
  BY <1>3, <1>4 DEF ReturnsAlone

\* What the chain's links do to each other: a link leaves one place for the next,
\* and nothing else makes or ends one.
LEMMA ChainStep ==
    ASSUME TypeOK, StartedInv, ChainInv, [Next]_vars
    PROVE  ChainInv'
<1>1. threads \in Nat /\ at \in [0 .. threads -> Places] /\ ready \in Seq(Handlers)
  BY ConcurrencyAssumption DEF TypeOK, Handlers, Places
<1> DEFINE Early == main \in {"construct", "run server"}
<1>2. ASSUME UNCHANGED <<threads, accepting, ready>>,
             \A t \in 0 .. threads : at'[t] \in Links <=> at[t] \in Links,
             Early' <=> Early
      PROVE  ChainInv'
  <2>1. /\ InNoHandler' <=> InNoHandler
        /\ InOneHandler' <=> InOneHandler
        /\ InNoThread' <=> InNoThread
        /\ InOneThread' <=> InOneThread
    BY <1>2 DEF InNoHandler, InOneHandler, InNoThread, InOneThread
  <2> QED
    BY <1>2, <2>1, Zenon DEF ChainInv
<1>3. ASSUME NEW h \in Handlers \ Links, Ready(h), UNCHANGED <<threads, accepting, at, main>>
      PROVE  ChainInv'
  <2>1. /\ InNoHandler' <=> InNoHandler
        /\ InOneHandler => InOneHandler'
        /\ InNoThread' <=> InNoThread
        /\ InOneThread' <=> InOneThread
    <3>1. /\ Len(ready') = Len(ready) + 1 /\ ready'[Len(ready) + 1] = h
          /\ \A i \in 1 .. Len(ready) : ready'[i] = ready[i]
      BY <1>1, <1>3 DEF Ready
    <3>2. InNoHandler' <=> InNoHandler
      BY <1>1, <1>3, <3>1 DEF InNoHandler
    <3>3. ASSUME InOneHandler PROVE InOneHandler'
      <4>1. PICK i \in 1 .. Len(ready) :
                ready[i] \in Links /\ \A j \in 1 .. Len(ready) \ {i} : ready[j] \notin Links
        BY <3>3 DEF InOneHandler
      <4>2. \A j \in 1 .. Len(ready') : j \in 1 .. Len(ready) \/ j = Len(ready) + 1
        BY <1>1, <3>1
      <4>3. \A j \in 1 .. Len(ready') \ {i} : ready'[j] \notin Links
        BY <1>3, <3>1, <4>1, <4>2
      <4>4. i \in 1 .. Len(ready') /\ ready'[i] \in Links
        BY <1>1, <3>1, <4>1
      <4> QED
        BY <4>3, <4>4 DEF InOneHandler
    <3>4. (InNoThread' <=> InNoThread) /\ (InOneThread' <=> InOneThread)
      BY <1>3 DEF InNoThread, InOneThread
    <3> QED
      BY <3>2, <3>3, <3>4
  <2> QED
    BY <1>3, <2>1, Zenon DEF ChainInv
<1>4. ASSUME NEW h \in Links, Ready(h), InNoHandler, InNoThread, accepting' = 0,
             UNCHANGED <<threads, at>>, ~Early'
      PROVE  ChainInv'
  <2>1. InOneHandler'
    <3>1. /\ Len(ready') = Len(ready) + 1 /\ ready'[Len(ready) + 1] = h
          /\ \A i \in 1 .. Len(ready) : ready'[i] = ready[i]
      <4>1. h \in Handlers /\ ready' = Append(ready, h)
        BY <1>4, Zenon DEF Ready, Handlers
      <4> QED
        BY <1>1, <4>1
    <3>2. \A i \in 1 .. Len(ready') : i = Len(ready) + 1 \/ i \in 1 .. Len(ready)
      BY <1>1, <3>1
    <3>3. Len(ready) + 1 \in 1 .. Len(ready')
      BY <1>1, <3>1
    <3> QED
      BY <1>4, <3>1, <3>2, <3>3 DEF InNoHandler, InOneHandler
  <2>2. InNoThread'
    BY <1>4 DEF InNoThread
  <2> QED
    BY <1>4, <2>1, <2>2 DEF ChainInv
<1>5. ASSUME accepting > 0
      PROVE  ~Early /\ accepting = 1 /\ InNoHandler /\ InNoThread
  <2>1. accepting # 0
    BY <1>5
  <2> QED
    BY <2>1, Zenon DEF ChainInv
<1>6. ASSUME NEW t \in 0 .. threads, Take(t) PROVE ChainInv'
  <2>1. /\ ready # <<>> /\ ready' = Tail(ready) /\ at[t] = "run"
        /\ at' = [at EXCEPT ![t] = Head(ready)]
        /\ UNCHANGED <<threads, main, accepting>>
    BY <1>6, Zenon DEF Take, Goes, mainVars, netVars
  <2>2. /\ Head(ready) = ready[1] /\ 1 \in 1 .. Len(ready)
        /\ \A i \in 1 .. Len(ready') : i + 1 \in 1 .. Len(ready) \ {1} /\ ready'[i] = ready[i + 1]
        /\ \A i \in 1 .. Len(ready) \ {1} : i - 1 \in 1 .. Len(ready') /\ ready'[i - 1] = ready[i]
    BY <1>1, <2>1
  <2>3. at'[t] = ready[1] /\ \A s \in 0 .. threads : s # t => at'[s] = at[s]
    BY <1>1, <2>1, <2>2
  <2>4. at[t] \notin Links
    BY <2>1 DEF Links
  <2>5. ASSUME InNoHandler
        PROVE  /\ InNoHandler'
               /\ InNoThread => InNoThread'
               /\ InOneThread => InOneThread'
    <3>1. ready[1] \notin Links
      BY <2>2, <2>5 DEF InNoHandler
    <3>2. \A s \in 0 .. threads : at'[s] \in Links <=> at[s] \in Links
      BY <2>3, <2>4, <3>1
    <3>3. InNoHandler'
      BY <2>2, <2>5 DEF InNoHandler
    <3> QED
      BY <2>1, <3>2, <3>3 DEF InNoThread, InOneThread
  <2>6. ASSUME InOneHandler, InNoThread
        PROVE  (InNoHandler' /\ InOneThread') \/ (InOneHandler' /\ InNoThread')
    <3>1. PICK i \in 1 .. Len(ready) :
              ready[i] \in Links /\ \A j \in 1 .. Len(ready) \ {i} : ready[j] \notin Links
      BY <2>6 DEF InOneHandler
    <3>2. CASE i = 1
      <4>1. InNoHandler'
        BY <2>2, <3>1, <3>2 DEF InNoHandler
      <4>2. InOneThread'
        BY <2>1, <2>3, <2>6, <3>1, <3>2 DEF InNoThread, InOneThread
      <4> QED
        BY <4>1, <4>2
    <3>3. CASE i # 1
      <4>1. i - 1 \in 1 .. Len(ready') /\ ready'[i - 1] \in Links
        BY <2>2, <3>1, <3>3
      <4>2. \A j \in 1 .. Len(ready') \ {i - 1} : ready'[j] \notin Links
        <5> SUFFICES ASSUME NEW j \in 1 .. Len(ready'), j # i - 1 PROVE ready'[j] \notin Links
          OBVIOUS
        <5>1. j + 1 \in 1 .. Len(ready) /\ ready'[j] = ready[j + 1]
          BY <2>2
        <5>2. j + 1 # i
          BY <1>1, <3>1
        <5> QED
          BY <3>1, <5>1, <5>2
      <4>3. InOneHandler'
        BY <4>1, <4>2 DEF InOneHandler
      <4>4. ready[1] \notin Links
        BY <2>2, <3>1, <3>3
      <4>5. InNoThread'
        BY <2>1, <2>3, <2>6, <4>4 DEF InNoThread
      <4> QED
        BY <4>3, <4>5
    <3> QED
      BY <3>2, <3>3
  <2> QED
    BY <2>1, <2>5, <2>6, Zenon DEF ChainInv
<1>7. ASSUME NEW t \in 0 .. threads, DoAccept(t) PROVE ChainInv'
  <2>1. /\ at[t] = "doAccept" /\ at' = [at EXCEPT ![t] = "run"]
        /\ accepting' = accepting + 1 /\ UNCHANGED <<threads, main, ready>>
    BY <1>7, Zenon DEF DoAccept, AsyncAccept, Goes, mainVars
  <2>2. at[t] \in Links /\ "run" \notin Links
    BY <2>1 DEF Links
  <2>3. ~InNoThread
    BY <2>2 DEF InNoThread
  <2>4. ~Early /\ accepting = 0 /\ InNoHandler /\ InOneThread
    BY <2>3, Zenon DEF ChainInv
  <2>5. InNoThread'
    BY <1>1, <2>1, <2>2, <2>4 DEF InOneThread, InNoThread
  <2>6. InNoHandler'
    BY <2>1, <2>4 DEF InNoHandler
  <2>7. accepting' = 1
    <3>1. accepting = 0 /\ accepting' = accepting + 1
      BY <2>1, <2>4, Zenon
    <3> QED
      BY <3>1
  <2> QED
    BY <2>1, <2>4, <2>5, <2>6, <2>7, Zenon DEF ChainInv
<1>8. ASSUME NEW t \in 0 .. threads, NEW place \in Places,
             at' = [at EXCEPT ![t] = place], place \in Links <=> at[t] \in Links,
             UNCHANGED <<threads, accepting, ready>>, Early' <=> Early
      PROVE  ChainInv'
  BY <1>1, <1>2, <1>8
<1>9. ASSUME NEW t \in 0 .. threads,
             ReturnFromRun(t) \/ OnAccept(t) \/ OnSignal(t) \/ OnSession(t)
      PROVE  ChainInv'
  <2>1. CASE ReturnFromRun(t)
    <3>1. /\ at' = [at EXCEPT ![t] = "returned"] /\ at[t] = "run"
          /\ UNCHANGED <<threads, accepting, ready>>
          /\ main' = main \/ (main' = "join" /\ t = 0)
      BY <2>1, Zenon DEF ReturnFromRun, Goes, netVars
    <3>2. Early' <=> Early
      BY <3>1 DEF StartedInv
    <3>3. "returned" \in Places /\ "returned" \notin Links /\ at[t] \notin Links
      BY <3>1 DEF Places, Links
    <3> QED
      BY <1>8, <3>1, <3>2, <3>3
  <2>2. CASE OnAccept(t)
    <3>1. "doAccept" \in Places /\ "doAccept" \in Links /\ at[t] \in Links
      BY <2>2 DEF OnAccept, Places, Links
    <3>2. /\ at' = [at EXCEPT ![t] = "doAccept"]
          /\ UNCHANGED <<threads, accepting, ready, main>>
      BY <2>2, Zenon DEF OnAccept, AfterAccept, Goes, mainVars, netVars
    <3> QED
      BY <1>8, <3>1, <3>2
  <2>3. CASE OnSignal(t) \/ OnSession(t)
    <3>1. "run" \in Places /\ "run" \notin Links /\ at[t] \notin Links
      BY <2>3 DEF OnSignal, OnSession, Places, Links
    <3>2. /\ at' = [at EXCEPT ![t] = "run"]
          /\ UNCHANGED <<threads, accepting, ready, main>>
      BY <2>3, Zenon DEF OnSignal, OnSession, StopContext, Goes, mainVars, netVars
    <3> QED
      BY <1>8, <3>1, <3>2
  <2> QED
    BY <1>9, <2>1, <2>2, <2>3
<1>10. CASE Accept \/ AcceptFails
  <2>1. \E h \in Links : Ready(h)
    BY <1>10, Zenon DEF Accept, AcceptFails, Links
  <2>2. accepting > 0 /\ accepting' = accepting - 1 /\ UNCHANGED <<threads, at, main>>
    BY <1>10, Zenon DEF Accept, AcceptFails, mainVars
  <2>3. ~Early /\ accepting = 1 /\ InNoHandler /\ InNoThread
    BY <1>5, <2>2
  <2>4. ~Early'
    BY <2>2, <2>3, Zenon
  <2>5. accepting' = 0
    <3>1. accepting = 1 /\ accepting' = accepting - 1
      BY <2>2, <2>3, Zenon
    <3> QED
      BY <3>1
  <2> QED
    BY <1>4, <2>1, <2>2, <2>3, <2>4, <2>5, Zenon
<1>11. CASE RunServer
  <2>1. /\ Ready("doAccept") /\ main = "run server" /\ main' = "start runners"
        /\ UNCHANGED <<threads, at, accepting>>
    BY <1>11, Zenon DEF RunServer, netVars
  <2>2. accepting = 0 /\ InNoHandler /\ InNoThread
    BY <2>1, Zenon DEF ChainInv
  <2>3. "doAccept" \in Links /\ ~Early'
    BY <2>1 DEF Links
  <2> QED
    BY <1>4, <2>1, <2>2, <2>3
<1>12. CASE StartRunner \/ RunMain
  <2>1. PICK t \in 0 .. threads :
          at' = [at EXCEPT ![t] = "run"] /\ at[t] = "none"
    <3>1. CASE StartRunner
      <4>1. /\ at' = [at EXCEPT ![runners + 1] = "run"] /\ runners < threads - 1
            /\ runners \in Nat
        BY <3>1, Zenon DEF StartRunner, Goes, TypeOK
      <4>2. runners + 1 \in 1 .. threads /\ runners + 1 > runners /\ runners + 1 \in 0 .. threads
        BY <1>1, <4>1
      <4>3. at[runners + 1] = "none"
        BY <4>2 DEF StartedInv
      <4> QED
        BY <4>1, <4>2, <4>3
    <3>2. CASE RunMain
      <4>1. at' = [at EXCEPT ![0] = "run"] /\ main = "start runners"
        BY <3>2, Zenon DEF RunMain, Goes
      <4>2. 0 \in 0 .. threads
        BY <1>1
      <4>3. main \notin {"run", "join"}
        BY <4>1
      <4>4. at[0] = "none"
        BY <4>3, Zenon DEF StartedInv
      <4> QED
        BY <4>1, <4>2, <4>4
    <3> QED
      BY <1>12, <3>1, <3>2
  <2>2. /\ UNCHANGED <<threads, accepting, ready>>
        /\ main = "start runners" /\ main' \in {"start runners", "run"}
    BY <1>12, Zenon DEF StartRunner, RunMain, netVars
  <2>3. "run" \in Places /\ "run" \notin Links /\ "none" \notin Links
    BY DEF Places, Links
  <2>4. Early' <=> Early
    BY <2>2
  <2> QED
    BY <1>8, <2>1, <2>2, <2>3, <2>4
<1>13. CASE Construct \/ ConstructFails \/ StartFails \/ Join \/ Arrive
            \/ \E t \in 0 .. threads : OnAcceptThrows(t)
  <2>1. /\ UNCHANGED <<threads, accepting, ready, at>>
        /\ main' = main \/ (main = "construct" /\ main' = "run server")
    BY <1>13, Zenon DEF Construct, ConstructFails, StartFails, Join, Arrive,
                        OnAcceptThrows, mainVars, ioVars, netVars
  <2>2. Early' <=> Early
    BY <2>1
  <2> QED
    BY <1>2, <2>1, <2>2
<1>14. CASE SessionReady
  <2>1. Ready("session") /\ UNCHANGED <<threads, accepting, at, main>>
    BY <1>14, Zenon DEF SessionReady, mainVars, netVars
  <2>2. "session" \in Handlers \ Links
    BY DEF Handlers, Links
  <2> QED
    BY <1>3, <2>1, <2>2
<1>15. CASE Signal
  <2>1. /\ UNCHANGED <<threads, accepting, at, main>>
        /\ ready' = ready \/ Ready("stop")
    BY <1>15, Zenon DEF Signal, netVars
  <2>2. "stop" \in Handlers \ Links
    BY DEF Handlers, Links
  <2>3. CASE ready' = ready
    BY <1>2, <2>1, <2>3
  <2> QED
    BY <1>3, <2>1, <2>2, <2>3
<1>16. CASE UNCHANGED vars
  BY <1>2, <1>16 DEF vars, mainVars, ioVars, netVars
<1> QED
  BY <1>6, <1>7, <1>9, <1>10, <1>11, <1>12, <1>13, <1>14, <1>15, <1>16, Zenon
     DEF Next, Main, Thread

\* One link in one place is one chain.
LEMMA ChainCounted ==
    ASSUME TypeOK, ChainInv
    PROVE  OneChain
<1>1. threads \in Nat /\ at \in [0 .. threads -> Places] /\ ready \in Seq(Handlers)
  BY ConcurrencyAssumption DEF TypeOK, Handlers, Places
<1> DEFINE Hs == {i \in DOMAIN ready : ready[i] \in Links}
           Ts == {t \in DOMAIN at : at[t] \in Links}
<1>2. DOMAIN ready = 1 .. Len(ready) /\ DOMAIN at = 0 .. threads
  BY <1>1
<1>3. Cardinality({}) = 0 /\ \A x : Cardinality({x}) = 1
  BY FS_EmptySet, FS_Singleton
<1>4. InNoHandler => Hs = {}
  BY <1>2 DEF InNoHandler
<1>5. InNoThread => Ts = {}
  BY <1>2 DEF InNoThread
<1>6. InOneHandler => \E i : Hs = {i}
  BY <1>2 DEF InOneHandler
<1>7. InOneThread => \E t : Ts = {t}
  BY <1>2 DEF InOneThread
<1>8. main \notin {"construct", "run server"} =>
         \/ accepting = 1 /\ Cardinality(Hs) = 0 /\ Cardinality(Ts) = 0
         \/ accepting = 0 /\ Cardinality(Hs) = 1 /\ Cardinality(Ts) = 0
         \/ accepting = 0 /\ Cardinality(Hs) = 0 /\ Cardinality(Ts) = 1
  <2> HIDE DEF Hs, Ts
  <2> QED
    BY <1>3, <1>4, <1>5, <1>6, <1>7, Zenon DEF ChainInv
<1> HIDE DEF Hs, Ts
<1>9. 1 + 0 + 0 = 1 /\ 0 + 1 + 0 = 1 /\ 0 + 0 + 1 = 1
  OBVIOUS
<1>10. ASSUME main \notin {"construct", "run server"}
       PROVE  accepting + Cardinality(Hs) + Cardinality(Ts) = 1
  <2>1. CASE accepting = 1 /\ Cardinality(Hs) = 0 /\ Cardinality(Ts) = 0
    BY <1>9, <2>1, Zenon
  <2>2. CASE accepting = 0 /\ Cardinality(Hs) = 1 /\ Cardinality(Ts) = 0
    BY <1>9, <2>2, Zenon
  <2>3. CASE accepting = 0 /\ Cardinality(Hs) = 0 /\ Cardinality(Ts) = 1
    BY <1>9, <2>3, Zenon
  <2> QED
    BY <1>8, <1>10, <2>1, <2>2, <2>3, Zenon
<1> QED
  BY <1>10, Zenon DEF OneChain, Chains, Hs, Ts

\* The invariant holds for any number of processors, connections and errors.
THEOREM ListenerInvariant == Spec => []ListenerInv
<1>1. ListenerInv /\ [Next]_vars => ListenerInv'
  BY TypeStep, SignalStep, StartedStep, ChainStep, AloneStep DEF ListenerInv
<1> QED
  BY <1>1, InitInv, PTL DEF Spec

\* Every variable keeps to its type.
THEOREM TypeCorrect == Spec => []TypeOK
<1>1. ListenerInv => TypeOK
  BY DEF ListenerInv
<1> QED
  BY <1>1, ListenerInvariant, PTL

\* However accepts fail and threads interleave, there is one chain of accepts
\* (HttpListener.cpp:56-78).
THEOREM ThereIsOneChain == Spec => []OneChain
<1>1. ListenerInv => OneChain
  BY ChainCounted DEF ListenerInv
<1> QED
  BY <1>1, ListenerInvariant, PTL

\* main never returns while another thread still uses what it is about to
\* destroy, and returns with others joined only after a signal (main.cpp:427-445).
THEOREM MainReturnsAlone == Spec => []ReturnsAlone
<1>1. ListenerInv => ReturnsAlone
  BY DEF ListenerInv
<1> QED
  BY <1>1, ListenerInvariant, PTL
=============================================================================
