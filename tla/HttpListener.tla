---------------------------- MODULE HttpListener ----------------------------
(***************************************************************************)
(* The life of the process: the listener's chain of asynchronous accepts   *)
(* (src/src/HttpListener.cpp), and main with the threads that run the      *)
(* io_context (src/src/main.cpp).                                          *)
(*                                                                         *)
(* Thread 0 is main's, the others are its runners.  The chain has no       *)
(* strand and a single socket, which every accept fills and every session  *)
(* is made from: any thread may run any link of it.                        *)
(***************************************************************************)
EXTENDS Integers, Sequences, FiniteSets

CONSTANTS
    Concurrency,    \* what hardware_concurrency() may return
    MaxReady,       \* bound: handlers waiting when a session adds one
    MaxArrivals,    \* bound: connections
    MaxErrors       \* bound: accepts that fail

ASSUME ConcurrencyAssumption == Concurrency \subseteq Nat
ASSUME ReadyAssumption       == MaxReady \in Nat
ASSUME ArrivalsAssumption    == MaxArrivals \in Nat /\ MaxErrors \in Nat

VARIABLES
    threads,    \* the local variable of main
    main,       \* where main is
    outcome,    \* how the process has ended, if it has
    runners,    \* how many runners main has started
    at,         \* the handler that each thread is in, or "run" between handlers
    ready,      \* the handlers that wait for a thread, in order
    stopped,    \* whether the io_context has been stopped
    signalled,  \* whether SIGINT or SIGTERM has been sent
    accepting,  \* the accepts that have been started and are not complete
    arrived, taken, errors  \* connections made, accepted; accepts that failed

mainVars == <<threads, main, outcome, runners>>
ioVars   == <<at, ready, stopped, signalled>>
netVars  == <<accepting, arrived, taken, errors>>
vars     == <<mainVars, ioVars, netVars>>

\* The links of the chain: what onAccept and doAccept have to do.
Links == {"accepted", "error", "doAccept"}

TypeOK ==
    /\ threads \in Concurrency
    /\ main \in {"construct", "run server", "start runners", "run", "join"}
    /\ outcome \in {"none", "exit 1", "return 0", "terminate", "killed"}
    /\ runners \in Nat /\ runners < threads + 1
    /\ at \in [0 .. threads -> Links \union {"none", "run", "session", "stop", "returned"}]
    /\ ready \in Seq(Links \union {"session", "stop"})
    /\ stopped \in BOOLEAN /\ signalled \in BOOLEAN
    /\ accepting \in Nat /\ arrived \in Nat /\ taken \in 0 .. arrived /\ errors \in Nat

(***************************************************************************)
(* Plausible errors, used to show that the properties notice them.         *)
(***************************************************************************)
ReturnsOnError(t)  == IF at[t] = "error" THEN "run" ELSE "doAccept"
AcceptsTwice(t)    == accepting' = accepting + 2
JoinsNothing       == TRUE
StopsOnlyItself(t) == stopped' = stopped /\ at' = [at EXCEPT ![t] = "returned"]

Ready(handler) == ready' = Append(ready, handler)
Goes(t, place) == at' = [at EXCEPT ![t] = place]
Ends(how)      == outcome' = how

-----------------------------------------------------------------------------
(* The thread of main. *)

Init ==
    /\ threads \in Concurrency
    /\ main = "construct" /\ outcome = "none" /\ runners = 0
    /\ at = [t \in 0 .. threads |-> "none"]
    /\ ready = <<>> /\ stopped = FALSE /\ signalled = FALSE
    /\ accepting = 0 /\ arrived = 0 /\ taken = 0 /\ errors = 0

\* The constructor of the listener opens, binds and listens.
Construct ==
    /\ main = "construct"
    /\ main' = "run server"
    /\ UNCHANGED <<threads, outcome, runners, ioVars, netVars>>

\* If one of that fails, main exits.
ConstructFails ==
    /\ main = "construct"
    /\ Ends("exit 1")
    /\ UNCHANGED <<threads, main, runners, ioVars, netVars>>

\* run dispatches the first doAccept, and main waits for signals.
RunServer ==
    /\ main = "run server"
    /\ Ready("doAccept")
    /\ main' = "start runners"
    /\ UNCHANGED <<threads, outcome, runners, at, stopped, signalled, netVars>>

\* An exception in main's try block destroys the runners, which ends the process
\* if there are any, as none has been joined; otherwise main catches it.
ThrownInMain == Ends(IF runners > 0 THEN "terminate" ELSE "return 0")

\* One runner less than threads.  reserve throws if threads is 0 ...
StartRunner ==
    /\ main = "start runners"
    /\ threads > 0 /\ runners < threads - 1
    /\ runners' = runners + 1
    /\ Goes(runners + 1, "run")
    /\ UNCHANGED <<threads, main, outcome, ready, stopped, signalled, netVars>>

\* ... and the constructor of a thread may.
StartFails ==
    /\ main = "start runners"
    /\ threads = 0 \/ runners < threads - 1
    /\ ThrownInMain
    /\ UNCHANGED <<threads, main, runners, ioVars, netVars>>

RunMain ==
    /\ main = "start runners"
    /\ threads > 0 /\ runners = threads - 1
    /\ main' = "run"
    /\ Goes(0, "run")
    /\ UNCHANGED <<threads, outcome, runners, ready, stopped, signalled, netVars>>

\* join of all runners returns.
Joined == \A t \in 1 .. runners : at[t] = "returned"

Join ==
    /\ main = "join" /\ Joined
    /\ Ends("return 0")
    /\ UNCHANGED <<threads, main, runners, ioVars, netVars>>

-----------------------------------------------------------------------------
(* The threads in io_context::run. *)

\* A thread takes the next handler ...
Take(t) ==
    /\ at[t] = "run" /\ ~stopped /\ ready # <<>>
    /\ Goes(t, Head(ready))
    /\ ready' = Tail(ready)
    /\ UNCHANGED <<mainVars, stopped, signalled, netVars>>

\* ... or returns.
ReturnFromRun(t) ==
    /\ at[t] = "run" /\ stopped
    /\ Goes(t, "returned")
    /\ main' = IF t = 0 THEN "join" ELSE main
    /\ UNCHANGED <<threads, outcome, runners, ready, stopped, signalled, netVars>>

\* What follows in onAccept, with an error and without.
AfterAccept(t) == "doAccept"

\* onAccept: the session is made from the socket, and run.
OnAccept(t) ==
    /\ at[t] \in {"accepted", "error"}
    /\ Goes(t, AfterAccept(t))
    /\ UNCHANGED <<mainVars, ready, stopped, signalled, netVars>>

\* remote_endpoint throws in the constructor of the session if the peer has gone,
\* and the exception leaves run: in a runner nobody catches it.
OnAcceptThrows(t) ==
    /\ at[t] = "accepted"
    /\ IF t = 0 THEN ThrownInMain ELSE Ends("terminate")
    /\ UNCHANGED <<threads, main, runners, ioVars, netVars>>

AsyncAccept(t) == accepting' = accepting + 1

DoAccept(t) ==
    /\ at[t] = "doAccept"
    /\ AsyncAccept(t)
    /\ Goes(t, "run")
    /\ UNCHANGED <<mainVars, ready, stopped, signalled, arrived, taken, errors>>

\* The handler of the signal.
StopContext(t) == stopped' = TRUE /\ Goes(t, "run")

OnSignal(t) ==
    /\ at[t] = "stop"
    /\ StopContext(t)
    /\ UNCHANGED <<mainVars, ready, signalled, netVars>>

\* A handler of a session returns.
OnSession(t) ==
    /\ at[t] = "session"
    /\ Goes(t, "run")
    /\ UNCHANGED <<mainVars, ready, stopped, signalled, netVars>>

Thread(t) ==
    \/ Take(t) \/ ReturnFromRun(t)
    \/ OnAccept(t) \/ DoAccept(t) \/ OnSignal(t) \/ OnSession(t)

-----------------------------------------------------------------------------
(* What the system and the peers do. *)

\* A connection is made, as soon as there is a socket that listens.
Arrive ==
    /\ main # "construct" /\ arrived < MaxArrivals
    /\ arrived' = arrived + 1
    /\ UNCHANGED <<mainVars, ioVars, accepting, taken, errors>>

\* An accept completes, if a thread is there to notice ...
Polled == ~stopped /\ \E t \in 0 .. threads : at[t] \notin {"none", "returned"}

Accept ==
    /\ Polled /\ accepting > 0 /\ taken < arrived
    /\ accepting' = accepting - 1 /\ taken' = taken + 1
    /\ Ready("accepted")
    /\ UNCHANGED <<mainVars, at, stopped, signalled, arrived, errors>>

\* ... or fails: no more descriptors, or a connection that was aborted.
AcceptFails ==
    /\ Polled /\ accepting > 0 /\ errors < MaxErrors
    /\ accepting' = accepting - 1 /\ errors' = errors + 1
    /\ Ready("error")
    /\ UNCHANGED <<mainVars, at, stopped, signalled, arrived, taken>>

\* A session that was started has something to do.
SessionReady ==
    /\ Polled /\ taken > 0 /\ Len(ready) < MaxReady
    /\ Ready("session")
    /\ UNCHANGED <<mainVars, at, stopped, signalled, netVars>>

\* The first signal.  It kills the process unless main waits for it already; the
\* wait is not renewed.
Signal ==
    /\ ~signalled
    /\ signalled' = TRUE
    /\ IF main \in {"construct", "run server"}
       THEN Ends("killed") /\ UNCHANGED ready
       ELSE Ready("stop") /\ UNCHANGED outcome
    /\ UNCHANGED <<threads, main, runners, at, stopped, netVars>>

Main == Construct \/ ConstructFails \/ RunServer \/ StartRunner \/ StartFails \/ RunMain \/ Join

Next ==
    /\ outcome = "none"
    /\ \/ Main
       \/ \E t \in 0 .. threads : Thread(t) \/ OnAcceptThrows(t)
       \/ Arrive \/ Accept \/ AcceptFails \/ SessionReady \/ Signal

Spec == Init /\ [][Next]_vars

Alive(A) == outcome = "none" /\ A

\* The threads go on, every handler returns, and the io_context, whose reactor
\* takes its turn in the queue of handlers, notices connections.
FairSpec ==
    /\ Spec
    /\ WF_vars(Alive(Main))
    /\ \A t \in UNION {0 .. n : n \in Concurrency} : WF_vars(Alive(t \in DOMAIN at /\ Thread(t)))
    /\ WF_vars(Alive(Accept))

-----------------------------------------------------------------------------
(* Properties. *)

\* How often the chain is there: waiting for a connection, waiting for a thread,
\* or in a thread.
Chains ==
    accepting + Cardinality({i \in DOMAIN ready : ready[i] \in Links})
              + Cardinality({t \in DOMAIN at : at[t] \in Links})

\* From the call of run to the end of the process there is one chain of accepts
\* (HttpListener.cpp:56, 61-78).  With none the server would be deaf though it
\* runs; with two, two threads might use the one socket at the same time.
OneChain ==
    main \notin {"construct", "run server"} /\ outcome = "none" => Chains = 1

\* main returns only when no other thread is left that uses the io_context, the
\* listener or the handlers, and if there were others, only after a signal
\* (main.cpp:418-445).  Whatever else ends the process ends all threads with it.
ReturnsAlone ==
    outcome = "return 0" =>
        \A t \in DOMAIN at \ {0} : at[t] \in {"none", "returned"} /\ (at[t] # "none" => signalled)

\* A signal ends the process, whatever its threads are doing, though only one of
\* them runs the signal's handler and the wait is not renewed (main.cpp:418).
SignalEnds == signalled ~> outcome # "none"

\* Every connection is accepted, after failed accepts too, as long as the process
\* runs and has not been told to stop (HttpListener.cpp:66-77).
ConnectionsTaken ==
    \A n \in 1 .. MaxArrivals :
        arrived >= n ~> taken >= n \/ signalled \/ outcome # "none"

-----------------------------------------------------------------------------
(* The inductive invariant. *)

\* A thread returns from run only when a signal was sent: what stops the
\* io_context is the signal's handler, which came through the queue.
SignalInv ==
    /\ stopped => signalled
    /\ \A i \in 1 .. Len(ready) : ready[i] = "stop" => signalled
    /\ \A t \in 0 .. threads : at[t] \in {"stop", "returned"} => signalled

\* A thread that main has not started is nowhere, nor is main before it runs.
StartedInv ==
    /\ \A t \in 1 .. threads : t > runners => at[t] = "none"
    /\ main \notin {"run", "join"} => at[0] = "none"

\* The one link of the chain: none before run, and then an accept, a handler in
\* the queue, or a thread.
InNoHandler == \A i \in 1 .. Len(ready) : ready[i] \notin Links
InNoThread  == \A t \in 0 .. threads : at[t] \notin Links
InOneHandler ==
    \E i \in 1 .. Len(ready) :
        ready[i] \in Links /\ \A j \in 1 .. Len(ready) \ {i} : ready[j] \notin Links
InOneThread ==
    \E t \in 0 .. threads :
        at[t] \in Links /\ \A s \in 0 .. threads \ {t} : at[s] \notin Links

ChainInv ==
    \/ /\ main \in {"construct", "run server"}
       /\ accepting = 0 /\ InNoHandler /\ InNoThread
    \/ /\ main \notin {"construct", "run server"}
       /\ \/ accepting = 1 /\ InNoHandler /\ InNoThread
          \/ accepting = 0 /\ InOneHandler /\ InNoThread
          \/ accepting = 0 /\ InNoHandler /\ InOneThread

ListenerInv == TypeOK /\ SignalInv /\ StartedInv /\ ChainInv /\ ReturnsAlone
=============================================================================
