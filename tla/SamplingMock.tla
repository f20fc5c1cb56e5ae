---------------------------- MODULE SamplingMock ----------------------------
(***************************************************************************)
(* The sampling service: SamplingMock, its SamplingBlocks, and the         *)
(* handlers of its three routes (src/src/main.cpp).                        *)
(*                                                                         *)
(* The handlers run on any thread of the io_context.  A SamplingBlock has  *)
(* a thread of its own, its loop.  What a handler does under samplingMutex *)
(* is one action, except that stop holds the mutex while it joins a loop.  *)
(* The flag running is not atomic: the two threads that write it race.     *)
(***************************************************************************)
EXTENDS Integers, Sequences, FiniteSets, Functions

CONSTANTS
    Handlers,       \* threads that may be inside a handler
    Timeouts,       \* values of "timeout" in a start request
    SnapCounts,     \* values of "snaps" in a start request
    SnapsKept,      \* snaps a block keeps: 30
    MaxSamplings,   \* bound: samplings started
    MaxSnaps        \* bound: snaps generated

ASSUME LimitsAssumption ==
    /\ Timeouts \subseteq Int /\ Timeouts # {}
    /\ SnapCounts \subseteq Int /\ SnapCounts # {}
ASSUME KeptAssumption   == SnapsKept \in Nat \ {0}
ASSUME BoundsAssumption == MaxSamplings \in Nat /\ MaxSnaps \in Nat

VARIABLES
    samplings, samplingId, snapId,      \* the members of SamplingMock
    samplingMutex,  \* the handlers that hold it over a join: one or none
    pc,             \* where each handler is
    limits,         \* the limits in a handler's start request
    sampleId,       \* the sampling a handler is concerned with
    reply           \* how a handler has answered its last request

mockVars    == <<samplings, samplingId, snapId>>
handlerVars == <<pc, limits, sampleId, reply>>
vars        == <<mockVars, samplingMutex, handlerVars>>

Limits == [timeout : Timeouts, snapsNeeded : SnapCounts]

\* A SamplingBlock, and the place of its loop.  The last three are history:
\* whether stop came before run() had set running or after it, the snaps
\* generated since, and whether another handler was about to start a sampling
\* when this one was started.
Block == [timeout : Timeouts, snapsNeeded : SnapCounts, running : BOOLEAN,
          elapsed : Nat, snaps : Seq(Nat), loop : {"new", "test", "work", "exited"},
          stopped : {"no", "early", "running"}, late : Nat, rival : BOOLEAN]

Reply == {"none", "running", "finished", "already running", "not found",
          "stopped", "invalid id format"}

TypeOK ==
    /\ samplingId \in Nat \ {0} /\ snapId \in Nat
    /\ DOMAIN samplings \subseteq 1 .. samplingId - 1
    /\ \A id \in DOMAIN samplings : samplings[id] \in Block
    /\ samplingMutex \subseteq Handlers
    /\ pc \in [Handlers -> {"idle", "isRunning", "start", "status", "stop", "join"}]
    /\ limits \in [Handlers -> Limits]
    /\ sampleId \in [Handlers -> Nat]
    /\ reply \in [Handlers -> Reply]
    /\ \A h \in Handlers : pc[h] = "join" <=> samplingMutex = {h}
    /\ \A h \in Handlers : pc[h] = "join" => sampleId[h] \in DOMAIN samplings

(***************************************************************************)
(* Plausible errors, used to show that the properties notice them.         *)
(***************************************************************************)
ReachedTooLate(b) ==
    \/ b.timeout > 0 /\ b.elapsed > b.timeout
    \/ b.snapsNeeded > 0 /\ Len(b.snaps) >= b.snapsNeeded
ReachedBySnapsOnly(b)     == b.snapsNeeded > 0 /\ Len(b.snaps) >= b.snapsNeeded
LoopsForEver(b)           == TRUE
SameSnap                  == snapId
FreeAlways                == TRUE
NewBlockNotRunning(l, contested) ==
    [timeout |-> l.timeout, snapsNeeded |-> l.snapsNeeded, running |-> FALSE,
     elapsed |-> 0, snaps |-> <<>>, loop |-> "new", stopped |-> "no", late |-> 0,
     rival |-> contested]

(***************************************************************************)
(* The pieces of the handlers and of the loop.                             *)
(***************************************************************************)

\* The test of run() for either limit.
Reached(b) ==
    \/ b.timeout > 0 /\ b.elapsed >= b.timeout
    \/ b.snapsNeeded > 0 /\ Len(b.snaps) >= b.snapsNeeded

\* progress(), in percent: what there is of the limit that is nearer.
Share(n, limit) ==
    IF limit <= 0 THEN 0
    ELSE IF (n * 100) \div limit < 100 THEN (n * 100) \div limit ELSE 100

Progress(b) ==
    LET p0 == Share(b.elapsed, b.timeout)
        p1 == Share(Len(b.snaps), b.snapsNeeded)
    IN  IF p0 < p1 THEN p1 ELSE p0

\* The condition of run()'s while.
LoopsOn(b) == b.running

\* loop.join() returns.
Joined(b) == b.loop = "exited"

\* generateSnap returns snapId and increments it.
NextSnapId == snapId + 1

\* A snap goes to the end of the list, and the oldest beyond the limit go.
KeepSnap(snaps, snap) ==
    LET all == Append(snaps, snap)
    IN  SubSeq(all, IF Len(all) > SnapsKept THEN Len(all) - SnapsKept + 1 ELSE 1,
               Len(all))

\* SamplingMock::isRunning
IsRunning == \E id \in DOMAIN samplings : samplings[id].running

\* The constructor starts the thread; running is true from the beginning.
NewBlock(l, contested) ==
    [timeout |-> l.timeout, snapsNeeded |-> l.snapsNeeded, running |-> TRUE,
     elapsed |-> 0, snaps |-> <<>>, loop |-> "new", stopped |-> "no", late |-> 0,
     rival |-> contested]

\* Another handler has asked whether a sampling is running, and was told no.
Contested(h) == \E g \in Handlers \ {h} : pc[g] = "start"

Free == samplingMutex = {}

\* An idle handler has nothing but the reply to its last request.
NoLimits == CHOOSE l \in Limits : TRUE

Answer(h, answer) ==
    /\ pc' = [pc EXCEPT ![h] = "idle"]
    /\ limits' = [limits EXCEPT ![h] = NoLimits]
    /\ sampleId' = [sampleId EXCEPT ![h] = 0]
    /\ reply' = [reply EXCEPT ![h] = answer]

Ask(h, next) ==
    /\ pc[h] = "idle"
    /\ pc' = [pc EXCEPT ![h] = next]
    /\ reply' = [reply EXCEPT ![h] = "none"]

-----------------------------------------------------------------------------
(* POST /api/v1/calibration/sampling/start *)

Init ==
    /\ samplings = <<>> /\ samplingId = 1 /\ snapId = 1
    /\ samplingMutex = {}
    /\ pc = [h \in Handlers |-> "idle"]
    /\ limits = [h \in Handlers |-> NoLimits]
    /\ sampleId = [h \in Handlers |-> 0]
    /\ reply = [h \in Handlers |-> "none"]

Starting == {h \in Handlers : pc[h] \in {"isRunning", "start"}}

\* The body of a request is parsed.
StartRequest(h, l) ==
    /\ samplingId + Cardinality(Starting) <= MaxSamplings
    /\ Ask(h, "isRunning")
    /\ limits' = [limits EXCEPT ![h] = l]
    /\ UNCHANGED <<mockVars, samplingMutex, sampleId>>

\* No second sampling while one is running.
CheckRunning(h) ==
    /\ pc[h] = "isRunning" /\ Free
    /\ IF IsRunning
       THEN Answer(h, "already running")
       ELSE /\ pc' = [pc EXCEPT ![h] = "start"]
            /\ UNCHANGED <<limits, sampleId, reply>>
    /\ UNCHANGED <<mockVars, samplingMutex>>

\* SamplingMock::start
Start(h) ==
    /\ pc[h] = "start" /\ Free
    /\ samplings' = [id \in DOMAIN samplings \union {samplingId} |->
                        IF id = samplingId THEN NewBlock(limits[h], Contested(h))
                                           ELSE samplings[id]]
    /\ samplingId' = samplingId + 1
    /\ sampleId' = [sampleId EXCEPT ![h] = samplingId]
    /\ pc' = [pc EXCEPT ![h] = "status"]
    /\ UNCHANGED <<snapId, samplingMutex, limits, reply>>

\* SamplingMock::getStatus.  at() throws if the sampling has been stopped.
GetStatus(h) ==
    /\ pc[h] = "status" /\ Free
    /\ Answer(h, IF sampleId[h] \notin DOMAIN samplings THEN "not found"
                 ELSE IF samplings[sampleId[h]].running THEN "running"
                 ELSE "finished")
    /\ UNCHANGED <<mockVars, samplingMutex>>

-----------------------------------------------------------------------------
(* GET /api/v1/calibration/sampling/<id> *)

\* The target of the route, cut at its slashes; it begins with one.
Target(id) == <<"", "api", "v1", "calibration", "sampling", id>>

\* What follows the first slash is taken for the id: substr(find('/') + 1).
IdStr(target) == Tail(target)

\* try_lexical_convert fails, for there is more than a number, which nobody looks
\* at.  It reads from the end, into the very variable, and leaves in it the digits
\* it has met before the last slash: the id.
Converted(str) == str[Len(str)]

StatusRequest(h, id) ==
    LET number == Converted(IdStr(Target(id)))
    IN  /\ IF number = 0
           THEN pc[h] = "idle" /\ Answer(h, "invalid id format")
           ELSE /\ Ask(h, "status")
                /\ sampleId' = [sampleId EXCEPT ![h] = number]
                /\ UNCHANGED limits
        /\ UNCHANGED <<mockVars, samplingMutex>>

-----------------------------------------------------------------------------
(* POST /api/v1/calibration/sampling/stop *)

StopRequest(h, id) ==
    /\ Ask(h, "stop")
    /\ sampleId' = [sampleId EXCEPT ![h] = id]
    /\ UNCHANGED <<mockVars, samplingMutex, limits>>

\* SamplingMock::stop of an unknown id erases nothing.
StopUnknown(h) ==
    /\ pc[h] = "stop" /\ Free
    /\ sampleId[h] \notin DOMAIN samplings
    /\ Answer(h, "stopped")
    /\ UNCHANGED <<mockVars, samplingMutex>>

\* SamplingMock::stop takes the mutex and erases the block, whose destructor
\* clears running ...
Stop(h) ==
    LET id == sampleId[h]
    IN  /\ pc[h] = "stop" /\ Free
        /\ id \in DOMAIN samplings
        /\ samplings' = [samplings EXCEPT
                ![id].running = FALSE,
                ![id].stopped = IF samplings[id].loop = "new" THEN "early"
                                                             ELSE "running"]
        /\ samplingMutex' = {h}
        /\ pc' = [pc EXCEPT ![h] = "join"]
        /\ UNCHANGED <<samplingId, snapId, limits, sampleId, reply>>

\* ... and joins the loop, with the mutex held.
Join(h) ==
    /\ pc[h] = "join"
    /\ Joined(samplings[sampleId[h]])
    /\ samplings' = Restrict(samplings, DOMAIN samplings \ {sampleId[h]})
    /\ samplingMutex' = {}
    /\ Answer(h, "stopped")
    /\ UNCHANGED <<samplingId, snapId>>

-----------------------------------------------------------------------------
(* SamplingBlock::run, in the block's thread. *)

\* running is set, whatever stop may have written before.
Begin(id) ==
    /\ samplings[id].loop = "new"
    /\ samplings' = [samplings EXCEPT ![id].running = TRUE, ![id].elapsed = 0,
                                      ![id].loop = "test"]
    /\ UNCHANGED <<samplingId, snapId, samplingMutex, handlerVars>>

\* The loop ends if running has been cleared, and clears it at a limit.
Test(id) ==
    LET b == samplings[id]
    IN  /\ b.loop = "test"
        /\ samplings' = [samplings EXCEPT
                ![id].running = @ /\ ~Reached(b),
                ![id].loop = IF ~LoopsOn(b) THEN "exited"
                             ELSE IF Reached(b) THEN "test" ELSE "work"]
        /\ UNCHANGED <<samplingId, snapId, samplingMutex, handlerVars>>

\* A second has passed: one more snap.
Work(id) ==
    LET b == samplings[id]
    IN  /\ b.loop = "work"
        /\ snapId <= MaxSnaps
        /\ snapId' = NextSnapId
        /\ samplings' = [samplings EXCEPT
                ![id].elapsed = @ + 1,
                ![id].snaps = KeepSnap(@, snapId),
                ![id].loop = "test",
                ![id].late = IF b.stopped = "no" THEN 0 ELSE @ + 1]
        /\ UNCHANGED <<samplingId, samplingMutex, handlerVars>>

Handle(h) ==
    \/ CheckRunning(h) \/ Start(h) \/ GetStatus(h)
    \/ StopUnknown(h) \/ Stop(h) \/ Join(h)

Loop(id) == Begin(id) \/ Test(id) \/ Work(id)

\* The bounds of the model are used up.
Exhausted ==
    /\ samplingId > MaxSamplings \/ snapId > MaxSnaps
    /\ UNCHANGED vars

Next ==
    \/ \E h \in Handlers :
         \/ \E l \in Limits : StartRequest(h, l)
         \/ \E id \in 0 .. MaxSamplings : StatusRequest(h, id)
         \/ \E id \in 1 .. MaxSamplings : StopRequest(h, id)
         \/ Handle(h)
    \/ \E id \in DOMAIN samplings : Loop(id)
    \/ Exhausted

Spec == Init /\ [][Next]_vars

\* Every thread that can go on does.
FairSpec ==
    /\ Spec
    /\ \A h \in Handlers : WF_vars(Handle(h))
    /\ \A id \in 1 .. MaxSamplings : WF_vars(id \in DOMAIN samplings /\ Loop(id))

-----------------------------------------------------------------------------
(* Properties. *)

\* The handler of start asks whether a sampling is running before it starts one
\* (main.cpp:250): no two run at a time.  The question and the start take the
\* mutex one after the other, so this needs the handlers to be one thread's.
OneRunning ==
    \A i, j \in DOMAIN samplings :
        samplings[i].running /\ samplings[j].running => i = j

\* Two samplings run at a time only if both were asked for before the first of
\* them started: the flag running has no gap, from the constructor to the end of
\* run(), in which isRunning would overlook a block, although run() sets it a
\* second time and stop may clear it before that (main.cpp:61, 85, 92, 138).
SecondNeedsRival ==
    \A i, j \in DOMAIN samplings :
        samplings[i].running /\ samplings[j].running /\ i < j => samplings[i].rival

\* Each block lists the latest of its snaps, oldest first, SnapsKept at most,
\* and no snap is in two blocks though several loops generate them.
SnapsInOrder ==
    \A i \in DOMAIN samplings :
        LET b == samplings[i]
        IN  /\ Len(b.snaps) = IF b.elapsed < SnapsKept THEN b.elapsed ELSE SnapsKept
            /\ \A m, n \in 1 .. Len(b.snaps) : m < n => b.snaps[m] < b.snaps[n]
            /\ \A j \in DOMAIN samplings \ {i} :
                 Range(b.snaps) \intersect Range(samplings[j].snaps) = {}

\* A limit that can be reached at all, as the list never holds more than
\* SnapsKept snaps.
Effective(b) == b.timeout > 0 \/ b.snapsNeeded \in 1 .. SnapsKept

\* A block does not outrun its limits, not even one that stop has failed to
\* stop because run() sets running after it.
LimitsRespected ==
    \A id \in DOMAIN samplings :
        LET b == samplings[id]
        IN  /\ b.timeout > 0 => b.elapsed <= b.timeout
            /\ b.snapsNeeded \in 1 .. SnapsKept => b.elapsed <= b.snapsNeeded

\* stop of a block that is running lets it finish the second it is in, and
\* generate one more snap.
StopIsPrompt ==
    \A id \in DOMAIN samplings :
        samplings[id].stopped = "running" => samplings[id].late <= 1

\* A block is destroyed only when its thread has left run(): the thread never
\* uses a block, or the mock, that is gone.
NoOrphanLoop ==
    [][\A id \in DOMAIN samplings \ DOMAIN samplings' :
          samplings[id].loop = "exited"]_vars

\* A loop that will add no snap any more.
Final(b) == ~b.running /\ b.loop \in {"test", "exited"}

\* Whoever is told that a sampling is finished has all of it: it has come to its
\* limit by itself, its progress is 100 percent, and no snap will be added to its
\* list.  Neither a sampling that has yet to begin nor one that stop interrupts
\* is taken for a finished one, though all that getStatus looks at is the flag
\* that the constructor, run() and stop write (main.cpp:61, 66-82, 92, 117-124).
FinishedIsFinal ==
    [][/\ \A h \in Handlers :
            pc[h] = "status" /\ pc'[h] = "idle" /\ reply'[h] = "finished" =>
                Final(samplings[sampleId[h]]) /\ Progress(samplings[sampleId[h]]) = 100
       /\ \A id \in DOMAIN samplings \intersect DOMAIN samplings' :
            Final(samplings[id]) =>
                Final(samplings'[id]) /\ samplings'[id].snaps = samplings[id].snaps]_vars

\* If the limits of every sampling can be reached, every request is answered:
\* stop waits for its loop with the mutex held, and all the others wait for the
\* mutex, but the loop comes to its end even if it has undone the stop.
RequestsAnswered == \A h \in Handlers : pc[h] # "idle" ~> pc[h] = "idle"

-----------------------------------------------------------------------------
(* The inductive invariant. *)

\* A block that can be running no more: run() has begun and ended, or is ending.
Over(b) == ~b.running /\ b.loop # "new"

\* What holds of each block, next being the snap generated next.  Before run()
\* begins, running is cleared by a stop only; a loop that works is below its
\* limits; without a stop, running is cleared at a limit only; a stop that found
\* run() begun has cleared running for good, and leaves it the second it is in.
BlockInv(b, next) ==
    /\ b.loop = "new" => b.elapsed = 0 /\ (b.running <=> b.stopped = "no")
    /\ Len(b.snaps) = IF b.elapsed < SnapsKept THEN b.elapsed ELSE SnapsKept
    /\ \A n \in 1 .. Len(b.snaps) : b.snaps[n] < next
    /\ \A m, n \in 1 .. Len(b.snaps) : m < n => b.snaps[m] < b.snaps[n]
    /\ b.timeout > 0 =>
         b.elapsed <= b.timeout /\ (b.loop = "work" => b.elapsed < b.timeout)
    /\ b.snapsNeeded \in 1 .. SnapsKept =>
         b.elapsed <= b.snapsNeeded /\ (b.loop = "work" => b.elapsed < b.snapsNeeded)
    /\ b.stopped = "no" =>
         b.late = 0 /\ (~b.running => Reached(b)) /\ (b.loop = "work" => b.running)
    /\ b.stopped = "running" =>
         Over(b) /\ b.late <= 1 /\ (b.loop = "work" => b.late = 0)

\* A block is stopped by the handler that is joining its loop.
StoppedInv ==
    \A id \in DOMAIN samplings : samplings[id].stopped # "no" =>
        \E h \in Handlers : pc[h] = "join" /\ sampleId[h] = id

\* A block that is not over was started after the question of every handler that
\* is about to start one, and of those that have started later ones.
RivalInv ==
    \A i \in DOMAIN samplings :
        \/ samplings[i].rival \/ Over(samplings[i])
        \/ /\ \A h \in Handlers : pc[h] # "start"
           /\ \A j \in DOMAIN samplings : j <= i

OwnSnaps ==
    \A i, j \in DOMAIN samplings :
        i # j => Range(samplings[i].snaps) \intersect Range(samplings[j].snaps) = {}

\* Handlers, mutex and loops together: what every step preserves, and what the
\* safety properties above follow from (main.cpp:28-206).
SamplingInv ==
    /\ TypeOK
    /\ \A id \in DOMAIN samplings : BlockInv(samplings[id], snapId)
    /\ StoppedInv /\ RivalInv /\ OwnSnaps
=============================================================================
