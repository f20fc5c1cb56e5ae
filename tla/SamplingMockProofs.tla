------------------------- MODULE SamplingMockProofs -------------------------
(***************************************************************************)
(* Theorems about SamplingMock, for any number of handlers and samplings   *)
(* and any limits.  They rest on SamplingInv, which says of each block how *)
(* far its loop is, and relates the blocks to the handlers.                *)
(***************************************************************************)
EXTENDS SamplingMock, TLAPS

-----------------------------------------------------------------------------
(* Snaps and blocks. *)

\* The list of snaps: one more, which is the newest, and as many as are kept.
LEMMA KeepSnapFacts ==
    ASSUME NEW snaps \in Seq(Nat), NEW snap \in Nat, NEW kept,
           kept = KeepSnap(snaps, snap), Len(snaps) <= SnapsKept,
           \A n \in 1 .. Len(snaps) : snaps[n] < snap,
           \A m, n \in 1 .. Len(snaps) : m < n => snaps[m] < snaps[n]
    PROVE  /\ kept \in Seq(Nat)
           /\ Len(snaps) < SnapsKept => Len(kept) = Len(snaps) + 1
           /\ Len(snaps) = SnapsKept => Len(kept) = SnapsKept
           /\ \A n \in 1 .. Len(kept) : kept[n] < snap + 1
           /\ \A m, n \in 1 .. Len(kept) : m < n => kept[m] < kept[n]
           /\ \A n \in 1 .. Len(kept) :
                kept[n] = snap \/ \E k \in 1 .. Len(snaps) : kept[n] = snaps[k]
<1> DEFINE all == Append(snaps, snap)
<1>1. /\ all \in Seq(Nat) /\ Len(all) = Len(snaps) + 1 /\ Len(snaps) \in Nat
      /\ \A n \in 1 .. Len(snaps) : all[n] = snaps[n] /\ all[n] \in Nat
      /\ all[Len(snaps) + 1] = snap
  OBVIOUS
<1>2. /\ \A n \in 1 .. Len(all) : all[n] < snap + 1
      /\ \A m, n \in 1 .. Len(all) : m < n => all[m] < all[n]
      /\ \A n \in 1 .. Len(all) :
           all[n] = snap \/ \E k \in 1 .. Len(snaps) : all[n] = snaps[k]
  <2> HIDE DEF all
  <2>1. \A n \in 1 .. Len(all) : n = Len(snaps) + 1 \/ n \in 1 .. Len(snaps)
    BY <1>1
  <2>2. \A n \in 1 .. Len(all) :
          all[n] = snap \/ \E k \in 1 .. Len(snaps) : all[n] = snaps[k]
    BY <1>1, <2>1
  <2>3. ASSUME NEW n \in 1 .. Len(all) PROVE all[n] < snap + 1
    <3>1. CASE n \in 1 .. Len(snaps)
      <4>1. snaps[n] < snap /\ all[n] = snaps[n] /\ all[n] \in Nat
        BY <1>1, <3>1
      <4> QED
        BY <4>1
    <3>2. CASE n = Len(snaps) + 1
      BY <1>1, <3>2
    <3> QED
      BY <2>1, <3>1, <3>2
  <2>4. ASSUME NEW m \in 1 .. Len(all), NEW n \in 1 .. Len(all), m < n
        PROVE  all[m] < all[n]
    <3>1. m \in 1 .. Len(snaps)
      BY <1>1, <2>1, <2>4
    <3>2. CASE n \in 1 .. Len(snaps)
      <4>1. snaps[m] < snaps[n]
        BY <2>4, <3>1, <3>2
      <4> QED
        BY <1>1, <3>1, <3>2, <4>1
    <3>3. CASE n = Len(snaps) + 1
      <4>1. snaps[m] < snap
        BY <3>1
      <4> QED
        BY <1>1, <3>1, <3>3, <4>1
    <3> QED
      BY <2>1, <3>2, <3>3
  <2> QED
    BY <2>2, <2>3, <2>4
<1>3. CASE Len(snaps) < SnapsKept
  <2>1. kept = SubSeq(all, 1, Len(all))
    <3>1. ~(Len(all) > SnapsKept)
      <4> HIDE DEF all
      <4> QED
        BY <1>1, <1>3, KeptAssumption
    <3> QED
      BY <3>1 DEF KeepSnap
  <2> HIDE DEF all
  <2>2. SubSeq(all, 1, Len(all)) = all
    BY <1>1
  <2>3. kept = all
    BY <2>1, <2>2
  <2>4. ~(Len(snaps) = SnapsKept)
    BY <1>1, <1>3, KeptAssumption
  <2> QED
    BY <1>1, <1>2, <2>3, <2>4
<1>4. CASE Len(snaps) = SnapsKept
  <2>1. kept = SubSeq(all, 2, Len(all))
    <3>1. Len(all) > SnapsKept /\ Len(all) - SnapsKept + 1 = 2
      <4> HIDE DEF all
      <4> QED
        BY <1>1, <1>4, KeptAssumption
    <3> QED
      BY <3>1 DEF KeepSnap
  <2> HIDE DEF all
  <2>2. /\ kept \in Seq(Nat) /\ Len(kept) = SnapsKept
        /\ \A n \in 1 .. SnapsKept : kept[n] = all[n + 1] /\ n + 1 \in 1 .. Len(all)
    BY <1>1, <1>4, <2>1, KeptAssumption
  <2>3. ASSUME NEW m \in 1 .. SnapsKept, NEW n \in 1 .. SnapsKept, m < n
        PROVE  kept[m] < kept[n]
    <3>1. m + 1 < n + 1
      BY <2>3, KeptAssumption
    <3>2. all[m + 1] < all[n + 1]
      BY <1>2, <2>2, <3>1
    <3> QED
      BY <2>2, <3>2
  <2>4. \A n \in 1 .. SnapsKept : kept[n] < snap + 1
    BY <1>2, <2>2
  <2>5. \A n \in 1 .. SnapsKept :
          kept[n] = snap \/ \E k \in 1 .. Len(snaps) : kept[n] = snaps[k]
    BY <1>2, <2>2
  <2>6. ~(Len(snaps) < SnapsKept)
    BY <1>4, KeptAssumption
  <2> QED
    BY <2>2, <2>3, <2>4, <2>5, <2>6
<1> QED
  BY <1>1, <1>3, <1>4, KeptAssumption

\* Whatever part of a sequence is kept, it is a sequence.
LEMMA SubSeqOfNat ==
    ASSUME NEW s \in Seq(Nat), NEW m \in Nat \ {0}
    PROVE  SubSeq(s, m, Len(s)) \in Seq(Nat)
OBVIOUS

\* The second of a loop that works: one more snap, the newest of all.
LEMMA BlockWorks ==
    ASSUME NEW b \in Block, NEW next \in Nat, BlockInv(b, next), b.loop = "work",
           NEW c \in Block,
           c.timeout = b.timeout, c.snapsNeeded = b.snapsNeeded, c.running = b.running,
           c.stopped = b.stopped, c.loop = "test",
           c.elapsed = b.elapsed + 1, c.snaps = KeepSnap(b.snaps, next),
           c.late = IF b.stopped = "no" THEN 0 ELSE b.late + 1
    PROVE  /\ BlockInv(c, next + 1)
           /\ Range(c.snaps) \subseteq Range(b.snaps) \union {next}
<1> DEFINE old == b.snaps  new == c.snaps
<1>1. /\ old \in Seq(Nat) /\ Len(old) \in Nat /\ b.elapsed \in Nat /\ b.late \in Nat
      /\ b.elapsed < SnapsKept => Len(old) = b.elapsed
      /\ ~(b.elapsed < SnapsKept) => Len(old) = SnapsKept
      /\ \A n \in 1 .. Len(old) : old[n] < next
      /\ \A m, n \in 1 .. Len(old) : m < n => old[m] < old[n]
  BY DEF BlockInv, Block
<1>2. Len(old) <= SnapsKept
  BY <1>1, KeptAssumption
<1>3. /\ new \in Seq(Nat)
      /\ Len(old) < SnapsKept => Len(new) = Len(old) + 1
      /\ Len(old) = SnapsKept => Len(new) = SnapsKept
      /\ \A n \in 1 .. Len(new) : new[n] < next + 1
      /\ \A m, n \in 1 .. Len(new) : m < n => new[m] < new[n]
      /\ \A n \in 1 .. Len(new) :
           new[n] = next \/ \E k \in 1 .. Len(old) : new[n] = old[k]
  <2>1. new = KeepSnap(old, next)
    OBVIOUS
  <2>2. /\ old \in Seq(Nat) /\ Len(old) <= SnapsKept
        /\ \A n \in 1 .. Len(old) : old[n] < next
        /\ \A m, n \in 1 .. Len(old) : m < n => old[m] < old[n]
    BY <1>1, <1>2
  <2> HIDE DEF old, new
  <2> QED
    BY <2>1, <2>2, KeepSnapFacts
<1>4. Len(new) = IF c.elapsed < SnapsKept THEN c.elapsed ELSE SnapsKept
  <2> HIDE DEF old, new
  <2>1. CASE b.elapsed + 1 < SnapsKept
    BY <2>1, <1>1, <1>3, KeptAssumption
  <2>2. CASE ~(b.elapsed + 1 < SnapsKept)
    BY <2>2, <1>1, <1>3, KeptAssumption
  <2> QED
    BY <2>1, <2>2
<1>5. c.timeout > 0 => c.elapsed <= c.timeout
  <2>1. b.timeout \in Int
    BY LimitsAssumption DEF Block
  <2>2. b.timeout > 0 => b.elapsed < b.timeout
    BY DEF BlockInv
  <2> QED
    BY <1>1, <2>1, <2>2
<1>6. c.snapsNeeded \in 1 .. SnapsKept => c.elapsed <= c.snapsNeeded
  <2>1. b.snapsNeeded \in 1 .. SnapsKept => b.elapsed < b.snapsNeeded
    BY DEF BlockInv
  <2> QED
    BY <1>1, <2>1, KeptAssumption
<1>7. /\ c.stopped = "no" =>
           c.late = 0 /\ (~c.running => Reached(c)) /\ (c.loop = "work" => c.running)
      /\ c.stopped = "running" => Over(c) /\ c.late <= 1
  BY <1>1 DEF BlockInv, Over
<1>8. BlockInv(c, next + 1)
  BY <1>3, <1>4, <1>5, <1>6, <1>7 DEF BlockInv, Over
<1>9. Range(new) \subseteq Range(old) \union {next}
  <2> HIDE DEF old, new
  <2>1. DOMAIN new = 1 .. Len(new) /\ DOMAIN old = 1 .. Len(old)
    BY <1>1, <1>3
  <2>2. /\ Range(new) = {new[n] : n \in 1 .. Len(new)}
        /\ Range(old) = {old[n] : n \in 1 .. Len(old)}
    BY <2>1 DEF Range
  <2> QED
    BY <1>3, <2>2, Zenon
<1> QED
  BY <1>8, <1>9

-----------------------------------------------------------------------------
(* Steps of handlers that change no block. *)

LEMMA NoLimitsFacts == NoLimits \in Limits
<1>1. PICK t \in Timeouts, n \in SnapCounts : TRUE
  BY LimitsAssumption
<1>2. [timeout |-> t, snapsNeeded |-> n] \in Limits
  BY <1>1 DEF Limits
<1> QED
  BY <1>2, Zenon DEF NoLimits

LEMMA SamplingInit == Init => SamplingInv
<1> SUFFICES ASSUME Init PROVE SamplingInv
  OBVIOUS
<1>1. DOMAIN samplings = {}
  BY DEF Init
<1>2. NoLimits \in Limits
  BY NoLimitsFacts
<1>3. TypeOK
  <2>1. samplingId \in Nat \ {0} /\ snapId \in Nat /\ DOMAIN samplings \subseteq 1 .. samplingId - 1
    BY <1>1 DEF Init
  <2>2. \A h \in Handlers : pc[h] # "join" /\ samplingMutex # {h}
    BY DEF Init
  <2>3. /\ pc \in [Handlers -> {"idle", "isRunning", "start", "status", "stop", "join"}]
        /\ limits \in [Handlers -> Limits] /\ sampleId \in [Handlers -> Nat]
        /\ reply \in [Handlers -> Reply]
    BY <1>2 DEF Init, Reply
  <2> QED
    BY <1>1, <2>1, <2>2, <2>3, Zenon DEF TypeOK, Init
<1> QED
  BY <1>1, <1>3 DEF SamplingInv, StoppedInv, RivalInv, OwnSnaps

\* A handler that does not hold the mutex goes on, and comes to a start only
\* when all blocks are over.
LEMMA HandlerGoesOn ==
    ASSUME SamplingInv, NEW h \in Handlers, NEW place, pc[h] # "join",
           place \in {"idle", "isRunning", "start", "status", "stop"},
           pc' = [pc EXCEPT ![h] = place],
           place = "start" => \A id \in DOMAIN samplings : Over(samplings[id]),
           limits' \in [Handlers -> Limits], reply' \in [Handlers -> Reply],
           sampleId' \in [Handlers -> Nat],
           \A g \in Handlers \ {h} : sampleId'[g] = sampleId[g],
           UNCHANGED <<mockVars, samplingMutex>>
    PROVE  SamplingInv'
<1> USE DEF mockVars
<1>1. TypeOK /\ StoppedInv /\ RivalInv /\ OwnSnaps
  BY DEF SamplingInv
<1>2. /\ pc' \in [Handlers -> {"idle", "isRunning", "start", "status", "stop", "join"}]
      /\ pc'[h] = place
      /\ \A g \in Handlers \ {h} : pc'[g] = pc[g]
      /\ \A g \in Handlers : pc'[g] = "join" <=> pc[g] = "join"
      /\ \A g \in Handlers : pc[g] = "join" => g # h
  BY <1>1 DEF TypeOK
<1>3. TypeOK'
  <2>1. \A g \in Handlers : pc'[g] = "join" <=> samplingMutex' = {g}
    BY <1>1, <1>2 DEF TypeOK
  <2>2. \A g \in Handlers : pc'[g] = "join" => sampleId'[g] \in DOMAIN samplings'
    BY <1>1, <1>2 DEF TypeOK
  <2> QED
    BY <1>1, <1>2, <2>1, <2>2 DEF TypeOK
<1>4. \A id \in DOMAIN samplings : BlockInv(samplings[id], snapId)
  BY DEF SamplingInv
<1>5. StoppedInv'
  <2> SUFFICES ASSUME NEW id \in DOMAIN samplings, samplings[id].stopped # "no"
               PROVE  \E g \in Handlers : pc'[g] = "join" /\ sampleId'[g] = id
    BY DEF StoppedInv
  <2>1. PICK g \in Handlers : pc[g] = "join" /\ sampleId[g] = id
    BY <1>1 DEF StoppedInv
  <2> QED
    BY <1>2, <2>1
<1>6. RivalInv'
  <2> SUFFICES ASSUME NEW i \in DOMAIN samplings,
                      ~samplings[i].rival, ~Over(samplings[i])
               PROVE  /\ \A g \in Handlers : pc'[g] # "start"
                      /\ \A j \in DOMAIN samplings : j <= i
    BY DEF RivalInv, Over
  <2> QED
    BY <1>1, <1>2 DEF RivalInv
<1>7. OwnSnaps'
  BY <1>1 DEF OwnSnaps
<1> QED
  BY <1>3, <1>4, <1>5, <1>6, <1>7 DEF SamplingInv

\* The mutex is free only if no handler joins, and then no block is stopped.
LEMMA FreeMutex ==
    ASSUME SamplingInv, Free
    PROVE  /\ \A h \in Handlers : pc[h] # "join"
           /\ \A id \in DOMAIN samplings : samplings[id].stopped = "no"
<1>1. \A h \in Handlers : pc[h] # "join"
  BY DEF SamplingInv, TypeOK, Free
<1> QED
  BY <1>1 DEF SamplingInv, StoppedInv

\* What is left of a handler's request when it is answered.
LEMMA AnswerFacts ==
    ASSUME SamplingInv, NEW h \in Handlers, NEW answer \in Reply, Answer(h, answer)
    PROVE  /\ pc' = [pc EXCEPT ![h] = "idle"]
           /\ limits' \in [Handlers -> Limits] /\ reply' \in [Handlers -> Reply]
           /\ sampleId' \in [Handlers -> Nat]
           /\ \A g \in Handlers \ {h} : sampleId'[g] = sampleId[g]
<1>1. NoLimits \in Limits
  BY NoLimitsFacts
<1> QED
  BY <1>1 DEF Answer, SamplingInv, TypeOK

\* The status that is asked for is that of the sampling in the target.
LEMMA StatusOf == ASSUME NEW id \in Nat PROVE Converted(IdStr(Target(id))) = id
BY DEF Converted, IdStr, Target

\* The handlers' steps up to a start, and those of the status.
LEMMA HandlerStep ==
    ASSUME SamplingInv, NEW h \in Handlers,
           \/ \E l \in Limits : StartRequest(h, l)
           \/ \E id \in 0 .. MaxSamplings : StatusRequest(h, id)
           \/ \E id \in 1 .. MaxSamplings : StopRequest(h, id)
           \/ CheckRunning(h) \/ GetStatus(h) \/ StopUnknown(h)
    PROVE  SamplingInv'
<1>0. TypeOK
  BY DEF SamplingInv
<1>1. ASSUME NEW l \in Limits, StartRequest(h, l) PROVE SamplingInv'
  <2>1. /\ pc[h] = "idle" /\ pc' = [pc EXCEPT ![h] = "isRunning"]
        /\ limits' \in [Handlers -> Limits] /\ reply' \in [Handlers -> Reply]
        /\ sampleId' = sampleId /\ UNCHANGED <<mockVars, samplingMutex>>
    BY <1>0, <1>1 DEF StartRequest, Ask, TypeOK, Reply
  <2> QED
    BY <1>0, <2>1, HandlerGoesOn DEF TypeOK
<1>2. ASSUME NEW id \in 0 .. MaxSamplings, StatusRequest(h, id) PROVE SamplingInv'
  <2> DEFINE number == Converted(IdStr(Target(id)))
  <2>1. CASE number = 0
    <3>1. /\ pc[h] = "idle" /\ Answer(h, "invalid id format")
          /\ UNCHANGED <<mockVars, samplingMutex>>
      BY <1>2, <2>1 DEF StatusRequest
    <3> QED
      BY <3>1, AnswerFacts, HandlerGoesOn DEF Reply
  <2>2. CASE number # 0
    <3>1. number = id
      BY StatusOf, BoundsAssumption
    <3>2. /\ pc[h] = "idle" /\ pc' = [pc EXCEPT ![h] = "status"]
          /\ limits' = limits /\ reply' = [reply EXCEPT ![h] = "none"]
          /\ sampleId' = [sampleId EXCEPT ![h] = number]
          /\ UNCHANGED <<mockVars, samplingMutex>>
      BY <1>2, <2>2 DEF StatusRequest, Ask
    <3>3. id \in Nat
      BY BoundsAssumption
    <3> HIDE DEF number
    <3>4. /\ limits' \in [Handlers -> Limits] /\ reply' \in [Handlers -> Reply]
          /\ sampleId' \in [Handlers -> Nat]
          /\ \A g \in Handlers \ {h} : sampleId'[g] = sampleId[g]
      BY <1>0, <3>1, <3>2, <3>3 DEF TypeOK, Reply
    <3> QED
      BY <3>2, <3>4, HandlerGoesOn
  <2> QED
    BY <2>1, <2>2
<1>3. ASSUME NEW id \in 1 .. MaxSamplings, StopRequest(h, id) PROVE SamplingInv'
  <2>1. /\ pc[h] = "idle" /\ pc' = [pc EXCEPT ![h] = "stop"]
        /\ limits' = limits /\ reply' = [reply EXCEPT ![h] = "none"]
        /\ sampleId' = [sampleId EXCEPT ![h] = id]
        /\ UNCHANGED <<mockVars, samplingMutex>>
    BY <1>3 DEF StopRequest, Ask
  <2>2. id \in Nat
    BY BoundsAssumption
  <2>3. /\ limits' \in [Handlers -> Limits] /\ reply' \in [Handlers -> Reply]
        /\ sampleId' \in [Handlers -> Nat]
        /\ \A g \in Handlers \ {h} : sampleId'[g] = sampleId[g]
    BY <1>0, <2>1, <2>2 DEF TypeOK, Reply
  <2> QED
    BY <2>1, <2>3, HandlerGoesOn
<1>4. CASE CheckRunning(h)
  <2>1. CASE IsRunning
    <3>1. /\ pc[h] = "isRunning" /\ Answer(h, "already running")
          /\ UNCHANGED <<mockVars, samplingMutex>>
      BY <1>4, <2>1 DEF CheckRunning
    <3> QED
      BY <3>1, AnswerFacts, HandlerGoesOn DEF Reply
  <2>2. CASE ~IsRunning
    <3>1. /\ pc[h] = "isRunning" /\ pc' = [pc EXCEPT ![h] = "start"]
          /\ UNCHANGED <<limits, sampleId, reply, mockVars, samplingMutex>> /\ Free
      BY <1>4, <2>2 DEF CheckRunning
    <3>2. ASSUME NEW id \in DOMAIN samplings PROVE Over(samplings[id])
      <4>1. ~samplings[id].running
        BY <2>2 DEF IsRunning
      <4>2. samplings[id].stopped = "no"
        BY <3>1, FreeMutex
      <4>3. BlockInv(samplings[id], snapId)
        BY DEF SamplingInv
      <4> QED
        BY <4>1, <4>2, <4>3 DEF BlockInv, Over
    <3> QED
      BY <1>0, <3>1, <3>2, HandlerGoesOn DEF TypeOK
  <2> QED
    BY <2>1, <2>2
<1>5. CASE GetStatus(h)
  <2>1. PICK answer \in Reply : Answer(h, answer)
    BY <1>5 DEF GetStatus, Reply
  <2>2. pc[h] = "status" /\ UNCHANGED <<mockVars, samplingMutex>>
    BY <1>5 DEF GetStatus
  <2> QED
    BY <2>1, <2>2, AnswerFacts, HandlerGoesOn
<1>6. CASE StopUnknown(h)
  <2>1. pc[h] = "stop" /\ Answer(h, "stopped") /\ UNCHANGED <<mockVars, samplingMutex>>
    BY <1>6 DEF StopUnknown
  <2> QED
    BY <2>1, AnswerFacts, HandlerGoesOn DEF Reply
<1> QED
  BY <1>1, <1>2, <1>3, <1>4, <1>5, <1>6

-----------------------------------------------------------------------------
(* Steps that make, change or erase a block. *)

\* SamplingMock::start: a block more, whose rivals are the other starters.
LEMMA StartStep ==
    ASSUME SamplingInv, NEW h \in Handlers, Start(h)
    PROVE  SamplingInv'
<1> DEFINE new == NewBlock(limits[h], Contested(h))
           dom == DOMAIN samplings
<1>1. TypeOK /\ StoppedInv /\ RivalInv /\ OwnSnaps
  BY DEF SamplingInv
<1>2. /\ pc[h] = "start" /\ Free
      /\ samplingId' = samplingId + 1 /\ snapId' = snapId
      /\ sampleId' = [sampleId EXCEPT ![h] = samplingId]
      /\ pc' = [pc EXCEPT ![h] = "status"]
      /\ UNCHANGED <<samplingMutex, limits, reply>>
  BY DEF Start
<1>3. samplingId \in Nat /\ snapId \in Nat /\ dom \subseteq 1 .. samplingId - 1
  BY <1>1 DEF TypeOK
<1>4. /\ DOMAIN samplings' = dom \union {samplingId}
      /\ samplings'[samplingId] = new
      /\ \A id \in dom : samplings'[id] = samplings[id]
      /\ \A id \in dom : id < samplingId
  <2>1. samplings' = [id \in dom \union {samplingId} |->
                        IF id = samplingId THEN new ELSE samplings[id]]
    BY DEF Start
  <2>2. \A id \in dom : id < samplingId /\ id # samplingId
    BY <1>3
  <2> HIDE DEF new
  <2> QED
    BY <2>1, <2>2
<1>5. /\ new \in Block /\ new.running /\ new.loop = "new" /\ new.stopped = "no"
      /\ new.elapsed = 0 /\ new.snaps = <<>> /\ new.late = 0 /\ new.rival = Contested(h)
  <2>1. limits[h] \in Limits
    BY <1>1 DEF TypeOK
  <2>2. Contested(h) \in BOOLEAN
    BY DEF Contested
  <2>3. <<>> \in Seq(Nat)
    OBVIOUS
  <2> QED
    BY <2>1, <2>2, <2>3, Zenon DEF NewBlock, Block, Limits
<1> HIDE DEF new
<1>6. \A id \in DOMAIN samplings' : samplings'[id] \in Block
  BY <1>1, <1>4, <1>5 DEF TypeOK
<1>7. /\ \A g \in Handlers : pc'[g] = "join" <=> pc[g] = "join"
      /\ \A g \in Handlers : pc'[g] = "join" => sampleId'[g] = sampleId[g]
      /\ \A g \in Handlers : g # h => pc'[g] = pc[g]
      /\ pc'[h] # "start"
  BY <1>1, <1>2 DEF TypeOK
<1>8. TypeOK'
  <2>1. /\ samplingId' \in Nat \ {0} /\ DOMAIN samplings' \subseteq 1 .. samplingId' - 1
    <3>1. samplingId # 0
      BY <1>1 DEF TypeOK
    <3> QED
      BY <1>2, <1>3, <1>4, <3>1
  <2>2. ASSUME NEW g \in Handlers, pc'[g] = "join"
        PROVE  sampleId'[g] \in DOMAIN samplings'
    <3>1. pc[g] = "join" /\ sampleId'[g] = sampleId[g]
      BY <1>7, <2>2
    <3>2. sampleId[g] \in dom
      BY <1>1, <3>1 DEF TypeOK
    <3> QED
      BY <1>4, <3>1, <3>2
  <2>3. \A g \in Handlers : pc'[g] = "join" <=> samplingMutex' = {g}
    BY <1>1, <1>2, <1>7 DEF TypeOK
  <2>4. /\ pc' \in [Handlers -> {"idle", "isRunning", "start", "status", "stop", "join"}]
        /\ sampleId' \in [Handlers -> Nat]
    BY <1>1, <1>2, <1>3 DEF TypeOK
  <2> QED
    BY <1>1, <1>2, <1>6, <2>1, <2>2, <2>3, <2>4 DEF TypeOK
<1>9. \A id \in DOMAIN samplings' : BlockInv(samplings'[id], snapId')
  <2>1. BlockInv(new, snapId)
    <3>1. new.timeout \in Int /\ Len(new.snaps) = 0
      BY <1>5, LimitsAssumption DEF Block
    <3> QED
      BY <1>5, <3>1, KeptAssumption DEF BlockInv, Over
  <2>2. \A id \in dom : BlockInv(samplings[id], snapId)
    BY DEF SamplingInv
  <2> QED
    BY <1>2, <1>4, <2>1, <2>2
<1>10. StoppedInv'
  <2> SUFFICES ASSUME NEW id \in DOMAIN samplings', samplings'[id].stopped # "no"
               PROVE  FALSE
    BY DEF StoppedInv
  <2>1. \A i \in dom : samplings[i].stopped = "no"
    BY <1>2, FreeMutex
  <2> QED
    BY <1>4, <1>5, <2>1
<1>11. RivalInv'
  <2> SUFFICES ASSUME NEW i \in DOMAIN samplings',
                      ~samplings'[i].rival, ~Over(samplings'[i])
               PROVE  /\ \A g \in Handlers : pc'[g] # "start"
                      /\ \A j \in DOMAIN samplings' : j <= i
    BY DEF RivalInv, Over
  <2>1. CASE i \in dom
    <3>1. ~samplings[i].rival /\ ~Over(samplings[i])
      BY <1>4, <2>1 DEF Over
    <3> QED
      BY <1>1, <1>2, <2>1, <3>1 DEF RivalInv
  <2>2. CASE i = samplingId
    <3>1. ~Contested(h)
      BY <1>4, <1>5, <2>2
    <3>2. \A g \in Handlers : pc'[g] # "start"
      BY <1>7, <3>1 DEF Contested
    <3>3. \A j \in DOMAIN samplings' : j <= samplingId
      BY <1>3, <1>4
    <3> QED
      BY <2>2, <3>2, <3>3
  <2> QED
    BY <1>4, <2>1, <2>2
<1>12. OwnSnaps'
  <2>1. Range(new.snaps) = {}
    BY <1>5 DEF Range
  <2> QED
    BY <1>1, <1>4, <2>1 DEF OwnSnaps
<1> QED
  BY <1>8, <1>9, <1>10, <1>11, <1>12 DEF SamplingInv

\* One block changes: it is not revived, and what snaps it gains are new ones.
LEMMA BlockChanges ==
    ASSUME SamplingInv, NEW id \in DOMAIN samplings,
           DOMAIN samplings' = DOMAIN samplings, samplings'[id] \in Block,
           \A j \in DOMAIN samplings \ {id} : samplings'[j] = samplings[j],
           snapId' = snapId \/ snapId' = snapId + 1,
           BlockInv(samplings'[id], snapId'),
           samplings'[id].rival = samplings[id].rival,
           Over(samplings[id]) => Over(samplings'[id]),
           Range(samplings'[id].snaps) \subseteq Range(samplings[id].snaps) \union {snapId},
           Range(samplings'[id].snaps) \subseteq Range(samplings[id].snaps) \/ snapId' = snapId + 1,
           \A h \in Handlers : pc'[h] = "start" => pc[h] = "start"
    PROVE  /\ snapId' \in Nat
           /\ \A j \in DOMAIN samplings' : samplings'[j] \in Block
           /\ \A j \in DOMAIN samplings' : BlockInv(samplings'[j], snapId')
           /\ RivalInv' /\ OwnSnaps'
<1> DEFINE dom == DOMAIN samplings
<1>1. TypeOK /\ StoppedInv /\ RivalInv /\ OwnSnaps
  BY DEF SamplingInv
<1>2. snapId \in Nat /\ snapId' \in Nat
  BY <1>1 DEF TypeOK
<1>3. \A j \in dom : samplings[j] \in Block
  BY <1>1 DEF TypeOK
<1>4. \A j \in dom : BlockInv(samplings[j], snapId)
  BY DEF SamplingInv
<1>5. ASSUME NEW j \in dom, j # id
      PROVE  /\ BlockInv(samplings[j], snapId')
             /\ snapId \notin Range(samplings[j].snaps)
  <2>1. /\ samplings[j].snaps \in Seq(Nat)
        /\ \A n \in 1 .. Len(samplings[j].snaps) : samplings[j].snaps[n] < snapId
    BY <1>3, <1>4 DEF Block, BlockInv
  <2>2. \A n \in 1 .. Len(samplings[j].snaps) :
          /\ samplings[j].snaps[n] \in Nat
          /\ samplings[j].snaps[n] < snapId' /\ samplings[j].snaps[n] # snapId
    BY <1>2, <2>1
  <2>3. BlockInv(samplings[j], snapId')
    BY <1>4, <2>2 DEF BlockInv
  <2>4. DOMAIN samplings[j].snaps = 1 .. Len(samplings[j].snaps)
    BY <2>1
  <2> QED
    BY <2>2, <2>3, <2>4 DEF Range
<1>6. \A j \in dom : samplings'[j] \in Block
  BY <1>3
<1>7. \A j \in dom : BlockInv(samplings'[j], snapId')
  BY <1>5
<1>8. RivalInv'
  <2> SUFFICES ASSUME NEW i \in dom, ~samplings'[i].rival, ~Over(samplings'[i])
               PROVE  /\ \A g \in Handlers : pc'[g] # "start"
                      /\ \A j \in dom : j <= i
    BY DEF RivalInv, Over
  <2>1. ~samplings[i].rival /\ ~Over(samplings[i])
    BY DEF Over
  <2> QED
    BY <1>1, <2>1 DEF RivalInv
<1>9. OwnSnaps'
  <2>1. ASSUME NEW j \in dom, j # id
        PROVE  Range(samplings'[id].snaps) \intersect Range(samplings'[j].snaps) = {}
    <3>1. Range(samplings[id].snaps) \intersect Range(samplings[j].snaps) = {}
      BY <1>1, <2>1 DEF OwnSnaps
    <3>2. samplings'[j] = samplings[j] /\ snapId \notin Range(samplings[j].snaps)
      BY <1>5, <2>1
    <3> QED
      BY <3>1, <3>2
  <2>2. ASSUME NEW i \in dom, NEW j \in dom, i # j
        PROVE  Range(samplings'[i].snaps) \intersect Range(samplings'[j].snaps) = {}
    <3>1. CASE i = id \/ j = id
      BY <2>1, <2>2, <3>1
    <3>2. CASE i # id /\ j # id
      <4>1. samplings'[i] = samplings[i] /\ samplings'[j] = samplings[j]
        BY <3>2
      <4> QED
        BY <1>1, <2>2, <4>1 DEF OwnSnaps
    <3> QED
      BY <3>1, <3>2
  <2> QED
    BY <2>2 DEF OwnSnaps
<1> QED
  BY <1>2, <1>6, <1>7, <1>8, <1>9

\* A step of a block's own thread leaves the handlers alone.
LEMMA LoopChanges ==
    ASSUME SamplingInv, NEW id \in DOMAIN samplings,
           DOMAIN samplings' = DOMAIN samplings, samplings'[id] \in Block,
           \A j \in DOMAIN samplings \ {id} : samplings'[j] = samplings[j],
           snapId' = snapId \/ snapId' = snapId + 1,
           BlockInv(samplings'[id], snapId'),
           samplings'[id].rival = samplings[id].rival,
           samplings'[id].stopped = samplings[id].stopped,
           Over(samplings[id]) => Over(samplings'[id]),
           Range(samplings'[id].snaps) \subseteq Range(samplings[id].snaps) \union {snapId},
           Range(samplings'[id].snaps) \subseteq Range(samplings[id].snaps) \/ snapId' = snapId + 1,
           UNCHANGED <<samplingId, samplingMutex, handlerVars>>
    PROVE  SamplingInv'
<1>1. /\ snapId' \in Nat
      /\ \A j \in DOMAIN samplings' : samplings'[j] \in Block
      /\ \A j \in DOMAIN samplings' : BlockInv(samplings'[j], snapId')
      /\ RivalInv' /\ OwnSnaps'
  BY BlockChanges DEF handlerVars
<1>2. TypeOK'
  BY <1>1 DEF SamplingInv, TypeOK, handlerVars
<1>3. StoppedInv'
  BY DEF SamplingInv, StoppedInv, handlerVars
<1> QED
  BY <1>1, <1>2, <1>3 DEF SamplingInv

\* run() begins: it sets running, whatever stop has done.
LEMMA BeginStep ==
    ASSUME SamplingInv, NEW id \in DOMAIN samplings, Begin(id)
    PROVE  SamplingInv'
<1> DEFINE b == samplings[id]  c == samplings'[id]
<1>1. b \in Block /\ BlockInv(b, snapId) /\ b.loop = "new"
  BY DEF SamplingInv, TypeOK, Begin
<1>2. /\ DOMAIN samplings' = DOMAIN samplings
      /\ \A j \in DOMAIN samplings \ {id} : samplings'[j] = samplings[j]
      /\ c = [b EXCEPT !.running = TRUE, !.elapsed = 0, !.loop = "test"]
      /\ UNCHANGED <<samplingId, snapId, samplingMutex, handlerVars>>
  BY DEF Begin
<1>3. /\ c \in Block /\ c.timeout = b.timeout /\ c.snapsNeeded = b.snapsNeeded
      /\ c.running /\ c.elapsed = 0 /\ c.loop = "test" /\ c.snaps = b.snaps
      /\ c.stopped = b.stopped /\ c.late = b.late /\ c.rival = b.rival
  <2> HIDE DEF b, c
  <2>1. 0 \in Nat
    OBVIOUS
  <2> QED
    BY <1>1, <1>2, <2>1, Zenon DEF Block
<1> HIDE DEF b, c
<1>4. b.elapsed = 0 /\ b.stopped # "running" /\ ~Over(b)
  BY <1>1 DEF BlockInv, Over
<1>5. BlockInv(c, snapId')
  <2>1. b.timeout \in Int
    BY <1>1, LimitsAssumption DEF Block
  <2> QED
    BY <1>1, <1>2, <1>3, <1>4, <2>1, KeptAssumption DEF BlockInv
<1> QED
  BY <1>2, <1>3, <1>4, <1>5, LoopChanges DEF b, c

\* The test of the flag, and of the limits.
LEMMA TestStep ==
    ASSUME SamplingInv, NEW id \in DOMAIN samplings, Test(id)
    PROVE  SamplingInv'
<1> DEFINE b == samplings[id]  c == samplings'[id]
<1>1. b \in Block /\ BlockInv(b, snapId) /\ b.loop = "test"
  BY DEF SamplingInv, TypeOK, Test
<1>2. /\ DOMAIN samplings' = DOMAIN samplings
      /\ \A j \in DOMAIN samplings \ {id} : samplings'[j] = samplings[j]
      /\ c = [b EXCEPT !.running = b.running /\ ~Reached(b),
                       !.loop = IF ~LoopsOn(b) THEN "exited"
                                ELSE IF Reached(b) THEN "test" ELSE "work"]
      /\ UNCHANGED <<samplingId, snapId, samplingMutex, handlerVars>>
  BY DEF Test
<1>3. /\ c \in Block /\ c.timeout = b.timeout /\ c.snapsNeeded = b.snapsNeeded
      /\ c.elapsed = b.elapsed /\ c.snaps = b.snaps
      /\ c.stopped = b.stopped /\ c.late = b.late /\ c.rival = b.rival
      /\ c.loop # "new" /\ (c.running => b.running)
      /\ c.loop = "work" => b.running /\ ~Reached(b)
      /\ c.running <=> b.running /\ ~Reached(b)
  <2> DEFINE running == b.running /\ ~Reached(b)
             loop == IF ~LoopsOn(b) THEN "exited" ELSE IF Reached(b) THEN "test" ELSE "work"
  <2>1. /\ running \in BOOLEAN
        /\ running => b.running
        /\ running <=> b.running /\ ~Reached(b)
        /\ loop \in {"exited", "test", "work"}
        /\ loop = "work" => b.running /\ ~Reached(b)
    BY DEF LoopsOn
  <2>2. c = [b EXCEPT !.running = running, !.loop = loop]
    BY <1>2
  <2> HIDE DEF running, loop, b, c
  <2>3. loop \in {"new", "test", "work", "exited"}
    BY <2>1
  <2>4. b \in Block /\ running \in BOOLEAN
    BY <1>1, <2>1, Zenon
  <2>5. /\ c \in Block /\ c.timeout = b.timeout /\ c.snapsNeeded = b.snapsNeeded
        /\ c.elapsed = b.elapsed /\ c.snaps = b.snaps
        /\ c.stopped = b.stopped /\ c.late = b.late /\ c.rival = b.rival
        /\ c.loop = loop /\ c.running = running
    BY <2>2, <2>3, <2>4, Zenon DEF Block
  <2> QED
    BY <2>1, <2>5
<1> HIDE DEF b, c
<1>4. BlockInv(c, snapId')
  <2>1. b.timeout \in Int /\ b.elapsed \in Nat
    BY <1>1, LimitsAssumption DEF Block
  <2>2. /\ c.loop = "work" /\ c.timeout > 0 => c.elapsed < c.timeout
        /\ c.loop = "work" /\ c.snapsNeeded \in 1 .. SnapsKept => c.elapsed < c.snapsNeeded
    BY <1>1, <1>3, <2>1, KeptAssumption DEF Reached, BlockInv
  <2>3. c.stopped = "running" =>
          Over(c) /\ c.late <= 1 /\ (c.loop = "work" => c.late = 0)
    BY <1>1, <1>3 DEF BlockInv, Over
  <2>4. c.stopped = "no" =>
          c.late = 0 /\ (~c.running => Reached(c)) /\ (c.loop = "work" => c.running)
    <3>1. Reached(c) <=> Reached(b)
      BY <1>3 DEF Reached
    <3> QED
      BY <1>1, <1>3, <3>1 DEF BlockInv
  <2> QED
    BY <1>1, <1>2, <1>3, <2>2, <2>3, <2>4 DEF BlockInv
<1>5. Over(b) => Over(c)
  BY <1>3 DEF Over
<1> QED
  BY <1>2, <1>3, <1>4, <1>5, LoopChanges DEF b, c

\* A second of work.
LEMMA WorkStep ==
    ASSUME SamplingInv, NEW id \in DOMAIN samplings, Work(id)
    PROVE  SamplingInv'
<1> DEFINE b == samplings[id]  c == samplings'[id]
<1>1. b \in Block /\ BlockInv(b, snapId) /\ b.loop = "work" /\ snapId \in Nat
  BY DEF SamplingInv, TypeOK, Work
<1>2. /\ DOMAIN samplings' = DOMAIN samplings
      /\ \A j \in DOMAIN samplings \ {id} : samplings'[j] = samplings[j]
      /\ c = [b EXCEPT !.elapsed = b.elapsed + 1, !.snaps = KeepSnap(b.snaps, snapId),
                       !.loop = "test",
                       !.late = IF b.stopped = "no" THEN 0 ELSE b.late + 1]
      /\ snapId' = snapId + 1
      /\ UNCHANGED <<samplingId, samplingMutex, handlerVars>>
  BY DEF Work, NextSnapId
<1>3. KeepSnap(b.snaps, snapId) \in Seq(Nat)
  <2>1. Append(b.snaps, snapId) \in Seq(Nat)
    BY <1>1 DEF Block
  <2> QED
    BY <2>1, SubSeqOfNat, KeptAssumption DEF KeepSnap
<1>4. /\ c \in Block /\ c.timeout = b.timeout /\ c.snapsNeeded = b.snapsNeeded
      /\ c.running = b.running /\ c.stopped = b.stopped /\ c.rival = b.rival
      /\ c.loop = "test" /\ c.elapsed = b.elapsed + 1
      /\ c.snaps = KeepSnap(b.snaps, snapId)
      /\ c.late = IF b.stopped = "no" THEN 0 ELSE b.late + 1
  <2> DEFINE snaps == KeepSnap(b.snaps, snapId)
             late == IF b.stopped = "no" THEN 0 ELSE b.late + 1
  <2>1. snaps \in Seq(Nat) /\ late \in Nat /\ b.elapsed + 1 \in Nat
    BY <1>1, <1>3 DEF Block
  <2>2. c = [b EXCEPT !.elapsed = b.elapsed + 1, !.snaps = snaps, !.loop = "test",
                      !.late = late]
    BY <1>2
  <2> HIDE DEF snaps, late, b, c
  <2>3. /\ c \in Block /\ c.timeout = b.timeout /\ c.snapsNeeded = b.snapsNeeded
        /\ c.running = b.running /\ c.stopped = b.stopped /\ c.rival = b.rival
        /\ c.loop = "test" /\ c.elapsed = b.elapsed + 1 /\ c.snaps = snaps /\ c.late = late
    BY <1>1, <2>1, <2>2 DEF Block
  <2> QED
    BY <2>3 DEF snaps, late
<1> HIDE DEF b, c
<1>5. /\ BlockInv(c, snapId + 1)
      /\ Range(c.snaps) \subseteq Range(b.snaps) \union {snapId}
  BY <1>1, <1>4, BlockWorks
<1>6. Over(b) => Over(c)
  BY <1>1, <1>4 DEF Over
<1> QED
  BY <1>2, <1>4, <1>5, <1>6, LoopChanges DEF b, c

\* stop clears the flag, and waits for the loop with the mutex.
LEMMA StopStep ==
    ASSUME SamplingInv, NEW h \in Handlers, Stop(h)
    PROVE  SamplingInv'
<1> DEFINE id == sampleId[h]  b == samplings[id]  c == samplings'[id]
           stopped == IF b.loop = "new" THEN "early" ELSE "running"
<1>1. /\ pc[h] = "stop" /\ Free /\ id \in DOMAIN samplings
      /\ samplingMutex' = {h} /\ pc' = [pc EXCEPT ![h] = "join"]
      /\ UNCHANGED <<samplingId, snapId, limits, sampleId, reply>>
      /\ DOMAIN samplings' = DOMAIN samplings
      /\ \A j \in DOMAIN samplings \ {id} : samplings'[j] = samplings[j]
      /\ c = [b EXCEPT !.running = FALSE, !.stopped = stopped]
  BY DEF Stop
<1>2. b \in Block /\ BlockInv(b, snapId) /\ b.stopped = "no"
  BY <1>1, FreeMutex DEF SamplingInv, TypeOK
<1>3. stopped \in {"early", "running"} /\ (stopped = "early" <=> b.loop = "new")
  OBVIOUS
<1> HIDE DEF b, c, stopped
<1>4. /\ c \in Block /\ c.timeout = b.timeout /\ c.snapsNeeded = b.snapsNeeded
      /\ ~c.running /\ c.elapsed = b.elapsed /\ c.loop = b.loop /\ c.snaps = b.snaps
      /\ c.stopped = stopped /\ c.late = b.late /\ c.rival = b.rival
  BY <1>1, <1>2, <1>3, Zenon DEF Block
<1>5. BlockInv(c, snapId')
  <2>1. c.stopped = "running" =>
          Over(c) /\ c.late <= 1 /\ (c.loop = "work" => c.late = 0)
    BY <1>2, <1>3, <1>4 DEF BlockInv, Over
  <2>2. c.loop = "new" => c.elapsed = 0 /\ (c.running <=> c.stopped = "no")
    BY <1>2, <1>3, <1>4 DEF BlockInv
  <2>3. c.stopped # "no"
    BY <1>3, <1>4
  <2> QED
    BY <1>1, <1>2, <1>4, <2>1, <2>2, <2>3 DEF BlockInv
<1>6. Over(b) => Over(c)
  BY <1>4 DEF Over
<1>7. TypeOK /\ \A g \in Handlers : pc[g] # "join"
  BY <1>1, FreeMutex DEF SamplingInv
<1>8. /\ pc' \in [Handlers -> {"idle", "isRunning", "start", "status", "stop", "join"}]
      /\ pc'[h] = "join" /\ \A g \in Handlers \ {h} : pc'[g] = pc[g]
  BY <1>1, <1>7 DEF TypeOK
<1>9. /\ snapId' \in Nat
      /\ \A j \in DOMAIN samplings' : samplings'[j] \in Block
      /\ \A j \in DOMAIN samplings' : BlockInv(samplings'[j], snapId')
      /\ RivalInv' /\ OwnSnaps'
  <2>1. \A g \in Handlers : pc'[g] = "start" => pc[g] = "start"
    BY <1>8
  <2> QED
    BY <1>1, <1>4, <1>5, <1>6, <2>1, BlockChanges DEF b, c
<1>10. TypeOK'
  <2>1. \A g \in Handlers : pc'[g] = "join" <=> g = h
    BY <1>7, <1>8
  <2>2. \A g \in Handlers : samplingMutex' = {g} <=> g = h
    BY <1>1
  <2> QED
    BY <1>1, <1>7, <1>8, <1>9, <2>1, <2>2, Zenon DEF TypeOK
<1>11. StoppedInv'
  <2> SUFFICES ASSUME NEW j \in DOMAIN samplings', samplings'[j].stopped # "no"
               PROVE  j = id
    BY <1>1, <1>8 DEF StoppedInv
  <2> QED
    BY <1>1, FreeMutex
<1> QED
  BY <1>9, <1>10, <1>11 DEF SamplingInv

\* ... until the loop has ended, and the block goes.
LEMMA JoinStep ==
    ASSUME SamplingInv, NEW h \in Handlers, Join(h)
    PROVE  SamplingInv'
<1> DEFINE id == sampleId[h]
<1>1. /\ pc[h] = "join" /\ samplingMutex' = {} /\ Answer(h, "stopped")
      /\ UNCHANGED <<samplingId, snapId>>
      /\ DOMAIN samplings' = DOMAIN samplings \ {id}
      /\ \A j \in DOMAIN samplings' : samplings'[j] = samplings[j]
  BY DEF Join, Restrict
<1>2. TypeOK /\ StoppedInv /\ RivalInv /\ OwnSnaps
  BY DEF SamplingInv
<1>3. /\ pc' = [pc EXCEPT ![h] = "idle"]
      /\ limits' \in [Handlers -> Limits] /\ reply' \in [Handlers -> Reply]
      /\ sampleId' \in [Handlers -> Nat]
  BY <1>1, AnswerFacts DEF Reply
<1>4. /\ pc' \in [Handlers -> {"idle", "isRunning", "start", "status", "stop", "join"}]
      /\ pc'[h] = "idle" /\ \A g \in Handlers \ {h} : pc'[g] = pc[g]
      /\ \A g \in Handlers : pc[g] = "join" => g = h
  <2>1. \A g \in Handlers : pc[g] = "join" => {g} = {h}
    BY <1>1, <1>2 DEF TypeOK
  <2> QED
    BY <1>2, <1>3, <2>1 DEF TypeOK
<1>5. TypeOK'
  <2>1. \A g \in Handlers : pc'[g] # "join" /\ samplingMutex' # {g}
    BY <1>1, <1>4
  <2> QED
    BY <1>1, <1>2, <1>3, <1>4, <2>1 DEF TypeOK
<1>6. \A j \in DOMAIN samplings' : BlockInv(samplings'[j], snapId')
  BY <1>1 DEF SamplingInv
<1>7. StoppedInv'
  <2> SUFFICES ASSUME NEW j \in DOMAIN samplings', samplings'[j].stopped # "no"
               PROVE  FALSE
    BY DEF StoppedInv
  <2>1. PICK g \in Handlers : pc[g] = "join" /\ sampleId[g] = j
    BY <1>1, <1>2 DEF StoppedInv
  <2> QED
    BY <1>1, <1>4, <2>1
<1>8. RivalInv'
  <2> SUFFICES ASSUME NEW i \in DOMAIN samplings',
                      ~samplings'[i].rival, ~Over(samplings'[i])
               PROVE  /\ \A g \in Handlers : pc'[g] # "start"
                      /\ \A j \in DOMAIN samplings' : j <= i
    BY DEF RivalInv, Over
  <2>1. i \in DOMAIN samplings /\ ~samplings[i].rival /\ ~Over(samplings[i])
    BY <1>1 DEF Over
  <2> QED
    BY <1>1, <1>2, <1>4, <2>1 DEF RivalInv
<1>9. OwnSnaps'
  BY <1>1, <1>2 DEF OwnSnaps
<1> QED
  BY <1>5, <1>6, <1>7, <1>8, <1>9 DEF SamplingInv

-----------------------------------------------------------------------------
(* Theorems. *)

LEMMA SamplingStep == SamplingInv /\ [Next]_vars => SamplingInv'
<1> SUFFICES ASSUME SamplingInv, [Next]_vars PROVE SamplingInv'
  OBVIOUS
<1>1. ASSUME NEW h \in Handlers, NEW l \in Limits, StartRequest(h, l) PROVE SamplingInv'
  BY <1>1, HandlerStep
<1>2. ASSUME NEW h \in Handlers,
             \/ \E id \in 0 .. MaxSamplings : StatusRequest(h, id)
             \/ \E id \in 1 .. MaxSamplings : StopRequest(h, id)
      PROVE  SamplingInv'
  BY <1>2, HandlerStep
<1>3. ASSUME NEW h \in Handlers, Handle(h) PROVE SamplingInv'
  <2>1. CASE CheckRunning(h) \/ GetStatus(h) \/ StopUnknown(h)
    BY <2>1, HandlerStep
  <2>2. CASE Start(h)
    BY <2>2, StartStep
  <2>3. CASE Stop(h)
    BY <2>3, StopStep
  <2>4. CASE Join(h)
    BY <2>4, JoinStep
  <2> QED
    BY <1>3, <2>1, <2>2, <2>3, <2>4 DEF Handle
<1>4. ASSUME NEW id \in DOMAIN samplings, Loop(id) PROVE SamplingInv'
  BY <1>4, BeginStep, TestStep, WorkStep DEF Loop
<1>5. CASE UNCHANGED vars
  BY <1>5 DEF vars, mockVars, handlerVars, SamplingInv, TypeOK, StoppedInv,
              RivalInv, OwnSnaps
<1> QED
  BY <1>1, <1>2, <1>3, <1>4, <1>5 DEF Next, Exhausted

\* The invariant of the sampling service (main.cpp:28-206): of handlers on any
\* number of threads, and as many loops.
THEOREM SamplingInvariant == Spec => []SamplingInv
<1>1. SamplingInv /\ [Next]_vars => SamplingInv'
  BY SamplingStep
<1> QED
  BY SamplingInit, <1>1, PTL DEF Spec

\* Two samplings run at a time only if both were asked for before the first
\* started (main.cpp:250).
THEOREM OnlyRivalsOverlap == Spec => []SecondNeedsRival
<1>1. SamplingInv => SecondNeedsRival
  <2> SUFFICES ASSUME SamplingInv, NEW i \in DOMAIN samplings, NEW j \in DOMAIN samplings,
                      samplings[i].running, samplings[j].running, i < j
               PROVE  samplings[i].rival
    BY DEF SecondNeedsRival
  <2>1. ~Over(samplings[i])
    BY DEF Over
  <2>2. i \in Nat /\ j \in Nat /\ ~(j <= i)
    BY DEF SamplingInv, TypeOK
  <2> QED
    BY <2>1, <2>2 DEF SamplingInv, RivalInv
<1> QED
  BY <1>1, SamplingInvariant, PTL

\* The snaps of a block are the latest, in order, and its own (main.cpp:98-105,
\* 159-165).
THEOREM SnapsAreOrdered == Spec => []SnapsInOrder
<1>1. SamplingInv => SnapsInOrder
  BY DEF SamplingInv, BlockInv, OwnSnaps, SnapsInOrder
<1> QED
  BY <1>1, SamplingInvariant, PTL

\* No block outruns its limits (main.cpp:87-93).
THEOREM LimitsAreRespected == Spec => []LimitsRespected
<1>1. SamplingInv => LimitsRespected
  BY DEF SamplingInv, BlockInv, LimitsRespected
<1> QED
  BY <1>1, SamplingInvariant, PTL

\* A stop that found its block running is the end of it (main.cpp:57-64, 87-107).
THEOREM StopTakesEffect == Spec => []StopIsPrompt
<1>1. SamplingInv => StopIsPrompt
  BY DEF SamplingInv, BlockInv, StopIsPrompt
<1> QED
  BY <1>1, SamplingInvariant, PTL

\* No thread outlives its block (main.cpp:47-64, 176-180).
THEOREM NoThreadIsOrphaned == Spec => NoOrphanLoop
<1> DEFINE Joins == \A id \in DOMAIN samplings \ DOMAIN samplings' :
                      samplings[id].loop = "exited"
<1>1. ASSUME SamplingInv, [Next]_vars PROVE [Joins]_vars
  <2>1. ASSUME NEW h \in Handlers, Join(h) PROVE Joins
    <3>1. DOMAIN samplings' = DOMAIN samplings \ {sampleId[h]}
      BY <2>1 DEF Join, Restrict
    <3> QED
      BY <2>1, <3>1 DEF Join, Joined
  <2>2. ASSUME NEW h \in Handlers, Handle(h) PROVE Joins
    <3>1. CASE CheckRunning(h) \/ GetStatus(h) \/ StopUnknown(h)
      BY <3>1 DEF CheckRunning, GetStatus, StopUnknown, mockVars
    <3>2. CASE Start(h)
      BY <3>2 DEF Start
    <3>3. CASE Stop(h)
      BY <3>3 DEF Stop
    <3> QED
      BY <2>1, <2>2, <3>1, <3>2, <3>3 DEF Handle
  <2>3. ASSUME NEW h \in Handlers, NEW l \in Limits, StartRequest(h, l) PROVE Joins
    BY <2>3 DEF StartRequest, mockVars
  <2>4. ASSUME NEW h \in Handlers, NEW id, StatusRequest(h, id) \/ StopRequest(h, id)
        PROVE  Joins
    BY <2>4 DEF StatusRequest, StopRequest, mockVars
  <2>5. ASSUME NEW id \in DOMAIN samplings, Loop(id) PROVE Joins
    BY <2>5 DEF Loop, Begin, Test, Work
  <2> HIDE DEF Joins
  <2> QED
    BY <1>1, <2>2, <2>3, <2>4, <2>5 DEF Next, Exhausted
<1> QED
  BY <1>1, SamplingInvariant, PTL DEF Spec, NoOrphanLoop

-----------------------------------------------------------------------------
(* What a status tells. *)

LEMMA ShareFacts ==
    ASSUME NEW n \in Nat, NEW limit \in Int
    PROVE  /\ Share(n, limit) \in Int /\ Share(n, limit) <= 100
           /\ limit > 0 /\ n >= limit => Share(n, limit) = 100
<1>1. CASE limit <= 0
  BY <1>1 DEF Share
<1>2. CASE limit > 0
  <2> DEFINE percent == (n * 100) \div limit
  <2>1. percent \in Int /\ n * 100 < limit * percent + limit /\ limit * percent \in Int
    BY <1>2
  <2>2. Share(n, limit) = IF percent < 100 THEN percent ELSE 100
    BY <1>2 DEF Share
  <2>3. ASSUME n >= limit PROVE ~(percent < 100)
    <3> SUFFICES ASSUME percent <= 99 PROVE FALSE
      BY <2>1
    <3>1. \A q \in Int : q <= 99 => limit * q <= limit * 99
      BY <1>2
    <3> HIDE DEF percent
    <3>2. limit * percent <= limit * 99
      BY <2>1, <3>1
    <3>3. limit * 99 + limit <= n * 100
      BY <1>2, <2>3
    <3> QED
      BY <2>1, <3>2, <3>3
  <2> HIDE DEF percent
  <2> QED
    BY <2>1, <2>2, <2>3
<1> QED
  BY <1>1, <1>2

\* At a limit, the progress is complete.
LEMMA FullProgress ==
    ASSUME NEW b \in Block, Reached(b)
    PROVE  Progress(b) = 100
<1>1. /\ b.timeout \in Int /\ b.snapsNeeded \in Int
      /\ b.elapsed \in Nat /\ Len(b.snaps) \in Nat
  <2>1. b.timeout \in Timeouts /\ b.snapsNeeded \in SnapCounts
    BY Zenon DEF Block
  <2>2. b.elapsed \in Nat /\ b.snaps \in Seq(Nat)
    BY Zenon DEF Block
  <2>3. \A snaps \in Seq(Nat) : Len(snaps) \in Nat
    OBVIOUS
  <2> QED
    BY <2>1, <2>2, <2>3, LimitsAssumption, Zenon
<1> DEFINE elapsed == b.elapsed  timeout == b.timeout
           snaps == Len(b.snaps)  needed == b.snapsNeeded
           p0 == Share(elapsed, timeout)  p1 == Share(snaps, needed)
<1>2. Progress(b) = IF p0 < p1 THEN p1 ELSE p0
  BY DEF Progress
<1>3. \/ timeout > 0 /\ elapsed >= timeout
      \/ needed > 0 /\ snaps >= needed
  BY DEF Reached
<1>4. elapsed \in Nat /\ timeout \in Int /\ snaps \in Nat /\ needed \in Int
  BY <1>1
<1> HIDE DEF elapsed, timeout, snaps, needed
<1>5. p0 \in Int /\ p0 <= 100 /\ (timeout > 0 /\ elapsed >= timeout => p0 = 100)
  BY <1>4, ShareFacts
<1>6. p1 \in Int /\ p1 <= 100 /\ (needed > 0 /\ snaps >= needed => p1 = 100)
  BY <1>4, ShareFacts
<1> HIDE DEF p0, p1
<1> QED
  BY <1>2, <1>3, <1>5, <1>6

\* Nothing but getStatus ends a request for a status.
LEMMA AnsweredByGetStatus ==
    ASSUME SamplingInv, Next, NEW h \in Handlers, pc[h] = "status", pc'[h] = "idle"
    PROVE  GetStatus(h)
<1>0. \A g \in Handlers : \A next : pc' = [pc EXCEPT ![g] = next] /\ g # h => pc'[h] = pc[h]
  BY DEF SamplingInv, TypeOK
<1>1. \A g \in Handlers : \A answer : Answer(g, answer) /\ g # h => pc'[h] = pc[h]
  BY <1>0, Zenon DEF Answer
<1>2. ASSUME NEW g \in Handlers, NEW next, Ask(g, next) PROVE FALSE
  <2>1. g # h
    BY <1>2 DEF Ask
  <2> QED
    BY <1>2, <2>1 DEF Ask
<1>3. ASSUME NEW g \in Handlers, Handle(g) PROVE GetStatus(h)
  <2>1. CASE g = h
    <3>1. ~(CheckRunning(h) \/ Start(h) \/ StopUnknown(h) \/ Stop(h) \/ Join(h))
      BY DEF CheckRunning, Start, StopUnknown, Stop, Join
    <3> QED
      BY <1>3, <2>1, <3>1 DEF Handle
  <2>2. CASE g # h
    <3>1. CASE CheckRunning(g)
      <4>1. CASE IsRunning
        <5>1. Answer(g, "already running")
          BY <3>1, <4>1 DEF CheckRunning
        <5> QED
          BY <1>1, <2>2, <5>1
      <4>2. CASE ~IsRunning
        BY <1>0, <2>2, <3>1, <4>2 DEF CheckRunning
      <4> QED
        BY <4>1, <4>2
    <3>2. CASE Start(g) \/ Stop(g)
      BY <1>0, <2>2, <3>2 DEF Start, Stop
    <3>3. CASE GetStatus(g) \/ StopUnknown(g) \/ Join(g)
      BY <1>1, <2>2, <3>3 DEF GetStatus, StopUnknown, Join
    <3> QED
      BY <1>3, <3>1, <3>2, <3>3 DEF Handle
  <2> QED
    BY <2>1, <2>2
<1>4. ASSUME NEW g \in Handlers, NEW id, StatusRequest(g, id) PROVE FALSE
  <2>1. g # h \/ ~Answer(g, "invalid id format")
    BY <1>2, <1>4 DEF StatusRequest
  <2> QED
    BY <1>1, <1>2, <1>4, <2>1 DEF StatusRequest
<1>5. ASSUME NEW id, Loop(id) PROVE FALSE
  BY <1>5 DEF Loop, Begin, Test, Work, handlerVars
<1>6. ~Exhausted
  BY DEF Exhausted, vars, handlerVars
<1>7. ~\E g \in Handlers : \/ \E l \in Limits : StartRequest(g, l)
                          \/ \E id \in 1 .. MaxSamplings : StopRequest(g, id)
  BY <1>2 DEF StartRequest, StopRequest
<1> QED
  BY <1>3, <1>4, <1>5, <1>6, <1>7 DEF Next

\* A block that will list no snap more is left so by every step.
LEMMA FinalStays ==
    ASSUME SamplingInv, Next, NEW id \in DOMAIN samplings,
           id \in DOMAIN samplings', Final(samplings[id])
    PROVE  Final(samplings'[id]) /\ samplings'[id].snaps = samplings[id].snaps
<1>0. /\ DOMAIN samplings \subseteq 1 .. samplingId - 1 /\ samplingId \in Nat
      /\ samplings[id] \in Block
  BY DEF SamplingInv, TypeOK
<1>1. ASSUME NEW h \in Handlers, Start(h) PROVE samplings'[id] = samplings[id]
  <2>1. id # samplingId
    BY <1>0
  <2> QED
    BY <1>1, <2>1 DEF Start
<1>2. ASSUME NEW h \in Handlers, Join(h) PROVE samplings'[id] = samplings[id]
  BY <1>2 DEF Join, Restrict
<1>3. ASSUME NEW h \in Handlers, Stop(h)
      PROVE  Final(samplings'[id]) /\ samplings'[id].snaps = samplings[id].snaps
  BY <1>0, <1>3 DEF Stop, Final, Block
<1>4. ASSUME NEW i \in DOMAIN samplings, Loop(i)
      PROVE  Final(samplings'[id]) /\ samplings'[id].snaps = samplings[id].snaps
  <2>1. CASE i # id
    <3>1. samplings'[id] = samplings[id]
      BY <1>4, <2>1 DEF Loop, Begin, Test, Work
    <3> QED
      BY <3>1
  <2>2. CASE i = id
    <3>1. Test(id)
      BY <1>4, <2>2 DEF Loop, Begin, Work, Final
    <3>2. samplings'[id] = [samplings[id] EXCEPT !.running = FALSE, !.loop = "exited"]
      <4>1. ~LoopsOn(samplings[id]) /\ ~(samplings[id].running /\ ~Reached(samplings[id]))
        BY DEF LoopsOn, Final
      <4> QED
        BY <3>1, <4>1 DEF Test
    <3> QED
      BY <1>0, <3>2 DEF Final, Block
  <2> QED
    BY <2>1, <2>2
<1>5. ASSUME UNCHANGED samplings
      PROVE  Final(samplings'[id]) /\ samplings'[id].snaps = samplings[id].snaps
  BY <1>5
<1>6. ASSUME NEW h \in Handlers, CheckRunning(h) \/ GetStatus(h) \/ StopUnknown(h)
      PROVE  UNCHANGED samplings
  BY <1>6 DEF CheckRunning, GetStatus, StopUnknown, mockVars
<1>7. ASSUME NEW h \in Handlers, NEW l, StartRequest(h, l)
      PROVE  UNCHANGED samplings
  BY <1>7 DEF StartRequest, mockVars
<1>8. ASSUME NEW h \in Handlers, NEW i, StatusRequest(h, i) \/ StopRequest(h, i)
      PROVE  UNCHANGED samplings
  BY <1>8 DEF StatusRequest, StopRequest, mockVars
<1>9. Exhausted => UNCHANGED samplings
  BY DEF Exhausted, vars, mockVars
<1> QED
  BY <1>1, <1>2, <1>3, <1>4, <1>5, <1>6, <1>7, <1>8, <1>9 DEF Next, Handle

\* A sampling that is told to be finished is, and with all its progress and its
\* snaps (main.cpp:66-82, 85-107, 110-131).
THEOREM FinishedIsComplete == Spec => FinishedIsFinal
<1> DEFINE Told == \A h \in Handlers :
                     pc[h] = "status" /\ pc'[h] = "idle" /\ reply'[h] = "finished" =>
                       Final(samplings[sampleId[h]]) /\ Progress(samplings[sampleId[h]]) = 100
           Stays == \A id \in DOMAIN samplings \intersect DOMAIN samplings' :
                      Final(samplings[id]) =>
                        Final(samplings'[id]) /\ samplings'[id].snaps = samplings[id].snaps
<1>1. ASSUME SamplingInv, Next PROVE Told
  <2> SUFFICES ASSUME NEW h \in Handlers,
                      pc[h] = "status", pc'[h] = "idle", reply'[h] = "finished"
               PROVE  /\ Final(samplings[sampleId[h]])
                      /\ Progress(samplings[sampleId[h]]) = 100
    OBVIOUS
  <2> DEFINE b == samplings[sampleId[h]]
  <2>1. GetStatus(h)
    BY <1>1, AnsweredByGetStatus
  <2>2. Free /\ sampleId[h] \in DOMAIN samplings /\ ~b.running
    <3>1. h \in DOMAIN reply
      BY <1>1 DEF SamplingInv, TypeOK
    <3> QED
      BY <2>1, <3>1 DEF GetStatus, Answer
  <2>3. b \in Block /\ BlockInv(b, snapId) /\ b.stopped = "no"
    BY <1>1, <2>2, FreeMutex DEF SamplingInv, TypeOK
  <2> HIDE DEF b
  <2>4. Reached(b) /\ b.loop \in {"test", "exited"}
    BY <2>2, <2>3 DEF BlockInv, Block
  <2>5. Final(b) /\ Progress(b) = 100
    BY <2>2, <2>3, <2>4, FullProgress DEF Final
  <2> QED
    BY <2>5 DEF b
<1>2. ASSUME SamplingInv, Next PROVE Stays
  BY <1>2, FinalStays
<1>3. SamplingInv /\ [Next]_vars => [Told /\ Stays]_vars
  BY <1>1, <1>2
<1> QED
  BY <1>3, SamplingInvariant, PTL DEF Spec, FinishedIsFinal

-----------------------------------------------------------------------------
(* One handler at a time. *)

\* With no other handler, nobody else can have asked before a sampling starts.
NoRival == \A id \in DOMAIN samplings : ~samplings[id].rival

LEMMA NoRivalStep ==
    ASSUME \A g, h \in Handlers : g = h, SamplingInv, NoRival, [Next]_vars
    PROVE  NoRival'
<1>0. \A id \in DOMAIN samplings : samplings[id] \in Block
  BY DEF SamplingInv, TypeOK
<1>1. ASSUME NEW h \in Handlers, Start(h) PROVE NoRival'
  <2>1. ~Contested(h)
    BY DEF Contested
  <2>2. ~NewBlock(limits[h], Contested(h)).rival
    BY <2>1 DEF NewBlock
  <2> QED
    BY <1>1, <2>2 DEF Start, NoRival
<1>2. ASSUME NEW h \in Handlers, Stop(h) PROVE NoRival'
  BY <1>0, <1>2 DEF Stop, NoRival, Block
<1>3. ASSUME NEW h \in Handlers, Join(h) PROVE NoRival'
  <2>1. samplings' = [id \in DOMAIN samplings \ {sampleId[h]} |-> samplings[id]]
    BY <1>3 DEF Join, Restrict
  <2> QED
    BY <2>1 DEF NoRival
<1>4. ASSUME NEW id \in DOMAIN samplings, Loop(id) PROVE NoRival'
  <2>1. /\ DOMAIN samplings' = DOMAIN samplings
        /\ \A i \in DOMAIN samplings : samplings'[i].rival = samplings[i].rival
    <3>1. CASE Begin(id)
      BY <1>0, <3>1 DEF Begin, Block
    <3>2. CASE Test(id)
      BY <1>0, <3>2 DEF Test, Block
    <3>3. CASE Work(id)
      BY <1>0, <3>3 DEF Work, Block
    <3> QED
      BY <1>4, <3>1, <3>2, <3>3 DEF Loop
  <2> QED
    BY <2>1 DEF NoRival
<1>5. CASE UNCHANGED samplings
  BY <1>5 DEF NoRival
<1>6. ASSUME NEW h \in Handlers, CheckRunning(h) \/ GetStatus(h) \/ StopUnknown(h)
      PROVE  UNCHANGED samplings
  BY <1>6 DEF CheckRunning, GetStatus, StopUnknown, mockVars
<1>7. ASSUME NEW h \in Handlers, NEW l \in Limits, StartRequest(h, l)
      PROVE  UNCHANGED samplings
  BY <1>7 DEF StartRequest, mockVars
<1>8. ASSUME NEW h \in Handlers, NEW id, StatusRequest(h, id) \/ StopRequest(h, id)
      PROVE  UNCHANGED samplings
  BY <1>8 DEF StatusRequest, StopRequest, mockVars
<1>9. Exhausted \/ UNCHANGED vars => UNCHANGED samplings
  BY DEF Exhausted, vars, mockVars
<1> QED
  BY <1>1, <1>2, <1>3, <1>4, <1>5, <1>6, <1>7, <1>8, <1>9, Zenon DEF Next, Handle

\* What the start handler means by asking isRunning first holds if the io_context
\* has but one thread: no two samplings run at a time, however stop and run()
\* race for the flag running (main.cpp:61, 85, 250).
THEOREM OneHandlerOneSampling ==
    ASSUME \A g, h \in Handlers : g = h
    PROVE  Spec => []OneRunning
<1>1. Init => NoRival
  BY DEF Init, NoRival
<1>2. SamplingInv /\ NoRival /\ [Next]_vars => NoRival'
  BY NoRivalStep
<1>3. SecondNeedsRival /\ NoRival /\ SamplingInv => OneRunning
  <2> SUFFICES ASSUME SecondNeedsRival, NoRival, SamplingInv,
                      NEW i \in DOMAIN samplings, NEW j \in DOMAIN samplings,
                      samplings[i].running, samplings[j].running
               PROVE  i = j
    BY DEF OneRunning
  <2>1. i \in Nat /\ j \in Nat
    BY DEF SamplingInv, TypeOK
  <2>2. ~(i < j) /\ ~(j < i)
    BY DEF SecondNeedsRival, NoRival
  <2> QED
    BY <2>1, <2>2
<1> QED
  BY <1>1, <1>2, <1>3, SamplingInvariant, OnlyRivalsOverlap, PTL DEF Spec
=============================================================================
