------------------------- MODULE PictureCacheProofs -------------------------
(***************************************************************************)
(* Proofs about PictureCache for any numbers of threads, objects, cameras  *)
(* and pictures.                                                           *)
(***************************************************************************)
EXTENDS PictureCache, FiniteSetTheorems, SequenceTheorems,
        WellFoundedInduction, TLAPS

-----------------------------------------------------------------------------
(* Lines. *)

\* A line that is not empty has a first picture: it is one of the line, and none
\* of the line has arrived before it.
LEMMA FirstInLine ==
    ASSUME NEW line \in SUBSET Picture, line # {}
    PROVE  /\ First(line) \in line
           /\ \A q \in line : First(line).arrival <= q.arrival
<1> DEFINE Arrivals == {p.arrival : p \in line}
<1>1. Arrivals \subseteq Nat /\ Arrivals # {}
  BY DEF Picture
<1>2. PICK n \in Arrivals : \A m \in Arrivals : ~(<<m, n>> \in OpToRel(<, Nat))
  <2> HIDE DEF Arrivals
  <2> QED
    BY <1>1, NatLessThanWellFounded, WFMin, Zenon
<1>3. \A m \in Arrivals : n <= m
  <2> SUFFICES ASSUME NEW m \in Arrivals PROVE n <= m
    OBVIOUS
  <2>1. n \in Nat /\ m \in Nat /\ ~(m < n)
    BY <1>1, <1>2 DEF OpToRel
  <2> QED
    BY <2>1
<1>4. PICK p \in line : p.arrival = n
  OBVIOUS
<1>5. \E q \in line : \A r \in line : q.arrival <= r.arrival
  BY <1>3, <1>4
<1> QED
  BY <1>5, Zenon DEF First

\* The pictures of a line that are earlier than one of them, by number.
LEMMA RankFacts ==
    ASSUME NEW line \in SUBSET Picture, IsFiniteSet(line),
           NEW Before, Before = [p \in line |-> {q \in line : q.arrival < p.arrival}]
    PROVE  /\ \A p \in line : Cardinality(Before[p]) \in 0 .. Cardinality(line) - 1
           /\ \A p, q \in line : p.arrival < q.arrival =>
                Cardinality(Before[p]) < Cardinality(Before[q])
<1>1. \A p \in line : p.arrival \in Nat
  BY DEF Picture
<1>2. Cardinality(line) \in Nat
  BY FS_CardinalityType
<1>3. ASSUME NEW p \in line PROVE Cardinality(Before[p]) \in 0 .. Cardinality(line) - 1
  <2>1. Before[p] \in SUBSET line /\ p \notin Before[p]
    BY <1>1
  <2>2. IsFiniteSet(Before[p])
    BY <2>1, FS_Subset
  <2>3. Cardinality(Before[p]) \in Nat
    BY <2>2, FS_CardinalityType
  <2>4. Cardinality(Before[p]) <= Cardinality(line) /\ Cardinality(Before[p]) # Cardinality(line)
    BY <2>1, FS_Subset
  <2> QED
    BY <1>2, <2>3, <2>4
<1>4. ASSUME NEW p \in line, NEW q \in line, p.arrival < q.arrival
      PROVE  Cardinality(Before[p]) < Cardinality(Before[q])
  <2>1. Before[q] \in SUBSET line
    OBVIOUS
  <2>2. IsFiniteSet(Before[q])
    BY <2>1, FS_Subset
  <2>3. Before[p] \in SUBSET Before[q] /\ p \in Before[q] /\ p \notin Before[p]
    BY <1>1, <1>4
  <2>4. Cardinality(Before[p]) <= Cardinality(Before[q]) /\ Cardinality(Before[p]) # Cardinality(Before[q])
    BY <2>2, <2>3, FS_Subset
  <2>5. Cardinality(Before[p]) \in Nat /\ Cardinality(Before[q]) \in Nat
    BY <1>2, <1>3
  <2> QED
    BY <2>4, <2>5
<1> QED
  BY <1>3, <1>4

\* Tracks: of a line that is long enough, Needed pictures are taken.
LEMMA EarliestFacts ==
    ASSUME NEW line \in SUBSET Picture, IsFiniteSet(line), Enough(line),
           \A p, q \in line : p.arrival = q.arrival => p = q
    PROVE  Cardinality(Earliest(line)) = Needed
<1> DEFINE Before == [p \in line |-> {q \in line : q.arrival < p.arrival}]
           n == Cardinality(line)
           rank == [p \in line |-> Cardinality(Before[p])]
           places == [p \in Earliest(line) |-> rank[p]]
<1>1. n \in Nat /\ n >= Needed
  BY FS_CardinalityType DEF Enough
<1>2. /\ \A p \in line : Cardinality(Before[p]) \in 0 .. n - 1
      /\ \A p, q \in line : p.arrival < q.arrival =>
           Cardinality(Before[p]) < Cardinality(Before[q])
  BY RankFacts
<1>3. Earliest(line) = {p \in line : Cardinality(Before[p]) < Needed}
  BY DEF Earliest
<1> HIDE DEF Before, n
<1>4. ASSUME NEW p \in line, NEW q \in line, rank[p] = rank[q] PROVE p = q
  <2>1. p.arrival \in Nat /\ q.arrival \in Nat
    BY DEF Picture
  <2>2. rank[p] \in Nat
    BY <1>1, <1>2
  <2>3. ~(p.arrival < q.arrival) /\ ~(q.arrival < p.arrival)
    BY <1>2, <1>4, <2>2
  <2> QED
    BY <2>1, <2>3
<1>5. rank \in [line -> 0 .. n - 1]
  BY <1>2
<1>6. rank \in Injection(line, 0 .. n - 1)
  BY <1>4, <1>5 DEF Injection, IsInjective
<1>7. IsFiniteSet(0 .. n - 1) /\ Cardinality(0 .. n - 1) = n
  BY <1>1, FS_Interval, NeededAssumption
<1>8. rank \in Surjection(line, 0 .. n - 1)
  <2> HIDE DEF rank
  <2> QED
    BY <1>6, <1>7, FS_Injection DEF n
<1>9. \A k \in 0 .. n - 1 : \E p \in line : rank[p] = k
  BY <1>8 DEF Surjection
<1>10. /\ places \in [Earliest(line) -> 0 .. Needed - 1]
       /\ \A k \in 0 .. Needed - 1 : \E p \in Earliest(line) : places[p] = k
       /\ \A p, q \in Earliest(line) : places[p] = places[q] => p = q
  <2>1. \A p \in Earliest(line) : p \in line /\ places[p] = rank[p] /\ rank[p] \in 0 .. Needed - 1
    BY <1>1, <1>2, <1>3, NeededAssumption
  <2>2. ASSUME NEW k \in 0 .. Needed - 1
        PROVE  \E p \in Earliest(line) : places[p] = k
    <3>1. k \in 0 .. n - 1 /\ k < Needed
      BY <1>1, NeededAssumption
    <3>2. PICK p \in line : rank[p] = k
      BY <1>9, <3>1
    <3>3. p \in Earliest(line)
      BY <1>3, <3>1, <3>2
    <3> QED
      BY <2>1, <3>2, <3>3
  <2> QED
    BY <1>4, <2>1, <2>2
<1>11. places \in Bijection(Earliest(line), 0 .. Needed - 1)
  <2> HIDE DEF places
  <2> QED
    BY <1>10 DEF Bijection, Injection, Surjection, IsInjective
<1>12. ExistsBijection(Earliest(line), 0 .. Needed - 1)
  BY <1>11 DEF ExistsBijection
<1>13. IsFiniteSet(Earliest(line))
  BY FS_Subset DEF Earliest
<1>14. Cardinality(0 .. Needed - 1) = Cardinality(Earliest(line))
  BY <1>12, <1>13, FS_Bijection
<1> QED
  BY <1>14, FS_Interval, NeededAssumption

\* A line that loses pictures gets no longer.
LEMMA EnoughOfMore ==
    ASSUME NEW line, IsFiniteSet(line), NEW rest \in SUBSET line, Enough(rest)
    PROVE  Enough(line)
BY FS_Subset, FS_CardinalityType, NeededAssumption DEF Enough

-----------------------------------------------------------------------------
(* What each step does to the caches. *)

\* Removing expired pictures adds none, and makes no object ready.
LEMMA CleanupFacts ==
    ASSUME TypeOK, KeptInv, NEW t \in Threads, Cleanup(t)
    PROVE  /\ Cached' \subseteq Cached
           /\ Ready' \subseteq Ready
           /\ \A p \in Cached \ Cached' : now - p.time > TimeLimit
<1>1. PICK clock \in adding[t].time .. now :
        /\ bodyCaches' = EntriesOf(
              [o \in DOMAIN bodyCaches |-> [camera \in Cameras |->
                  {p \in bodyCaches[o][camera] : ~IsExpired(p, clock)}]],
              {o \in DOMAIN bodyCaches :
                  [camera \in Cameras |->
                     {p \in bodyCaches[o][camera] : ~IsExpired(p, clock)}]
                  # NoLines})
        /\ faceCaches' = EntriesOf(faceCaches,
              {o \in DOMAIN faceCaches : ~IsExpired(faceCaches[o], clock)})
  BY DEF Cleanup
<1>2. /\ DOMAIN faceCaches' =
           {o \in DOMAIN faceCaches : ~IsExpired(faceCaches[o], clock)}
      /\ \A o \in DOMAIN faceCaches' : faceCaches'[o] = faceCaches[o]
  BY <1>1 DEF EntriesOf
<1>3. /\ DOMAIN bodyCaches' \subseteq DOMAIN bodyCaches
      /\ \A o \in DOMAIN bodyCaches' : \A camera \in Cameras :
           bodyCaches'[o][camera] =
             {p \in bodyCaches[o][camera] : ~IsExpired(p, clock)}
      /\ \A o \in DOMAIN bodyCaches \ DOMAIN bodyCaches' :
           \A camera \in Cameras :
             \A p \in bodyCaches[o][camera] : IsExpired(p, clock)
  BY <1>1 DEF EntriesOf, NoLines
<1>4. Cached' \subseteq Cached
  BY <1>2, <1>3 DEF Cached
<1>5. Ready' \subseteq Ready
  <2> SUFFICES ASSUME NEW o \in Ready' PROVE o \in Ready
    OBVIOUS
  <2>1. /\ o \in DOMAIN faceCaches' /\ o \in DOMAIN bodyCaches'
        /\ \A camera \in Cameras : bodyCaches'[o][camera] # {}
        /\ \E camera \in Cameras : Enough(bodyCaches'[o][camera])
    BY DEF Ready, Candidates, Enough
  <2>2. PICK camera \in Cameras : Enough(bodyCaches'[o][camera])
    BY <2>1
  <2>3. Enough(bodyCaches[o][camera])
    BY <1>3, <2>1, <2>2, EnoughOfMore DEF KeptInv
  <2>4. o \in Candidates /\ \A c \in Cameras : bodyCaches[o][c] # {}
    BY <1>2, <1>3, <2>1 DEF Candidates
  <2> QED
    BY <2>3, <2>4 DEF Ready
<1>6. \A p \in Cached \ Cached' : now - p.time > TimeLimit
  <2> SUFFICES ASSUME NEW p \in Cached, p \notin Cached'
               PROVE  now - p.time > TimeLimit
    OBVIOUS
  <2>1. IsExpired(p, clock)
    <3>1. CASE \E o \in DOMAIN faceCaches : p = faceCaches[o]
      BY <1>2, <3>1 DEF Cached
    <3>2. CASE \E o \in DOMAIN bodyCaches, camera \in Cameras :
                  p \in bodyCaches[o][camera]
      BY <1>3, <3>2 DEF Cached
    <3> QED
      BY <3>1, <3>2 DEF Cached
  <2>2. p \in Picture
    BY DEF Cached, TypeOK
  <2>3. adding[t].time \in Nat
    BY DEF TypeOK, Cleanup, Parsed
  <2>4. clock \in Nat /\ clock <= now /\ now \in Nat /\ p.time \in Nat
    BY <2>2, <2>3 DEF TypeOK, Picture
  <2> QED
    BY <2>1, <2>4, TimeLimitAssumption DEF IsExpired
<1> QED
  BY <1>4, <1>5, <1>6

\* A picture that arrives is kept, and takes the place of a face at most.
LEMMA AddFaceFacts ==
    ASSUME TypeOK, KeptInv, NEW t \in Threads, AddFace(t)
    PROVE  /\ Cached' \subseteq Cached \union {Arriving(t)}
           /\ Arriving(t) \in Picture /\ Arriving(t) \in Cached'
           /\ Arriving(t).from = Face
           /\ Arriving(t).arrival = added + 1
           /\ \A p \in Cached \ Cached' :
                p.from = Face /\ p.object = Arriving(t).object
<1> DEFINE p == Arriving(t)
<1>1. /\ p \in Picture /\ p.arrival = added + 1 /\ p.from = Face
      /\ p.object \in Objects
  BY DEF TypeOK, AddFace, Arriving, Parsed, Picture
<1>2. /\ DOMAIN faceCaches' = DOMAIN faceCaches \union {p.object}
      /\ faceCaches'[p.object] = p
      /\ \A o \in DOMAIN faceCaches \ {p.object} : faceCaches'[o] = faceCaches[o]
      /\ bodyCaches' = bodyCaches
  BY DEF AddFace
<1> HIDE DEF p
<1>3. Cached' \subseteq Cached \union {p}
  BY <1>2 DEF Cached
<1>4. p \in Cached'
  BY <1>2 DEF Cached
<1>5. \A q \in Cached \ Cached' : q.from = Face /\ q.object = p.object
  BY <1>2 DEF Cached, KeptInv
<1> QED
  BY <1>1, <1>3, <1>4, <1>5 DEF p

\* A body that arrives is kept and takes the place of nothing: the line of its
\* object and camera gains it, and no other line changes.
LEMMA AddBodyFacts ==
    ASSUME TypeOK, KeptInv, NEW t \in Threads, AddBody(t)
    PROVE  /\ Cached \subseteq Cached'
           /\ Cached' \subseteq Cached \union {Arriving(t)}
           /\ Arriving(t) \in Picture
           /\ Arriving(t).arrival = added + 1
           /\ DOMAIN bodyCaches' = DOMAIN bodyCaches \union {Arriving(t).object}
           /\ \A o \in DOMAIN bodyCaches', camera \in Cameras :
                bodyCaches'[o][camera] =
                    LinesOf(o)[camera] \union
                      {p \in {Arriving(t)} : o = p.object /\ camera = p.from}
<1> DEFINE p == Arriving(t)
<1>1. /\ p \in Picture /\ p.arrival = added + 1 /\ p.from \in Cameras
  BY DEF TypeOK, AddBody, Arriving, Parsed, Picture
<1>2. \A o \in Objects : LinesOf(o) \in [Cameras -> SUBSET Picture]
  BY DEF LinesOf, NoLines, TypeOK
<1>3. /\ DOMAIN bodyCaches' = DOMAIN bodyCaches \union {p.object}
      /\ \A o \in DOMAIN bodyCaches' :
           bodyCaches'[o] = IF o = p.object THEN Extended(LinesOf(o), p.from, p)
                                            ELSE bodyCaches[o]
      /\ faceCaches' = faceCaches
  BY DEF AddBody
<1> HIDE DEF p
<1>4. \A o \in DOMAIN bodyCaches', camera \in Cameras :
        bodyCaches'[o][camera] =
            LinesOf(o)[camera] \union
              {q \in {p} : o = q.object /\ camera = q.from}
  <2> SUFFICES ASSUME NEW o \in DOMAIN bodyCaches', NEW camera \in Cameras
               PROVE  bodyCaches'[o][camera] =
                        LinesOf(o)[camera] \union
                          {q \in {p} : o = q.object /\ camera = q.from}
    OBVIOUS
  <2>1. CASE o = p.object
    <3>1. o \in Objects /\ LinesOf(o) \in [Cameras -> SUBSET Picture]
      BY <1>1, <1>2, <2>1 DEF Picture
    <3>2. bodyCaches'[o] = [LinesOf(o) EXCEPT ![p.from] = @ \union {p}]
      BY <1>3, <2>1 DEF Extended
    <3>3. CASE camera = p.from
      BY <2>1, <3>1, <3>2, <3>3
    <3>4. CASE camera # p.from
      BY <2>1, <3>1, <3>2, <3>4
    <3> QED
      BY <3>3, <3>4
  <2>2. CASE o # p.object
    BY <1>3, <2>2 DEF LinesOf
  <2> QED
    BY <2>1, <2>2
<1>5. Cached \subseteq Cached'
  BY <1>3, <1>4 DEF Cached, LinesOf
<1>6. Cached' \subseteq Cached \union {p}
  BY <1>3, <1>4 DEF Cached, LinesOf, NoLines
<1> QED
  BY <1>1, <1>3, <1>4, <1>5, <1>6 DEF p

\* The entry an unknown camera leaves holds nothing, and readies no object.
LEMMA AddInvalidFacts ==
    ASSUME TypeOK, NEW t \in Threads, AddInvalid(t)
    PROVE  Cached' = Cached /\ Ready' = Ready
<1>1. /\ DOMAIN bodyCaches \subseteq DOMAIN bodyCaches'
      /\ \A o \in DOMAIN bodyCaches : bodyCaches'[o] = bodyCaches[o]
      /\ \A o \in DOMAIN bodyCaches' \ DOMAIN bodyCaches : bodyCaches'[o] = NoLines
      /\ faceCaches' = faceCaches
  BY DEF AddInvalid, LinesOf
<1>2. Cached' = Cached
  BY <1>1 DEF Cached, NoLines
<1>3. 0 \in Cameras
  BY CacheLinesAssumption DEF Cameras
<1>4. Ready' \subseteq Ready
  BY <1>1, <1>3 DEF Ready, Candidates, NoLines, Enough
<1>5. Ready \subseteq Ready'
  BY <1>1 DEF Ready, Candidates, Enough
<1> QED
  BY <1>2, <1>4, <1>5

\* Taking a preview removes the objects it shows, so none is ready any more,
\* and what it shows comes from the caches but is no longer in them.
LEMMA ProcessFacts ==
    ASSUME TypeOK, KeptInv, NEW t \in Threads, ProcessReady(t)
    PROVE  /\ Cached' \subseteq Cached
           /\ Ready' = {}
           /\ pvs'[t] \in Preview
           /\ ShownIn(pvs'[t]) \subseteq Cached
           /\ ShownIn(pvs'[t]) \intersect Cached' = {}
<1>1. PICK first \in Ready, beside \in SUBSET (Candidates \ Ready) :
        /\ pvs' = [pvs EXCEPT ![t] = [face   |-> faceCaches[first],
                                      firsts |-> Firsts(first),
                                      blocks |-> BlocksOf(Ready)]]
        /\ faceCaches' = EntriesOf(faceCaches,
                                   DOMAIN faceCaches \ (Ready \union beside))
        /\ bodyCaches' = EntriesOf(bodyCaches,
                                   DOMAIN bodyCaches \ (Ready \union beside))
  BY DEF ProcessReady, Erased
<1>2. /\ DOMAIN faceCaches' \subseteq DOMAIN faceCaches \ Ready
      /\ DOMAIN bodyCaches' \subseteq DOMAIN bodyCaches \ Ready
      /\ \A o \in DOMAIN faceCaches' : faceCaches'[o] = faceCaches[o]
      /\ \A o \in DOMAIN bodyCaches' : bodyCaches'[o] = bodyCaches[o]
  BY <1>1 DEF EntriesOf
<1>3. Cached' \subseteq Cached
  BY <1>2 DEF Cached
<1>4. Ready' = {}
  BY <1>2 DEF Ready, Candidates, Enough
<1>5. \A o \in Ready :
        /\ o \in DOMAIN faceCaches /\ o \in DOMAIN bodyCaches
        /\ faceCaches[o] \in Picture /\ faceCaches[o].object = o
        /\ Firsts(o) \in [Cameras -> Picture]
        /\ \A camera \in Cameras :
             /\ Firsts(o)[camera] \in bodyCaches[o][camera]
             /\ bodyCaches[o][camera] \subseteq Picture
             /\ \A p \in bodyCaches[o][camera] : p.object = o
  <2> SUFFICES ASSUME NEW o \in Ready
               PROVE  /\ o \in DOMAIN faceCaches /\ o \in DOMAIN bodyCaches
                      /\ faceCaches[o] \in Picture /\ faceCaches[o].object = o
                      /\ Firsts(o) \in [Cameras -> Picture]
                      /\ \A camera \in Cameras :
                           /\ Firsts(o)[camera] \in bodyCaches[o][camera]
                           /\ bodyCaches[o][camera] \subseteq Picture
                           /\ \A p \in bodyCaches[o][camera] : p.object = o
    OBVIOUS
  <2>1. /\ o \in DOMAIN faceCaches /\ o \in DOMAIN bodyCaches
        /\ \A camera \in Cameras : bodyCaches[o][camera] # {}
    BY DEF Ready, Candidates
  <2>2. faceCaches[o] \in Picture /\ faceCaches[o].object = o
    BY <2>1 DEF TypeOK, KeptInv
  <2>3. \A camera \in Cameras :
          /\ bodyCaches[o][camera] \subseteq Picture
          /\ \A p \in bodyCaches[o][camera] : p.object = o
    BY <2>1 DEF TypeOK, KeptInv
  <2>4. \A camera \in Cameras : First(bodyCaches[o][camera]) \in bodyCaches[o][camera]
    BY <2>1, <2>3, FirstInLine
  <2>5. /\ Firsts(o) \in [Cameras -> Picture]
        /\ \A camera \in Cameras : Firsts(o)[camera] \in bodyCaches[o][camera]
    BY <2>3, <2>4 DEF Firsts
  <2> QED
    BY <2>1, <2>2, <2>3, <2>5
<1>6. \A b \in BlocksOf(Ready) : \E o \in Ready, camera \in Cameras :
        /\ b.face = faceCaches[o]
        /\ b.firsts = Firsts(o)
        /\ b.tracks \subseteq bodyCaches[o][camera]
        /\ b = [face |-> b.face, firsts |-> b.firsts, tracks |-> b.tracks]
  <2> SUFFICES ASSUME NEW b \in BlocksOf(Ready)
               PROVE  \E o \in Ready, camera \in Cameras :
                        /\ b.face = faceCaches[o]
                        /\ b.firsts = Firsts(o)
                        /\ b.tracks \subseteq bodyCaches[o][camera]
                        /\ b = [face |-> b.face, firsts |-> b.firsts,
                                tracks |-> b.tracks]
    OBVIOUS
  <2>1. PICK o \in Ready, camera \in Cameras :
          b = [face |-> faceCaches[o], firsts |-> Firsts(o),
               tracks |-> Earliest(bodyCaches[o][camera])]
    BY Zenon DEF BlocksOf
  <2>2. Earliest(bodyCaches[o][camera]) \subseteq bodyCaches[o][camera]
    BY DEF Earliest
  <2> QED
    BY <2>1, <2>2
<1>7. BlocksOf(Ready) \subseteq Block
  <2> SUFFICES ASSUME NEW b \in BlocksOf(Ready) PROVE b \in Block
    OBVIOUS
  <2>1. PICK o \in Ready, camera \in Cameras :
          /\ b.face = faceCaches[o]
          /\ b.firsts = Firsts(o)
          /\ b.tracks \subseteq bodyCaches[o][camera]
          /\ b = [face |-> b.face, firsts |-> b.firsts, tracks |-> b.tracks]
    BY <1>6
  <2>2. /\ b.face \in Picture /\ b.firsts \in [Cameras -> Picture]
        /\ b.tracks \in SUBSET Picture
    BY <1>5, <2>1
  <2> QED
    BY <2>1, <2>2 DEF Block
<1>8. pvs'[t] = [face   |-> faceCaches[first], firsts |-> Firsts(first),
                 blocks |-> BlocksOf(Ready)]
  BY <1>1 DEF TypeOK
<1>9. pvs'[t] \in Preview
  <2>1. faceCaches[first] \in Picture /\ Firsts(first) \in [Cameras -> Picture]
    BY <1>5
  <2> QED
    BY <1>7, <1>8, <2>1 DEF Preview
<1>10. \A p \in ShownIn(pvs'[t]) : \E o \in Ready :
         \/ p = faceCaches[o]
         \/ \E camera \in Cameras : p \in bodyCaches[o][camera]
  <2> SUFFICES ASSUME NEW b \in BlocksOf(Ready),
                      NEW p \in {b.face} \union Range(b.firsts) \union b.tracks
               PROVE  \E o \in Ready :
                        \/ p = faceCaches[o]
                        \/ \E camera \in Cameras : p \in bodyCaches[o][camera]
    BY <1>8 DEF ShownIn
  <2>1. PICK o \in Ready, camera \in Cameras :
          /\ b.face = faceCaches[o]
          /\ b.firsts = Firsts(o)
          /\ b.tracks \subseteq bodyCaches[o][camera]
    BY <1>6
  <2>2. \A q \in Range(b.firsts) : \E c \in Cameras : q \in bodyCaches[o][c]
    BY <1>5, <2>1 DEF Range
  <2> QED
    BY <2>1, <2>2
<1>11. \A p \in ShownIn(pvs'[t]) : p \in Cached /\ p.object \in Ready
  <2> SUFFICES ASSUME NEW p \in ShownIn(pvs'[t])
               PROVE  p \in Cached /\ p.object \in Ready
    OBVIOUS
  <2>1. PICK o \in Ready :
          \/ p = faceCaches[o]
          \/ \E camera \in Cameras : p \in bodyCaches[o][camera]
    BY <1>10
  <2>2. /\ o \in DOMAIN faceCaches /\ o \in DOMAIN bodyCaches
        /\ faceCaches[o].object = o
        /\ \A camera \in Cameras : \A q \in bodyCaches[o][camera] : q.object = o
    BY <1>5
  <2>3. p.object = o
    BY <2>1, <2>2
  <2> QED
    BY <2>1, <2>2, <2>3 DEF Cached
<1>12. \A p \in Cached' : p.object \notin Ready
  BY <1>2 DEF Cached, KeptInv
<1> QED
  BY <1>3, <1>4, <1>9, <1>11, <1>12

-----------------------------------------------------------------------------
(* Every step preserves the invariant. *)

\* A step of a thread that leaves the caches and the previews alone.
CachesKept == UNCHANGED <<faceCaches, bodyCaches, pvs, previews>>

\* What such a step leaves as it is: the pictures cached, the objects ready.
LEMMA CachesKeptFacts ==
    ASSUME CachesKept
    PROVE  Cached' = Cached /\ Ready' = Ready
BY DEF CachesKept, Cached, Ready, Candidates, Enough

\* The invariant holds before any picture has arrived.
LEMMA InitialInv == Init => CacheInv
<1> SUFFICES ASSUME Init PROVE CacheInv
  OBVIOUS
<1>1. /\ DOMAIN faceCaches = {} /\ DOMAIN bodyCaches = {}
      /\ previews = <<>> /\ Len(previews) = 0
      /\ \A t \in Threads : pc[t] = "idle" /\ pvs[t] = Nothing
  BY DEF Init
<1>2. Cached = {} /\ Made = {} /\ Ready = {}
  BY <1>1 DEF Cached, Made, Range, Ready, Candidates
<1>3. TypeOK
  <2>1. previews \in Seq(Preview)
    BY <1>1
  <2>2. /\ pc \in [Threads -> {"idle", "cleanup", "add", "process", "create"}]
        /\ adding \in [Threads -> Parsed \union {Nothing}]
        /\ pvs \in [Threads -> Preview \union {Nothing}]
        /\ now \in Nat /\ added \in Nat
    BY DEF Init
  <2> QED
    BY <1>1, <2>1, <2>2 DEF TypeOK
<1>4. KeptInv
  BY <1>1, <1>2 DEF KeptInv
<1>5. NoneLeftReady
  BY <1>2 DEF NoneLeftReady
<1>6. NoPictureTwice
  BY <1>1 DEF NoPictureTwice
<1> QED
  BY <1>3, <1>4, <1>5, <1>6 DEF CacheInv

\* The thread variables keep their types when a picture has been added.
LEMMA AddedTypes ==
    ASSUME TypeOK, NEW t \in Threads, pc[t] = "add",
           added' = added + 1, adding' = [adding EXCEPT ![t] = Nothing],
           NEW next \in {"process", "idle"}, pc' = [pc EXCEPT ![t] = next],
           UNCHANGED <<now, pvs, previews>>,
           DOMAIN faceCaches' \subseteq Objects,
           \A o \in DOMAIN faceCaches' : faceCaches'[o] \in Picture,
           DOMAIN bodyCaches' \subseteq Objects,
           \A o \in DOMAIN bodyCaches' :
               bodyCaches'[o] \in [Cameras -> SUBSET Picture]
    PROVE  TypeOK'
<1>1. /\ now' \in Nat /\ added' \in Nat
      /\ pc' \in [Threads -> {"idle", "cleanup", "add", "process", "create"}]
      /\ adding' \in [Threads -> Parsed \union {Nothing}]
      /\ pvs' \in [Threads -> Preview \union {Nothing}]
      /\ previews' \in Seq(Preview)
  BY DEF TypeOK
<1>2. \A s \in Threads : pc'[s] \in {"cleanup", "add"} => adding'[s] \in Parsed
  BY DEF TypeOK
<1>3. \A s \in Threads : IF pc'[s] = "create" THEN pvs'[s] \in Preview
                                               ELSE pvs'[s] = Nothing
  BY DEF TypeOK
<1> QED
  BY <1>1, <1>2, <1>3 DEF TypeOK

\* Every step keeps every variable to its type.
LEMMA TypeStep ==
    ASSUME TypeOK, KeptInv, [Next]_vars
    PROVE  TypeOK'
<1>1. CASE UNCHANGED vars
  BY <1>1 DEF TypeOK, vars
<1>2. CASE \E t \in Threads, o \in Objects, from \in Cameras \union {Face, Invalid} :
              Post(t, o, from)
  BY <1>2 DEF TypeOK, Post, Parsed
<1>3. ASSUME NEW t \in Threads, Cleanup(t) PROVE TypeOK'
  <2>1. PICK clock \in adding[t].time .. now :
          /\ bodyCaches' = EntriesOf(
                [o \in DOMAIN bodyCaches |-> [camera \in Cameras |->
                    {p \in bodyCaches[o][camera] : ~IsExpired(p, clock)}]],
                {o \in DOMAIN bodyCaches :
                    [camera \in Cameras |->
                       {p \in bodyCaches[o][camera] : ~IsExpired(p, clock)}]
                    # NoLines})
          /\ faceCaches' = EntriesOf(faceCaches,
                {o \in DOMAIN faceCaches : ~IsExpired(faceCaches[o], clock)})
    BY <1>3 DEF Cleanup
  <2>2. /\ DOMAIN faceCaches' \subseteq DOMAIN faceCaches
        /\ \A o \in DOMAIN faceCaches' : faceCaches'[o] = faceCaches[o]
    BY <2>1 DEF EntriesOf
  <2>3. /\ DOMAIN bodyCaches' \subseteq DOMAIN bodyCaches
        /\ \A o \in DOMAIN bodyCaches' : bodyCaches'[o] =
             [camera \in Cameras |->
                {p \in bodyCaches[o][camera] : ~IsExpired(p, clock)}]
    BY <2>1 DEF EntriesOf
  <2>4. \A o \in DOMAIN bodyCaches' :
          bodyCaches'[o] \in [Cameras -> SUBSET Picture]
    BY <2>3 DEF TypeOK
  <2> QED
    BY <1>3, <2>2, <2>3, <2>4 DEF TypeOK, Cleanup
<1>4. ASSUME NEW t \in Threads, AddFace(t) PROVE TypeOK'
  <2>1. Arriving(t) \in Picture
    BY <1>4, AddFaceFacts
  <2>2. /\ DOMAIN faceCaches' \subseteq Objects
        /\ \A o \in DOMAIN faceCaches' : faceCaches'[o] \in Picture
    BY <1>4, <2>1 DEF AddFace, TypeOK, Picture
  <2> QED
    BY <1>4, <2>2, AddedTypes DEF TypeOK, AddFace, AfterAdding
<1>5. ASSUME NEW t \in Threads, AddBody(t) PROVE TypeOK'
  <2>1. Arriving(t) \in Picture
    BY <1>5, AddBodyFacts
  <2>2. \A o \in Objects : LinesOf(o) \in [Cameras -> SUBSET Picture]
    BY DEF LinesOf, NoLines, TypeOK
  <2>3. \A o \in Objects : Extended(LinesOf(o), Arriving(t).from, Arriving(t))
                             \in [Cameras -> SUBSET Picture]
    BY <2>1, <2>2 DEF Extended
  <2>4. /\ DOMAIN bodyCaches' \subseteq Objects
        /\ \A o \in DOMAIN bodyCaches' :
             bodyCaches'[o] \in [Cameras -> SUBSET Picture]
    BY <1>5, <2>1, <2>3 DEF AddBody, TypeOK, Picture
  <2> QED
    BY <1>5, <2>4, AddedTypes DEF TypeOK, AddBody, AfterAdding
<1>6. ASSUME NEW t \in Threads, AddInvalid(t) PROVE TypeOK'
  <2>1. adding[t].object \in Objects
    BY <1>6 DEF TypeOK, AddInvalid, Parsed
  <2>2. /\ DOMAIN bodyCaches' \subseteq Objects
        /\ \A o \in DOMAIN bodyCaches' :
             bodyCaches'[o] \in [Cameras -> SUBSET Picture]
    BY <1>6, <2>1 DEF AddInvalid, LinesOf, NoLines, TypeOK
  <2> QED
    BY <1>6, <2>2, AddedTypes DEF TypeOK, AddInvalid
<1>7. ASSUME NEW t \in Threads, ProcessNone(t) PROVE TypeOK'
  BY <1>7 DEF TypeOK, ProcessNone
<1>8. ASSUME NEW t \in Threads, ProcessReady(t) PROVE TypeOK'
  <2>1. pvs'[t] \in Preview
    BY <1>8, ProcessFacts
  <2>2. /\ DOMAIN faceCaches' \subseteq DOMAIN faceCaches
        /\ \A o \in DOMAIN faceCaches' : faceCaches'[o] = faceCaches[o]
        /\ DOMAIN bodyCaches' \subseteq DOMAIN bodyCaches
        /\ \A o \in DOMAIN bodyCaches' : bodyCaches'[o] = bodyCaches[o]
    BY <1>8 DEF ProcessReady, EntriesOf
  <2>3. \E v : pvs' = [pvs EXCEPT ![t] = v]
    BY <1>8 DEF ProcessReady
  <2>4. /\ pvs' \in [Threads -> Preview \union {Nothing}]
        /\ \A s \in Threads \ {t} : pvs'[s] = pvs[s]
    BY <2>1, <2>3 DEF TypeOK
  <2> QED
    BY <1>8, <2>1, <2>2, <2>4 DEF TypeOK, ProcessReady, AfterTaking
<1>9. ASSUME NEW t \in Threads, Create(t) PROVE TypeOK'
  <2>1. pvs[t] \in Preview /\ previews \in Seq(Preview)
    BY <1>9 DEF TypeOK, Create
  <2>2. previews' \in Seq(Preview)
    BY <1>9, <2>1, AppendProperties DEF Create
  <2> QED
    BY <1>9, <2>2 DEF TypeOK, Create
<1>10. CASE Tick
  BY <1>10 DEF TypeOK, Tick
<1> QED
  BY <1>1, <1>2, <1>3, <1>4, <1>5, <1>6, <1>7, <1>8, <1>9, <1>10
     DEF Next, AddPicture, Quiet

\* Steps that neither take nor create a preview leave the previews as they are,
\* and show no picture again if what they add to the caches is shown in none.
LEMMA PreviewsKept ==
    ASSUME UNCHANGED <<pvs, previews>>,
           \A s \in Threads : pc'[s] = "create" <=> pc[s] = "create"
    PROVE  Made' = Made
BY DEF Made, Range

\* While the previews stay, pictures new to the caches and shown in no preview
\* do not make a picture kept and shown.
LEMMA TwiceKept ==
    ASSUME NoPictureTwice, UNCHANGED <<pvs, previews>>,
           \A s \in Threads : pc'[s] = "create" <=> pc[s] = "create",
           \A v \in Made : \A p \in ShownIn(v) : p \in Cached' => p \in Cached
    PROVE  NoPictureTwice'
<1>1. /\ \A i \in 1 .. Len(previews) : previews[i] \in Made
      /\ \A t \in Threads : pc[t] = "create" => pvs[t] \in Made
  BY DEF Made, Range
<1>2. \A t \in Threads : pc[t] = "create" => ShownIn(pvs[t]) \intersect Cached' = {}
  BY <1>1 DEF NoPictureTwice
<1>3. \A i \in 1 .. Len(previews) : ShownIn(previews[i]) \intersect Cached' = {}
  BY <1>1 DEF NoPictureTwice
<1> QED
  BY <1>2, <1>3 DEF NoPictureTwice, ShownIn

\* The number of an arriving picture is that of no picture kept or shown.
LEMMA NewArrival ==
    ASSUME TypeOK, KeptInv, NEW p, p.arrival = added + 1, added' = added + 1,
           Cached' \subseteq Cached \union {p}, Made' = Made
    PROVE  /\ \A q \in Cached' : q.arrival <= added'
           /\ \A v \in Made' : \A q \in ShownIn(v) : q.arrival <= added'
           /\ \A v \in Made : ShownIn(v) \intersect {p} = {}
<1>1. added \in Nat
  BY DEF TypeOK
<1>2. \A q \in Cached : q.arrival \in Nat /\ q.arrival <= added
  BY DEF Cached, TypeOK, KeptInv, Picture
<1>3. \A v \in Made : v \in Preview
  BY DEF Made, TypeOK, Range
<1>4. \A v \in Made : \A q \in ShownIn(v) : q \in Picture
  BY <1>3 DEF ShownIn, Preview, Block, Range
<1>5. \A v \in Made : \A q \in ShownIn(v) : q.arrival \in Nat /\ q.arrival <= added
  BY <1>4 DEF KeptInv, Picture
<1> HIDE DEF Cached, Made, ShownIn
<1> QED
  BY <1>1, <1>2, <1>5

\* Every step keeps pictures under their keys, and in one place only.
LEMMA KeptAndTwiceStep ==
    ASSUME TypeOK, KeptInv, NoPictureTwice, [Next]_vars
    PROVE  KeptInv' /\ NoPictureTwice'
<1>1. ASSUME CachesKept, added' = added,
             \A s \in Threads : pc'[s] = "create" <=> pc[s] = "create"
      PROVE  KeptInv' /\ NoPictureTwice'
  <2>1. Cached' = Cached
    BY <1>1, CachesKeptFacts
  <2>2. Made' = Made
    BY <1>1, PreviewsKept DEF CachesKept
  <2>3. KeptInv'
    BY <1>1, <2>1, <2>2 DEF KeptInv, CachesKept
  <2>4. NoPictureTwice'
    BY <1>1, <2>1, TwiceKept DEF CachesKept
  <2> QED
    BY <2>3, <2>4
<1>2. CASE UNCHANGED vars
  BY <1>2, <1>1 DEF vars, CachesKept
<1>3. CASE \E t \in Threads, o \in Objects, from \in Cameras \union {Face, Invalid} :
              Post(t, o, from)
  BY <1>1, <1>3 DEF Post, CachesKept, TypeOK
<1>4. ASSUME NEW t \in Threads, Cleanup(t) PROVE KeptInv' /\ NoPictureTwice'
  <2>1. Cached' \subseteq Cached
    BY <1>4, CleanupFacts
  <2>2. /\ UNCHANGED <<pvs, previews, added>>
        /\ \A s \in Threads : pc'[s] = "create" <=> pc[s] = "create"
    BY <1>4 DEF Cleanup, TypeOK
  <2>3. Made' = Made
    BY <2>2, PreviewsKept
  <2>4. /\ \A o \in DOMAIN faceCaches' :
             o \in DOMAIN faceCaches /\ faceCaches'[o] = faceCaches[o]
        /\ \A o \in DOMAIN bodyCaches' : o \in DOMAIN bodyCaches /\
             \A camera \in Cameras :
               bodyCaches'[o][camera] \in SUBSET bodyCaches[o][camera]
    BY <1>4 DEF Cleanup, EntriesOf
  <2>5. \A o \in DOMAIN bodyCaches', camera \in Cameras :
          IsFiniteSet(bodyCaches'[o][camera])
    BY <2>4, FS_Subset DEF KeptInv
  <2>6. KeptInv'
    <3>1. \A o \in DOMAIN faceCaches' :
            faceCaches'[o].object = o /\ faceCaches'[o].from = Face
      BY <2>4 DEF KeptInv
    <3>2. \A o \in DOMAIN bodyCaches', camera \in Cameras :
            \A p \in bodyCaches'[o][camera] : p.object = o /\ p.from = camera
      <4> SUFFICES ASSUME NEW o \in DOMAIN bodyCaches', NEW camera \in Cameras,
                          NEW p \in bodyCaches'[o][camera]
                   PROVE  p.object = o /\ p.from = camera
        OBVIOUS
      <4>1. o \in DOMAIN bodyCaches /\ p \in bodyCaches[o][camera]
        BY <2>4
      <4> QED
        BY <4>1 DEF KeptInv
    <3>3. /\ \A p \in Cached' : p.arrival <= added'
          /\ \A v \in Made' : \A p \in ShownIn(v) : p.arrival <= added'
      BY <2>1, <2>2, <2>3 DEF KeptInv
    <3> QED
      BY <2>5, <3>1, <3>2, <3>3 DEF KeptInv
  <2>7. NoPictureTwice'
    BY <2>1, <2>2, TwiceKept
  <2> QED
    BY <2>6, <2>7
<1>5. ASSUME NEW t \in Threads, AddFace(t) PROVE KeptInv' /\ NoPictureTwice'
  <2>1. /\ Cached' \subseteq Cached \union {Arriving(t)}
        /\ Arriving(t).from = Face /\ Arriving(t).arrival = added + 1
    BY <1>5, AddFaceFacts
  <2>2. /\ UNCHANGED <<pvs, previews, bodyCaches>>
        /\ added' = added + 1 /\ added \in Nat
        /\ \A s \in Threads : pc'[s] = "create" <=> pc[s] = "create"
    BY <1>5 DEF AddFace, AfterAdding, TypeOK
  <2>3. Made' = Made
    BY <2>2, PreviewsKept
  <2>4. \A o \in DOMAIN faceCaches' :
          faceCaches'[o].object = o /\ faceCaches'[o].from = Face
    BY <1>5, <2>1 DEF AddFace, KeptInv
  <2>5. /\ \A p \in Cached' : p.arrival <= added'
        /\ \A v \in Made' : \A p \in ShownIn(v) : p.arrival <= added'
        /\ \A v \in Made : ShownIn(v) \intersect {Arriving(t)} = {}
    BY <2>1, <2>2, <2>3, NewArrival
  <2>6. KeptInv'
    BY <2>2, <2>4, <2>5 DEF KeptInv
  <2>7. NoPictureTwice'
    BY <2>1, <2>2, <2>5, TwiceKept
  <2> QED
    BY <2>6, <2>7
<1>6. ASSUME NEW t \in Threads, AddBody(t) PROVE KeptInv' /\ NoPictureTwice'
  <2>1. /\ Cached' \subseteq Cached \union {Arriving(t)}
        /\ Arriving(t).arrival = added + 1
        /\ DOMAIN bodyCaches' = DOMAIN bodyCaches \union {Arriving(t).object}
        /\ \A o \in DOMAIN bodyCaches', camera \in Cameras :
             bodyCaches'[o][camera] =
                 LinesOf(o)[camera] \union
                   {p \in {Arriving(t)} : o = p.object /\ camera = p.from}
    BY <1>6, AddBodyFacts
  <2>2. /\ UNCHANGED <<pvs, previews, faceCaches>>
        /\ added' = added + 1 /\ added \in Nat
        /\ \A s \in Threads : pc'[s] = "create" <=> pc[s] = "create"
    BY <1>6 DEF AddBody, AfterAdding, TypeOK
  <2>3. Made' = Made
    BY <2>2, PreviewsKept
  <2>4. ASSUME NEW o \in DOMAIN bodyCaches', NEW camera \in Cameras
        PROVE  /\ IsFiniteSet(bodyCaches'[o][camera])
               /\ \A p \in bodyCaches'[o][camera] : p.object = o /\ p.from = camera
    <3>1. /\ IsFiniteSet(LinesOf(o)[camera])
          /\ \A p \in LinesOf(o)[camera] : p.object = o /\ p.from = camera
      BY FS_EmptySet DEF LinesOf, NoLines, KeptInv
    <3>2. \/ bodyCaches'[o][camera] = LinesOf(o)[camera]
          \/ /\ bodyCaches'[o][camera] = LinesOf(o)[camera] \union {Arriving(t)}
             /\ o = Arriving(t).object /\ camera = Arriving(t).from
      <4> DEFINE these == {p \in {Arriving(t)} : o = p.object /\ camera = p.from}
      <4>1. bodyCaches'[o][camera] = LinesOf(o)[camera] \union these
        BY <2>1
      <4>2. \/ these = {}
            \/ /\ these = {Arriving(t)}
               /\ o = Arriving(t).object /\ camera = Arriving(t).from
        OBVIOUS
      <4> HIDE DEF these
      <4> QED
        BY <4>1, <4>2
    <3> QED
      BY <3>1, <3>2, FS_AddElement
  <2>5. /\ \A p \in Cached' : p.arrival <= added'
        /\ \A v \in Made' : \A p \in ShownIn(v) : p.arrival <= added'
        /\ \A v \in Made : ShownIn(v) \intersect {Arriving(t)} = {}
    BY <2>1, <2>2, <2>3, NewArrival
  <2>6. KeptInv'
    BY <2>2, <2>4, <2>5 DEF KeptInv
  <2>7. NoPictureTwice'
    BY <2>1, <2>2, <2>5, TwiceKept
  <2> QED
    BY <2>6, <2>7
<1>7. ASSUME NEW t \in Threads, AddInvalid(t) PROVE KeptInv' /\ NoPictureTwice'
  <2>1. Cached' = Cached
    BY <1>7, AddInvalidFacts
  <2>2. /\ UNCHANGED <<pvs, previews, faceCaches>>
        /\ added' = added + 1 /\ added \in Nat
        /\ \A s \in Threads : pc'[s] = "create" <=> pc[s] = "create"
    BY <1>7 DEF AddInvalid, TypeOK
  <2>3. Made' = Made
    BY <2>2, PreviewsKept
  <2>4. \A o \in DOMAIN bodyCaches' :
          \/ bodyCaches'[o] = NoLines
          \/ /\ o \in DOMAIN bodyCaches
             /\ bodyCaches'[o] = bodyCaches[o]
    BY <1>7 DEF AddInvalid, LinesOf
  <2>5. \A o \in DOMAIN bodyCaches', camera \in Cameras :
          /\ IsFiniteSet(bodyCaches'[o][camera])
          /\ \A p \in bodyCaches'[o][camera] : p.object = o /\ p.from = camera
    <3> SUFFICES ASSUME NEW o \in DOMAIN bodyCaches', NEW camera \in Cameras
                 PROVE  /\ IsFiniteSet(bodyCaches'[o][camera])
                        /\ \A p \in bodyCaches'[o][camera] :
                             p.object = o /\ p.from = camera
      OBVIOUS
    <3>1. CASE bodyCaches'[o] = NoLines
      BY <3>1, FS_EmptySet DEF NoLines
    <3>2. CASE o \in DOMAIN bodyCaches /\ bodyCaches'[o] = bodyCaches[o]
      BY <3>2 DEF KeptInv
    <3> QED
      BY <2>4, <3>1, <3>2
  <2>6. /\ \A p \in Cached' : p.arrival <= added'
        /\ \A v \in Made' : \A p \in ShownIn(v) : p.arrival <= added'
    <3> DEFINE p == [arrival |-> added + 1]
    <3>1. p.arrival = added + 1
      OBVIOUS
    <3> HIDE DEF p
    <3> QED
      BY <2>1, <2>2, <2>3, <3>1, NewArrival
  <2>7. KeptInv'
    BY <2>2, <2>5, <2>6 DEF KeptInv
  <2>8. NoPictureTwice'
    BY <2>1, <2>2, TwiceKept
  <2> QED
    BY <2>7, <2>8
<1>8. ASSUME NEW t \in Threads, ProcessNone(t) PROVE KeptInv' /\ NoPictureTwice'
  BY <1>1, <1>8 DEF ProcessNone, CachesKept, TypeOK
<1>9. ASSUME NEW t \in Threads, ProcessReady(t) PROVE KeptInv' /\ NoPictureTwice'
  <2>1. /\ Cached' \subseteq Cached
        /\ ShownIn(pvs'[t]) \subseteq Cached
        /\ ShownIn(pvs'[t]) \intersect Cached' = {}
    BY <1>9, ProcessFacts
  <2>2. /\ UNCHANGED <<previews, added>>
        /\ pc[t] = "process" /\ pc'[t] = "create"
        /\ \A s \in Threads \ {t} : pvs'[s] = pvs[s] /\ pc'[s] = pc[s]
    BY <1>9 DEF ProcessReady, AfterTaking, TypeOK
  <2>3. Made' \subseteq Made \union {pvs'[t]}
    BY <2>2 DEF Made, Range
  <2>4. /\ \A o \in DOMAIN faceCaches' :
             o \in DOMAIN faceCaches /\ faceCaches'[o] = faceCaches[o]
        /\ \A o \in DOMAIN bodyCaches' :
             o \in DOMAIN bodyCaches /\ bodyCaches'[o] = bodyCaches[o]
    BY <1>9 DEF ProcessReady, EntriesOf
  <2>5. KeptInv'
    BY <2>1, <2>2, <2>3, <2>4 DEF KeptInv
  <2>6. \A v \in Made : ShownIn(v) \intersect Cached = {}
    BY DEF NoPictureTwice, Made, Range
  <2>7. \A v \in Made : /\ ShownIn(v) \intersect Cached' = {}
                        /\ ShownIn(v) \intersect ShownIn(pvs'[t]) = {}
    BY <2>1, <2>6
  <2>8. /\ \A i \in 1 .. Len(previews) : previews[i] \in Made
        /\ \A s \in Threads : pc[s] = "create" => pvs[s] \in Made
    BY DEF Made, Range
  <2>9. NoPictureTwice'
    <3>1. ASSUME NEW s \in Threads, pc'[s] = "create"
          PROVE  /\ ShownIn(pvs'[s]) \intersect Cached' = {}
                 /\ \A u \in Threads \ {s} : pc'[u] = "create" =>
                      ShownIn(pvs'[s]) \intersect ShownIn(pvs'[u]) = {}
                 /\ \A i \in 1 .. Len(previews) :
                      ShownIn(pvs'[s]) \intersect ShownIn(previews[i]) = {}
      BY <2>1, <2>2, <2>7, <2>8, <3>1 DEF NoPictureTwice
    <3>2. \A i \in 1 .. Len(previews) :
            ShownIn(previews[i]) \intersect Cached' = {}
      BY <2>7, <2>8
    <3> QED
      BY <2>2, <3>1, <3>2 DEF NoPictureTwice, ShownIn
  <2> QED
    BY <2>5, <2>9
<1>10. ASSUME NEW t \in Threads, Create(t) PROVE KeptInv' /\ NoPictureTwice'
  <2>1. /\ UNCHANGED <<faceCaches, bodyCaches, added>>
        /\ pc[t] = "create" /\ pc'[t] = "idle"
        /\ previews' = Append(previews, pvs[t])
        /\ \A s \in Threads \ {t} : pvs'[s] = pvs[s] /\ pc'[s] = pc[s]
    BY <1>10 DEF Create, TypeOK
  <2>2. /\ Len(previews') = Len(previews) + 1 /\ Len(previews) \in Nat
        /\ \A i \in 1 .. Len(previews) : previews'[i] = previews[i]
        /\ previews'[Len(previews) + 1] = pvs[t]
    BY <2>1, AppendProperties, LenProperties DEF TypeOK
  <2>3. Cached' = Cached
    BY <2>1 DEF Cached
  <2>4. Made' \subseteq Made
    <3>1. /\ DOMAIN previews' = 1 .. Len(previews) + 1
          /\ DOMAIN previews = 1 .. Len(previews)
      BY <2>1, <2>2, AppendProperties, LenProperties DEF TypeOK
    <3> QED
      BY <2>1, <2>2, <3>1 DEF Made, Range
  <2>5. KeptInv'
    BY <2>1, <2>3, <2>4 DEF KeptInv
  <2>6. \A i \in 1 .. Len(previews') :
          \/ i \in 1 .. Len(previews) /\ previews'[i] = previews[i]
          \/ i = Len(previews) + 1 /\ previews'[i] = pvs[t]
    BY <2>2
  <2>7. ASSUME NEW s \in Threads, pc'[s] = "create"
        PROVE  /\ ShownIn(pvs'[s]) \intersect Cached' = {}
               /\ \A u \in Threads \ {s} : pc'[u] = "create" =>
                    ShownIn(pvs'[s]) \intersect ShownIn(pvs'[u]) = {}
               /\ \A i \in 1 .. Len(previews') :
                    ShownIn(pvs'[s]) \intersect ShownIn(previews'[i]) = {}
    <3>1. s # t /\ pvs'[s] = pvs[s] /\ pc[s] = "create"
      BY <2>1, <2>7
    <3> QED
      BY <2>1, <2>3, <2>6, <3>1 DEF NoPictureTwice
  <2>8. ASSUME NEW i \in 1 .. Len(previews')
        PROVE  /\ ShownIn(previews'[i]) \intersect Cached' = {}
               /\ \A j \in 1 .. Len(previews') \ {i} :
                    ShownIn(previews'[i]) \intersect ShownIn(previews'[j]) = {}
    <3> QED
      BY <2>1, <2>3, <2>6, <2>8 DEF NoPictureTwice
  <2>9. NoPictureTwice'
    BY <2>7, <2>8 DEF NoPictureTwice, ShownIn
  <2> QED
    BY <2>5, <2>9
<1>11. CASE Tick
  BY <1>1, <1>11 DEF Tick, CachesKept
<1> QED
  BY <1>2, <1>3, <1>4, <1>5, <1>6, <1>7, <1>8, <1>9, <1>10, <1>11
     DEF Next, AddPicture, Quiet

\* An object becomes ready only in a step after which its thread will process;
\* when a thread has processed, no object is ready.
LEMMA ReadyStep ==
    ASSUME TypeOK, KeptInv, NoneLeftReady, [Next]_vars
    PROVE  NoneLeftReady'
<1>1. ASSUME CachesKept,
             \A s \in Threads : pc[s] = "process" => pc'[s] = "process"
      PROVE  NoneLeftReady'
  BY <1>1, CachesKeptFacts DEF NoneLeftReady
<1>2. CASE UNCHANGED vars
  BY <1>1, <1>2 DEF vars, CachesKept
<1>3. CASE \E t \in Threads, o \in Objects, from \in Cameras \union {Face, Invalid} :
              Post(t, o, from)
  BY <1>1, <1>3 DEF Post, CachesKept, TypeOK
<1>4. ASSUME NEW t \in Threads, Cleanup(t) PROVE NoneLeftReady'
  <2>1. Ready' \subseteq Ready
    BY <1>4, CleanupFacts
  <2>2. \A s \in Threads : pc[s] = "process" => pc'[s] = "process"
    BY <1>4 DEF Cleanup, TypeOK
  <2> QED
    BY <2>1, <2>2 DEF NoneLeftReady
<1>5. ASSUME NEW t \in Threads, AddFace(t) \/ AddBody(t) PROVE NoneLeftReady'
  <2>1. pc'[t] = "process"
    BY <1>5 DEF AddFace, AddBody, AfterAdding, TypeOK
  <2> QED
    BY <2>1 DEF NoneLeftReady
<1>6. ASSUME NEW t \in Threads, AddInvalid(t) PROVE NoneLeftReady'
  <2>1. Ready' = Ready
    BY <1>6, AddInvalidFacts
  <2>2. \A s \in Threads : pc[s] = "process" => pc'[s] = "process"
    BY <1>6 DEF AddInvalid, TypeOK
  <2> QED
    BY <2>1, <2>2 DEF NoneLeftReady
<1>7. ASSUME NEW t \in Threads, ProcessNone(t) PROVE NoneLeftReady'
  <2>1. Ready' = Ready /\ Ready = {}
    BY <1>7, CachesKeptFacts DEF ProcessNone, CachesKept
  <2> QED
    BY <2>1 DEF NoneLeftReady
<1>8. ASSUME NEW t \in Threads, ProcessReady(t) PROVE NoneLeftReady'
  BY <1>8, ProcessFacts DEF NoneLeftReady
<1>9. ASSUME NEW t \in Threads, Create(t) PROVE NoneLeftReady'
  <2>1. Ready' = Ready
    BY <1>9 DEF Create, Ready, Candidates, Enough
  <2>2. \A s \in Threads : pc[s] = "process" => pc'[s] = "process"
    BY <1>9 DEF Create, TypeOK
  <2> QED
    BY <2>1, <2>2 DEF NoneLeftReady
<1>10. CASE Tick
  BY <1>1, <1>10 DEF Tick, CachesKept
<1> QED
  BY <1>2, <1>3, <1>4, <1>5, <1>6, <1>7, <1>8, <1>9, <1>10
     DEF Next, AddPicture, Quiet

-----------------------------------------------------------------------------
(* The theorems. *)

\* The inductive invariant holds in every state.
THEOREM CacheInvariant == Spec => []CacheInv
<1>1. CacheInv /\ [Next]_vars => CacheInv'
  BY TypeStep, KeptAndTwiceStep, ReadyStep DEF CacheInv
<1> QED
  BY <1>1, InitialInv, PTL DEF Spec

\* Every variable keeps to its type.
THEOREM CacheTypes == Spec => []TypeOK
<1>1. CacheInv => TypeOK
  BY DEF CacheInv
<1> QED
  BY <1>1, CacheInvariant, PTL

\* However the threads interleave, no ready object is left in the caches unless
\* a thread is about to process.
THEOREM ReadyIsNeverLeft == Spec => []NoneLeftReady
<1>1. CacheInv => NoneLeftReady
  BY DEF CacheInv
<1> QED
  BY <1>1, CacheInvariant, PTL

\* However the threads interleave, no picture is shown in two previews, or
\* stays in the caches when it is shown.
THEOREM PicturesShownOnce == Spec => []NoPictureTwice
<1>1. CacheInv => NoPictureTwice
  BY DEF CacheInv
<1> QED
  BY <1>1, CacheInvariant, PTL

\* What process takes away belongs to objects it goes through; and what belongs to
\* those that are ready is covered by the preview.
LEMMA TakenIsCovered ==
    ASSUME TypeOK, KeptInv, NEW t \in Threads, ProcessReady(t),
           NEW p \in Cached \ Cached'
    PROVE  /\ p.object \in Candidates
           /\ p.object \in Ready => Covers(pvs'[t], p)
<1> DEFINE o == p.object
<1>1. PICK first \in Ready, beside \in SUBSET (Candidates \ Ready) :
        /\ pvs' = [pvs EXCEPT ![t] = [face   |-> faceCaches[first],
                                      firsts |-> Firsts(first),
                                      blocks |-> BlocksOf(Ready)]]
        /\ faceCaches' = EntriesOf(faceCaches,
                                   DOMAIN faceCaches \ (Ready \union beside))
        /\ bodyCaches' = EntriesOf(bodyCaches,
                                   DOMAIN bodyCaches \ (Ready \union beside))
  BY DEF ProcessReady, Erased
<1>2. /\ \/ o \in DOMAIN faceCaches /\ p = faceCaches[o]
         \/ /\ o \in DOMAIN bodyCaches
            /\ \E camera \in Cameras : p \in bodyCaches[o][camera]
  BY DEF Cached, KeptInv
<1>3. o \in Candidates
  <2>1. Ready \subseteq Candidates
    BY DEF Ready
  <2> SUFFICES ASSUME o \notin Ready \union beside PROVE FALSE
    BY <1>1, <2>1
  <2>2. CASE o \in DOMAIN faceCaches /\ p = faceCaches[o]
    <3>1. o \in DOMAIN faceCaches' /\ faceCaches'[o] = p
      BY <1>1, <2>2 DEF EntriesOf
    <3> QED
      BY <3>1 DEF Cached
  <2>3. CASE o \in DOMAIN bodyCaches /\ \E camera \in Cameras : p \in bodyCaches[o][camera]
    <3>1. o \in DOMAIN bodyCaches' /\ bodyCaches'[o] = bodyCaches[o]
      BY <1>1, <2>3 DEF EntriesOf
    <3> QED
      BY <2>3, <3>1 DEF Cached
  <2> QED
    BY <1>2, <2>2, <2>3
<1>4. ASSUME o \in Ready PROVE Covers(pvs'[t], p)
  <2>1. PICK camera \in Cameras : Enough(bodyCaches[o][camera])
    BY <1>4 DEF Ready
  <2> DEFINE b == [face |-> faceCaches[o], firsts |-> Firsts(o),
                   tracks |-> Earliest(bodyCaches[o][camera])]
  <2>2. pvs'[t].blocks = BlocksOf(Ready)
    BY <1>1 DEF TypeOK
  <2>3. b \in BlocksOf(Ready)
    BY <1>4, <2>1 DEF BlocksOf
  <2>4. /\ faceCaches[o] \in ShownIn(pvs'[t])
        /\ Range(Firsts(o)) \subseteq ShownIn(pvs'[t])
    BY <2>2, <2>3 DEF ShownIn
  <2>5. CASE p = faceCaches[o]
    <3>1. p.arrival \in Nat
      BY DEF Cached, TypeOK, Picture
    <3> QED
      BY <2>4, <2>5, <3>1 DEF Covers
  <2>6. CASE o \in DOMAIN bodyCaches /\ \E c \in Cameras : p \in bodyCaches[o][c]
    <3>1. PICK c \in Cameras : p \in bodyCaches[o][c]
      BY <2>6
    <3> DEFINE line == bodyCaches[o][c]
    <3>2. /\ line \in SUBSET Picture /\ line # {}
          /\ \A q \in line : q.object = o /\ q.from = c
      BY <2>6, <3>1 DEF TypeOK, KeptInv
    <3> HIDE DEF line
    <3>3. First(line) \in line /\ First(line).arrival <= p.arrival
      BY <3>1, <3>2, FirstInLine DEF line
    <3>4. First(line) \in Range(Firsts(o))
      BY DEF Firsts, Range, line
    <3>5. p.object = First(line).object /\ p.from = First(line).from
      BY <3>1, <3>2, <3>3 DEF line
    <3> QED
      BY <2>4, <3>3, <3>4, <3>5 DEF Covers
  <2> QED
    BY <1>2, <2>5, <2>6
<1> QED
  BY <1>3, <1>4

\* A picture is lost only to its age, to a newer face, or to a preview that covers
\* it or that is taken beside its object (PictureCache.cpp:10-72, 87, 132-136).
THEOREM LossIsExplained == Spec => LossExplained
<1> DEFINE Explained(p) ==
             \/ now - p.time > TimeLimit
             \/ p.from = Face /\ \E q \in Cached' :
                                    q.from = Face /\ q.object = p.object
             \/ \E t \in Threads :
                   /\ pc[t] = "process" /\ pc'[t] = "create"
                   /\ p.object \in Candidates
                   /\ p.object \in Ready => Covers(pvs'[t], p)
<1>1. CacheInv /\ [Next]_vars => [\A p \in Cached \ Cached' : Explained(p)]_vars
  <2> SUFFICES ASSUME CacheInv, Next
               PROVE  \A p \in Cached \ Cached' : Explained(p)
    OBVIOUS
  <2> USE DEF CacheInv
  <2>1. CASE CachesKept
    BY <2>1, CachesKeptFacts
  <2>2. ASSUME NEW t \in Threads, Cleanup(t)
        PROVE  \A p \in Cached \ Cached' : Explained(p)
    BY <2>2, CleanupFacts
  <2>3. ASSUME NEW t \in Threads, AddFace(t)
        PROVE  \A p \in Cached \ Cached' : Explained(p)
    BY <2>3, AddFaceFacts
  <2>4. ASSUME NEW t \in Threads, AddBody(t)
        PROVE  \A p \in Cached \ Cached' : Explained(p)
    BY <2>4, AddBodyFacts
  <2>5. ASSUME NEW t \in Threads, AddInvalid(t)
        PROVE  \A p \in Cached \ Cached' : Explained(p)
    BY <2>5, AddInvalidFacts
  <2>6. ASSUME NEW t \in Threads, ProcessReady(t)
        PROVE  \A p \in Cached \ Cached' : Explained(p)
    <3>1. pc[t] = "process" /\ pc'[t] = "create"
      BY <2>6 DEF ProcessReady, AfterTaking, TypeOK
    <3> QED
      BY <2>6, <3>1, TakenIsCovered
  <2>7. ASSUME NEW t \in Threads, Create(t)
        PROVE  \A p \in Cached \ Cached' : Explained(p)
    BY <2>7 DEF Create, Cached
  <2> QED
    BY <2>1, <2>2, <2>3, <2>4, <2>5, <2>6, <2>7
       DEF Next, AddPicture, Post, ProcessNone, Tick, Quiet, CachesKept, vars
<1> QED
  BY <1>1, CacheInvariant, PTL DEF Spec, LossExplained
-----------------------------------------------------------------------------
(* Previews that are well formed. *)

\* No two pictures in the caches have the same arrival.
ArrivalsApart == \A p, q \in Cached : p.arrival = q.arrival => p = q

\* A preview's snaps are the face and the pictures of one of its blocks, and
\* each of these is of one object.
WellFormed(v) ==
    /\ \E b \in v.blocks : v.face = b.face /\ v.firsts = b.firsts
    /\ \A b \in v.blocks :
         /\ b.face.from = Face
         /\ \A camera \in Cameras : b.firsts[camera].from = camera
         /\ \A p \in Range(b.firsts) \union b.tracks : p.object = b.face.object
         /\ Cardinality(b.tracks) = Needed
         /\ \E camera \in Cameras : \A p \in b.tracks :
              /\ p.from = camera
              /\ b.firsts[camera].arrival <= p.arrival

\* Only an arrival adds to the caches, and it has a number of its own.
LEMMA ApartStep == CacheInv /\ ArrivalsApart /\ [Next]_vars => ArrivalsApart'
<1> SUFFICES ASSUME CacheInv, ArrivalsApart, [Next]_vars PROVE ArrivalsApart'
  OBVIOUS
<1>0. TypeOK /\ KeptInv
  BY DEF CacheInv
<1>1. CASE Cached' \subseteq Cached
  BY <1>1 DEF ArrivalsApart
<1>2. ASSUME NEW p, p.arrival = added + 1, Cached' \subseteq Cached \union {p}
      PROVE  ArrivalsApart'
  <2>1. \A q \in Cached : q.arrival <= added
    BY <1>0 DEF KeptInv
  <2>2. added \in Nat /\ \A q \in Cached : q.arrival \in Nat
    BY <1>0 DEF TypeOK, Cached, Picture
  <2>3. \A q \in Cached : q.arrival # p.arrival
    BY <1>2, <2>1, <2>2
  <2> HIDE DEF Cached
  <2> QED
    BY <1>2, <2>3 DEF ArrivalsApart
<1>3. ASSUME NEW t \in Threads, AddPicture(t) PROVE ArrivalsApart'
  <2>1. CASE Cleanup(t)
    BY <1>0, <1>1, <2>1, CleanupFacts
  <2>2. CASE AddFace(t)
    <3>1. Cached' \subseteq Cached \union {Arriving(t)} /\ Arriving(t).arrival = added + 1
      BY <1>0, <2>2, AddFaceFacts
    <3> QED
      BY <1>2, <3>1
  <2>3. CASE AddBody(t)
    <3>1. Cached' \subseteq Cached \union {Arriving(t)} /\ Arriving(t).arrival = added + 1
      BY <1>0, <2>3, AddBodyFacts
    <3> QED
      BY <1>2, <3>1
  <2>4. CASE AddInvalid(t)
    BY <1>0, <1>1, <2>4, AddInvalidFacts
  <2>5. CASE ProcessNone(t)
    BY <1>1, <2>5, CachesKeptFacts DEF ProcessNone, CachesKept
  <2>6. CASE ProcessReady(t)
    BY <1>0, <1>1, <2>6, ProcessFacts
  <2>7. CASE Create(t)
    BY <1>1, <2>7 DEF Create, Cached
  <2> QED
    BY <1>3, <2>1, <2>2, <2>3, <2>4, <2>5, <2>6, <2>7 DEF AddPicture
<1>4. CASE CachesKept
  BY <1>1, <1>4, CachesKeptFacts
<1> QED
  BY <1>3, <1>4 DEF Next, Post, Tick, Quiet, CachesKept, vars

\* What process takes is well formed.
LEMMA TakenWellFormed ==
    ASSUME CacheInv, ArrivalsApart, NEW t \in Threads, ProcessReady(t)
    PROVE  WellFormed(pvs'[t])
<1>0. TypeOK /\ KeptInv
  BY DEF CacheInv
<1>1. PICK first \in Ready :
        pvs'[t] = [face   |-> faceCaches[first], firsts |-> Firsts(first),
                   blocks |-> BlocksOf(Ready)]
  BY <1>0 DEF ProcessReady, TypeOK
<1>2. ASSUME NEW o \in Ready
      PROVE  /\ faceCaches[o].from = Face /\ faceCaches[o].object = o
             /\ \A camera \in Cameras :
                  /\ bodyCaches[o][camera] \in SUBSET Picture
                  /\ bodyCaches[o][camera] # {}
                  /\ bodyCaches[o][camera] \subseteq Cached
                  /\ IsFiniteSet(bodyCaches[o][camera])
                  /\ \A p \in bodyCaches[o][camera] : p.object = o /\ p.from = camera
  <2>1. /\ o \in DOMAIN faceCaches /\ o \in DOMAIN bodyCaches
        /\ \A camera \in Cameras : bodyCaches[o][camera] # {}
    BY DEF Ready, Candidates
  <2>2. \A camera \in Cameras : bodyCaches[o][camera] \in SUBSET Picture
    BY <1>0, <2>1 DEF TypeOK
  <2> QED
    BY <1>0, <2>1, <2>2 DEF KeptInv, Cached
<1>3. ASSUME NEW o \in Ready, NEW camera \in Cameras
      PROVE  /\ Firsts(o)[camera] \in bodyCaches[o][camera]
             /\ \A p \in bodyCaches[o][camera] : Firsts(o)[camera].arrival <= p.arrival
  BY <1>2, FirstInLine DEF Firsts
<1>4. ASSUME NEW b \in BlocksOf(Ready)
      PROVE  /\ b.face.from = Face
             /\ \A camera \in Cameras : b.firsts[camera].from = camera
             /\ \A p \in Range(b.firsts) \union b.tracks : p.object = b.face.object
             /\ Cardinality(b.tracks) = Needed
             /\ \E camera \in Cameras : \A p \in b.tracks :
                  p.from = camera /\ b.firsts[camera].arrival <= p.arrival
  <2>1. PICK o \in Ready, k \in Cameras :
          /\ Enough(bodyCaches[o][k])
          /\ b = [face |-> faceCaches[o], firsts |-> Firsts(o),
                  tracks |-> Earliest(bodyCaches[o][k])]
    BY Zenon DEF BlocksOf
  <2>2. b.face = faceCaches[o] /\ b.firsts = Firsts(o) /\ b.tracks = Earliest(bodyCaches[o][k])
    BY <2>1
  <2>3. k \in Cameras /\ Enough(bodyCaches[o][k])
    BY <2>1
  <2>4. Earliest(bodyCaches[o][k]) \subseteq bodyCaches[o][k]
    BY DEF Earliest
  <2>5. Cardinality(b.tracks) = Needed
    <3>1. /\ bodyCaches[o][k] \in SUBSET Picture /\ IsFiniteSet(bodyCaches[o][k])
          /\ \A p, q \in bodyCaches[o][k] : p.arrival = q.arrival => p = q
      BY <1>2, <2>3 DEF ArrivalsApart
    <3> QED
      BY <2>2, <2>3, <3>1, EarliestFacts
  <2>6. \A p \in b.tracks : /\ p.object = o /\ p.from = k
                            /\ b.firsts[k].arrival <= p.arrival
    BY <1>2, <1>3, <2>2, <2>3, <2>4
  <2>7. \A camera \in Cameras : b.firsts[camera].from = camera /\ b.firsts[camera].object = o
    BY <1>2, <1>3, <2>2
  <2>8. \A p \in Range(b.firsts) : p.object = o
    BY <2>2, <2>7 DEF Range, Firsts
  <2>9. b.face.from = Face /\ b.face.object = o
    BY <1>2, <2>2
  <2> QED
    BY <2>3, <2>5, <2>6, <2>7, <2>8, <2>9
<1>5. \E b \in BlocksOf(Ready) : b.face = faceCaches[first] /\ b.firsts = Firsts(first)
  <2>1. PICK k \in Cameras : Enough(bodyCaches[first][k])
    BY DEF Ready
  <2> DEFINE b == [face |-> faceCaches[first], firsts |-> Firsts(first),
                   tracks |-> Earliest(bodyCaches[first][k])]
  <2>2. b \in BlocksOf(Ready)
    <3> DEFINE Of(o) == {[face |-> faceCaches[o], firsts |-> Firsts(o),
                          tracks |-> Earliest(bodyCaches[o][camera])] :
                            camera \in {c \in Cameras : Enough(bodyCaches[o][c])}}
    <3>1. b \in Of(first)
      BY <2>1
    <3>2. Of(first) \in {Of(o) : o \in Ready}
      OBVIOUS
    <3>3. BlocksOf(Ready) = UNION {Of(o) : o \in Ready}
      BY DEF BlocksOf
    <3> HIDE DEF b, Of
    <3> QED
      BY <3>1, <3>2, <3>3
  <2>3. b.face = faceCaches[first] /\ b.firsts = Firsts(first)
    OBVIOUS
  <2> HIDE DEF b
  <2> QED
    BY <2>2, <2>3
<1> DEFINE v == pvs'[t]
<1>6. v.face = faceCaches[first] /\ v.firsts = Firsts(first) /\ v.blocks = BlocksOf(Ready)
  BY <1>1
<1> HIDE DEF v
<1>7. WellFormed(v)
  BY <1>4, <1>5, <1>6 DEF WellFormed
<1> QED
  BY <1>7 DEF v

\* A preview is what process has taken, from then on.
LEMMA MadeStep ==
    CacheInv /\ [Next]_vars => \A v \in Made' :
        \/ v \in Made
        \/ \E t \in Threads : ProcessReady(t) /\ v = pvs'[t]
<1> SUFFICES ASSUME CacheInv, [Next]_vars, NEW v \in Made'
             PROVE  v \in Made \/ \E t \in Threads : ProcessReady(t) /\ v = pvs'[t]
  OBVIOUS
<1>0. TypeOK
  BY DEF CacheInv
<1>1. CASE /\ UNCHANGED <<pvs, previews>>
           /\ \A s \in Threads : pc'[s] = "create" <=> pc[s] = "create"
  BY <1>1, PreviewsKept
<1>2. ASSUME NEW t \in Threads, AddPicture(t), ~ProcessReady(t), ~Create(t)
      PROVE  /\ UNCHANGED <<pvs, previews>>
             /\ \A s \in Threads : pc'[s] = "create" <=> pc[s] = "create"
  BY <1>0, <1>2 DEF AddPicture, Cleanup, AddFace, AddBody, AddInvalid, ProcessNone,
                    AfterAdding, TypeOK
<1>3. ASSUME NEW t \in Threads, ProcessReady(t)
      PROVE  v \in Made \/ v = pvs'[t]
  <2>1. /\ previews' = previews
        /\ \A s \in Threads \ {t} : pvs'[s] = pvs[s] /\ pc'[s] = pc[s]
    BY <1>0, <1>3 DEF ProcessReady, TypeOK
  <2> QED
    BY <2>1 DEF Made, Range
<1>4. ASSUME NEW t \in Threads, Create(t) PROVE v \in Made
  <2>1. /\ pc[t] = "create" /\ pc'[t] = "idle"
        /\ previews' = Append(previews, pvs[t])
        /\ \A s \in Threads \ {t} : pvs'[s] = pvs[s] /\ pc'[s] = pc[s]
    BY <1>0, <1>4 DEF Create, TypeOK
  <2>2. previews \in Seq(Preview)
    BY <1>0 DEF TypeOK
  <2>3. Range(previews') = Range(previews) \union {pvs[t]}
    BY <2>1, <2>2 DEF Range
  <2> QED
    BY <2>1, <2>3 DEF Made
<1>5. CASE UNCHANGED vars
  BY <1>1, <1>5 DEF vars
<1>6. CASE \E t \in Threads, o \in Objects, from \in Cameras \union {Face, Invalid} :
              Post(t, o, from)
  BY <1>0, <1>1, <1>6 DEF Post, TypeOK
<1>7. CASE Tick
  BY <1>1, <1>7 DEF Tick
<1> QED
  BY <1>1, <1>2, <1>3, <1>4, <1>5, <1>6, <1>7 DEF Next, Quiet

\* Every preview shows what belongs together, of every object it shows: its face,
\* a picture of each camera, and Needed tracks (PictureCache.cpp:99-159).
THEOREM PreviewsAreWellFormed == Spec => []PreviewsWellFormed
<1> DEFINE AllFormed == \A v \in Made : WellFormed(v)
           Inv == CacheInv /\ ArrivalsApart /\ AllFormed
<1>1. Init => Inv
  <2> SUFFICES ASSUME Init PROVE Inv
    OBVIOUS
  <2>1. Cached = {} /\ Made = {}
    BY DEF Init, Cached, Made, Range
  <2> QED
    BY <2>1, InitialInv DEF ArrivalsApart
<1>2. Inv /\ [Next]_vars => Inv'
  <2> SUFFICES ASSUME Inv, [Next]_vars PROVE Inv'
    OBVIOUS
  <2>1. CacheInv'
    BY TypeStep, KeptAndTwiceStep, ReadyStep DEF CacheInv
  <2>2. ArrivalsApart'
    BY ApartStep
  <2>3. ASSUME NEW v \in Made' PROVE WellFormed(v)
    BY MadeStep, TakenWellFormed
  <2> QED
    BY <2>1, <2>2, <2>3 DEF WellFormed
<1>3. Inv => PreviewsWellFormed
  BY DEF WellFormed, PreviewsWellFormed
<1> QED
  BY <1>1, <1>2, <1>3, PTL DEF Spec

-----------------------------------------------------------------------------
(* One thread. *)

\* An arrival makes no object ready but its own.
LEMMA ReadyByArrival ==
    ASSUME TypeOK, KeptInv, NEW t \in Threads, AddFace(t) \/ AddBody(t)
    PROVE  Ready' \subseteq Ready \union {Arriving(t).object}
<1> DEFINE p == Arriving(t)
<1>1. /\ DOMAIN faceCaches' \subseteq DOMAIN faceCaches \union {p.object}
      /\ DOMAIN bodyCaches' \subseteq DOMAIN bodyCaches \union {p.object}
      /\ \A o \in DOMAIN bodyCaches' : o # p.object => bodyCaches'[o] = bodyCaches[o]
  BY DEF AddFace, AddBody
<1> HIDE DEF p
<1>2. ASSUME NEW o \in Ready', o # p.object PROVE o \in Ready
  <2>1. o \in DOMAIN faceCaches' /\ o \in DOMAIN bodyCaches'
    BY DEF Ready, Candidates
  <2>2. o \in DOMAIN faceCaches /\ o \in DOMAIN bodyCaches /\ bodyCaches'[o] = bodyCaches[o]
    BY <1>1, <1>2, <2>1
  <2> QED
    BY <2>2 DEF Ready, Candidates, Enough
<1> QED
  BY <1>2 DEF p

\* With one thread no object is ready when a picture is added, and so never more
\* than one (PictureCache.cpp:74-97, 139-154).
OneReady == \A o, q \in Ready : o = q

LEMMA OneReadyStep ==
    ASSUME CacheInv, OneReady, [Next]_vars, \A s, t \in Threads : s = t
    PROVE  OneReady'
<1>0. TypeOK /\ KeptInv /\ NoneLeftReady
  BY DEF CacheInv
<1>1. CASE Ready' \subseteq Ready
  BY <1>1 DEF OneReady
<1>2. ASSUME NEW t \in Threads, AddPicture(t) PROVE OneReady'
  <2>1. CASE Cleanup(t)
    BY <1>0, <1>1, <2>1, CleanupFacts
  <2>2. CASE AddFace(t) \/ AddBody(t)
    <3>1. pc[t] = "add"
      BY <2>2 DEF AddFace, AddBody
    <3>2. Ready = {}
      BY <1>0, <3>1 DEF NoneLeftReady
    <3>3. Ready' \subseteq {Arriving(t).object}
      BY <1>0, <2>2, <3>2, ReadyByArrival
    <3> QED
      BY <3>3 DEF OneReady
  <2>3. CASE AddInvalid(t)
    BY <1>0, <1>1, <2>3, AddInvalidFacts
  <2>4. CASE ProcessNone(t)
    BY <1>1, <2>4, CachesKeptFacts DEF ProcessNone, CachesKept
  <2>5. CASE ProcessReady(t)
    BY <1>0, <1>1, <2>5, ProcessFacts
  <2>6. CASE Create(t)
    BY <1>1, <2>6 DEF Create, Ready, Candidates, Enough
  <2> QED
    BY <1>2, <2>1, <2>2, <2>3, <2>4, <2>5, <2>6 DEF AddPicture
<1>3. CASE CachesKept
  BY <1>1, <1>3, CachesKeptFacts
<1> QED
  BY <1>2, <1>3 DEF Next, Post, Tick, Quiet, CachesKept, vars

\* What process takes when one object is ready shows that object only.
LEMMA TakenOfOneObject ==
    ASSUME CacheInv, OneReady, NEW t \in Threads, ProcessReady(t)
    PROVE  \A b \in pvs'[t].blocks : b.face.object = pvs'[t].face.object
<1>1. PICK first \in Ready :
        pvs'[t] = [face   |-> faceCaches[first], firsts |-> Firsts(first),
                   blocks |-> BlocksOf(Ready)]
  BY DEF CacheInv, ProcessReady, TypeOK
<1>2. pvs'[t].face = faceCaches[first] /\ pvs'[t].blocks = BlocksOf(Ready)
  BY <1>1
<1>3. ASSUME NEW b \in BlocksOf(Ready) PROVE b.face = faceCaches[first]
  <2>1. PICK o \in Ready, k \in Cameras :
          b = [face |-> faceCaches[o], firsts |-> Firsts(o),
               tracks |-> Earliest(bodyCaches[o][k])]
    BY Zenon DEF BlocksOf
  <2>2. b.face = faceCaches[o]
    BY <2>1
  <2> QED
    BY <2>2 DEF OneReady
<1> QED
  BY <1>2, <1>3

\* A thread that is alone never joins two objects in a preview, although process
\* takes all that are ready (PictureCache.cpp:150-158).
THEOREM OneObjectAlone ==
    ASSUME \A s, t \in Threads : s = t
    PROVE  Spec => []PreviewOfOneObject
<1> DEFINE Inv == CacheInv /\ OneReady /\ PreviewOfOneObject
<1>1. Init => Inv
  <2> SUFFICES ASSUME Init PROVE Inv
    OBVIOUS
  <2>1. Ready = {} /\ Made = {}
    BY DEF Init, Ready, Candidates, Made, Range
  <2> QED
    BY <2>1, InitialInv DEF OneReady, PreviewOfOneObject
<1>2. Inv /\ [Next]_vars => Inv'
  <2> SUFFICES ASSUME Inv, [Next]_vars PROVE Inv'
    OBVIOUS
  <2>1. CacheInv' /\ OneReady'
    <3>1. CacheInv'
      BY TypeStep, KeptAndTwiceStep, ReadyStep DEF CacheInv
    <3>2. OneReady'
      BY OneReadyStep
    <3> QED
      BY <3>1, <3>2
  <2>2. ASSUME NEW v \in Made'
        PROVE  \A b \in v.blocks : b.face.object = v.face.object
    BY <2>2, MadeStep, TakenOfOneObject DEF PreviewOfOneObject
  <2> QED
    BY <2>1, <2>2 DEF PreviewOfOneObject
<1> QED
  BY <1>1, <1>2, PTL DEF Spec
=============================================================================
