------------------------ MODULE PreviewServiceProofs ------------------------
(***************************************************************************)
(* PreviewService implements PreviewFeed, for any numbers of threads,      *)
(* pictures and clients, and any limits.                                   *)
(*                                                                         *)
(* The invariants of the two components hold in the service, since each of *)
(* its steps is a step of either component, of both, or of none; ServiceInv*)
(* adds what ties the two together.                                        *)
(***************************************************************************)
EXTENDS PreviewService, TLAPS

CacheProofs == INSTANCE PictureCacheProofs WITH pc <- cachePc, previews <- given
MakerProofs == INSTANCE PicturePreviewProofs WITH Creators <- Threads, pc <- makerPc

-----------------------------------------------------------------------------
(* The components' theorems are about the same actions. *)

LEMMA CacheConstants ==
    /\ CacheLines \in Nat \ {0} /\ Needed \in Nat \ {0} /\ TimeLimit \in Nat
    /\ CacheProofs!IsFiniteSet(Objects) /\ MaxPictures \in Nat /\ MaxTime \in Nat
BY CacheAssumption DEF CacheProofs!IsFiniteSet, IsFiniteSet

LEMMA MakerConstants ==
    CacheLimit \in Nat /\ ReturnLimit \in 1 .. CacheLimit /\ MaxPreviews \in Nat
BY MakerAssumption

LEMMA SameCacheInit == Cache!Init <=> CacheProofs!Init
BY DEF Cache!Init, CacheProofs!Init, Cache!Nothing, CacheProofs!Nothing

LEMMA SameCacheActions ==
    ASSUME NEW t
    PROVE  /\ \A o, from : Cache!Post(t, o, from) <=> CacheProofs!Post(t, o, from)
           /\ Cache!Cleanup(t) <=> CacheProofs!Cleanup(t)
           /\ Cache!AddFace(t) <=> CacheProofs!AddFace(t)
           /\ Cache!AddBody(t) <=> CacheProofs!AddBody(t)
           /\ Cache!AddInvalid(t) <=> CacheProofs!AddInvalid(t)
           /\ Cache!ProcessNone(t) <=> CacheProofs!ProcessNone(t)
           /\ Cache!ProcessReady(t) <=> CacheProofs!ProcessReady(t)
           /\ Cache!Create(t) <=> CacheProofs!Create(t)
           /\ Cache!Tick <=> CacheProofs!Tick
<1>1. \A o, from : Cache!Post(t, o, from) <=> CacheProofs!Post(t, o, from)
  BY Zenon DEF Cache!Post, CacheProofs!Post, Cache!InProgress, CacheProofs!InProgress,
               Cache!Cardinality, CacheProofs!Cardinality
<1>2. Cache!Cleanup(t) <=> CacheProofs!Cleanup(t)
  BY Zenon DEF Cache!Cleanup, CacheProofs!Cleanup, Cache!IsExpired, CacheProofs!IsExpired,
               Cache!EntriesOf, CacheProofs!EntriesOf, Cache!NoLines, CacheProofs!NoLines,
               Cache!Cameras, CacheProofs!Cameras
<1>3. Cache!AddFace(t) <=> CacheProofs!AddFace(t)
  BY Zenon DEF Cache!AddFace, CacheProofs!AddFace, Cache!Arriving, CacheProofs!Arriving,
               Cache!AfterAdding, CacheProofs!AfterAdding, Cache!Face, CacheProofs!Face,
               Cache!Nothing, CacheProofs!Nothing
<1>4. Cache!AddBody(t) <=> CacheProofs!AddBody(t)
  BY Zenon DEF Cache!AddBody, CacheProofs!AddBody, Cache!Arriving, CacheProofs!Arriving,
               Cache!AfterAdding, CacheProofs!AfterAdding, Cache!Cameras, CacheProofs!Cameras,
               Cache!Extended, CacheProofs!Extended, Cache!LinesOf, CacheProofs!LinesOf,
               Cache!NoLines, CacheProofs!NoLines, Cache!Nothing, CacheProofs!Nothing
<1>5. Cache!AddInvalid(t) <=> CacheProofs!AddInvalid(t)
  BY Zenon DEF Cache!AddInvalid, CacheProofs!AddInvalid, Cache!LinesOf, CacheProofs!LinesOf,
               Cache!NoLines, CacheProofs!NoLines, Cache!Cameras, CacheProofs!Cameras,
               Cache!Invalid, CacheProofs!Invalid, Cache!Nothing, CacheProofs!Nothing
<1>6. Cache!ProcessNone(t) <=> CacheProofs!ProcessNone(t)
  BY Zenon DEF Cache!ProcessNone, CacheProofs!ProcessNone, Cache!Ready, CacheProofs!Ready,
               Cache!Candidates, CacheProofs!Candidates, Cache!Cameras, CacheProofs!Cameras,
               Cache!Enough, CacheProofs!Enough, Cache!Cardinality, CacheProofs!Cardinality
<1>7. Cache!ProcessReady(t) <=> CacheProofs!ProcessReady(t)
  BY Zenon DEF Cache!ProcessReady, CacheProofs!ProcessReady, Cache!Ready, CacheProofs!Ready,
               Cache!Candidates, CacheProofs!Candidates, Cache!Cameras, CacheProofs!Cameras,
               Cache!Enough, CacheProofs!Enough, Cache!Cardinality, CacheProofs!Cardinality,
               Cache!EntriesOf, CacheProofs!EntriesOf, Cache!Firsts, CacheProofs!Firsts,
               Cache!First, CacheProofs!First, Cache!BlocksOf, CacheProofs!BlocksOf,
               Cache!Earliest, CacheProofs!Earliest, Cache!Erased, CacheProofs!Erased,
               Cache!AfterTaking, CacheProofs!AfterTaking
<1>8. Cache!Create(t) <=> CacheProofs!Create(t)
  BY Zenon DEF Cache!Create, CacheProofs!Create, Cache!Nothing, CacheProofs!Nothing
<1>9. Cache!Tick <=> CacheProofs!Tick
  BY Zenon DEF Cache!Tick, CacheProofs!Tick
<1> QED
  BY <1>1, <1>2, <1>3, <1>4, <1>5, <1>6, <1>7, <1>8, <1>9

LEMMA SameMakerInit == Maker!Init <=> MakerProofs!Init
BY DEF Maker!Init, MakerProofs!Init, Maker!NoId, MakerProofs!NoId

LEMMA SameMakerActions ==
    ASSUME NEW t
    PROVE  /\ Maker!Call(t) <=> MakerProofs!Call(t)
           /\ Maker!LoadSeq(t) <=> MakerProofs!LoadSeq(t)
           /\ Maker!StoreSeq(t) <=> MakerProofs!StoreSeq(t)
           /\ Maker!Name(t) <=> MakerProofs!Name(t)
           /\ Maker!Insert(t) <=> MakerProofs!Insert(t)
           /\ Maker!Poll(t) <=> MakerProofs!Poll(t)
BY Zenon DEF Maker!Call, MakerProofs!Call, Maker!LoadSeq, MakerProofs!LoadSeq,
             Maker!StoreSeq, MakerProofs!StoreSeq, Maker!Name, MakerProofs!Name,
             Maker!Insert, MakerProofs!Insert, Maker!Poll, MakerProofs!Poll,
             Maker!AtFront, MakerProofs!AtFront, Maker!Evicted, MakerProofs!Evicted,
             Maker!Kept, MakerProofs!Kept, Maker!Emplaced, MakerProofs!Emplaced,
             Maker!RandomId, MakerProofs!RandomId, Maker!SeqId, MakerProofs!SeqId,
             Maker!FallbackId, MakerProofs!FallbackId, Maker!Range, MakerProofs!Range,
             Maker!Lengths, MakerProofs!Lengths, Maker!Listing, MakerProofs!Listing,
             Maker!clientVars, MakerProofs!clientVars, Maker!cacheVars,
             MakerProofs!cacheVars, Maker!creatorVars, MakerProofs!creatorVars,
             Maker!history, MakerProofs!history

LEMMA SamePictures ==
    /\ Cache!Cached = CacheProofs!Cached
    /\ Cache!Cached' = CacheProofs!Cached'
    /\ \A v : Cache!ShownIn(v) = CacheProofs!ShownIn(v)
BY DEF Cache!Cached, CacheProofs!Cached, Cache!Cameras, CacheProofs!Cameras,
       Cache!ShownIn, CacheProofs!ShownIn, Cache!Range, CacheProofs!Range

-----------------------------------------------------------------------------
(* Each component goes its own way in the service. *)

\* The service's steps are steps of the cache, and of createPreview.
LEMMA CacheSteps == [Next]_vars => [CacheProofs!Next]_(CacheProofs!vars)
<1> SUFFICES ASSUME [Next]_vars PROVE CacheProofs!Next \/ UNCHANGED CacheProofs!vars
  OBVIOUS
<1>1. CASE UNCHANGED cacheVars
  BY <1>1 DEF cacheVars, CacheProofs!vars
<1>2. ASSUME NEW t \in Threads, Post(t) PROVE CacheProofs!Next
  <2>1. PICK o \in Objects, from \in Cache!Cameras \union {Cache!Face, Cache!Invalid} :
          Cache!Post(t, o, from)
    BY <1>2 DEF Post
  <2>2. from \in CacheProofs!Cameras \union {CacheProofs!Face, CacheProofs!Invalid}
    BY DEF Cache!Cameras, CacheProofs!Cameras, Cache!Face, CacheProofs!Face,
           Cache!Invalid, CacheProofs!Invalid
  <2> QED
    BY <2>1, <2>2, SameCacheActions, Zenon DEF CacheProofs!Next
<1>3. ASSUME NEW t \in Threads, Add(t) PROVE CacheProofs!Next
  BY <1>3, SameCacheActions, Zenon DEF Add, CacheProofs!Next, CacheProofs!AddPicture
<1>4. ASSUME NEW t \in Threads, CallMaker(t) PROVE CacheProofs!Next
  BY <1>4, SameCacheActions, Zenon DEF CallMaker, CacheProofs!Next, CacheProofs!AddPicture
<1>5. CASE Tick
  BY <1>5, SameCacheActions, Zenon DEF Tick, CacheProofs!Next
<1> QED
  BY <1>1, <1>2, <1>3, <1>4, <1>5, Zenon DEF Next, Handle, Make, Poll, vars

LEMMA MakerSteps == [Next]_vars => [MakerProofs!Next]_(MakerProofs!vars)
<1> SUFFICES ASSUME [Next]_vars PROVE MakerProofs!Next \/ UNCHANGED MakerProofs!vars
  OBVIOUS
<1>1. CASE UNCHANGED makerVars
  BY <1>1 DEF makerVars, MakerProofs!vars, MakerProofs!creatorVars,
              MakerProofs!cacheVars, MakerProofs!clientVars, MakerProofs!history
<1>2. ASSUME NEW t \in Threads, CallMaker(t) \/ Make(t) PROVE MakerProofs!Next
  BY <1>2, SameMakerActions, Zenon DEF CallMaker, Make, MakerProofs!Next
<1>3. ASSUME NEW c \in Clients, Poll(c) PROVE MakerProofs!Next
  BY <1>3, SameMakerActions, Zenon DEF Poll, MakerProofs!Next
<1> QED
  BY <1>1, <1>2, <1>3, Zenon DEF Next, Post, Handle, Add, Tick, vars

\* What is known of each component.
CacheKnown ==
    CacheProofs!CacheInv /\ CacheProofs!PreviewsWellFormed
MakerKnown ==
    MakerProofs!PreviewInv /\ MakerProofs!LastReceived

LEMMA ComponentSpecs == Spec => CacheProofs!Spec /\ MakerProofs!Spec
<1>1. Init => CacheProofs!Init /\ MakerProofs!Init
  BY SameCacheInit, SameMakerInit DEF Init
<1> QED
  BY <1>1, CacheSteps, MakerSteps, PTL DEF Spec, CacheProofs!Spec, MakerProofs!Spec

LEMMA ComponentsKnown == Spec => [](CacheKnown /\ MakerKnown)
<1>2. Spec => CacheProofs!Spec /\ MakerProofs!Spec
  BY ComponentSpecs
<1>3. CacheProofs!Spec => []CacheProofs!CacheInv
  BY CacheConstants, CacheProofs!CacheInvariant
<1>4. CacheProofs!Spec => []CacheProofs!PreviewsWellFormed
  BY CacheConstants, CacheProofs!PreviewsAreWellFormed
<1>5. MakerProofs!Spec => []MakerProofs!PreviewInv
  BY MakerConstants, MakerProofs!PreviewInvariant
<1>6. MakerProofs!Spec => []MakerProofs!LastReceived
  BY MakerConstants, MakerProofs!LastIsReceived
<1> QED
  BY <1>2, <1>3, <1>4, <1>5, <1>6, PTL DEF CacheKnown, MakerKnown
-----------------------------------------------------------------------------
(* What ties the components together. *)

\* createPreview is called with each preview of the cache, in order, by a thread
\* that does nothing else until it returns; and the random generator works.
LinkInv ==
    /\ calls = Len(given)
    /\ \A t \in Threads : cachePc[t] # "idle" => makerPc[t] = "idle"
    /\ ~fallback

LEMMA LinkInit == Init => LinkInv
BY DEF Init, Cache!Init, Maker!Init, LinkInv

LEMMA LinkStep ==
    ASSUME CacheKnown, MakerKnown, LinkInv, [Next]_vars
    PROVE  LinkInv'
<1>1. /\ cachePc \in [Threads -> {"idle", "cleanup", "add", "process", "create"}]
      /\ makerPc \in [Threads -> {"idle", "load", "store", "name", "insert"}]
      /\ given \in Seq(CacheProofs!Preview)
      /\ pvs \in [Threads -> CacheProofs!Preview \union {CacheProofs!Nothing}]
      /\ \A t \in Threads : cachePc[t] = "create" => pvs[t] \in CacheProofs!Preview
  BY DEF CacheKnown, MakerKnown, CacheProofs!CacheInv, CacheProofs!TypeOK,
         MakerProofs!PreviewInv, MakerProofs!TypeOK
<1>2. CASE UNCHANGED <<calls, given, cachePc, makerPc, fallback>>
  BY <1>2 DEF LinkInv
<1>3. ASSUME NEW t \in Threads, Post(t) \/ Add(t) PROVE LinkInv'
  <2>1. /\ calls' = calls /\ given' = given /\ makerPc' = makerPc /\ fallback' = fallback
        /\ makerPc[t] = "idle"
        /\ \A s \in Threads \ {t} : cachePc'[s] = cachePc[s]
    <3>1. CASE Post(t)
      BY <1>1, <3>1 DEF Post, Returned, Cache!Post, makerVars
    <3>2. CASE Add(t)
      BY <1>1, <3>2 DEF Add, LinkInv, makerVars, Cache!Cleanup, Cache!AddFace,
                        Cache!AddBody, Cache!AddInvalid, Cache!ProcessNone,
                        Cache!ProcessReady
    <3> QED
      BY <1>3, <3>1, <3>2
  <2> QED
    BY <2>1 DEF LinkInv
<1>4. ASSUME NEW t \in Threads, CallMaker(t) PROVE LinkInv'
  <2>1. /\ calls' = calls + 1 /\ given' = Append(given, pvs[t]) /\ fallback' = fallback
        /\ cachePc'[t] = "idle" /\ cachePc[t] = "create"
        /\ \A s \in Threads \ {t} : cachePc'[s] = cachePc[s] /\ makerPc'[s] = makerPc[s]
    BY <1>1, <1>4 DEF CallMaker, Cache!Create, Maker!Call
  <2>2. Len(given') = Len(given) + 1
    BY <1>1, <2>1
  <2> QED
    BY <2>1, <2>2 DEF LinkInv
<1>5. ASSUME NEW t \in Threads, Make(t) PROVE LinkInv'
  <2>1. /\ calls' = calls /\ given' = given /\ cachePc' = cachePc /\ fallback' = fallback
        /\ makerPc[t] # "idle"
        /\ \A s \in Threads \ {t} : makerPc'[s] = makerPc[s]
    BY <1>1, <1>5 DEF Make, cacheVars, Maker!LoadSeq, Maker!StoreSeq, Maker!Name,
                      Maker!Insert, Maker!history
  <2> QED
    BY <2>1 DEF LinkInv
<1>6. ASSUME NEW c \in Clients, Poll(c) PROVE UNCHANGED <<calls, given, cachePc, makerPc, fallback>>
  BY <1>6 DEF Poll, cacheVars, Maker!Poll, Maker!creatorVars, Maker!history
<1>7. CASE Tick
  BY <1>2, <1>7 DEF Tick, Cache!Tick, makerVars
<1>8. CASE UNCHANGED vars
  BY <1>2, <1>8 DEF vars, cacheVars, makerVars
<1> QED
  BY <1>2, <1>3, <1>4, <1>5, <1>6, <1>7, <1>8, Zenon DEF Next, Handle

LEMMA ServiceKnown == Spec => [](CacheKnown /\ MakerKnown /\ LinkInv)
<1>1. CacheKnown /\ MakerKnown /\ LinkInv /\ [Next]_vars => LinkInv'
  BY LinkStep
<1> QED
  BY <1>1, LinkInit, ComponentsKnown, PTL DEF Spec

-----------------------------------------------------------------------------
(* The service and the feed. *)

Pictures(v) == Cache!ShownIn(v)

\* The previews made are of different pictures, and none is empty.
LEMMA PreviewsApart ==
    ASSUME CacheKnown, MakerKnown, LinkInv
    PROVE  /\ given \in Seq(CacheProofs!Preview) /\ calls = Len(given) /\ calls \in Nat
           /\ \A i \in 1 .. calls :
                /\ Pictures(given[i]) # {}
                /\ Pictures(given[i]) \intersect Cache!Cached = {}
                /\ \A j \in 1 .. calls \ {i} :
                     Pictures(given[i]) \intersect Pictures(given[j]) = {}
                /\ \A t \in Threads : cachePc[t] = "create" =>
                     Pictures(given[i]) \intersect Pictures(pvs[t]) = {}
           /\ \A t \in Threads : cachePc[t] = "create" =>
                /\ Pictures(pvs[t]) # {}
                /\ Pictures(pvs[t]) \intersect Cache!Cached = {}
           /\ \A i \in 1 .. Len(created) : created[i].preview \in 1 .. calls
           /\ \A t \in Threads : makerPc[t] # "idle" => preview[t] \in 1 .. calls
<1>1. given \in Seq(CacheProofs!Preview) /\ calls = Len(given) /\ calls \in Nat
  BY DEF CacheKnown, CacheProofs!CacheInv, CacheProofs!TypeOK, LinkInv,
         MakerKnown, MakerProofs!PreviewInv, MakerProofs!TypeOK
<1>2. ASSUME NEW v \in CacheProofs!Made PROVE Pictures(v) # {}
  <2>1. PICK b \in v.blocks : TRUE
    BY DEF CacheKnown, CacheProofs!PreviewsWellFormed
  <2> QED
    BY <2>1 DEF Pictures, Cache!ShownIn
<1>3. /\ \A i \in 1 .. calls : given[i] \in CacheProofs!Made
      /\ \A t \in Threads : cachePc[t] = "create" => pvs[t] \in CacheProofs!Made
  BY <1>1 DEF CacheProofs!Made, CacheProofs!Range
<1>4. CacheProofs!NoPictureTwice
  BY DEF CacheKnown, CacheProofs!CacheInv
<1>5. /\ \A i \in 1 .. Len(created) : created[i].preview \in 1 .. calls
      /\ \A t \in Threads : makerPc[t] # "idle" => preview[t] \in 1 .. calls
  BY DEF MakerKnown, MakerProofs!PreviewInv, MakerProofs!CallsInv
<1> QED
  BY <1>1, <1>2, <1>3, <1>4, <1>5, SamePictures DEF Pictures, CacheProofs!NoPictureTwice

\* Nothing is shown, or told to a client, unless a preview is inserted or listed.
LEMMA ListKept ==
    ASSUME created' = created,
           \A i \in 1 .. Len(created) :
               given'[created[i].preview] = given[created[i].preview]
    PROVE  ShownList' = ShownList
BY DEF ShownList, Shown, Cache!ShownIn

LEMMA SeenKept ==
    ASSUME created' = created, received' = received
    PROVE  Seen' = Seen
BY DEF Seen

\* The previews on their way, one by one.
LEMMA WayKept ==
    ASSUME \A t \in Threads : cachePc'[t] = "create" <=> cachePc[t] = "create",
           \A t \in Threads : cachePc[t] = "create" => pvs'[t] = pvs[t],
           \A t \in Threads : makerPc'[t] # "idle" <=> makerPc[t] # "idle",
           \A t \in Threads : makerPc[t] # "idle" =>
               given'[preview'[t]] = given[preview[t]]
    PROVE  OnTheWay' = OnTheWay
BY DEF OnTheWay, Cache!ShownIn

LEMMA FeedInit == Init => Feed!Init
<1> SUFFICES ASSUME Init PROVE Feed!Init
  OBVIOUS
<1>1. /\ added = 0 /\ Cache!Cached = {}
  BY DEF Init, Cache!Init, Cache!Cached
<1>2. OnTheWay = {}
  BY DEF Init, Cache!Init, Maker!Init, OnTheWay
<1>3. Len(created) = 0 /\ created = <<>>
  BY DEF Init, Maker!Init
<1>4. ShownList = <<>>
  BY <1>3 DEF ShownList
<1>5. Seen = [c \in Clients |-> {}]
  BY <1>3 DEF Seen
<1> QED
  BY <1>1, <1>2, <1>4, <1>5 DEF Feed!Init

-----------------------------------------------------------------------------
(* Each step of the service is a step of the feed, or none. *)

\* What the steps have in common that stay inside the cache's locked part.
LEMMA CacheOnly ==
    ASSUME CacheKnown, MakerKnown, LinkInv, UNCHANGED makerVars, given' = given,
           \A t \in Threads : cachePc'[t] = "create" <=> cachePc[t] = "create",
           \A t \in Threads : cachePc[t] = "create" => pvs'[t] = pvs[t]
    PROVE  UNCHANGED <<OnTheWay, ShownList, Seen>>
<1>1. UNCHANGED <<makerPc, preview, created, received>>
  BY DEF makerVars
<1> QED
  BY <1>1, WayKept, ListKept, SeenKept

LEMMA PostStep ==
    ASSUME CacheKnown, MakerKnown, LinkInv, NEW t \in Threads, Post(t)
    PROVE  UNCHANGED Feed!vars
<1>0. CacheProofs!TypeOK
  BY DEF CacheKnown, CacheProofs!CacheInv
<1>1. /\ UNCHANGED makerVars
      /\ UNCHANGED <<added, faceCaches, bodyCaches, pvs, given>>
      /\ cachePc[t] = "idle" /\ cachePc' = [cachePc EXCEPT ![t] = "cleanup"]
  BY DEF Post, Cache!Post
<1>2. Cache!Cached' = Cache!Cached
  BY <1>1 DEF Cache!Cached
<1>3. \A s \in Threads : cachePc'[s] = "create" <=> cachePc[s] = "create"
  BY <1>0, <1>1 DEF CacheProofs!TypeOK
<1> QED
  BY <1>1, <1>2, <1>3, CacheOnly DEF Feed!vars

LEMMA TickStep ==
    ASSUME CacheKnown, MakerKnown, LinkInv, Tick
    PROVE  UNCHANGED Feed!vars
<1>1. UNCHANGED makerVars /\ UNCHANGED <<added, cachePc, faceCaches, bodyCaches, pvs, given>>
  BY DEF Tick, Cache!Tick
<1>2. Cache!Cached' = Cache!Cached
  BY <1>1 DEF Cache!Cached
<1> QED
  BY <1>1, <1>2, CacheOnly DEF Feed!vars

LEMMA AddStep ==
    ASSUME CacheKnown, CacheKnown', MakerKnown, LinkInv, NEW t \in Threads, Add(t)
    PROVE  Feed!Next \/ UNCHANGED Feed!vars
<1>0. CacheProofs!TypeOK /\ CacheProofs!KeptInv
  BY DEF CacheKnown, CacheProofs!CacheInv
<1>1. UNCHANGED makerVars
  BY DEF Add
<1>2. added \in Nat /\ \A s \in Threads : s # t => cachePc'[s] = cachePc[s]
  BY <1>0 DEF Add, CacheProofs!TypeOK, Cache!Cleanup, Cache!AddFace, Cache!AddBody,
              Cache!AddInvalid, Cache!ProcessNone, Cache!ProcessReady
<1>3. CASE Cache!Cleanup(t)
  <2>1. CacheProofs!Cached' \subseteq CacheProofs!Cached
    BY <1>0, <1>3, SameCacheActions, CacheConstants, CacheProofs!CleanupFacts
  <2>2. /\ UNCHANGED <<added, pvs, given>>
        /\ cachePc[t] = "cleanup" /\ cachePc'[t] = "add"
    BY <1>0, <1>3 DEF Cache!Cleanup, CacheProofs!TypeOK
  <2>3. UNCHANGED <<OnTheWay, ShownList, Seen>>
    BY <1>1, <1>2, <2>2, CacheOnly
  <2>4. Feed!Drop
    BY <2>1, <2>2, <2>3, SamePictures DEF Feed!Drop
  <2> QED
    BY <2>4 DEF Feed!Next
<1>4. CASE Cache!AddFace(t) \/ Cache!AddBody(t) \/ Cache!AddInvalid(t)
  <2>1. \A p, q \in Cache!Cached' \ Cache!Cached : p.arrival = added + 1 /\ p = q
    <3>1. CASE Cache!AddFace(t)
      BY <1>0, <3>1, SameCacheActions, SamePictures, CacheConstants,
         CacheProofs!AddFaceFacts
    <3>2. CASE Cache!AddBody(t)
      BY <1>0, <3>2, SameCacheActions, SamePictures, CacheConstants,
         CacheProofs!AddBodyFacts
    <3>3. CASE Cache!AddInvalid(t)
      BY <1>0, <3>3, SameCacheActions, SamePictures, CacheConstants,
         CacheProofs!AddInvalidFacts
    <3> QED
      BY <1>4, <3>1, <3>2, <3>3
  <2>2. /\ added' = added + 1 /\ UNCHANGED <<pvs, given>>
        /\ cachePc[t] = "add" /\ cachePc'[t] # "create"
    BY <1>0, <1>4 DEF Cache!AddFace, Cache!AddBody, Cache!AddInvalid,
                      Cache!AfterAdding, CacheProofs!TypeOK
  <2>3. UNCHANGED <<OnTheWay, ShownList, Seen>>
    BY <1>1, <1>2, <2>2, CacheOnly
  <2>4. Feed!Arrive
    BY <2>1, <2>2, <2>3 DEF Feed!Arrive
  <2> QED
    BY <2>4 DEF Feed!Next
<1>5. CASE Cache!ProcessNone(t)
  <2>1. /\ UNCHANGED <<added, faceCaches, bodyCaches, pvs, given>>
        /\ cachePc[t] = "process" /\ cachePc'[t] = "idle"
    BY <1>0, <1>5 DEF Cache!ProcessNone, CacheProofs!TypeOK
  <2>2. Cache!Cached' = Cache!Cached
    BY <2>1 DEF Cache!Cached
  <2>3. UNCHANGED <<OnTheWay, ShownList, Seen>>
    BY <1>1, <1>2, <2>1, CacheOnly
  <2> QED
    BY <2>1, <2>2, <2>3 DEF Feed!vars
<1>6. CASE Cache!ProcessReady(t)
  <2> DEFINE v == Pictures(pvs'[t])
  <2>1. /\ CacheProofs!Cached' \subseteq CacheProofs!Cached
        /\ v \subseteq CacheProofs!Cached
        /\ v \intersect CacheProofs!Cached' = {}
    BY <1>0, <1>6, SameCacheActions, SamePictures, CacheConstants,
       CacheProofs!ProcessFacts DEF Pictures
  <2>2. /\ UNCHANGED <<added, given>>
        /\ cachePc[t] = "process" /\ cachePc'[t] = "create"
        /\ \A s \in Threads : s # t => pvs'[s] = pvs[s]
    BY <1>0, <1>6 DEF Cache!ProcessReady, Cache!AfterTaking, CacheProofs!TypeOK
  <2>3. UNCHANGED <<makerPc, preview, created, received>>
    BY <1>1 DEF makerVars
  <2>4. UNCHANGED <<ShownList, Seen>>
    BY <2>2, <2>3, ListKept, SeenKept
  <2>5. v # {}
    <3>1. pvs'[t] \in CacheProofs!Made'
      BY <2>2 DEF CacheProofs!Made
    <3>2. PICK b \in pvs'[t].blocks : TRUE
      BY <3>1 DEF CacheKnown, CacheProofs!PreviewsWellFormed
    <3> QED
      BY <3>2 DEF Pictures, Cache!ShownIn
  <2> HIDE DEF v
  <2>6. OnTheWay' = OnTheWay \union {v}
    <3>1. {s \in Threads : cachePc'[s] = "create"}
            = {s \in Threads : cachePc[s] = "create"} \union {t}
      BY <1>2, <2>2
    <3> QED
      BY <2>2, <2>3, <3>1 DEF OnTheWay, Pictures, v
  <2>7. v \notin OnTheWay
    <3>1. \A w \in OnTheWay : w \intersect Cache!Cached = {}
      BY PreviewsApart DEF OnTheWay, Pictures
    <3> QED
      BY <2>1, <2>5, <3>1, SamePictures
  <2>8. Feed!Make
    BY <2>1, <2>2, <2>4, <2>5, <2>6, <2>7, SamePictures DEF Feed!Make
  <2> QED
    BY <2>8 DEF Feed!Next
<1> QED
  BY <1>3, <1>4, <1>5, <1>6 DEF Add

\* A preview that is handed over stays on its way.
LEMMA CallStep ==
    ASSUME CacheKnown, MakerKnown, LinkInv, NEW t \in Threads, CallMaker(t)
    PROVE  UNCHANGED Feed!vars
<1>0. CacheProofs!TypeOK /\ MakerProofs!TypeOK
  BY DEF CacheKnown, CacheProofs!CacheInv, MakerKnown, MakerProofs!PreviewInv
<1>1. /\ UNCHANGED <<added, faceCaches, bodyCaches, created, received>>
      /\ cachePc[t] = "create" /\ makerPc[t] = "idle"
      /\ cachePc'[t] = "idle" /\ makerPc'[t] = "load"
      /\ given' = Append(given, pvs[t]) /\ preview'[t] = calls + 1
      /\ \A s \in Threads : s # t =>
           /\ cachePc'[s] = cachePc[s] /\ pvs'[s] = pvs[s]
           /\ makerPc'[s] = makerPc[s] /\ preview'[s] = preview[s]
  BY <1>0 DEF CallMaker, Cache!Create, Maker!Call, Maker!cacheVars, Maker!clientVars,
              CacheProofs!TypeOK, MakerProofs!TypeOK
<1>2. /\ given \in Seq(CacheProofs!Preview) /\ calls = Len(given) /\ calls \in Nat
      /\ \A i \in 1 .. Len(created) : created[i].preview \in 1 .. calls
      /\ \A s \in Threads : makerPc[s] # "idle" => preview[s] \in 1 .. calls
  BY PreviewsApart
<1>3. /\ given'[calls + 1] = pvs[t]
      /\ \A i \in 1 .. calls : given'[i] = given[i]
  BY <1>1, <1>2
<1>4. /\ {s \in Threads : cachePc[s] = "create"}
           = {s \in Threads : cachePc'[s] = "create"} \union {t}
      /\ {s \in Threads : makerPc'[s] # "idle"}
           = {s \in Threads : makerPc[s] # "idle"} \union {t}
      /\ t \notin {s \in Threads : cachePc'[s] = "create"}
      /\ t \notin {s \in Threads : makerPc[s] # "idle"}
  BY <1>1
<1>5. OnTheWay' = OnTheWay
  <2>1. \A s \in Threads : cachePc'[s] = "create" => pvs'[s] = pvs[s]
    BY <1>1
  <2>2. \A s \in Threads : makerPc[s] # "idle" => given'[preview'[s]] = given[preview[s]]
    BY <1>1, <1>2, <1>3
  <2>3. Pictures(given'[preview'[t]]) = Pictures(pvs[t])
    BY <1>1, <1>3
  <2> QED
    BY <1>4, <2>1, <2>2, <2>3 DEF OnTheWay, Pictures
<1>6. Cache!Cached' = Cache!Cached
  BY <1>1 DEF Cache!Cached
<1>7. UNCHANGED <<ShownList, Seen>>
  BY <1>1, <1>2, <1>3, ListKept, SeenKept
<1> QED
  BY <1>1, <1>5, <1>6, <1>7 DEF Feed!vars

\* A sequence that is longer by one is that sequence with its last appended.
LEMMA LongerByOne ==
    ASSUME NEW m \in Nat, NEW S,
           NEW s \in [1 .. m -> S], NEW q \in [1 .. m + 1 -> S],
           \A i \in 1 .. m : q[i] = s[i]
    PROVE  q = Append(s, q[m + 1])
<1>1. s \in Seq(S) /\ Len(s) = m /\ q \in Seq(S) /\ Len(q) = m + 1 /\ q[m + 1] \in S
  OBVIOUS
<1>2. /\ Append(s, q[m + 1]) \in Seq(S) /\ Len(Append(s, q[m + 1])) = m + 1
      /\ \A i \in 1 .. m + 1 : Append(s, q[m + 1])[i] = q[i]
  BY <1>1
<1> QED
  BY <1>1, <1>2

LEMMA InsertStep ==
    ASSUME CacheKnown, MakerKnown, LinkInv, NEW t \in Threads,
           Maker!Insert(t), UNCHANGED cacheVars
    PROVE  Feed!Show
<1> DEFINE m == Len(created)
           v == Pictures(given[preview[t]])
<1>0. /\ CacheProofs!TypeOK /\ MakerProofs!TypeOK /\ MakerProofs!CallsInv
      /\ MakerProofs!NamesInv /\ MakerProofs!SeenInv /\ MakerProofs!UniqueNames
  BY DEF CacheKnown, CacheProofs!CacheInv, MakerKnown, MakerProofs!PreviewInv,
         LinkInv, MakerProofs!UniqueNames
<1>1. /\ UNCHANGED <<added, faceCaches, bodyCaches, cachePc, pvs, given>>
      /\ UNCHANGED <<preview, received>>
      /\ makerPc[t] = "insert" /\ makerPc'[t] = "idle"
      /\ \A s \in Threads : s # t => makerPc'[s] = makerPc[s]
  BY <1>0 DEF cacheVars, Maker!Insert, Maker!clientVars, MakerProofs!TypeOK
<1>2. /\ m \in Nat /\ Len(created') = m + 1
      /\ \A i \in 1 .. m : created'[i] = created[i]
      /\ created'[m + 1].id = uuidStr[t] /\ created'[m + 1].preview = preview[t]
  BY <1>0, SameMakerActions, MakerConstants, MakerProofs!InsertFacts
     DEF MakerProofs!TypeOK
<1>3. \A i \in 1 .. m : created[i].id # uuidStr[t]
  BY <1>0, <1>1, MakerConstants, MakerProofs!FreshId
<1>4. Cache!Cached' = Cache!Cached
  BY <1>1 DEF Cache!Cached
<1>5. ShownList' = Append(ShownList, v)
  <2> DEFINE S == {Shown(i) : i \in 1 .. m} \union {v}
  <2>1. ShownList \in [1 .. m -> S]
    BY DEF ShownList
  <2>2. /\ ShownList' = [i \in 1 .. m + 1 |-> Pictures(given[created'[i].preview])]
        /\ \A i \in 1 .. m : ShownList'[i] = ShownList[i]
        /\ ShownList'[m + 1] = v
    BY <1>1, <1>2 DEF ShownList, Shown, Pictures
  <2>3. \A i \in 1 .. m + 1 : ShownList'[i] \in S
    <3>1. \A i \in 1 .. m + 1 : i \in 1 .. m \/ i = m + 1
      BY <1>2
    <3> QED
      BY <2>1, <2>2, <3>1
  <2> HIDE DEF S, v, m
  <2>4. ShownList' \in [1 .. m + 1 -> S]
    BY <2>2, <2>3
  <2>5. \A i \in 1 .. m : ShownList'[i] = ShownList[i]
    BY <2>2
  <2>6. ShownList' = Append(ShownList, ShownList'[m + 1])
    BY <1>2, <2>1, <2>4, <2>5, LongerByOne, Zenon
  <2> QED
    BY <2>2, <2>6
<1>6. Seen' = Seen
  <2>1. ASSUME NEW c \in Clients PROVE uuidStr[t] \notin received[c]
    <3> SUFFICES ASSUME uuidStr[t] \in received[c] PROVE FALSE
      OBVIOUS
    <3>1. PICK k \in 1 .. m : received[c] \subseteq {created[i].id : i \in 1 .. k}
      BY <1>0 DEF MakerProofs!SeenInv
    <3>2. PICK i \in 1 .. k : uuidStr[t] = created[i].id
      BY <3>1
    <3> QED
      BY <1>2, <1>3, <3>1, <3>2
  <2>2. ASSUME NEW c \in Clients
        PROVE  {i \in 1 .. m + 1 : created'[i].id \in received[c]}
                 = {i \in 1 .. m : created[i].id \in received[c]}
    <3>1. \A i \in 1 .. m + 1 : i \in 1 .. m \/ i = m + 1
      BY <1>2
    <3>2. \A i \in 1 .. m : i \in 1 .. m + 1
      BY <1>2
    <3> QED
      BY <1>2, <2>1, <3>1, <3>2
  <2> QED
    BY <1>1, <1>2, <2>2 DEF Seen
<1>7. v \in OnTheWay
  BY <1>1 DEF OnTheWay, Pictures
<1>8. OnTheWay' = OnTheWay \ {v}
  <2>1. preview[t] \in 1 .. calls /\ v # {}
    BY <1>1, PreviewsApart
  <2>2. \A s \in Threads : cachePc[s] = "create" => Pictures(pvs[s]) # v
    BY <2>1, PreviewsApart
  <2>3. \A s \in Threads : s # t /\ makerPc[s] # "idle" => Pictures(given[preview[s]]) # v
    <3> SUFFICES ASSUME NEW s \in Threads, s # t, makerPc[s] # "idle"
                 PROVE  Pictures(given[preview[s]]) # v
      OBVIOUS
    <3>1. preview[s] \in 1 .. calls /\ preview[s] # preview[t]
      BY <1>0, <1>1 DEF MakerProofs!CallsInv
    <3>2. Pictures(given[preview[s]]) \intersect v = {}
      BY <2>1, <3>1, PreviewsApart
    <3> QED
      BY <2>1, <3>2
  <2>4. {s \in Threads : makerPc'[s] # "idle"} = {s \in Threads : makerPc[s] # "idle"} \ {t}
    BY <1>1
  <2> QED
    BY <1>1, <2>2, <2>3, <2>4 DEF OnTheWay, Pictures
<1> QED
  BY <1>1, <1>4, <1>5, <1>6, <1>7, <1>8 DEF Feed!Show

LEMMA MakeStep ==
    ASSUME CacheKnown, MakerKnown, LinkInv, NEW t \in Threads, Make(t)
    PROVE  Feed!Next \/ UNCHANGED Feed!vars
<1>1. CASE Maker!Insert(t)
  BY <1>1, InsertStep DEF Make, Feed!Next
<1>2. CASE Maker!LoadSeq(t) \/ Maker!StoreSeq(t) \/ Maker!Name(t)
  <2>1. /\ UNCHANGED <<added, faceCaches, bodyCaches, cachePc, pvs, given>>
        /\ UNCHANGED <<preview, created, received>>
    BY <1>2 DEF Make, cacheVars, Maker!LoadSeq, Maker!StoreSeq, Maker!Name,
                Maker!cacheVars, Maker!clientVars
  <2>2. \A s \in Threads : makerPc'[s] # "idle" <=> makerPc[s] # "idle"
    BY <1>2 DEF MakerKnown, MakerProofs!PreviewInv, MakerProofs!TypeOK,
                Maker!LoadSeq, Maker!StoreSeq, Maker!Name
  <2>3. Cache!Cached' = Cache!Cached
    BY <2>1 DEF Cache!Cached
  <2> QED
    BY <2>1, <2>2, <2>3, WayKept, ListKept, SeenKept DEF Feed!vars
<1> QED
  BY <1>1, <1>2 DEF Make

LEMMA PollStep ==
    ASSUME CacheKnown, MakerKnown, LinkInv, NEW c \in Clients, Poll(c)
    PROVE  Feed!Poll(c)
<1> DEFINE m == Len(created)
           listing == MakerProofs!Listing(prev[c], ids)
<1>0. /\ MakerProofs!PreviewInv /\ MakerProofs!LastReceived /\ MakerProofs!TypeOK
      /\ MakerProofs!UniqueNames
  BY DEF MakerKnown, MakerProofs!PreviewInv, LinkInv, MakerProofs!UniqueNames
<1>1. UNCHANGED <<added, faceCaches, bodyCaches, cachePc, pvs, given>>
  BY DEF Poll, cacheVars
<1>2. UNCHANGED <<makerPc, preview, created>>
  BY DEF Poll, Maker!Poll, Maker!creatorVars, Maker!cacheVars
<1>3. PICK n, k \in 0 .. m : MakerProofs!ListingGives(c, n, k)
  BY <1>0, MakerConstants, MakerProofs!ListingIsNewest
<1>4. /\ n <= ReturnLimit /\ k <= m - n
      /\ n = ReturnLimit \/ n = m - k
      /\ MakerProofs!Range(listing) \subseteq DOMAIN pictures
      /\ \A j \in 1 .. m : created[j].id \in MakerProofs!Range(listing) <=> j > m - n
      /\ k # 0 => created[k].id \in received[c]
      /\ \A j \in 1 .. m : created[j].id \in received[c] => j <= k
  BY <1>3, Zenon DEF MakerProofs!ListingGives
<1> HIDE DEF listing
<1>5. received' = [received EXCEPT ![c] = @ \union MakerProofs!Range(listing)]
  BY <1>4, SameMakerActions, Zenon DEF Poll, MakerProofs!Poll, listing
<1>6. m \in Nat /\ ReturnLimit \in Nat
  BY <1>0, MakerAssumption DEF MakerProofs!TypeOK
<1>7. /\ received'[c] = received[c] \union MakerProofs!Range(listing)
      /\ \A d \in Clients : d # c => received'[d] = received[d]
  BY <1>0, <1>5 DEF MakerProofs!TypeOK
<1>8. Len(ShownList) = m
  BY <1>6 DEF ShownList
<1>9. \A j \in 1 .. m : j > m - n <=>
         j > m - ReturnLimit /\ \A i \in Seen[c] : i < j
  <2> SUFFICES ASSUME NEW j \in 1 .. m
               PROVE  j > m - n <=> j > m - ReturnLimit /\ \A i \in Seen[c] : i < j
    OBVIOUS
  <2>1. Seen[c] = {i \in 1 .. m : created[i].id \in received[c]}
    BY DEF Seen
  <2>2. \A i \in Seen[c] : i \in 1 .. m /\ i <= k
    BY <1>4, <2>1
  <2>3. ASSUME j > m - n PROVE j > m - ReturnLimit /\ \A i \in Seen[c] : i < j
    BY <1>4, <1>6, <2>2, <2>3
  <2>4. ASSUME j > m - ReturnLimit, \A i \in Seen[c] : i < j PROVE j > m - n
    <3>1. CASE k = 0
      BY <1>4, <1>6, <2>4, <3>1
    <3>2. CASE k # 0
      <4>1. k \in Seen[c]
        BY <1>4, <1>6, <2>1, <3>2
      <4> QED
        BY <1>4, <1>6, <2>4, <4>1
    <3> QED
      BY <3>1, <3>2
  <2> QED
    BY <2>3, <2>4
<1>10. Feed!New(c) = {j \in 1 .. m : j > m - n}
  BY <1>8, <1>9 DEF Feed!New
<1>11. Seen' = [Seen EXCEPT ![c] = @ \union Feed!New(c)]
  <2>1. /\ Seen' = [d \in Clients |-> {i \in 1 .. m : created[i].id \in received'[d]}]
        /\ Seen = [d \in Clients |-> {i \in 1 .. m : created[i].id \in received[d]}]
    BY <1>2 DEF Seen
  <2>2. {i \in 1 .. m : created[i].id \in received'[c]}
          = {i \in 1 .. m : created[i].id \in received[c]} \union {j \in 1 .. m : j > m - n}
    BY <1>4, <1>7
  <2> HIDE DEF m
  <2> QED
    BY <1>7, <1>10, <2>1, <2>2
<1>12. UNCHANGED <<OnTheWay, ShownList>>
  BY <1>1, <1>2, WayKept, ListKept
<1>13. Cache!Cached' = Cache!Cached
  BY <1>1 DEF Cache!Cached
<1> QED
  BY <1>1, <1>11, <1>12, <1>13 DEF Feed!Poll

LEMMA FeedStep ==
    ASSUME CacheKnown, CacheKnown', MakerKnown, LinkInv, [Next]_vars
    PROVE  Feed!Next \/ UNCHANGED Feed!vars
<1>1. ASSUME NEW t \in Threads, Handle(t) PROVE Feed!Next \/ UNCHANGED Feed!vars
  BY <1>1, AddStep, CallStep, MakeStep DEF Handle
<1>2. ASSUME NEW t \in Threads, Post(t) PROVE UNCHANGED Feed!vars
  BY <1>2, PostStep
<1>3. ASSUME NEW c \in Clients, Poll(c) PROVE Feed!Next
  BY <1>3, PollStep DEF Feed!Next
<1>4. CASE Tick
  BY <1>4, TickStep
<1>5. CASE UNCHANGED vars
  <2>1. /\ UNCHANGED <<added, faceCaches, bodyCaches, cachePc, pvs, given>>
        /\ UNCHANGED makerVars
    BY <1>5 DEF vars, cacheVars
  <2>2. Cache!Cached' = Cache!Cached
    BY <2>1 DEF Cache!Cached
  <2> QED
    BY <2>1, <2>2, CacheOnly DEF Feed!vars
<1> QED
  BY <1>1, <1>2, <1>3, <1>4, <1>5, Zenon DEF Next

\* Whatever the threads, the caches, the lists and their limits do, the service
\* is a feed of previews (PictureCache.cpp:74-159, PicturePreviewHandler.cpp:134-193).
THEOREM ServiceIsFeed == Spec => ImplementsFeed
<1>1. /\ CacheKnown /\ CacheKnown' /\ MakerKnown /\ LinkInv /\ [Next]_vars
      => [Feed!Next]_(Feed!vars)
  BY FeedStep
<1> QED
  BY <1>1, FeedInit, ServiceKnown, PTL DEF Spec, ImplementsFeed, Feed!Spec

-----------------------------------------------------------------------------
(* What a client is told of. *)

\* Two entries of the list's history are of different calls, and so show
\* different pictures.
LEMMA ShownApart ==
    ASSUME CacheKnown, MakerKnown, LinkInv,
           NEW i \in 1 .. Len(created), NEW j \in 1 .. Len(created), i # j
    PROVE  Shown(i) \intersect Shown(j) = {}
<1>1. created[i].preview # created[j].preview
  BY DEF MakerKnown, MakerProofs!PreviewInv, MakerProofs!CallsInv
<1>2. created[i].preview \in 1 .. calls /\ created[j].preview \in 1 .. calls
  BY PreviewsApart
<1>3. Pictures(given[created[i].preview]) \intersect Pictures(given[created[j].preview]) = {}
  BY <1>1, <1>2, PreviewsApart
<1> QED
  BY <1>3 DEF Shown, Pictures

\* No client is told of a picture twice, whatever threads, caches and evictions
\* do between its requests (PictureCache.cpp:132-136,
\* PicturePreviewHandler.cpp:151-193).
THEOREM NewsIsNew == Spec => []NextIsNews
<1>1. ASSUME CacheKnown, MakerKnown, LinkInv, MakerProofs!NextListingIsNew
      PROVE  NextIsNews
  <2> SUFFICES ASSUME NEW c \in Clients, NEW i \in 1 .. Len(created),
                      created[i].id \in Range(Maker!Listing(prev[c], ids)),
                      NEW p \in Shown(i), p \in Told(c)
               PROVE  FALSE
    BY DEF NextIsNews
  <2>1. PICK j \in 1 .. Len(created) : created[j].id \in received[c] /\ p \in Shown(j)
    BY DEF Told, Seen
  <2>2. MakerProofs!UniqueNames
    BY <1>1 DEF LinkInv, MakerProofs!UniqueNames
  <2>3. created[i].id \in MakerProofs!Range(MakerProofs!Listing(prev[c], ids))
    BY Zenon DEF Range, Maker!Listing, MakerProofs!Listing, Maker!Lengths,
                 MakerProofs!Lengths, MakerProofs!Range
  <2>4. created[i].id \notin received[c]
    BY <1>1, <2>2, <2>3 DEF MakerProofs!NextListingIsNew
  <2>5. i # j
    BY <2>1, <2>4
  <2>6. Shown(i) \intersect Shown(j) = {}
    BY <1>1, <2>5, ShownApart
  <2> QED
    BY <2>1, <2>6
<1>2. Spec => []MakerProofs!NextListingIsNew
  <2>1. Spec => MakerProofs!Spec
    BY ComponentSpecs
  <2>2. MakerProofs!Spec => []MakerProofs!NextListingIsNew
    BY MakerConstants, MakerProofs!ListingsAreNew
  <2> QED
    BY <2>1, <2>2
<1> QED
  BY <1>1, <1>2, ServiceKnown, PTL
=============================================================================
