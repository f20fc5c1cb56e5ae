---------------------------- MODULE PictureCache ----------------------------
(***************************************************************************)
(* The gathering of posted pictures into previews: PictureCache            *)
(* (src/src/PictureCache.cpp), called by the handler of POST               *)
(* /api/v1/realtime/preview/pictures (src/src/main.cpp) on any thread of   *)
(* the io_context.                                                         *)
(*                                                                         *)
(* addPicture takes the mutex three times, in cleanup, to add the picture, *)
(* and in process; between them, and before createPreview, other threads   *)
(* may run.  What happens under the mutex is one action.                   *)
(*                                                                         *)
(* A vector of pictures is represented by the set of its elements, each    *)
(* with the number of its arrival: pictures are only appended, and         *)
(* removing some keeps the order of the others.  A vector given to         *)
(* createPreview is a sequence of blocks of pictures; it is represented by *)
(* its first pictures, which become the snaps, and the set of its blocks.  *)
(***************************************************************************)
EXTENDS Integers, Sequences, FiniteSets, Functions

CONSTANTS
    Threads,        \* threads running the io_context
    Objects,        \* object ids
    CacheLines,     \* cacheLines, one for each camera: 4
    Needed,         \* pictures of one camera that make a preview: 6
    TimeLimit,      \* timeLimit: 10 s
    MaxPictures,    \* bound: pictures posted
    MaxTime         \* bound: the clock

ASSUME CacheLinesAssumption == CacheLines \in Nat \ {0}
ASSUME NeededAssumption     == Needed \in Nat \ {0}
ASSUME TimeLimitAssumption  == TimeLimit \in Nat
ASSUME ObjectsAssumption    == IsFiniteSet(Objects)
ASSUME BoundsAssumption     == MaxPictures \in Nat /\ MaxTime \in Nat

VARIABLES
    now,            \* the system clock
    added,          \* arrivals so far: a picture gets the number of its arrival
    pc,             \* where each thread is in addPicture
    adding,         \* the picture a thread has been given
    faceCaches,     \* the latest face of some objects
    bodyCaches,     \* the lines of bodies of some objects, one for each camera
    pvs,            \* the pictures a thread has taken, for createPreview
    previews        \* history: what createPreview has been given, in order

vars == <<now, added, pc, adding, faceCaches, bodyCaches, pvs, previews>>

Cameras == 0 .. CacheLines - 1
Face    == -1           \* objectType face, whatever the camera
Invalid == CacheLines   \* a body of a camera for which there is no line

\* A picture as it was parsed, and as it is kept.
Parsed  == [object : Objects, from : Cameras \union {Face, Invalid}, time : Nat]
Picture == [object : Objects, from : Cameras \union {Face}, time : Nat,
            arrival : Nat]

\* What process adds for one object and one long line: the face, the first
\* picture of every camera, and the tracks, the first pictures of one camera.
Block   == [face : Picture, firsts : [Cameras -> Picture],
            tracks : SUBSET Picture]
Preview == [face : Picture, firsts : [Cameras -> Picture],
            blocks : SUBSET Block]
Nothing == <<>>         \* no picture, an empty pvs

TypeOK ==
    /\ now \in Nat /\ added \in Nat
    /\ pc \in [Threads -> {"idle", "cleanup", "add", "process", "create"}]
    /\ adding \in [Threads -> Parsed \union {Nothing}]
    /\ \A t \in Threads : pc[t] \in {"cleanup", "add"} => adding[t] \in Parsed
    /\ DOMAIN faceCaches \subseteq Objects
    /\ \A o \in DOMAIN faceCaches : faceCaches[o] \in Picture
    /\ DOMAIN bodyCaches \subseteq Objects
    /\ \A o \in DOMAIN bodyCaches : bodyCaches[o] \in [Cameras -> SUBSET Picture]
    /\ pvs \in [Threads -> Preview \union {Nothing}]
    /\ \A t \in Threads : IF pc[t] = "create" THEN pvs[t] \in Preview
                                            ELSE pvs[t] = Nothing
    /\ previews \in Seq(Preview)

(***************************************************************************)
(* Plausible errors, used to show that the properties notice them.         *)
(***************************************************************************)
ErasedBesideOnly(ready, beside) == beside
ErasedEverything(ready, beside) == Objects
IdleAfterTaking                 == "idle"
OneTooMany(line)                ==
    {p \in line : Cardinality({q \in line : q.arrival < p.arrival}) <= Needed}

(***************************************************************************)
(* The pieces of the handlers.                                             *)
(***************************************************************************)

\* cleanup's isExpired.
IsExpired(picture, clock) == clock - picture.time > TimeLimit

\* The entries of a map for the given keys.
EntriesOf(map, keys) == [key \in keys |-> map[key]]

NoLines == [camera \in Cameras |-> {}]

\* addPicture's emplace: a new entry has empty lines.
LinesOf(o) == IF o \in DOMAIN bodyCaches THEN bodyCaches[o] ELSE NoLines

\* The line of the camera gets the picture at its end.
Extended(lines, camera, p) == [lines EXCEPT ![camera] = @ \union {p}]

\* The picture at index 0 of a line, and those at indexes below Needed.
First(line) == CHOOSE p \in line : \A q \in line : p.arrival <= q.arrival

Earliest(line) ==
    {p \in line : Cardinality({q \in line : q.arrival < p.arrival}) < Needed}

\* The objects process goes through: those with a face and an entry of bodies.
Candidates == DOMAIN faceCaches \intersect DOMAIN bodyCaches

\* A line long enough for a block.
Enough(line) == Cardinality(line) >= Needed

\* The objects for which tryPostWithObject adds pictures to pvs: no line is
\* empty, and at least one is long enough.
Ready ==
    {o \in Candidates :
        /\ \A camera \in Cameras : bodyCaches[o][camera] # {}
        /\ \E camera \in Cameras : Enough(bodyCaches[o][camera])}

Firsts(o) == [camera \in Cameras |-> First(bodyCaches[o][camera])]

\* The blocks if the length of the lines were not tested (a plausible error).
BlocksOfAnyLine(ready) ==
    {[face |-> faceCaches[o], firsts |-> Firsts(o),
      tracks |-> Earliest(bodyCaches[o][camera])] :
        o \in {c \in Candidates : \A k \in Cameras : bodyCaches[c][k] # {}},
        camera \in Cameras}

\* One block for each long line of each of the objects.
BlocksOf(ready) ==
    UNION {{[face   |-> faceCaches[o],
             firsts |-> Firsts(o),
             tracks |-> Earliest(bodyCaches[o][camera])] :
                camera \in {c \in Cameras : Enough(bodyCaches[o][c])}} :
           o \in ready}

\* The objects whose entries tryPostWithObject erases, because pvs is not empty
\* when it has looked at them: those that are ready, and those that are not but
\* come after one that is.
Erased(ready, beside) == ready \union beside

-----------------------------------------------------------------------------
(* addPicture. *)

Init ==
    /\ now = 0 /\ added = 0
    /\ pc = [t \in Threads |-> "idle"]
    /\ adding = [t \in Threads |-> Nothing]
    /\ faceCaches = <<>>
    /\ bodyCaches = <<>>
    /\ pvs = [t \in Threads |-> Nothing]
    /\ previews = <<>>

InProgress == {t \in Threads : pc[t] \in {"cleanup", "add"}}

\* The handler has parsed a picture, which gets the time of its arrival in the
\* server, and calls addPicture.
Post(t, object, from) ==
    /\ pc[t] = "idle"
    /\ added + Cardinality(InProgress) < MaxPictures
    /\ adding' = [adding EXCEPT ![t] =
                     [object |-> object, from |-> from, time |-> now]]
    /\ pc' = [pc EXCEPT ![t] = "cleanup"]
    /\ UNCHANGED <<now, added, faceCaches, bodyCaches, pvs, previews>>

\* cleanup reads the clock some time before it has the mutex.  Expired pictures
\* are removed, and then the entries of objects that have no bodies left.
Cleanup(t) ==
    /\ pc[t] = "cleanup"
    /\ \E clock \in adding[t].time .. now :
         LET fresh(o) == [camera \in Cameras |->
                             {p \in bodyCaches[o][camera] : ~IsExpired(p, clock)}]
             lines    == [o \in DOMAIN bodyCaches |-> fresh(o)]
         IN  /\ bodyCaches' = EntriesOf(lines,
                    {o \in DOMAIN lines : lines[o] # NoLines})
             /\ faceCaches' = EntriesOf(faceCaches,
                    {o \in DOMAIN faceCaches : ~IsExpired(faceCaches[o], clock)})
    /\ pc' = [pc EXCEPT ![t] = "add"]
    /\ UNCHANGED <<now, added, adding, pvs, previews>>

\* Where addPicture goes on after the picture is in its cache.
AfterAdding == "process"

Arriving(t) ==
    [object |-> adding[t].object, from |-> adding[t].from,
     time |-> adding[t].time, arrival |-> added + 1]

\* A face replaces the face of its object.
AddFace(t) ==
    LET p == Arriving(t)
    IN  /\ pc[t] = "add" /\ p.from = Face
        /\ added' = added + 1
        /\ faceCaches' = [o \in DOMAIN faceCaches \union {p.object} |->
                             IF o = p.object THEN p ELSE faceCaches[o]]
        /\ pc' = [pc EXCEPT ![t] = AfterAdding]
        /\ adding' = [adding EXCEPT ![t] = Nothing]
        /\ UNCHANGED <<now, bodyCaches, pvs, previews>>

\* A body goes to the line of its camera.
AddBody(t) ==
    LET p == Arriving(t)
    IN  /\ pc[t] = "add" /\ p.from \in Cameras
        /\ added' = added + 1
        /\ bodyCaches' = [o \in DOMAIN bodyCaches \union {p.object} |->
                             IF o = p.object
                             THEN Extended(LinesOf(o), p.from, p)
                             ELSE bodyCaches[o]]
        /\ pc' = [pc EXCEPT ![t] = AfterAdding]
        /\ adding' = [adding EXCEPT ![t] = Nothing]
        /\ UNCHANGED <<now, faceCaches, pvs, previews>>

\* A body of an unknown camera: the entry is made before at() throws, and the
\* exception ends addPicture.
AddInvalid(t) ==
    /\ pc[t] = "add" /\ adding[t].from = Invalid
    /\ added' = added + 1
    /\ bodyCaches' = [o \in DOMAIN bodyCaches \union {adding[t].object} |->
                         LinesOf(o)]
    /\ pc' = [pc EXCEPT ![t] = "idle"]
    /\ adding' = [adding EXCEPT ![t] = Nothing]
    /\ UNCHANGED <<now, faceCaches, pvs, previews>>

\* process, under the mutex, with no object ready: nothing is taken.
ProcessNone(t) ==
    /\ pc[t] = "process"
    /\ Ready = {}
    /\ pc' = [pc EXCEPT ![t] = "idle"]
    /\ UNCHANGED <<now, added, adding, faceCaches, bodyCaches, pvs, previews>>

\* Where process goes on after it has taken pictures.
AfterTaking == "create"

\* process, under the mutex, with objects ready.  An unordered map gives its
\* keys in any order: any ready object may be the first, whose pictures will be
\* the snaps, and any of the other candidates may come after it.
ProcessReady(t) ==
    /\ pc[t] = "process"
    /\ \E first \in Ready, beside \in SUBSET (Candidates \ Ready) :
         LET erased == Erased(Ready, beside)
         IN  /\ pvs' = [pvs EXCEPT ![t] =
                            [face   |-> faceCaches[first],
                             firsts |-> Firsts(first),
                             blocks |-> BlocksOf(Ready)]]
             /\ faceCaches' = EntriesOf(faceCaches, DOMAIN faceCaches \ erased)
             /\ bodyCaches' = EntriesOf(bodyCaches, DOMAIN bodyCaches \ erased)
    /\ pc' = [pc EXCEPT ![t] = AfterTaking]
    /\ UNCHANGED <<now, added, adding, previews>>

\* process, with the mutex released: the pictures become a preview.
Create(t) ==
    /\ pc[t] = "create"
    /\ previews' = Append(previews, pvs[t])
    /\ pvs' = [pvs EXCEPT ![t] = Nothing]
    /\ pc' = [pc EXCEPT ![t] = "idle"]
    /\ UNCHANGED <<now, added, adding, faceCaches, bodyCaches>>

Tick ==
    /\ now < MaxTime
    /\ now' = now + 1
    /\ UNCHANGED <<added, pc, adding, faceCaches, bodyCaches, pvs, previews>>

AddPicture(t) ==
    \/ Cleanup(t)
    \/ AddFace(t) \/ AddBody(t) \/ AddInvalid(t)
    \/ ProcessNone(t) \/ ProcessReady(t) \/ Create(t)

\* No request is in progress: nothing happens until the next one.
Quiet ==
    /\ \A t \in Threads : pc[t] = "idle"
    /\ UNCHANGED vars

Next ==
    \/ \E t \in Threads, o \in Objects, from \in Cameras \union {Face, Invalid} :
         Post(t, o, from)
    \/ \E t \in Threads : AddPicture(t)
    \/ Tick
    \/ Quiet

Spec == Init /\ [][Next]_vars

FairSpec == Spec /\ \A t \in Threads : WF_vars(AddPicture(t))

-----------------------------------------------------------------------------
(* Properties. *)

\* The pictures in the caches.
Cached ==
    {faceCaches[o] : o \in DOMAIN faceCaches}
        \union UNION {bodyCaches[o][camera] :
                          o \in DOMAIN bodyCaches, camera \in Cameras}

\* The pictures a preview shows.
ShownIn(v) ==
    UNION {{b.face} \union Range(b.firsts) \union b.tracks : b \in v.blocks}

\* A picture is shown in one preview at most, and has left the caches when it
\* is: two threads never take the same picture (PictureCache.cpp:132-136), one
\* that creates a preview late included.
NoPictureTwice ==
    /\ \A t \in Threads : pc[t] = "create" =>
         /\ ShownIn(pvs[t]) \intersect Cached = {}
         /\ \A s \in Threads \ {t} : pc[s] = "create" =>
              ShownIn(pvs[t]) \intersect ShownIn(pvs[s]) = {}
         /\ \A i \in 1 .. Len(previews) :
              ShownIn(pvs[t]) \intersect ShownIn(previews[i]) = {}
    /\ \A i \in 1 .. Len(previews) :
         /\ ShownIn(previews[i]) \intersect Cached = {}
         /\ \A j \in 1 .. Len(previews) \ {i} :
              ShownIn(previews[i]) \intersect ShownIn(previews[j]) = {}

\* While an object has all that a preview needs, some thread is on its way to
\* process: no ready object is left lying in the caches, in whatever order its
\* face and bodies arrived.
NoneLeftReady == Ready # {} => \E t \in Threads : pc[t] = "process"

\* The previews made: created, or about to be.
Made == Range(previews) \union {pvs[t] : t \in {s \in Threads : pc[s] = "create"}}

\* Each block shows one object: its face, a picture of each camera, and exactly
\* Needed tracks from one camera, of which that camera's picture is the oldest.
\* The snaps of the preview are the face and the pictures of one of the blocks.
PreviewsWellFormed ==
    \A v \in Made :
        /\ \E b \in v.blocks : v.face = b.face /\ v.firsts = b.firsts
        /\ \A b \in v.blocks :
             /\ b.face.from = Face
             /\ \A camera \in Cameras : b.firsts[camera].from = camera
             /\ \A p \in Range(b.firsts) \union b.tracks :
                  p.object = b.face.object
             /\ Cardinality(b.tracks) = Needed
             /\ \E camera \in Cameras : \A p \in b.tracks :
                  /\ p.from = camera
                  /\ b.firsts[camera].arrival <= p.arrival

\* A preview shows a picture, or an older one of the same object and camera.
Covers(v, p) ==
    \E q \in ShownIn(v) :
        q.object = p.object /\ q.from = p.from /\ q.arrival <= p.arrival

\* A picture leaves the caches only when its time is over, when it is a face
\* replaced by a newer one, or when a thread takes a preview.  Even then only the
\* objects that process goes through lose any, those with a face and bodies: one
\* that is ready loses none that the preview does not cover.  One that is not
\* may lose all it has, as the test of pvs is not that of its own pictures
\* (PictureCache.cpp:132-136); but none other does.
LossExplained ==
    [][\A p \in Cached \ Cached' :
          \/ now - p.time > TimeLimit
          \/ p.from = Face /\ \E q \in Cached' :
                                 q.from = Face /\ q.object = p.object
          \/ \E t \in Threads :
                /\ pc[t] = "process" /\ pc'[t] = "create"
                /\ p.object \in Candidates
                /\ p.object \in Ready => Covers(pvs'[t], p)]_vars

\* With one thread a preview shows a single object.  (With more, a preview may
\* join the objects that several threads have completed.)
PreviewOfOneObject ==
    \A v \in Made : \A b \in v.blocks : b.face.object = v.face.object

\* As long as no picture's time is over, an object that is ready is shown.
ReadyIsShown ==
    \A o \in Objects :
        o \in Ready ~> \/ \E v \in Range(previews) : \E p \in ShownIn(v) : p.object = o
                       \/ now > TimeLimit

-----------------------------------------------------------------------------
(* The inductive invariant. *)

\* Every picture is kept under its object and its camera, and only pictures
\* that have arrived are kept or shown.
KeptInv ==
    /\ \A o \in DOMAIN faceCaches :
         faceCaches[o].object = o /\ faceCaches[o].from = Face
    /\ \A o \in DOMAIN bodyCaches, camera \in Cameras :
         /\ IsFiniteSet(bodyCaches[o][camera])
         /\ \A p \in bodyCaches[o][camera] : p.object = o /\ p.from = camera
    /\ \A p \in Cached : p.arrival <= added
    /\ \A v \in Made : \A p \in ShownIn(v) : p.arrival <= added

CacheInv == TypeOK /\ KeptInv /\ NoneLeftReady /\ NoPictureTwice
=============================================================================
