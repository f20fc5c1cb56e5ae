--------------------------- MODULE PreviewService ---------------------------
(***************************************************************************)
(* The preview service as a whole: the handler of POST .../pictures adds a *)
(* picture to the PictureCache (src/src/main.cpp), whose process calls     *)
(* PicturePreviewHandler::createPreview on the same thread                 *)
(* (src/src/PictureCache.cpp); clients poll the list of previews.          *)
(*                                                                         *)
(* The steps are those of the two components.  They are joined where one   *)
(* calls the other: leaving process with pictures is entering createPreview*)
(* with them, and a thread inside createPreview takes no other request.    *)
(*                                                                         *)
(* The random generator is taken to work here, so that every preview has   *)
(* an id of its own; PicturePreviewHandler is where it may fail.           *)
(***************************************************************************)
EXTENDS Integers, Sequences, FiniteSets, Functions

CONSTANTS
    Threads, Objects, CacheLines, Needed, TimeLimit,    \* of PictureCache
    MaxPictures, MaxTime,
    Clients, CacheLimit, ReturnLimit, MaxPreviews   \* of PicturePreviewHandler

ASSUME CacheAssumption ==
    /\ CacheLines \in Nat \ {0} /\ Needed \in Nat \ {0} /\ TimeLimit \in Nat
    /\ IsFiniteSet(Objects) /\ MaxPictures \in Nat /\ MaxTime \in Nat
ASSUME MakerAssumption ==
    CacheLimit \in Nat /\ ReturnLimit \in 1 .. CacheLimit /\ MaxPreviews \in Nat

VARIABLES
    now, added, cachePc, adding, faceCaches, bodyCaches, pvs, given,
    calls, makerPc, preview, loaded, uuidStr, seq, ids, pictures, created,
    prev, received, overrun, fallback, overlap

Cache == INSTANCE PictureCache WITH pc <- cachePc, previews <- given
Maker == INSTANCE PicturePreviewHandler WITH Creators <- Threads, pc <- makerPc

cacheVars == <<now, added, cachePc, adding, faceCaches, bodyCaches, pvs, given>>
makerVars == <<calls, makerPc, preview, loaded, uuidStr, seq, ids, pictures,
               created, prev, received, overrun, fallback, overlap>>
vars      == <<cacheVars, makerVars>>

Init == Cache!Init /\ Maker!Init

\* The handler of one request runs to its end, createPreview included, before
\* its thread takes another.
Returned(t) == makerPc[t] = "idle"

\* A picture is posted.
Post(t) ==
    /\ Returned(t)
    /\ \E o \in Objects, from \in Cache!Cameras \union {Cache!Face, Cache!Invalid} :
         Cache!Post(t, o, from)
    /\ UNCHANGED makerVars

\* addPicture, up to the call of createPreview ...
Add(t) ==
    /\ \/ Cache!Cleanup(t)
       \/ Cache!AddFace(t) \/ Cache!AddBody(t) \/ Cache!AddInvalid(t)
       \/ Cache!ProcessNone(t) \/ Cache!ProcessReady(t)
    /\ UNCHANGED makerVars

\* ... the call, which hands over the pictures ...
CallMaker(t) == Cache!Create(t) /\ Maker!Call(t)

\* ... and createPreview.
Make(t) ==
    /\ \/ Maker!LoadSeq(t) \/ Maker!StoreSeq(t)
       \/ Maker!Name(t) /\ fallback' = fallback
       \/ Maker!Insert(t)
    /\ UNCHANGED cacheVars

\* A client asks for the list.
Poll(c) == Maker!Poll(c) /\ UNCHANGED cacheVars

Tick == Cache!Tick /\ UNCHANGED makerVars

Handle(t) == Add(t) \/ CallMaker(t) \/ Make(t)

Next ==
    \/ \E t \in Threads : Post(t) \/ Handle(t)
    \/ \E c \in Clients : Poll(c)
    \/ Tick

Spec == Init /\ [][Next]_vars

\* The threads finish what they have begun, and the clients keep polling.
FairSpec ==
    /\ Spec
    /\ \A t \in Threads : WF_vars(Handle(t))
    /\ \A c \in Clients : WF_vars(Poll(c))

-----------------------------------------------------------------------------
(* Properties. *)

\* The pictures of the i-th preview in the list's history.
Shown(i) == Cache!ShownIn(given[created[i].preview])

\* The previews on their way: taken from the cache, and not yet in the list.
OnTheWay ==
    {Cache!ShownIn(pvs[t]) : t \in {s \in Threads : cachePc[s] = "create"}}
    \union
    {Cache!ShownIn(given[preview[t]]) : t \in {s \in Threads : makerPc[s] # "idle"}}

\* All that has been in the list, and what of it each client has been told of.
ShownList == [i \in 1 .. Len(created) |-> Shown(i)]
Seen      == [c \in Clients |->
                 {i \in 1 .. Len(created) : created[i].id \in received[c]}]

\* The service, with its threads, its bounded list and its eviction, is a feed
\* of previews: no picture is shown twice, and every request of a client gets it
\* all that is new, or the newest of that, never less and never out of order.
Feed == INSTANCE PreviewFeed WITH
    arrived <- added,
    waiting <- Cache!Cached,
    made    <- OnTheWay,
    shown   <- ShownList,
    seen    <- Seen

ImplementsFeed == Feed!Spec

\* The pictures that a client has been told of.
Told(c) == UNION {Shown(i) : i \in Seen[c]}

\* Whatever the threads did meanwhile, a client's next request tells it of no
\* picture that it has been told of before, in this preview or in another one:
\* process gives a picture away once (PictureCache.cpp:132-136), createPreview
\* lists it once, and listPreview stops before what the client has
\* (PicturePreviewHandler.cpp:151-163, 178-193).
NextIsNews ==
    \A c \in Clients, i \in 1 .. Len(created) :
        created[i].id \in Range(Maker!Listing(prev[c], ids)) =>
            Shown(i) \intersect Told(c) = {}

\* A face and bodies that make an object ready reach every client that polls,
\* unless they are too old by then or the client has had more previews at once
\* than a listing holds.
ReadyIsSeen ==
    \A o \in Objects, c \in Clients :
        o \in Cache!Ready ~> \/ \E p \in Told(c) : p.object = o
                             \/ now > TimeLimit
                             \/ overrun[c]
=============================================================================
