----------------------- MODULE PicturePreviewHandler -----------------------
(***************************************************************************)
(* The bounded cache of previews and the clients that poll it:             *)
(* PicturePreviewHandler (src/src/PicturePreviewHandler.cpp) and the route *)
(* that lists it (src/src/main.cpp).                                       *)
(*                                                                         *)
(* createPreview runs on any thread of the io_context.  It increments seq  *)
(* and chooses an id before it takes the mutex, so those steps of several  *)
(* threads interleave; what happens under the mutex is one action, and so  *)
(* is listPreview.  The increment of seq is a data race: it is a load and  *)
(* a store, and increments may be lost.                                    *)
(***************************************************************************)
EXTENDS Integers, Sequences, Functions

CONSTANTS
    Creators,       \* threads that may be inside createPreview
    Clients,        \* clients polling with the newest id they have seen
    CacheLimit,     \* cacheLimit, picPreviewCacheNum: 30
    ReturnLimit,    \* the limit of a listing, returnLimit: 10
    MaxPreviews     \* bound: calls of createPreview

ASSUME CacheLimitAssumption  == CacheLimit \in Nat
ASSUME ReturnLimitAssumption == ReturnLimit \in 1 .. CacheLimit
ASSUME PreviewsAssumption    == MaxPreviews \in Nat

VARIABLES
    calls,      \* history: calls of createPreview so far
    pc,         \* where each creator is
    preview,    \* the pictures each creator has been given: its call's number
    loaded,     \* the value of seq a creator has loaded, to increment it
    uuidStr,    \* the id a creator has chosen
    seq, ids, pictures,     \* the members of PicturePreviewHandler
    created,    \* history: every [id, preview] in the order of insertion
    prev,       \* the id a client gives with its next request
    received,   \* history: the ids returned to a client
    overrun,    \* history: a listing for a client was cut at ReturnLimit
    fallback,   \* history: the random generator has failed
    overlap     \* history: a creator has begun while another was at it

creatorVars == <<calls, pc, preview, loaded, uuidStr, seq>>
cacheVars   == <<ids, pictures, created>>
clientVars  == <<prev, received, overrun>>
history     == <<fallback, overlap>>
vars        == <<creatorVars, cacheVars, clientVars, history>>

\* A random id never repeats; an id made from seq repeats if seq does.
RandomId(n) == <<"random", n>>
SeqId(n)    == <<"seq", n>>
NoId        == <<"none", 0>>
Id          == {"none", "random", "seq"} \X Nat

Creation == [id : Id, preview : Nat]

TypeOK ==
    /\ calls \in Nat /\ seq \in Nat
    /\ pc \in [Creators -> {"idle", "load", "store", "name", "insert"}]
    /\ preview \in [Creators -> Nat]
    /\ loaded \in [Creators -> Nat]
    /\ uuidStr \in [Creators -> Id]
    /\ ids \in Seq(Id)
    /\ DOMAIN pictures \subseteq Id
    /\ \A id \in DOMAIN pictures : pictures[id] \in Nat
    /\ created \in Seq(Creation)
    /\ prev \in [Clients -> Id]
    /\ received \in [Clients -> SUBSET Id]
    /\ overrun \in [Clients -> BOOLEAN]
    /\ fallback \in BOOLEAN /\ overlap \in BOOLEAN

(***************************************************************************)
(* Plausible errors, used to show that the properties notice them.         *)
(***************************************************************************)
FallbackFixed(t)     == SeqId(0)
AtBack(id, list)     == Append(list, id)
EvictedNewest(list)  == IF Len(list) > CacheLimit THEN {list[1]} ELSE {}
ThroughPrev(last, list) ==
    {n \in 0 .. Len(list) :
        n <= ReturnLimit /\ \A i \in 1 .. n - 1 : list[i] # last}
OneTooFew(last, list) ==
    {n \in 0 .. Len(list) :
        n < ReturnLimit /\ \A i \in 1 .. n : list[i] # last}

-----------------------------------------------------------------------------
(* createPreview. *)

Init ==
    /\ calls = 0 /\ seq = 0
    /\ pc = [t \in Creators |-> "idle"]
    /\ preview = [t \in Creators |-> 0]
    /\ loaded = [t \in Creators |-> 0]
    /\ uuidStr = [t \in Creators |-> NoId]
    /\ ids = <<>>
    /\ pictures = <<>>
    /\ created = <<>>
    /\ prev = [c \in Clients |-> NoId]
    /\ received = [c \in Clients |-> {}]
    /\ overrun = [c \in Clients |-> FALSE]
    /\ fallback = FALSE /\ overlap = FALSE

\* PictureCache::process calls createPreview.
Call(t) ==
    /\ pc[t] = "idle"
    /\ calls < MaxPreviews
    /\ calls' = calls + 1
    /\ preview' = [preview EXCEPT ![t] = calls + 1]
    /\ pc' = [pc EXCEPT ![t] = "load"]
    /\ overlap' = (overlap \/ \E s \in Creators \ {t} : pc[s] # "idle")
    /\ UNCHANGED <<loaded, uuidStr, seq, cacheVars, clientVars, fallback>>

\* ++seq, without a lock.
LoadSeq(t) ==
    /\ pc[t] = "load"
    /\ loaded' = [loaded EXCEPT ![t] = seq]
    /\ pc' = [pc EXCEPT ![t] = "store"]
    /\ UNCHANGED <<calls, preview, uuidStr, seq, cacheVars, clientVars, history>>

StoreSeq(t) ==
    /\ pc[t] = "store"
    /\ seq' = loaded[t] + 1
    /\ pc' = [pc EXCEPT ![t] = "name"]
    /\ UNCHANGED <<calls, preview, loaded, uuidStr, cacheVars, clientVars, history>>

\* The id if the generator throws: seq, read again.  (A uuid cannot be parsed
\* from so short a string, so the code always ends in its last alternative.)
FallbackId(t) == SeqId(seq)

Name(t) ==
    /\ pc[t] = "name"
    /\ \/ /\ uuidStr' = [uuidStr EXCEPT ![t] = RandomId(preview[t])]
          /\ UNCHANGED fallback
       \/ /\ uuidStr' = [uuidStr EXCEPT ![t] = FallbackId(t)]
          /\ fallback' = TRUE
    /\ pc' = [pc EXCEPT ![t] = "insert"]
    /\ UNCHANGED <<calls, preview, loaded, seq, cacheVars, clientVars, overlap>>

\* ids.emplace_front
AtFront(id, list) == <<id>> \o list

\* The loop that shortens the list to CacheLimit pops these from its back ...
Evicted(list) == {list[i] : i \in CacheLimit + 1 .. Len(list)}

\* ... and leaves these.
Kept(list) ==
    SubSeq(list, 1, IF Len(list) > CacheLimit THEN CacheLimit ELSE Len(list))

\* pictures.emplace: a key that is present keeps its value.
Emplaced(id, value) ==
    [key \in DOMAIN pictures \union {id} |->
        IF key \in DOMAIN pictures THEN pictures[key] ELSE value]

\* Under the mutex: insert the preview, and evict the oldest beyond the limit.
Insert(t) ==
    LET id   == uuidStr[t]
        list == AtFront(id, ids)
        map  == Emplaced(id, preview[t])
    IN  /\ pc[t] = "insert"
        /\ ids' = Kept(list)
        /\ pictures' = [key \in DOMAIN map \ Evicted(list) |-> map[key]]
        /\ created' = Append(created, [id |-> id, preview |-> preview[t]])
        /\ pc' = [pc EXCEPT ![t] = "idle"]
        /\ UNCHANGED <<calls, preview, loaded, uuidStr, seq, clientVars, history>>

-----------------------------------------------------------------------------
(* listPreview. *)

\* How many ids the loop may take from the list: none that is prev or beyond
\* it, and no more than the limit.
Lengths(last, list) ==
    {n \in 0 .. Len(list) : n <= ReturnLimit /\ \A i \in 1 .. n : list[i] # last}

\* The ids returned, newest first: as many as may be taken.
Listing(last, list) ==
    SubSeq(list, 1, CHOOSE n \in Lengths(last, list) :
                        \A m \in Lengths(last, list) : m <= n)

\* A client polls with the newest id it has seen.  If the map does not hold a
\* listed id, pictures.at throws and the client is told of a server error.
Poll(c) ==
    LET listing == Listing(prev[c], ids)
    IN  /\ IF Range(listing) \subseteq DOMAIN pictures
           THEN /\ prev' = [prev EXCEPT ![c] =
                                IF listing = <<>> THEN @ ELSE listing[1]]
                /\ received' = [received EXCEPT ![c] = @ \union Range(listing)]
                /\ overrun' = [overrun EXCEPT ![c] =
                                   @ \/ Len(listing) = ReturnLimit]
           ELSE UNCHANGED clientVars
        /\ UNCHANGED <<creatorVars, cacheVars, history>>

Next ==
    \/ \E t \in Creators :
         Call(t) \/ LoadSeq(t) \/ StoreSeq(t) \/ Name(t) \/ Insert(t)
    \/ \E c \in Clients : Poll(c)

Spec == Init /\ [][Next]_vars

\* The threads finish what they have begun, and the clients keep polling.
Fairness ==
    /\ \A t \in Creators :
         WF_vars(LoadSeq(t) \/ StoreSeq(t) \/ Name(t) \/ Insert(t))
    /\ \A c \in Clients : WF_vars(Poll(c))

FairSpec == Spec /\ Fairness

-----------------------------------------------------------------------------
(* Properties. *)

\* The condition under which ids are unique: the random generator has never
\* failed, or no two threads have ever raced for seq.
UniqueNames == fallback => ~overlap

\* The list holds the ids of the newest CacheLimit previews, newest first, in
\* the order in which the threads took the mutex.
IdsAreRecent ==
    /\ Len(ids) = IF Len(created) < CacheLimit THEN Len(created) ELSE CacheLimit
    /\ \A i \in 1 .. Len(ids) : ids[i] = created[Len(created) + 1 - i].id

\* Where ids are unique, the map holds the listed previews and no others, each
\* under its own id: list and map never drift apart, so that at() in listPreview
\* cannot throw (PicturePreviewHandler.cpp:188) and a listed URL shows its own
\* pictures.
PicturesMatchIds == UniqueNames =>
    /\ DOMAIN pictures = Range(ids)
    /\ \A i \in 1 .. Len(ids) :
         pictures[ids[i]] = created[Len(created) + 1 - i].preview

\* Even when raced ids repeat, no preview is kept that the list does not name:
\* the map stays within CacheLimit.
NoOrphans == DOMAIN pictures \subseteq Range(ids)

\* Where ids are unique, what a client's next request returns is new to it, even
\* if the id it gives has been evicted in the meantime.
NextListingIsNew == UniqueNames =>
    \A c \in Clients : Range(Listing(prev[c], ids)) \cap received[c] = {}

\* Where ids are unique, a client none of whose listings was cut at ReturnLimit
\* has missed nothing older than what it has seen: eviction never outruns a
\* listing that is not full, because ReturnLimit is at most CacheLimit.
NothingMissed == UniqueNames =>
    \A c \in Clients : ~overrun[c] =>
        \A i, j \in 1 .. Len(created) :
            i < j /\ created[j].id \in received[c] => created[i].id \in received[c]

\* Where ids are unique, a client that keeps polling ends with the newest
\* preview, if their creation pauses for long enough.
ClientsCatchUp ==
    \A c \in Clients : <>[](UniqueNames /\ ids # <<>> => prev[c] = ids[1])

-----------------------------------------------------------------------------
(* The inductive invariant. *)

\* A call's preview is inserted once: calls in progress have numbers of their
\* own, which no preview in created has.
CallsInv ==
    /\ \A i \in 1 .. Len(created) : created[i].preview \in 1 .. calls
    /\ \A t \in Creators : pc[t] # "idle" =>
         /\ preview[t] \in 1 .. calls
         /\ \A i \in 1 .. Len(created) : created[i].preview # preview[t]
         /\ \A s \in Creators \ {t} : pc[s] # "idle" => preview[s] # preview[t]
    /\ \A i, j \in 1 .. Len(created) :
         i # j => created[i].preview # created[j].preview

\* A random id is that of its preview.  An id made from seq is one that seq has
\* passed, or is about to pass, so that the next increment makes a new one.
RandomNames ==
    /\ \A i \in 1 .. Len(created) : created[i].id = RandomId(created[i].preview)
    /\ \A t \in Creators : pc[t] = "insert" => uuidStr[t] = RandomId(preview[t])

SeqNames ==
    /\ \A s, t \in Creators : pc[s] # "idle" /\ pc[t] # "idle" => s = t
    /\ \A i \in 1 .. Len(created) :
         \/ created[i].id = RandomId(created[i].preview)
         \/ \E n \in 0 .. seq : created[i].id = SeqId(n)
    /\ \A t \in Creators :
         /\ pc[t] = "store" => loaded[t] = seq
         /\ pc[t] = "insert" => uuidStr[t] \in {RandomId(preview[t]), SeqId(seq)}
         /\ pc[t] \in {"name", "insert"} =>
              \A i \in 1 .. Len(created) : created[i].id # SeqId(seq)

NamesInv ==
    /\ ~fallback => RandomNames
    /\ ~overlap => SeqNames
    /\ UniqueNames => \A i, j \in 1 .. Len(created) :
                         i # j => created[i].id # created[j].id

\* A client's prev is the newest id it has received.
SeenInv ==
    \A c \in Clients : received[c] # {} =>
        \E k \in 1 .. Len(created) :
            /\ prev[c] = created[k].id
            /\ received[c] \subseteq {created[i].id : i \in 1 .. k}

\* Threads, list, map and clients together: what every step preserves, and what
\* the properties above follow from (PicturePreviewHandler.cpp:134-193).
PreviewInv ==
    /\ TypeOK /\ CallsInv /\ IdsAreRecent /\ NoOrphans /\ SeenInv
    /\ NamesInv /\ PicturesMatchIds
=============================================================================
