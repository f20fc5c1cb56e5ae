----------------------------- MODULE ApiClients -----------------------------
(***************************************************************************)
(* Clients of the HTTP API and what the server makes of their requests.    *)
(*                                                                         *)
(* One lists the previews and later asks for the pictures whose URLs it    *)
(* has been given, while previews are made and evicted.  The other posts   *)
(* pictures: postPictures (src/src/democlient.cpp) over HttpClient::post   *)
(* (src/src/HttpClient.cpp), answered by the handler of the route          *)
(* (src/src/main.cpp).  A connection may break at any time, before the     *)
(* request is handled or after that; a request that has been written may   *)
(* be handled even then, at any later time.                                *)
(***************************************************************************)
EXTENDS RequestDispatch, PostPicture

CONSTANTS
    CacheLimit,     \* picPreviewCacheNum: 30
    ReturnLimit,    \* returnLimit: 10
    CacheLines,     \* cameras the cache of pictures knows: 4
    Targets,        \* targets of requests
    MaxPreviews,    \* bound: previews made
    MaxPosts        \* bound: pictures posted

ASSUME CacheLimitAssumption  == CacheLimit \in Nat
ASSUME ReturnLimitAssumption == ReturnLimit \in 1 .. CacheLimit
ASSUME CacheLinesAssumption  == CacheLines \in Nat

VARIABLES
    made,       \* the previews made so far; the uuid of the n-th is n
    kept,       \* the previews in the handler's map
    listed,     \* history: the URLs that clients have been given, [url, data]
    sent,       \* the pictures of the calls of postPictures so far
    phase,      \* where the last of them is: the call that may throw next
    requests,   \* the requests that are written and not handled, [post, body]
    response,   \* the response to the last call, if it is under way
    added,      \* history: the pictures added by the server, [post, picture]
    results     \* what the calls of postPictures have returned

previewVars == <<made, kept, listed>>
postVars    == <<sent, phase, requests, response, added, results>>
vars        == <<previewVars, postVars>>

(***************************************************************************)
(* Plausible errors, used to show that the properties notice them.         *)
(***************************************************************************)
NotAwaited == phase = "read"

-----------------------------------------------------------------------------
(* Previews and their URLs. *)

Init ==
    /\ made = 0 /\ kept = {} /\ listed = {}
    /\ sent = <<>> /\ phase = "idle" /\ requests = {} /\ response = <<>>
    /\ added = <<>> /\ results = <<>>

\* createPreview evicts the oldest beyond the limit.
Stays(p) == p.uuid > made + 1 - CacheLimit

MakePreview(contents) ==
    /\ made < MaxPreviews
    /\ made' = made + 1
    /\ kept' = {p \in kept \union {[uuid |-> made + 1, views |-> contents.views,
                                    empty |-> contents.empty]} : Stays(p)}
    /\ UNCHANGED <<listed, postVars>>

\* to_json of a preview: the URLs of its pictures.
Urls(p) ==
    {[url |-> Url(Id(p.uuid), "snaps", i), data |-> View(p, i)] : i \in SnapIndexes(p)}
    \union
    {[url |-> Url(Id(p.uuid), "tracks", i), data |-> View(p, SnapsLen + i)]
        : i \in TrackIndexes(p)}

\* A client asks for the list, and is given the newest previews.
ListPreviews ==
    /\ listed' = listed \union UNION {Urls(p) : p \in {q \in kept : q.uuid > made - ReturnLimit}}
    /\ UNCHANGED <<made, kept, postVars>>

-----------------------------------------------------------------------------
(* Posting a picture. *)

\* The number of the last call.
Current == Len(sent)

Return(r) ==
    /\ results' = Append(results, r) /\ phase' = "idle" /\ response' = <<>>
    /\ UNCHANGED <<sent, requests, added, previewVars>>

PostPictures(picture) ==
    /\ phase = "idle" /\ Len(sent) < MaxPosts
    /\ sent' = Append(sent, picture) /\ phase' = "connect"
    /\ UNCHANGED <<requests, response, added, results, previewVars>>

\* connect, ...
Connect ==
    /\ phase = "connect"
    /\ phase' = "write"
    /\ UNCHANGED <<sent, requests, response, added, results, previewVars>>

\* ... write, ...
Write ==
    /\ phase = "write"
    /\ phase' = "read"
    /\ requests' = requests \union {[post |-> Current, body |-> ToJson(sent[Current])]}
    /\ UNCHANGED <<sent, response, added, results, previewVars>>

\* A body goes to the line of its camera: at() throws if there is none.
Accepted(picture) ==
    picture.objectType = "face" \/ picture.cameraId < CacheLines

\* The handler of the route: it parses the picture, and adds it to the cache.  The
\* response reaches the call that has written the request if it still reads.
Handle(request) ==
    LET picture == FromJson(request.body)
        outcome == IF Accepted(picture) THEN "null" ELSE "throws"
    IN  /\ requests' = requests \ {request}
        /\ added' = IF Accepted(picture)
                    THEN Append(added, [post |-> request.post, picture |-> picture])
                    ELSE added
        /\ response' = IF request.post = Current /\ phase = "read"
                       THEN <<JsonAnswer("POST", outcome)>> ELSE response
        /\ UNCHANGED <<sent, phase, results, previewVars>>

\* ... and read, which waits for the response.
ResponseRead == phase = "read" /\ response # <<>>

\* post returns, whatever the response is.
Read == ResponseRead /\ Return("success")

\* resolve, connect, write or read throws, and the connection is closed.
Throw == phase # "idle" /\ Return("error")

Next ==
    \/ \E contents \in Previews : MakePreview(contents)
    \/ ListPreviews
    \/ \E picture \in PostedPicture : PostPictures(picture)
    \/ \E request \in requests : Handle(request)
    \/ Connect \/ Write \/ Read \/ Throw

Spec == Init /\ [][Next]_vars

-----------------------------------------------------------------------------
(* Properties. *)

Get(url) == Answers("GET", url, kept)

\* Whoever has been given a URL gets that very picture by it for as long as the
\* preview is one of the newest CacheLimit, and nothing else ever: not another
\* preview's picture, nor a snap for a track (PicturePreviewHandler.cpp:84-106,
\* 195-236).  That is, if its index has one digit.  The route takes no other
\* (main.cpp:320), while the tracks are listed with any index: the tracks of two
\* blocks go to 16, and from 10 on their URLs are dead from the beginning.
ListedUrlsServed ==
    \A l \in listed :
        LET segment(n) == l.url.path[Len(l.url.path) - n][2]
        IN  Get(l.url) =
              {IF segment(2) > made - CacheLimit /\ segment(0) < 10
               THEN Response(200, l.data) ELSE Response(404, NoData)}

\* The bits of the mask in the list tell which snaps have data, for all the
\* numbers the mask has a bit for, whether the preview has as many snaps or not.
MaskTellsData ==
    \A p \in kept, i \in 0 .. SnapsLen - 1 :
        LET url == Url(Id(p.uuid), "snaps", i)
        IN  /\ Get(url) = {Response(200, IF i < p.views THEN View(p, i) ELSE NoData)}
            /\ i \in SnapMask(p) <=> \E u \in Urls(p) : u.url = url

\* The routes of the API that match a target.
Matching(target) == {n \in 1 .. Len(Routes) - 1 : Matches(Routes[n], target)}

AtMostOne == \A target \in Targets : \A n, m \in Matching(target) : n = m

\* No target is matched by two of the API's regular expressions, and a listed
\* URL by none but its own: the order in which installPoc registers the routes
\* does not matter (main.cpp:265-358).
RoutesApart ==
    /\ AtMostOne
    /\ \A l \in listed : \A n \in Matching(l.url) : Routes[n] = "picture"

\* The calls whose pictures the server has added.
Added == {added[k].post : k \in DOMAIN added}

\* What the server adds to the cache is what was posted, bit by bit, and for each
\* call once at most, however late it handles a request whose connection has
\* broken.  Base64 rounds the size up to whole groups of characters: the bytes
\* decoded beyond the declared size, for which picture.data has no room
\* (PostPicture.cpp:53, 76), are those of the padding, never more than two.
PostedAsSent ==
    /\ \A k, l \in DOMAIN added : added[k].post = added[l].post => k = l
    /\ \A k \in DOMAIN added : added[k].picture = sent[added[k].post]
    /\ \A n \in DOMAIN sent : Overrun(ToJson(sent[n])) = EqualCount(Len(sent[n].data))

\* When postPictures returns 0 the server has seen the picture: it is lost only
\* if the cache has no line for the camera of a body.
LostOnlyIfRefused ==
    \A n \in DOMAIN results : results[n] = "success" /\ n \notin Added =>
        sent[n].objectType = "body" /\ sent[n].cameraId >= CacheLines

\* What democlient.h:50 says, "return: 0 for success, others for error.": 0 means
\* that the server has taken the picture.  The response is not looked at.
ZeroMeansSuccess == \A n \in DOMAIN results : results[n] = "success" => n \in Added
=============================================================================
