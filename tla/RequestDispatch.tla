--------------------------- MODULE RequestDispatch ---------------------------
(***************************************************************************)
(* From a request to the status of its response: HttpUriRouter with the    *)
(* routes in the order of their registration (src/src/main.cpp), and the   *)
(* handlers behind them, JsonApiRequestHandler, PicturePreviewHandler and  *)
(* StaticRequestHandler.                                                   *)
(*                                                                         *)
(* A target is its segments and its query.  A segment is a word, a number, *)
(* as std::to_string writes it, or the id of a preview.                    *)
(***************************************************************************)
EXTENDS Integers, Sequences, Functions, PreviewPictures

CONSTANTS
    Files,          \* the targets below which the document root has a file
    Unreadable      \* those that cannot be opened for another reason than its lack

\* The document root has nothing of the name that the API's targets begin with.
ASSUME FilesAssumption ==
    \A file \in Files \union Unreadable : 1 \in DOMAIN file.path => file.path[1] # <<"word", "api">>

Word(w)   == <<"word", w>>
Number(n) == <<"number", n>>
Id(n)     == <<"id", n>>

Target(path, query) == [path |-> path, query |-> query]
Api(path)           == <<Word("api"), Word("v1")>> \o path
Sampling(segment)   ==
    Target(Api(<<Word("calibration"), Word("sampling"), segment>>), "none")
Preview(path)       == Api(<<Word("realtime"), Word("preview")>> \o path)

\* The URL of a picture, as getSnapUrls and getTrackUrls write it.
Url(id, name, index) ==
    Target(Preview(<<Word("picture"), id, Word(name), Number(index)>>), "none")

(***************************************************************************)
(* Plausible errors, used to show that the properties notice them.         *)
(***************************************************************************)
ListOrDeeper(target) == Len(target.path) >= 4 /\ SubSeq(target.path, 1, 4) = Preview(<<>>)
IndexToFour          == 0 .. 4

-----------------------------------------------------------------------------
(* The router. *)

\* In the order of their registration.
Routes == <<"version", "start", "status", "stop", "picture", "post", "list", "static">>

\* The regular expressions of some of the routes: \d+ ...
IsStatus(target) ==
    \E s \in Range(target.path) : s[1] = "number" /\ target = Sampling(s)

\* ... [a-f0-9-]+/(snaps|tracks)/[0-9] ...
RoutedIndexes == 0 .. 9

IsPicture(target) ==
    \E s \in Range(target.path), name \in {"snaps", "tracks"}, index \in RoutedIndexes :
        s[1] \in {"id", "number"} /\ target = Url(s, name, index)

\* ... preview(\?prev=.+)?
IsList(target) == target.path = Preview(<<>>) /\ target.query \in {"none", "prev"}

Matches(route, target) ==
    \/ route = "version" /\ target = Target(Api(<<Word("version")>>), "none")
    \/ route = "start"   /\ target = Sampling(Word("start"))
    \/ route = "status"  /\ IsStatus(target)
    \/ route = "stop"    /\ target = Sampling(Word("stop"))
    \/ route = "picture" /\ IsPicture(target)
    \/ route = "post"    /\ target = Target(Preview(<<Word("pictures")>>), "none")
    \/ route = "list"    /\ IsList(target)
    \/ route = "static"

\* resolve: the first route that matches.
Resolve(target) ==
    Routes[CHOOSE n \in DOMAIN Routes :
              /\ Matches(Routes[n], target)
              /\ \A m \in 1 .. n - 1 : ~Matches(Routes[m], target)]

-----------------------------------------------------------------------------
(* The handlers.  A response is its status and the data of a picture. *)

Response(status, data) == [status |-> status, data |-> data]

\* What the functions of the JSON routes may do: return a value of some JSON
\* type, throw NotFound, or throw another exception.  stop never throws NotFound,
\* though it is prepared to: erase takes an unknown id for nothing.  The list throws
\* if it names a preview that a repeated id has cost its entry in the map.
Outcomes(route) ==
    CASE route = "version" -> {"string"}
      [] route = "start"   -> {"object", "notFound", "throws"}
      [] route = "status"  -> {"object", "notFound", "throws"}
      [] route = "stop"    -> {"null", "throws"}
      [] route = "post"    -> {"null", "throws"}
      [] route = "list"    -> {"object", "throws"}

\* JsonApiRequestHandler::handleRequest.  createJsonOkRequest adds "ret" to an
\* object, and makes an object of null; with any other value it throws.
JsonAnswer(method, outcome) ==
    Response(IF method \notin {"GET", "POST"}       THEN 400
             ELSE IF outcome \in {"object", "null"} THEN 200
             ELSE IF outcome = "notFound"           THEN 404
             ELSE 500, NoData)

\* Whether the map of previews has an entry for the uuid in a segment.
Known(kept, segment) == \E p \in kept : Id(p.uuid) = segment

\* PicturePreviewHandler::handleRequest and visitPreview, with the last three
\* segments of the target.
PictureAnswer(method, target, kept) ==
    LET path  == target.path
        uuid  == path[Len(path) - 2]
        name  == path[Len(path) - 1][2]
        index == path[Len(path)][2]
        p     == CHOOSE q \in kept : Id(q.uuid) = uuid
    IN  IF method # "GET" THEN Response(400, NoData)
        ELSE IF ~Known(kept, uuid) THEN Response(404, NoData)
        ELSE Response(200, IF name = "snaps" THEN Snap(p, index) ELSE Track(p, index))

\* StaticRequestHandler::handleRequest, for a target without "..".
StaticAnswer(method, target) ==
    Response(IF method \notin {"GET", "HEAD"} THEN 400
             ELSE IF target \in Files         THEN 200
             ELSE IF target \in Unreadable    THEN 500
             ELSE 404, NoData)

\* The responses that a request may have.
Answers(method, target, kept) ==
    LET route == Resolve(target)
    IN  IF route = "picture" THEN {PictureAnswer(method, target, kept)}
        ELSE IF route = "static" THEN {StaticAnswer(method, target)}
        ELSE {JsonAnswer(method, outcome) : outcome \in Outcomes(route)}
=============================================================================
