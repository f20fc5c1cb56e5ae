--------------------------- MODULE PreviewPictures ---------------------------
(***************************************************************************)
(* The contents of one preview: PicturePreviewHandler::Pictures            *)
(* (src/src/PicturePreviewHandler.cpp).                                    *)
(*                                                                         *)
(* A preview has a uuid, a number of views, and some of the views may be   *)
(* empty.  A view's data is told by the uuid and the place of the view.    *)
(***************************************************************************)
EXTENDS Integers

CONSTANTS
    SnapsLen,       \* snapsLen, and numOfPics in getSnapMask: 5
    Previews        \* what previews may hold: [views, empty]

ASSUME SnapsAssumption    == SnapsLen \in Nat
ASSUME PreviewsAssumption == Previews \subseteq [views : Nat, empty : SUBSET Nat]

NoData == <<0, 0>>

(***************************************************************************)
(* A plausible error, used to show that the properties notice it.          *)
(***************************************************************************)
AllSnapIndexes(p) == 0 .. (IF p.views < SnapsLen THEN p.views ELSE SnapsLen) - 1

\* The data of the view at a place among those given to the constructor.
View(p, place) == IF place \in p.empty THEN NoData ELSE <<p.uuid, place>>

\* The constructor: the first views are snaps, the others tracks.
NumOfSnaps(p)  == IF p.views < SnapsLen THEN p.views ELSE SnapsLen
NumOfTracks(p) == p.views - NumOfSnaps(p)

\* snap and track: beyond the last one there is an empty view.
Snap(p, index)  == IF index < NumOfSnaps(p) THEN View(p, index) ELSE NoData
Track(p, index) == IF index < NumOfTracks(p) THEN View(p, SnapsLen + index)
                                             ELSE NoData

\* getSnapMask, as the set of its bits.
SnapMask(p) == {i \in 0 .. SnapsLen - 1 : Snap(p, i) # NoData}

\* The indexes in getSnapUrls and in getTrackUrls: of the snaps with data, and
\* of all tracks.
SnapIndexes(p)  == {i \in 0 .. NumOfSnaps(p) - 1 : View(p, i) # NoData}
TrackIndexes(p) == 0 .. NumOfTracks(p) - 1
=============================================================================
