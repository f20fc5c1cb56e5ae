---------------------------- MODULE MCApiClients ----------------------------
(* ApiClients with the previews, targets and files of a small instance. *)
EXTENDS ApiClients

\* A preview of two blocks, some pictures of which are empty, and one that has
\* fewer views than there are snaps.
MCPreviews == {[views |-> 22, empty |-> {0, 3, 7}], [views |-> 3, empty |-> {1}]}

MCFiles == {Target(<<Word("index.html")>>, "none")}

\* What would be below a file.
MCUnreadable == {Target(<<Word("index.html"), Word("x")>>, "none")}

\* Targets of the API, right and slightly wrong ones.
MCTargets ==
    {Url(id, name, index) :
        id \in {Id(1), Number(1), Word("x")}, name \in {"snaps", "tracks", "views"},
        index \in {0, 9, 10}}
    \union
    {Target(path, query) :
        path \in {Api(<<Word("version")>>)}
            \union {Sampling(s).path : s \in {Word("start"), Word("stop"), Number(7)}}
            \union {Preview(p) : p \in {<<>>, <<Word("pictures")>>, <<Word("pictures"), Number(1)>>}},
        query \in {"none", "prev", "other"}}
=============================================================================
