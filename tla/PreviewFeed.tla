----------------------------- MODULE PreviewFeed -----------------------------
(***************************************************************************)
(* What the preview service promises to those who post pictures and to     *)
(* those who poll for previews, without threads, caches, ids or limits of  *)
(* storage: a picture is shown in one preview at most, and a client is     *)
(* given what is new since its last request, the newest of it if there is  *)
(* too much.                                                               *)
(***************************************************************************)
EXTENDS Integers, Sequences

CONSTANTS
    Clients,        \* those who poll
    ReturnLimit     \* the most previews given in answer to one request

VARIABLES
    arrived,    \* pictures that have arrived; each has the number of its arrival
    waiting,    \* the pictures that may still be shown
    made,       \* the previews made, and not yet shown: sets of pictures
    shown,      \* the previews, in the order in which they are shown
    seen        \* the indexes of the previews given to each client

vars == <<arrived, waiting, made, shown, seen>>

Init ==
    /\ arrived = 0
    /\ waiting = {} /\ made = {} /\ shown = <<>>
    /\ seen = [c \in Clients |-> {}]

\* A picture arrives.  It, or others that it replaces, may be dropped.
Arrive ==
    /\ arrived' = arrived + 1
    /\ \A p, q \in waiting' \ waiting : p.arrival = arrived + 1 /\ p = q
    /\ UNCHANGED <<made, shown, seen>>

\* Pictures that have waited for too long are dropped.
Drop ==
    /\ waiting' \subseteq waiting
    /\ UNCHANGED <<arrived, made, shown, seen>>

\* A preview is made of pictures that are waiting, and wait no longer.
Make ==
    /\ \E v \in made' \ made :
         /\ v # {} /\ v \subseteq waiting
         /\ waiting' \subseteq waiting \ v
         /\ made' = made \union {v}
    /\ UNCHANGED <<arrived, shown, seen>>

\* A preview that was made is shown: the clients may find it from now on.
Show ==
    /\ \E v \in made :
         /\ made' = made \ {v}
         /\ shown' = Append(shown, v)
    /\ UNCHANGED <<arrived, waiting, seen>>

\* What is new for a client: whatever is newer than all it has been given, or
\* the newest of that.
New(c) ==
    {n \in 1 .. Len(shown) :
        /\ n > Len(shown) - ReturnLimit
        /\ \A m \in seen[c] : m < n}

Poll(c) ==
    /\ seen' = [seen EXCEPT ![c] = @ \union New(c)]
    /\ UNCHANGED <<arrived, waiting, made, shown>>

Next == Arrive \/ Drop \/ Make \/ Show \/ \E c \in Clients : Poll(c)

Spec == Init /\ [][Next]_vars
=============================================================================
