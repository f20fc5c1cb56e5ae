-------------------------- MODULE ResponsePipeline --------------------------
(***************************************************************************)
(* What one HTTP connection promises its client, without sockets, timers   *)
(* or callbacks: requests are accepted one at a time, at most Limit of     *)
(* them wait for their response, the k-th response is the response to the  *)
(* k-th request, and nothing follows a response that announced the end of  *)
(* the connection.  HttpSession implements this specification.             *)
(***************************************************************************)
EXTENDS Naturals, Sequences

CONSTANT Limit              \* requests that may wait for their response

VARIABLES
    accepted,               \* number of requests accepted so far
    answered,               \* the requests answered, in the order of the wire
    final                   \* a response has announced the end

pipelineVars == <<accepted, answered, final>>

PipelineInit ==
    /\ accepted = 0
    /\ answered = <<>>
    /\ final = FALSE

Accept ==
    /\ accepted - Len(answered) < Limit
    /\ accepted' = accepted + 1
    /\ UNCHANGED <<answered, final>>

Answer ==
    /\ ~final
    /\ Len(answered) < accepted
    /\ answered' = Append(answered, Len(answered) + 1)
    /\ final' \in BOOLEAN
    /\ UNCHANGED accepted

PipelineNext == Accept \/ Answer

PipelineSpec == PipelineInit /\ [][PipelineNext]_pipelineVars
=============================================================================
