---------------------------- MODULE RequestQueue ----------------------------
(* What a device with a request queue promises its callers, whatever the     *)
(* line does: requests are numbered in the order they are queued, they are   *)
(* transmitted in that order, each once and only when the one before it was  *)
(* answered, and a caller gets one result, for a request that was            *)
(* transmitted.  How long anything takes, and whether it happens at all, is  *)
(* left open.  Mx1Device implements it.                                      *)
EXTENDS Naturals, SequencesExt, Functions

VARIABLES
    queued,         \* how many requests were queued
    transmitted,    \* the requests that were written to the line, in order
    answered,       \* how many requests left the queue
    told            \* the requests whose callers got their result, in order

vars == <<queued, transmitted, answered, told>>

Init == queued = 0 /\ transmitted = <<>> /\ answered = 0 /\ told = <<>>

Queue == queued' >= queued

\* Only the request under way leaves the queue.
Answer == answered' \in {answered, answered + 1} /\ answered' <= Len(transmitted)

\* The next request in order, and only if none is under way then.
Transmit ==
    \/ transmitted' = transmitted
    \/ /\ transmitted' = Append(transmitted, Len(transmitted) + 1)
       /\ Len(transmitted') <= queued' /\ Len(transmitted') = answered' + 1

Tell ==
    /\ IsPrefix(told, told')
    /\ IsInjective(told') /\ Range(told') \subseteq Range(transmitted)

\* One step of the device may do all of this.
Next == Queue /\ Answer /\ Transmit /\ Tell

Spec == Init /\ [][Next]_vars
=============================================================================
