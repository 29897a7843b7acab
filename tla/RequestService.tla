--------------------------- MODULE RequestService ---------------------------
(* What the Server plug-in promises to a client about its requests, whatever the queues, the yields
   and the command line do: a request is answered at most once, and one exchange delivers every
   answer that is ready.  A request may be dropped, killed in the queue or lost with the server. *)
CONSTANT Ids
VARIABLE phase

Init == phase = [i \in Ids |-> "unsent"]

Move(S, from, to) ==
    /\ \A i \in S : phase[i] \in from
    /\ phase' = [i \in Ids |-> IF i \in S THEN to ELSE phase[i]]

Send(i)   == Move({i}, {"unsent"}, "sent")
Answer(i) == Move({i}, {"sent"}, "answered")
Exchange  == Move({i \in Ids : phase[i] = "answered"}, {"answered"}, "told")
Drop(S)   == Move(S, {"sent", "answered"}, "dropped")

Next == (\E i \in Ids : Send(i) \/ Answer(i)) \/ Exchange \/ (\E S \in SUBSET Ids : Drop(S))

Spec == Init /\ [][Next]_phase
=============================================================================
