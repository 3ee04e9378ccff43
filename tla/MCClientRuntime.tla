-------------------------- MODULE MCClientRuntime --------------------------
(* Bounds and symmetry for model checking the browser client. *)
EXTENDS ClientProperties, TLC

CallNames == 1..3

TabSymmetry == Permutations(Tabs)

\* What reaches the clients from outside: calls, and entries of others.
EventBound == 3

FewEvents ==
    foreign + Cardinality({call \in Calls : calls[call] # NoCall}) <= EventBound

\* No session or call has failed, no client is closed, and each session that
\* runs is in the first round of its first attempt.
FirstExchanges ==
    /\ \A call \in Calls : calls[call].status \notin {"rejected", "refused"}
    /\ \A tab \in Tabs :
        /\ view[tab].phase # "error"
        /\ ~ closed[tab].client
        /\ InSession(tab) => session[tab].attempt = 1 /\ session[tab].round = 1

\* One event more is looked at as far as the first exchanges go.
WithinBounds == FewEvents \/ FirstExchanges
=============================================================================
