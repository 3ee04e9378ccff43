----------------------------- MODULE MCSyncRoute -----------------------------
(* Instances of the routes for TLC. *)
EXTENDS RouteProperties, TLC

CONSTANTS One, Other

\* One client with the generated pair of endpoints, one that posts everything to one url.
SplitAndPush == One :> "split" @@ Other :> "push"

\* Both name the same stream; their sessions keep them apart.
SameName == One :> "mine" @@ Other :> "mine"
PerSession == One :> "a" @@ Other :> "b"

\* The first client meets the limits of a request, the second only pulls.
TwoOfOne == One :> 2 @@ Other :> 0
=============================================================================
