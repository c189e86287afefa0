--------------------------- MODULE MCRoamingCalls ---------------------------
(* Small instances of RoamingCalls for TLC. *)
EXTENDS RoamingCalls

CONSTANTS p1, p2,                       \* charging points
          emp1, emp2,                   \* EMPs
          card, contract, other,               \* what identifications name
          start, stop, thief, cdr, again, remote, notify

(* A contract of emp1, a card that names nobody, another contract.           *)
AContract == [contract |-> contract, provider |-> emp1, card |-> Unnamed]
ACard == [contract |-> Unnamed, provider |-> Unnamed, card |-> card]
AnotherContract == [contract |-> other, provider |-> emp1, card |-> Unnamed]
SomeMedia == {AContract, AnotherContract, ACard}
AllAuthorize == [emp \in Emps |-> [m \in Media |-> TRUE]]

OpOf == [c \in Calls |-> CASE c = start -> "AuthorizeStart"
                           [] c \in {stop, thief} -> "AuthorizeStop"
                           [] c \in {cdr, again} -> "ChargeDetailRecord"
                           [] c = remote -> "AuthorizeRemoteStart"
                           [] c = notify -> "ChargingNotifications"]
(* The second CDR is for the wrong charging point. *)
AtPoint == [c \in Calls |-> IF c = again THEN p2 ELSE p1]
WithMedium == [c \in Calls |-> CASE c = stop -> ACard
                                 [] c \in {thief, remote} -> AnotherContract
                                 [] OTHER -> AContract]
FollowStart == [c \in Calls |-> IF c \in {start, stop, thief} THEN start ELSE remote]

(* The other point is there only for a CDR to name it.                       *)
OnePointInit == Init /\ points[p2] = "compatible"
OnePointSpec == OnePointInit /\ [][Next]_vars /\ Fairness
AllRequests == Calls \X Attempts

(* Sessions started at the charging point, and one started from an app.      *)
ThreeStories ==
    {[calls |-> {start, stop, thief}, moves |-> 0, gateway |-> FALSE],
     [calls |-> {start, stop}, moves |-> 1, gateway |-> TRUE],
     [calls |-> {remote, cdr, again, notify}, moves |-> 0, gateway |-> FALSE]}
OneStart == {[calls |-> {start}, moves |-> 0, gateway |-> FALSE]}
=============================================================================
