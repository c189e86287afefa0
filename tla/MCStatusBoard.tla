---------------------------- MODULE MCStatusBoard ----------------------------
(* Small instances of StatusBoard for TLC. *)
EXTENDS StatusBoard

CONSTANTS e1, e2,           \* charging points
          abc, def          \* operators

(* Two pushes of one operator and a pull; the other operator has no points.  *)
OpOf == [c \in Calls |-> IF c = 3 THEN "PullEvseStatus" ELSE "PushEvseStatus"]
AllOfAbc == [e \in Evse |-> abc]
OneOrBoth == {{e1}, {e1, e2}}
AbcPushes == [c \in Calls \ {3} |-> abc]

(* Every shape: everything, by status, by id, by operator. *)
EveryShape ==
    {[field |-> "none", asked |-> {}],
     [field |-> "EvseStatus", asked |-> {"Available"}],
     [field |-> "EvseID", asked |-> {e1}],
     [field |-> "OperatorID", asked |-> {def}]}
=============================================================================
