--------------------------- MODULE OrderLifecycle ---------------------------
(***************************************************************************)
(* The life of an order as orders.constant.ts states it: strictly one step *)
(* forward at a time, cancellable until it is completed, COMPLETED and     *)
(* CANCELLED final, and every change recorded with the status it left.     *)
(***************************************************************************)
EXTENDS Sequences, Naturals

CONSTANTS
    Orders,
    InitialStatus   \* status of the orders that exist at the start

VARIABLES
    status,         \* order -> status, for the orders that were placed
    trail           \* order -> <<[status, previous]>>, oldest first

lifeVars == <<status, trail>>

OrderStatus ==
    {"DRAFT", "PENDING", "CONFIRMED", "PROCESSING", "COMPLETED", "CANCELLED"}

\* ORDER_FORWARD_TRANSITIONS.
Forward ==
    [DRAFT |-> "PENDING", PENDING |-> "CONFIRMED", CONFIRMED |-> "PROCESSING",
     PROCESSING |-> "COMPLETED"]

\* ORDER_CANCELLABLE_STATUSES.
Cancellable == {"DRAFT", "PENDING", "CONFIRMED", "PROCESSING"}

\* The history of an order that was only ever moved forward, to s.
ForwardPath == <<"DRAFT", "PENDING", "CONFIRMED", "PROCESSING", "COMPLETED">>

TrailTo(s) ==
    LET rank == CHOOSE n \in 1..Len(ForwardPath) : ForwardPath[n] = s
    IN  [k \in 1..rank |->
            [status |-> ForwardPath[k],
             previous |-> IF k = 1 THEN "none" ELSE ForwardPath[k - 1]]]

Init ==
    /\ status = InitialStatus
    /\ trail = [o \in Orders |->
                   IF o \in DOMAIN InitialStatus THEN TrailTo(InitialStatus[o])
                   ELSE <<>>]

Place(o) ==
    /\ o \notin DOMAIN status
    /\ status' = [x \in DOMAIN status \cup {o} |-> IF x = o THEN "DRAFT" ELSE status[x]]
    /\ trail' = [trail EXCEPT ![o] = <<[status |-> "DRAFT", previous |-> "none"]>>]

Become(o, s) ==
    /\ status' = [status EXCEPT ![o] = s]
    /\ trail' = [trail EXCEPT ![o] = Append(@, [status |-> s, previous |-> status[o]])]

Advance(o) ==
    /\ o \in DOMAIN status
    /\ status[o] \in DOMAIN Forward
    /\ Become(o, Forward[status[o]])

Cancel(o) ==
    /\ o \in DOMAIN status
    /\ status[o] \in Cancellable
    /\ Become(o, "CANCELLED")

Next == \E o \in Orders : Place(o) \/ Advance(o) \/ Cancel(o)

Spec == Init /\ [][Next]_lifeVars
=============================================================================
