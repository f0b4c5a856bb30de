------------------------ MODULE MCPointInTimeOutcomes ------------------------
(* Two runners and two decisions with an order, the second with a horizon    *)
(* too long to support, which compete for a queue of one.  The tape has a    *)
(* quiet day, a fill at the limit and a day that touches both barriers; the  *)
(* theorems about the module hold for every tape.                            *)
EXTENDS PointInTimeOutcomes

Quiet == [open |-> 3, high |-> 3, low |-> 3, close |-> 3]
Dip   == [open |-> 3, high |-> 3, low |-> 2, close |-> 3]
Wild  == [open |-> 3, high |-> 4, low |-> 1, close |-> 2]

TwoDecisions == {1, 2}
TwoOrders    == <<"order", "order">>
TooFar       == {2}
SomeTapes    == {<<Quiet, Dip, Wild>>}
OneLimit     == {1}
Delays       == <<1, 2>>
==============================================================================
