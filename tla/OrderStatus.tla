----------------------------- MODULE OrderStatus -----------------------------
(* The statuses of an order and the table of its transitions               *)
(* (internal/models/order.go).                                             *)

Statuses == {"NEW", "ACCEPTED_BY_PICKER", "ASSEMBLING", "ASSEMBLED",
             "WAITING_COURIER", "COURIER_PICKED_UP", "DELIVERING", "DELIVERED",
             "CANCELLED", "NEEDS_CONFIRMATION"}

Transitions ==
    {<<"NEW", "ACCEPTED_BY_PICKER">>, <<"NEW", "CANCELLED">>,
     <<"ACCEPTED_BY_PICKER", "ASSEMBLING">>,
     <<"ACCEPTED_BY_PICKER", "NEEDS_CONFIRMATION">>,
     <<"ACCEPTED_BY_PICKER", "CANCELLED">>,
     <<"NEEDS_CONFIRMATION", "ASSEMBLING">>, <<"NEEDS_CONFIRMATION", "CANCELLED">>,
     <<"ASSEMBLING", "ASSEMBLED">>, <<"ASSEMBLING", "CANCELLED">>,
     <<"ASSEMBLED", "WAITING_COURIER">>, <<"ASSEMBLED", "CANCELLED">>,
     <<"WAITING_COURIER", "COURIER_PICKED_UP">>,
     <<"COURIER_PICKED_UP", "DELIVERING">>,
     <<"DELIVERING", "DELIVERED">>}

IsValidStateTransition(current, next) == <<current, next>> \in Transitions

Final == {"CANCELLED", "DELIVERED"}

\* The statuses from which the customer may cancel.
Cancellable == {"NEW", "ACCEPTED_BY_PICKER", "NEEDS_CONFIRMATION", "ASSEMBLING"}

\* The statuses that a picker writes together with picker_id.
Claiming == {"ACCEPTED_BY_PICKER", "ASSEMBLING"}
=============================================================================
