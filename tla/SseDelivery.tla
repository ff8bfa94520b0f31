----------------------------- MODULE SseDelivery -----------------------------
(***************************************************************************)
(* What a relay of an event stream promises its client: the lines of the   *)
(* backend in their order, none twice and none skipped before one that is  *)
(* delivered, until the delivery is over.  Only the last line may be the   *)
(* rest of a line in which the backend broke off.                          *)
(***************************************************************************)
EXTENDS Naturals, Sequences

CONSTANTS
    Script,     \* the lines the backend sends if nothing goes wrong
    Cut         \* the rest of a line the backend broke off in

VARIABLES
    delivered,  \* lines written to the client
    over        \* nothing more will reach the client

DeliveryInit == delivered = <<>> /\ over = FALSE

Whole == delivered = <<>> \/ delivered[Len(delivered)] # Cut

Deliver ==
    /\ ~ over
    /\ Whole
    /\ Len(delivered) < Len(Script)
    /\ \E line \in {Script[Len(delivered) + 1], Cut} :
          delivered' = Append(delivered, line)
    /\ over' \in BOOLEAN

Stop ==
    /\ ~ over
    /\ over' = TRUE
    /\ UNCHANGED delivered

DeliverySpec == DeliveryInit /\ [][Deliver \/ Stop]_<<delivered, over>>
=============================================================================
