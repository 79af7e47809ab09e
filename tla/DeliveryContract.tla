-------------------------- MODULE DeliveryContract --------------------------
(***************************************************************************)
(* What mentor message delivery promises, free of tasks, sockets and       *)
(* ledgers.  A message is sent, then recorded as rendered, then confirmed; *)
(* it never goes back, and confirmation never skips the record.  An        *)
(* administrator may withdraw every message that is not confirmed yet.     *)
(***************************************************************************)
CONSTANT Msg
VARIABLE status

ContractInit == status = [m \in Msg |-> "unsent"]

Advance(m, from, to) ==
    /\ status[m] = from
    /\ status' = [status EXCEPT ![m] = to]

Withdraw ==
    status' = [m \in Msg |-> IF status[m] \in {"sent", "rendered"}
                             THEN "withdrawn" ELSE status[m]]

ContractNext ==
    \/ \E m \in Msg :
          \/ Advance(m, "unsent", "sent")
          \/ Advance(m, "sent", "rendered")
          \/ Advance(m, "rendered", "confirmed")
    \/ Withdraw

ContractSpec == ContractInit /\ [][ContractNext]_status
=============================================================================
