---------------------------- MODULE MCCardPayment ----------------------------
(* Small instances of a payment for TLC.                                    *)
EXTENDS CardPayment, TLC

Symmetry == Permutations(Requests)

VARIABLE crowded  \* two refunds of the payment have been in flight at once (history)

Refunding(request) == {q \in Requests : request[q].op = "refund"}

MCInit == Init /\ crowded = FALSE

MCNext == Next /\ crowded' = (crowded \/ \E p, q \in Refunding(req') : p # q)

MCSpec == MCInit /\ [][MCNext]_<<vars, crowded>>

\* No refund is booked that the gateway has not made, however often answers are lost and
\* refunds tried again, unless two refunds were ever in flight at once: those that read
\* the same sum have the same idempotency key.
LoneRefundsWereMade == crowded \/ BookedRefundsWereMade
=============================================================================
