---------------------------- MODULE BookingSources ----------------------------
(***************************************************************************)
(* The front desk together with the two other writers of reservations:     *)
(* the Connect API, through which booking agents cancel, and the channel   *)
(* manager, which delivers cancellations from OTAs.  Both read the row and *)
(* then write the status by id, without a claim.                           *)
(***************************************************************************)
EXTENDS FrontDesk

VARIABLE cancelling   \* <<source, reservation>> read and about to be written

allVars == <<status, roomOf, room, folios, lateFees, req, vacated, announced, cancelling>>

frontDeskVars == <<roomOf, room, folios, lateFees, req, vacated, announced>>

Sources == {"connect", "channel"}

AllInit == Init /\ cancelling = {}

\* ConnectBookingService.cancel reads the reservation and refuses a finished one.
ConnectReads(r) ==
  /\ status[r] \notin {"cancelled", "checked_out", "no_show"}
  /\ cancelling' = cancelling \cup {<<"connect", r>>}
  /\ UNCHANGED vars

\* handleCancellation reads the reservation, whatever its status.
ChannelReads(r) ==
  /\ cancelling' = cancelling \cup {<<"channel", r>>}
  /\ UNCHANGED vars

\* Either then writes the status by id.
WriteCancelled(source, r) ==
  /\ <<source, r>> \in cancelling
  /\ status' = [status EXCEPT ![r] = "cancelled"]
  /\ cancelling' = cancelling \ {<<source, r>>}
  /\ UNCHANGED frontDeskVars

\* The caller's process stops in between.
DropCancellation(source, r) ==
  /\ <<source, r>> \in cancelling
  /\ cancelling' = cancelling \ {<<source, r>>}
  /\ UNCHANGED vars

AllNext ==
  \/ Next /\ UNCHANGED cancelling
  \/ \E r \in Reservations :
       \/ ConnectReads(r) \/ ChannelReads(r)
       \/ \E s \in Sources : WriteCancelled(s, r) \/ DropCancellation(s, r)

AllSpec == AllInit /\ [][AllNext]_allVars

-----------------------------------------------------------------------------
\* Whatever the sources do, no handler of the front desk or the audit revives a
\* cancelled reservation out of the row it read before.
CancelledIsFinal ==
  [][\A r \in Reservations : status[r] = "cancelled" => status'[r] = "cancelled"]_allVars
=============================================================================
