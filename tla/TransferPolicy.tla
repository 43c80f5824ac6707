--------------------------- MODULE TransferPolicy ---------------------------
(***************************************************************************)
(* Who may do what with a transfer: backend/src/transfer_policy.rs.        *)
(*                                                                         *)
(* A transfer's metadata is a record [sender, target, status, size].  The  *)
(* sender is NoDevice once its device has been removed; the target is      *)
(* NoDevice for a broadcast.  Whether the transfer has expired is passed   *)
(* in, since the code compares expires_at with the clock at each call.     *)
(***************************************************************************)

CONSTANT NoDevice  \* the None of an Option<device id>

\* TransferStatus, and the status of a slot that holds no transfer.
Available == "available"
Pending == "pending"
Accepted == "accepted"
Rejected == "rejected"
Statuses == {Available, Pending, Accepted, Rejected}

CanView(e, d, isHost) ==
  \/ isHost
  \/ e.target = NoDevice
  \/ d \in {e.sender, e.target}

CanDownload(e, d, isHost, isExpired) ==
  /\ CanView(e, d, isHost)
  /\ ~isExpired
  /\ e.status \in {Available, Accepted}

CanDelete(e, d, isHost) == isHost \/ e.sender = d

\* Mutant of CanReview: a verdict may be given twice.
CanReviewAgain(e, d, isExpired) ==
  /\ ~isExpired
  /\ e.status \in Statuses
  /\ e.target = d

CanReview(e, d, isExpired) ==
  /\ ~isExpired
  /\ e.status = Pending
  /\ e.target = d

=============================================================================
