------------------------- MODULE TransferLifecycle -------------------------
(***************************************************************************)
(* What the hub promises about one transfer, without saying how: it is     *)
(* published once, reviewed at most once if it is targeted, and once it is *)
(* gone it never returns.  TransferStore implements this through what its  *)
(* database would restore after a crash.                                   *)
(***************************************************************************)
EXTENDS TransferPolicy

CONSTANT Transfers

VARIABLE stage

Stages == Statuses \cup {"unborn", "gone"}

Init == stage = [t \in Transfers |-> "unborn"]

Publish(t) ==
  /\ stage[t] = "unborn"
  /\ \E s \in {Available, Pending} : stage' = [stage EXCEPT ![t] = s]

Review(t) ==
  /\ stage[t] = Pending
  /\ \E s \in {Accepted, Rejected} : stage' = [stage EXCEPT ![t] = s]

\* Deletion, expiry, or an upload that never finishes; of several at once.
Vanish(T) == stage' = [t \in Transfers |-> IF t \in T THEN "gone" ELSE stage[t]]

Next ==
  \/ \E t \in Transfers : Publish(t) \/ Review(t)
  \/ \E T \in SUBSET Transfers : Vanish(T)

Spec == Init /\ [][Next]_stage
=============================================================================
