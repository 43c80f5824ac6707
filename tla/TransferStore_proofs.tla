------------------------ MODULE TransferStore_proofs ------------------------
(***************************************************************************)
(* Proofs about TransferStore for any number of devices, transfers and     *)
(* concurrent requests, any calls, any faults and any limits.              *)
(***************************************************************************)
EXTENDS TransferStore, SequenceTheorems, TLAPS

USE ConstantsAssumption DEF ConstantsAssumption

(***************************************************************************)
(* What a step does to the request slots                                   *)
(***************************************************************************)
LEMMA IdleType == Idle \in RequestStates /\ WellPlaced(Idle)
BY DEF Idle, RequestStates, WellPlaced, Points, MaybeDevice, Handlers,
       Copying, Deleting, Leaving, Wiping, Resetting

LEMMA RequestStep ==
  ASSUME RequestsOK, NEW r \in Requests, NEW q \in RequestStates, WellPlaced(q),
         req' = [req EXCEPT ![r] = q]
  PROVE  RequestsOK'
BY DEF RequestsOK

LEMMA GotoStep ==
  ASSUME RequestsOK, NEW r \in Requests, NEW pc \in Points,
         WellPlaced([req[r] EXCEPT !.pc = pc]), Goto(r, pc)
  PROVE  RequestsOK'
<1>1. [req[r] EXCEPT !.pc = pc] \in RequestStates
  BY DEF RequestsOK, RequestStates
<1>2. req' = [req EXCEPT ![r] = [req[r] EXCEPT !.pc = pc]]
  BY DEF Goto, RequestsOK
<1> QED BY <1>1, <1>2, RequestStep

LEMMA FinishStep ==
  ASSUME RequestsOK, NEW r \in Requests, Finish(r)
  PROVE  RequestsOK'
BY IdleType, RequestStep DEF Finish

LEMMA BatchType ==
  ASSUME NEW b \in Batches
  PROVE  b \in Seq(0..MaxFile) /\ b # <<>>
<1>1. PICK n \in 1..MaxBatchFiles : b \in [1..n -> FileSizes]
  BY DEF Batches, FileLists
<1>2. \A i \in DOMAIN b : b[i] <= MaxFile
  BY DEF Batches
<1>2a. \A i \in 1..n : b[i] \in Nat /\ b[i] <= MaxFile
  BY <1>1, <1>2
<1>3. b \in [1..n -> 0..MaxFile] /\ n \in Nat
  BY <1>1, <1>2a
<1>4. Len(b) = n /\ n # 0
  BY <1>3
<1> QED BY <1>3, <1>4

\* Which handlers can be at a step.
LEMMA Placement ==
  ASSUME NEW q \in RequestStates, WellPlaced(q)
  PROVE  /\ q.pc \in Copying => q.op \in {"upload", "local"}
         /\ q.pc \in Deleting => q.op \in {"delete", "remove", "reset_host"}
         /\ q.pc \in {"purge", "detach", "forget"} => q.op \in {"remove", "reset_host"}
         /\ q.pc = "wipe_rows" => q.op = "clear"
         /\ q.pc \in {"reset_entries", "reset_people"} => q.op = "reset_all"
         /\ q.pc = "batch" => q.op = "local"
         /\ q.pc = "join_entry" => q.op = "join"
         /\ q.pc \in {"review_entry", "review_row"} => q.op = "review"
<1>1. q.op \in Handlers \cup {"none"} /\ q.pc \in Points
  BY DEF RequestStates
<1> QED
  BY <1>1 DEF WellPlaced, Handlers, Points, Copying, Deleting, Leaving, Wiping, Resetting

\* Moving on to the handler's next step keeps a slot well placed.
LEMMA Moves ==
  ASSUME NEW q \in RequestStates, WellPlaced(q)
  PROVE  /\ q.pc = "writing" => WellPlaced([q EXCEPT !.pc = "persist"])
         /\ q.pc = "persist" => WellPlaced([q EXCEPT !.pc = "publish"])
         /\ q.pc = "delete_row" => WellPlaced([q EXCEPT !.pc = "delete_entry"])
         /\ q.pc = "delete_entry" => WellPlaced([q EXCEPT !.pc = "delete_files"])
         /\ q.pc = "purge" => WellPlaced([q EXCEPT !.pc = "detach"])
         /\ q.pc = "detach" => WellPlaced([q EXCEPT !.pc = "forget"])
         /\ q.pc = "wipe_rows" => WellPlaced([q EXCEPT !.pc = "wipe_files"])
         /\ q.pc = "reset_people" => WellPlaced([q EXCEPT !.pc = "wipe_files"])
         /\ q.pc = "publish" /\ q.batch # <<>> => WellPlaced([q EXCEPT !.pc = "batch"])
         /\ q.pc = "delete_files" /\ q.op # "delete" => WellPlaced([q EXCEPT !.pc = "purge"])
<1> DEFINE To(p) == [q EXCEPT !.pc = p]
<1>0. \A p \in Points : /\ To(p).pc = p /\ To(p).op = q.op /\ To(p).dev = q.dev
                         /\ To(p).peer = q.peer /\ To(p).id = q.id /\ To(p).batch = q.batch
  BY DEF RequestStates
<1> HIDE DEF To
<1>1. q.pc = "writing" => WellPlaced(To("persist"))
  BY <1>0, Placement DEF Points, WellPlaced, Copying, Deleting, Leaving, Wiping, Resetting
<1>2. q.pc = "persist" => WellPlaced(To("publish"))
  BY <1>0, Placement DEF Points, WellPlaced, Copying, Deleting, Leaving, Wiping, Resetting
<1>3. q.pc = "delete_row" => WellPlaced(To("delete_entry"))
  BY <1>0, Placement DEF Points, WellPlaced, Copying, Deleting, Leaving, Wiping, Resetting
<1>4. q.pc = "delete_entry" => WellPlaced(To("delete_files"))
  BY <1>0, Placement DEF Points, WellPlaced, Copying, Deleting, Leaving, Wiping, Resetting
<1>5. q.pc = "purge" => WellPlaced(To("detach"))
  BY <1>0, Placement DEF Points, WellPlaced, Copying, Deleting, Leaving, Wiping, Resetting
<1>6. q.pc = "detach" => WellPlaced(To("forget"))
  BY <1>0, Placement DEF Points, WellPlaced, Copying, Deleting, Leaving, Wiping, Resetting
<1>7. q.pc = "wipe_rows" => WellPlaced(To("wipe_files"))
  BY <1>0, Placement DEF Points, WellPlaced, Copying, Deleting, Leaving, Wiping, Resetting
<1>8. q.pc = "reset_people" => WellPlaced(To("wipe_files"))
  BY <1>0, Placement DEF Points, WellPlaced, Copying, Deleting, Leaving, Wiping, Resetting
<1>9. q.pc = "publish" /\ q.batch # <<>> => WellPlaced(To("batch"))
  BY <1>0, Placement DEF Points, WellPlaced, Copying, Deleting, Leaving, Wiping, Resetting
<1>10. q.pc = "delete_files" /\ q.op # "delete" => WellPlaced(To("purge"))
  BY <1>0, Placement DEF Points, WellPlaced, Copying, Deleting, Leaving, Wiping, Resetting
<1> QED BY <1>1, <1>2, <1>3, <1>4, <1>5, <1>6, <1>7, <1>8, <1>9, <1>10 DEF To

LEMMA RequestsStep == TypeOK /\ [Next]_vars => RequestsOK'
<1> SUFFICES ASSUME TypeOK, [Next]_vars PROVE RequestsOK'
  OBVIOUS
<1> USE DEF TypeOK
<1>1. ASSUME NEW r \in Requests, BeginUpload(r) PROVE RequestsOK'
  <2>1. PICK d \in Devices, t \in Transfers :
         req' = [req EXCEPT ![r] = [Idle EXCEPT !.op = "upload", !.pc = "writing",
                                                !.dev = d, !.id = t]]
    BY <1>1 DEF BeginUpload
  <2> DEFINE q == [Idle EXCEPT !.op = "upload", !.pc = "writing",
                                                !.dev = d, !.id = t]
  <2>2. q \in RequestStates
    BY IdleType DEF RequestStates, Handlers, MaybeDevice,
      Points, Copying, Deleting, Leaving, Wiping, Resetting
  <2>3. WellPlaced(q)
    BY DEF Idle, WellPlaced, Copying, Deleting, Leaving, Wiping, Resetting
  <2> QED BY <2>1, <2>2, <2>3, RequestStep
<1>2. ASSUME NEW r \in Requests, CheckBatch(r) PROVE RequestsOK'
  <2>1. PICK b \in Batches, d \in MaybeDevice :
         req' = [req EXCEPT ![r] = [Idle EXCEPT !.op = "local", !.pc = "batch",
                                !.dev = host, !.peer = d, !.batch = b]]
    BY <1>2 DEF CheckBatch
  <2> DEFINE q == [Idle EXCEPT !.op = "local", !.pc = "batch",
                                !.dev = host, !.peer = d, !.batch = b]
  <2>2. q \in RequestStates
    BY IdleType, BatchType DEF RequestStates, Handlers, MaybeDevice,
      Points, Copying, Deleting, Leaving, Wiping, Resetting
  <2>3. WellPlaced(q)
    BY <1>2, BatchType DEF CheckBatch, Admits, Idle, WellPlaced, Copying, Deleting, Leaving, Wiping, Resetting
  <2> QED BY <2>1, <2>2, <2>3, RequestStep
<1>3. ASSUME NEW r \in Requests, CallReview(r) PROVE RequestsOK'
  <2>1. PICK d \in Devices :
         req' = [req EXCEPT ![r] = [Idle EXCEPT !.op = "review", !.pc = "review_entry", !.dev = d]]
    BY <1>3 DEF CallReview
  <2> DEFINE q == [Idle EXCEPT !.op = "review", !.pc = "review_entry", !.dev = d]
  <2>2. q \in RequestStates
    BY IdleType DEF RequestStates, Handlers, MaybeDevice,
      Points, Copying, Deleting, Leaving, Wiping, Resetting
  <2>3. WellPlaced(q)
    BY DEF Idle, WellPlaced, Copying, Deleting, Leaving, Wiping, Resetting
  <2> QED BY <2>1, <2>2, <2>3, RequestStep
<1>4. ASSUME NEW r \in Requests, DeleteLookup(r) PROVE RequestsOK'
  <2>1. PICK t \in Transfers :
         req' = [req EXCEPT ![r] = [Idle EXCEPT !.op = "delete", !.pc = "delete_row", !.id = t]]
    BY <1>4 DEF DeleteLookup, Listed
  <2> DEFINE q == [Idle EXCEPT !.op = "delete", !.pc = "delete_row", !.id = t]
  <2>2. q \in RequestStates
    BY IdleType DEF RequestStates, Handlers, MaybeDevice,
      Points, Copying, Deleting, Leaving, Wiping, Resetting
  <2>3. WellPlaced(q)
    BY DEF Idle, WellPlaced, Copying, Deleting, Leaving, Wiping, Resetting
  <2> QED BY <2>1, <2>2, <2>3, RequestStep
<1>5. ASSUME NEW r \in Requests, BeginRemoval(r) PROVE RequestsOK'
  <2>1. PICK leaver \in Devices, op \in {"remove", "reset_host"} :
         req' = [req EXCEPT ![r] = [Idle EXCEPT !.op = op, !.pc = "purge", !.peer = leaver,
                !.todo = {t \in Listed : memory[t].target = leaver}]]
    BY <1>5 DEF BeginRemoval
  <2>0. {t \in Listed : memory[t].target = leaver} \subseteq Transfers
    BY DEF Listed
  <2> DEFINE q == [Idle EXCEPT !.op = op, !.pc = "purge", !.peer = leaver,
                !.todo = {t \in Listed : memory[t].target = leaver}]
  <2>2. q \in RequestStates
    BY <2>0, IdleType DEF RequestStates, Handlers, MaybeDevice,
      Points, Copying, Deleting, Leaving, Wiping, Resetting
  <2>3. WellPlaced(q)
    BY DEF Idle, WellPlaced, Copying, Deleting, Leaving, Wiping, Resetting
  <2> QED BY <2>1, <2>2, <2>3, RequestStep
<1>6. ASSUME NEW r \in Requests, ResetRows(r) PROVE RequestsOK'
  <2>1. req' = [req EXCEPT ![r] = [Idle EXCEPT !.op = "reset_all", !.pc = "reset_entries"]]
    BY <1>6 DEF ResetRows
  <2> DEFINE q == [Idle EXCEPT !.op = "reset_all", !.pc = "reset_entries"]
  <2>2. q \in RequestStates
    BY IdleType DEF RequestStates, Handlers, MaybeDevice,
      Points, Copying, Deleting, Leaving, Wiping, Resetting
  <2>3. WellPlaced(q)
    BY DEF Idle, WellPlaced, Copying, Deleting, Leaving, Wiping, Resetting
  <2> QED BY <2>1, <2>2, <2>3, RequestStep
<1>7. ASSUME NEW r \in Requests, JoinRow(r) PROVE RequestsOK'
  <2>1. PICK d \in Devices :
         \/ req' = [req EXCEPT ![r] = [Idle EXCEPT !.op = "join", !.pc = "join_entry",
                                                  !.peer = d]]
         \/ req' = req
    BY <1>7 DEF JoinRow
  <2> DEFINE q == [Idle EXCEPT !.op = "join", !.pc = "join_entry", !.peer = d]
  <2>2. q \in RequestStates
    BY IdleType DEF RequestStates, Handlers, MaybeDevice,
      Points, Copying, Deleting, Leaving, Wiping, Resetting
  <2>3. WellPlaced(q)
    BY DEF Idle, WellPlaced, Copying, Deleting, Leaving, Wiping, Resetting
  <2> QED BY <2>1, <2>2, <2>3, RequestStep DEF RequestsOK
<1>8. ASSUME NEW r \in Requests, CompleteCopy(r) PROVE RequestsOK'
  BY <1>8, GotoStep, Moves DEF CompleteCopy, At, RequestsOK, Points, Copying, Deleting, Leaving, Wiping, Resetting
<1>9. ASSUME NEW r \in Requests, PersistTransfer(r) PROVE RequestsOK'
  BY <1>9, GotoStep, Moves DEF PersistTransfer, At, RequestsOK, Points, Copying, Deleting, Leaving, Wiping, Resetting
<1>10. ASSUME NEW r \in Requests, DeleteRow(r) PROVE RequestsOK'
  BY <1>10, GotoStep, Moves DEF DeleteRow, At, RequestsOK, Points, Copying, Deleting, Leaving, Wiping, Resetting
<1>11. ASSUME NEW r \in Requests, DeleteEntry(r) PROVE RequestsOK'
  BY <1>11, GotoStep, Moves DEF DeleteEntry, At, RequestsOK, Points, Copying, Deleting, Leaving, Wiping, Resetting
<1>12. ASSUME NEW r \in Requests, DeleteDeviceRow(r) PROVE RequestsOK'
  BY <1>12, GotoStep, Moves DEF DeleteDeviceRow, At, RequestsOK, Points, Copying, Deleting, Leaving, Wiping, Resetting
<1>13. ASSUME NEW r \in Requests, DetachSender(r) PROVE RequestsOK'
  BY <1>13, GotoStep, Moves DEF DetachSender, At, RequestsOK, Points, Copying, Deleting, Leaving, Wiping, Resetting
<1>14. ASSUME NEW r \in Requests, WipeRows(r) PROVE RequestsOK'
  BY <1>14, GotoStep, Moves DEF WipeRows, At, RequestsOK, Points, Copying, Deleting, Leaving, Wiping, Resetting
<1>15. ASSUME NEW r \in Requests, ResetPeople(r) PROVE RequestsOK'
  BY <1>15, GotoStep, Moves DEF ResetPeople, At, RequestsOK, Points, Copying, Deleting, Leaving, Wiping, Resetting
<1>16. ASSUME NEW r \in Requests, DeleteFiles(r) PROVE RequestsOK'
  BY <1>16, GotoStep, FinishStep, Moves DEF DeleteFiles, At, RequestsOK, Points, Copying, Deleting, Leaving, Wiping, Resetting
<1>17. ASSUME NEW r \in Requests, PublishTransfer(r) PROVE RequestsOK'
  <2>1. CASE req[r].batch = <<>>
    BY <1>17, <2>1, FinishStep DEF PublishTransfer, FinishUpload
  <2>2. CASE req[r].batch # <<>>
    <3>1. req[r] \in RequestStates /\ WellPlaced(req[r]) /\ req[r].pc = "publish"
      BY <1>17 DEF PublishTransfer, At, RequestsOK
    <3> QED BY <1>17, <2>2, <3>1, GotoStep, Moves DEF PublishTransfer, Points, Copying, Deleting, Leaving, Wiping, Resetting
  <2> QED BY <2>1, <2>2
<1>18. ASSUME NEW r \in Requests, AbandonUpload(r) PROVE RequestsOK'
  BY <1>18, FinishStep DEF AbandonUpload, FinishUpload
<1>19. ASSUME NEW r \in Requests, AbandonBatch(r) PROVE RequestsOK'
  BY <1>19, FinishStep DEF AbandonBatch, FinishUpload
<1>20. ASSUME NEW r \in Requests, PersistFails(r) PROVE RequestsOK'
  BY <1>20, FinishStep DEF PersistFails, FinishUpload
<1>21. ASSUME NEW r \in Requests, ReviewRefused(r) PROVE RequestsOK'
  BY <1>21, FinishStep DEF ReviewRefused
<1>22. ASSUME NEW r \in Requests, ReviewRow(r) PROVE RequestsOK'
  BY <1>22, FinishStep DEF ReviewRow
<1>23. ASSUME NEW r \in Requests, JoinEntry(r) PROVE RequestsOK'
  BY <1>23, FinishStep DEF JoinEntry
<1>24. ASSUME NEW r \in Requests, ForgetDevice(r) PROVE RequestsOK'
  BY <1>24, FinishStep DEF ForgetDevice
<1>25. ASSUME NEW r \in Requests, WipeFiles(r) PROVE RequestsOK'
  BY <1>25, FinishStep DEF WipeFiles
<1>26. ASSUME NEW r \in Requests, DatabaseFails(r) PROVE RequestsOK'
  BY <1>26, FinishStep DEF DatabaseFails
<1>27. ASSUME NEW r \in Requests, Disconnect(r) PROVE RequestsOK'
  BY <1>27, FinishStep DEF Disconnect
<1>28. ASSUME NEW r \in Requests, ReceiveChunk(r) PROVE RequestsOK'
  <2>0. req[r] \in RequestStates /\ WellPlaced(req[r])
    BY DEF RequestsOK
  <2>1.  req' = [req EXCEPT ![r] = [req[r] EXCEPT !.size = @ + 1]]
    BY <1>28, <2>0 DEF ReceiveChunk, RequestsOK, RequestStates
  <2> DEFINE q == [req[r] EXCEPT !.size = @ + 1]
  <2>2. q \in RequestStates
    BY SMTT(60), <1>28, <2>0, <2>1 DEF ReceiveChunk, RequestStates, Points, MaybeDevice,
        Copying, Deleting, Leaving, Wiping, Resetting
  <2>3. WellPlaced(q)
    BY <1>28, <2>0, <2>1, Placement DEF ReceiveChunk, At, RequestStates, WellPlaced, Copying, Deleting, Leaving, Wiping, Resetting
  <2> QED BY <2>1, <2>2, <2>3, RequestStep
<1>29. ASSUME NEW r \in Requests, CompleteUpload(r) PROVE RequestsOK'
  <2>0. req[r] \in RequestStates /\ WellPlaced(req[r])
    BY DEF RequestsOK
  <2>1. PICK d \in MaybeDevice :  req' = [req EXCEPT ![r] = [req[r] EXCEPT !.pc = "persist", !.peer = d]]
    BY <1>29, <2>0 DEF CompleteUpload, RequestsOK, RequestStates
  <2> DEFINE q == [req[r] EXCEPT !.pc = "persist", !.peer = d]
  <2>2. q \in RequestStates
    BY <1>29, <2>0, <2>1 DEF CompleteUpload, RequestStates, Points, MaybeDevice, Copying, Deleting, Leaving, Wiping, Resetting
  <2>3. WellPlaced(q)
    BY <1>29, <2>0, <2>1, Placement DEF CompleteUpload, At, RequestStates, WellPlaced, Copying, Deleting, Leaving, Wiping, Resetting
  <2> QED BY <2>1, <2>2, <2>3, RequestStep
<1>30. ASSUME NEW r \in Requests, BeginCopy(r) PROVE RequestsOK'
  <2>0. req[r] \in RequestStates /\ WellPlaced(req[r])
    BY DEF RequestsOK
  <2>1. PICK t \in Transfers :  req' = [req EXCEPT ![r] = [req[r] EXCEPT !.pc = "writing", !.id = t,
           !.size = Head(req[r].batch), !.batch = Tail(req[r].batch)]]
    BY ZenonT(60), <1>30, <2>0 DEF BeginCopy, RequestsOK, RequestStates
  <2>1a. /\ req[r].pc = "batch" /\ req[r].batch # <<>>
         /\ Head(req[r].batch) \in 0..MaxFile /\ Tail(req[r].batch) \in Seq(0..MaxFile)
    BY <1>30, <2>0, HeadTailProperties DEF BeginCopy, At, RequestStates, WellPlaced
  <2> DEFINE q == [req[r] EXCEPT !.pc = "writing", !.id = t,
           !.size = Head(req[r].batch), !.batch = Tail(req[r].batch)]
  <2>2. q \in RequestStates
    BY <2>0, <2>1, <2>1a DEF RequestStates, Points, Copying
  <2>3. WellPlaced(q)
    BY <2>0, <2>1, <2>1a, Placement DEF RequestStates, WellPlaced, Copying, Deleting, Leaving, Wiping, Resetting
  <2> QED BY <2>1, <2>2, <2>3, RequestStep
<1>31. ASSUME NEW r \in Requests, ReviewEntry(r) PROVE RequestsOK'
  <2>0. req[r] \in RequestStates /\ WellPlaced(req[r])
    BY DEF RequestsOK
  <2>1. PICK t \in Transfers :  req' = [req EXCEPT ![r] = [req[r] EXCEPT !.pc = "review_row", !.id = t]]
    BY <1>31, <2>0 DEF ReviewEntry, RequestsOK, RequestStates
  <2> DEFINE q == [req[r] EXCEPT !.pc = "review_row", !.id = t]
  <2>2. q \in RequestStates
    BY <1>31, <2>0, <2>1 DEF ReviewEntry, RequestStates, Points, MaybeDevice, Copying, Deleting, Leaving, Wiping, Resetting
  <2>3. WellPlaced(q)
    BY <1>31, <2>0, <2>1, Placement DEF ReviewEntry, At, RequestStates, WellPlaced, Copying, Deleting, Leaving, Wiping, Resetting
  <2> QED BY <2>1, <2>2, <2>3, RequestStep
<1>32. ASSUME NEW r \in Requests, PurgeNext(r) PROVE RequestsOK'
  <2>0. req[r] \in RequestStates /\ WellPlaced(req[r])
    BY DEF RequestsOK
  <2>1. PICK t \in req[r].todo :  req' = [req EXCEPT ![r] = [req[r] EXCEPT !.pc = "delete_row", !.id = t, !.todo = @ \ {t}]]
    BY <1>32, <2>0 DEF PurgeNext, RequestsOK, RequestStates
  <2> DEFINE q == [req[r] EXCEPT !.pc = "delete_row", !.id = t, !.todo = @ \ {t}]
  <2>2. q \in RequestStates
    BY <1>32, <2>0, <2>1 DEF PurgeNext, RequestStates, Points, MaybeDevice, Copying, Deleting, Leaving, Wiping, Resetting
  <2>3. WellPlaced(q)
    BY <1>32, <2>0, <2>1, Placement DEF PurgeNext, At, RequestStates, WellPlaced, Copying, Deleting, Leaving, Wiping, Resetting
  <2> QED BY <2>1, <2>2, <2>3, RequestStep
<1>33. ASSUME NEW r \in Requests, DrainEntries(r) PROVE RequestsOK'
  <2>1. CASE At(r, "idle") /\ req' = [req EXCEPT ![r] =
                 [Idle EXCEPT !.op = "clear", !.pc = "wipe_rows", !.todo = Listed]]
    <3> DEFINE q == [Idle EXCEPT !.op = "clear", !.pc = "wipe_rows", !.todo = Listed]
    <3>1. q \in RequestStates
      BY IdleType DEF Listed, RequestStates, Handlers, Points, Copying, Deleting, Leaving, Wiping, Resetting
    <3>2. WellPlaced(q)
      BY DEF Idle, WellPlaced, Copying, Deleting, Leaving, Wiping, Resetting
    <3> QED BY <2>1, <3>1, <3>2, RequestStep
  <2>2. CASE At(r, "reset_entries") /\ req' = [req EXCEPT ![r].pc = "reset_people",
                                                        ![r].todo = Listed]
    <3> DEFINE q == [req[r] EXCEPT !.pc = "reset_people", !.todo = Listed]
    <3>0. req[r] \in RequestStates /\ WellPlaced(req[r])
      BY DEF RequestsOK
    <3>1. q \in RequestStates
      BY <3>0 DEF Listed, RequestStates, Points, Copying, Deleting, Leaving, Wiping, Resetting
    <3>2. WellPlaced(q)
      BY <2>2, <3>0, Placement DEF At, RequestStates, WellPlaced, Copying, Deleting, Leaving, Wiping, Resetting
    <3>3. req' = [req EXCEPT ![r] = q]
      BY <2>2, <3>0 DEF RequestsOK, RequestStates
    <3> QED BY <3>1, <3>2, <3>3, RequestStep
  <2> QED BY <1>33, <2>1, <2>2 DEF DrainEntries, Admits
<1>34. ASSUME Sweep PROVE RequestsOK'
  BY <1>34 DEF Sweep, SweepEntries, SweepRows, SweepFiles, RequestsOK
<1>35. ASSUME NEW t \in Transfers, Expire(t) PROVE RequestsOK'
  BY <1>35 DEF Expire, RequestsOK
<1>36. ASSUME Restart PROVE RequestsOK'
  BY <1>36, IdleType DEF Restart, RequestsOK
<1>37. ASSUME UNCHANGED vars PROVE RequestsOK'
  BY <1>37 DEF vars, RequestsOK
<1> QED
  BY <1>1, <1>2, <1>3, <1>4, <1>5, <1>6, <1>7, <1>8, <1>9, <1>10, <1>11, <1>12, <1>13, <1>14, <1>15, <1>16, <1>17, <1>18, <1>19, <1>20, <1>21, <1>22, <1>23, <1>24, <1>25, <1>26, <1>27, <1>28, <1>29, <1>30, <1>31, <1>32, <1>33, <1>34, <1>35, <1>36, <1>37
  DEF Next, Serve, Start, Proceed

LEMMA NewEntryType ==
  ASSUME RequestsOK, NEW r \in Requests, req[r].op \in {"upload", "local"}
  PROVE  NewEntry(req[r]) \in Entries
BY DEF RequestsOK, RequestStates, WellPlaced, NewEntry, Entries, MaybeDevice,
       Statuses, Available, Pending

\* While a review waits for the database, nobody else touches the map, and the
\* entry it has changed is still there.
ReviewLocksMap ==
  \A r \in Requests : At(r, "review_row") =>
    transfersLock = r /\ Present(memory[req[r].id])

LEMMA TypeStep == TypeOK /\ ReviewLocksMap /\ [Next]_vars => TypeOK'
<1> SUFFICES ASSUME TypeOK, ReviewLocksMap, [Next]_vars PROVE TypeOK'
  OBVIOUS
<1>0. RequestsOK' /\ RequestsOK
  BY RequestsStep DEF TypeOK
<1>p. \A r \in Requests : req[r] \in RequestStates /\ WellPlaced(req[r])
  BY <1>0 DEF RequestsOK
<1> USE DEF people, locks, store
<1>1. ASSUME NEW r \in Requests, BeginUpload(r) PROVE TypeOK'
  BY <1>0, <1>1, <1>p DEF BeginUpload, TakeUploadLock, Admits, TypeOK, StoreOK, RequestStates, WellPlaced, At, MaybeDevice, Copying, Deleting, Leaving
<1>2. ASSUME NEW r \in Requests, CheckBatch(r) PROVE TypeOK'
  BY <1>0, <1>2, <1>p DEF CheckBatch, TakeUploadLock, Admits, TypeOK, StoreOK, RequestStates, WellPlaced, At, MaybeDevice, Copying, Deleting, Leaving
<1>3. ASSUME NEW r \in Requests, ReceiveChunk(r) PROVE TypeOK'
  BY <1>0, <1>3, <1>p DEF ReceiveChunk, TypeOK, StoreOK, RequestStates, WellPlaced, At, MaybeDevice, Copying, Deleting, Leaving
<1>4. ASSUME NEW r \in Requests, CallReview(r) PROVE TypeOK'
  BY <1>0, <1>4, <1>p DEF CallReview, TypeOK, StoreOK, RequestStates, WellPlaced, At, MaybeDevice, Copying, Deleting, Leaving
<1>5. ASSUME NEW r \in Requests, DeleteLookup(r) PROVE TypeOK'
  BY <1>0, <1>5, <1>p DEF DeleteLookup, TypeOK, StoreOK, RequestStates, WellPlaced, At, MaybeDevice, Copying, Deleting, Leaving
<1>6. ASSUME NEW r \in Requests, BeginRemoval(r) PROVE TypeOK'
  BY <1>0, <1>6, <1>p DEF BeginRemoval, TypeOK, StoreOK, RequestStates, WellPlaced, At, MaybeDevice, Copying, Deleting, Leaving
<1>7. ASSUME NEW r \in Requests, PurgeNext(r) PROVE TypeOK'
  BY <1>0, <1>7, <1>p DEF PurgeNext, TypeOK, StoreOK, RequestStates, WellPlaced, At, MaybeDevice, Copying, Deleting, Leaving
<1>8. ASSUME NEW r \in Requests, ReviewRefused(r) PROVE TypeOK'
  BY <1>0, <1>8, <1>p DEF ReviewRefused, Finish, TypeOK, StoreOK, RequestStates, WellPlaced, At, MaybeDevice, Copying, Deleting, Leaving
<1>9. ASSUME NEW r \in Requests, AbandonUpload(r) PROVE TypeOK'
  BY <1>0, <1>9, <1>p DEF AbandonUpload, FinishUpload, TypeOK, StoreOK, RequestStates, WellPlaced, At, MaybeDevice, Copying, Deleting, Leaving
<1>10. ASSUME NEW r \in Requests, AbandonBatch(r) PROVE TypeOK'
  BY <1>0, <1>10, <1>p DEF AbandonBatch, FinishUpload, TypeOK, StoreOK, RequestStates, WellPlaced, At, MaybeDevice, Copying, Deleting, Leaving
<1>11. ASSUME NEW r \in Requests, PersistFails(r) PROVE TypeOK'
  BY <1>0, <1>11, <1>p DEF PersistFails, FinishUpload, TypeOK, StoreOK, RequestStates, WellPlaced, At, MaybeDevice, Copying, Deleting, Leaving
<1>12. ASSUME NEW r \in Requests, BeginCopy(r) PROVE TypeOK'
  BY <1>0, <1>12, <1>p DEF BeginCopy, TypeOK, StoreOK, RequestStates, WellPlaced, At, MaybeDevice, Copying, Deleting, Leaving
<1>13. ASSUME NEW r \in Requests, CompleteCopy(r) PROVE TypeOK'
  BY <1>0, <1>13, <1>p DEF CompleteCopy, TypeOK, StoreOK, RequestStates, WellPlaced, At, MaybeDevice, Copying, Deleting, Leaving
<1>14. ASSUME NEW r \in Requests, CompleteUpload(r) PROVE TypeOK'
  BY <1>0, <1>14, <1>p DEF CompleteUpload, TypeOK, StoreOK, RequestStates, WellPlaced, At, MaybeDevice, Copying, Deleting, Leaving
<1>15. ASSUME NEW r \in Requests, DeleteRow(r) PROVE TypeOK'
  BY <1>0, <1>15, <1>p DEF DeleteRow, TypeOK, StoreOK, RequestStates, WellPlaced, At, MaybeDevice, Copying, Deleting, Leaving
<1>16. ASSUME NEW r \in Requests, DeleteEntry(r) PROVE TypeOK'
  BY <1>0, <1>16, <1>p DEF DeleteEntry, TypeOK, StoreOK, RequestStates, WellPlaced, At, MaybeDevice, Copying, Deleting, Leaving
<1>17. ASSUME NEW r \in Requests, DeleteFiles(r) PROVE TypeOK'
  BY <1>0, <1>17, <1>p DEF DeleteFiles, TypeOK, StoreOK, RequestStates, WellPlaced, At, MaybeDevice, Copying, Deleting, Leaving
<1>18. ASSUME NEW r \in Requests, DrainEntries(r) PROVE TypeOK'
  BY <1>0, <1>18, <1>p DEF DrainEntries, TypeOK, StoreOK, RequestStates, WellPlaced, At, MaybeDevice, Copying, Deleting, Leaving
<1>19. ASSUME NEW r \in Requests, WipeRows(r) PROVE TypeOK'
  BY <1>0, <1>19, <1>p DEF WipeRows, TypeOK, StoreOK, RequestStates, WellPlaced, At, MaybeDevice, Copying, Deleting, Leaving
<1>20. ASSUME NEW r \in Requests, WipeFiles(r) PROVE TypeOK'
  BY <1>0, <1>20, <1>p DEF WipeFiles, TypeOK, StoreOK, RequestStates, WellPlaced, At, MaybeDevice, Copying, Deleting, Leaving
<1>21. ASSUME NEW r \in Requests, ResetRows(r) PROVE TypeOK'
  BY <1>0, <1>21, <1>p DEF ResetRows, TypeOK, StoreOK, RequestStates, WellPlaced, At, MaybeDevice, Copying, Deleting, Leaving
<1>22. ASSUME NEW r \in Requests, ResetPeople(r) PROVE TypeOK'
  BY <1>0, <1>22, <1>p DEF ResetPeople, TypeOK, StoreOK, RequestStates, WellPlaced, At, MaybeDevice, Copying, Deleting, Leaving
<1>23. ASSUME NEW r \in Requests, JoinRow(r) PROVE TypeOK'
  BY <1>0, <1>23, <1>p DEF JoinRow, TypeOK, StoreOK, RequestStates, WellPlaced, At, MaybeDevice, Copying, Deleting, Leaving
<1>24. ASSUME NEW r \in Requests, JoinEntry(r) PROVE TypeOK'
  BY <1>0, <1>24, <1>p, Placement DEF JoinEntry, TypeOK, StoreOK, RequestStates, WellPlaced, At, MaybeDevice, Copying, Deleting, Leaving
<1>25. ASSUME NEW r \in Requests, ForgetDevice(r) PROVE TypeOK'
  BY <1>0, <1>25, <1>p DEF ForgetDevice, TypeOK, StoreOK, RequestStates, WellPlaced, At, MaybeDevice, Copying, Deleting, Leaving
<1>26. ASSUME NEW r \in Requests, DatabaseFails(r) PROVE TypeOK'
  BY <1>0, <1>26, <1>p DEF DatabaseFails, ReleaseLocks, TypeOK, StoreOK, RequestStates, WellPlaced, At, MaybeDevice, Copying, Deleting, Leaving
<1>27. ASSUME NEW r \in Requests, Disconnect(r) PROVE TypeOK'
  BY <1>0, <1>27, <1>p DEF Disconnect, ReleaseLocks, TypeOK, StoreOK, RequestStates, WellPlaced, At, MaybeDevice, Copying, Deleting, Leaving
<1>28. ASSUME NEW r \in Requests, PersistTransfer(r) PROVE TypeOK'
  <2>1. NewEntry(req[r]) \in Entries
    BY <1>0, <1>28, <1>p, Placement, NewEntryType DEF PersistTransfer, At, Copying
  <2> QED BY <1>0, <1>28, <2>1 DEF PersistTransfer, FinishUpload, TypeOK, StoreOK
<1>29. ASSUME NEW r \in Requests, PublishTransfer(r) PROVE TypeOK'
  <2>1. NewEntry(req[r]) \in Entries
    BY <1>0, <1>29, <1>p, Placement, NewEntryType DEF PublishTransfer, At, Copying
  <2> QED BY <1>0, <1>29, <2>1 DEF PublishTransfer, FinishUpload, TypeOK, StoreOK
<1>30. ASSUME NEW t \in Transfers, Expire(t) PROVE TypeOK'
  BY <1>0, <1>30 DEF Expire, TypeOK, StoreOK
<1>31. ASSUME Sweep PROVE TypeOK'
  BY <1>0, <1>31 DEF Sweep, SweepEntries, SweepRows, SweepFiles, Resting, Listed, TypeOK, StoreOK
<1>32. ASSUME Restart PROVE TypeOK'
  BY <1>0, <1>32 DEF Restart, Recoverable, Resting, TypeOK, StoreOK, MaybeDevice
<1>33. ASSUME UNCHANGED vars PROVE TypeOK'
  BY <1>0, <1>33 DEF vars, TypeOK, StoreOK
<1>34. ASSUME NEW r \in Requests, ReviewEntry(r) PROVE TypeOK'
  <2>1. PICK t \in Transfers, verdict \in {Accepted, Rejected} :
         CanReview(memory[t], req[r].dev, t \in expired)
         /\ memory' = [memory EXCEPT ![t].status = verdict]
    BY <1>34 DEF ReviewEntry
  <2>2. [memory[t] EXCEPT !.status = verdict] \in Entries
    BY <2>1 DEF TypeOK, StoreOK, CanReview, Absent, Pending, Entries, Statuses, Accepted, Rejected
  <2> QED BY <1>0, <1>34, <2>1, <2>2 DEF ReviewEntry, TypeOK, StoreOK
<1>35. ASSUME NEW r \in Requests, ReviewRow(r) PROVE TypeOK'
  <2>1. memory[req[r].id] \in Entries /\ req[r].id \in Transfers
    BY <1>35, <1>p DEF ReviewRow, ReviewLocksMap, Present, TypeOK, StoreOK, At, WellPlaced, Absent
  <2>2. Present(rows[req[r].id]) =>
          [rows[req[r].id] EXCEPT !.status = memory[req[r].id].status] \in Entries
    BY <2>1 DEF Present, TypeOK, StoreOK, Absent, Entries
  <2>3. rows' \in [Transfers -> Entries \cup {Absent}]
    <3> DEFINE t == req[r].id
    <3>1. CASE ~Present(rows[t])
      BY <1>35, <3>1 DEF ReviewRow, TypeOK, StoreOK
    <3>2. CASE Present(rows[t])
      <4>1. rows' = [rows EXCEPT ![t] = [rows[t] EXCEPT !.status = memory[t].status]]
        BY <1>35, <3>2 DEF ReviewRow, TypeOK, StoreOK
      <4> QED BY <2>1, <2>2, <3>2, <4>1 DEF TypeOK, StoreOK
    <3> QED BY <3>1, <3>2
  <2>4. /\ transfersLock' = NoRequest
        /\ UNCHANGED <<memory, dirs, people, uploadLock, sweep, expired, drawn, deleted>>
    BY <1>35 DEF ReviewRow
  <2> QED BY <1>0, <2>3, <2>4 DEF TypeOK, StoreOK
<1>36. ASSUME NEW r \in Requests, DeleteDeviceRow(r) PROVE TypeOK'
  <2>1. \A t \in Transfers : Unreferenced(rows[t], req[r].peer) \in Entries \cup {Absent}
    <3> SUFFICES ASSUME NEW t \in Transfers
                 PROVE  Unreferenced(rows[t], req[r].peer) \in Entries \cup {Absent}
      OBVIOUS
    <3>1. CASE rows[t] \in Entries
      BY <3>1 DEF Unreferenced, Entries, MaybeDevice
    <3>2. CASE rows[t] = Absent
      <4>1. CASE req[r].peer = NoDevice
        BY <3>2, <4>1 DEF Unreferenced, Absent
      <4>2. CASE req[r].peer # NoDevice
        BY <3>2, <4>2 DEF Unreferenced, Absent
      <4> QED BY <4>1, <4>2
    <3> QED BY <3>1, <3>2 DEF TypeOK, StoreOK
  <2>2. rows' \in [Transfers -> Entries \cup {Absent}]
    BY <1>36, <2>1 DEF DeleteDeviceRow
  <2> QED BY <1>0, <1>36, <2>2 DEF DeleteDeviceRow, TypeOK, StoreOK, MaybeDevice
<1>37. ASSUME NEW r \in Requests, DetachSender(r) PROVE TypeOK'
  BY SMTT(60), <1>0, <1>37, <1>p DEF DetachSender, TypeOK, StoreOK, Entries, Absent, MaybeDevice
<1> QED
  BY <1>1, <1>2, <1>3, <1>4, <1>5, <1>6, <1>7, <1>8, <1>9, <1>10, <1>11, <1>12, <1>13, <1>14, <1>15, <1>16, <1>17, <1>18, <1>19, <1>20, <1>21, <1>22, <1>23, <1>24, <1>25, <1>26, <1>27, <1>28, <1>29, <1>30, <1>31, <1>32, <1>33, <1>34, <1>35, <1>36, <1>37
  DEF Next, Serve, Start, Proceed

\* A step of a handler changes the slot of that handler alone.
LEMMA SlotStep ==
  ASSUME TypeOK, NEW r \in Requests, Serve(r)
  PROVE  /\ \A s \in Requests \ {r} : req'[s] = req[s]
         /\ req'[r].pc = "review_row" => ReviewEntry(r)
<1> DEFINE Goal == /\ \A s \in Requests \ {r} : req'[s] = req[s]
                   /\ req'[r].pc # "review_row"
<1>0. req \in [Requests -> RequestStates]
  BY DEF TypeOK, RequestsOK
<1>1. CASE BeginUpload(r)
  BY <1>0, <1>1 DEF BeginUpload, Goto, Finish, FinishUpload, At, Admits, Idle, RequestStates
<1>2. CASE ReceiveChunk(r)
  BY <1>0, <1>2 DEF ReceiveChunk, Goto, Finish, FinishUpload, At, Admits, Idle, RequestStates
<1>3. CASE AbandonUpload(r)
  BY <1>0, <1>3 DEF AbandonUpload, Goto, Finish, FinishUpload, At, Admits, Idle, RequestStates
<1>4. CASE CompleteUpload(r)
  BY <1>0, <1>4 DEF CompleteUpload, Goto, Finish, FinishUpload, At, Admits, Idle, RequestStates
<1>5. CASE CheckBatch(r)
  BY <1>0, <1>5 DEF CheckBatch, Goto, Finish, FinishUpload, At, Admits, Idle, RequestStates
<1>6. CASE BeginCopy(r)
  BY <1>0, <1>6 DEF BeginCopy, Goto, Finish, FinishUpload, At, Admits, Idle, RequestStates
<1>7. CASE CompleteCopy(r)
  BY <1>0, <1>7 DEF CompleteCopy, Goto, Finish, FinishUpload, At, Admits, Idle, RequestStates
<1>8. CASE AbandonBatch(r)
  BY <1>0, <1>8 DEF AbandonBatch, Goto, Finish, FinishUpload, At, Admits, Idle, RequestStates
<1>9. CASE PersistTransfer(r)
  BY <1>0, <1>9 DEF PersistTransfer, Goto, Finish, FinishUpload, At, Admits, Idle, RequestStates
<1>10. CASE PersistFails(r)
  BY <1>0, <1>10 DEF PersistFails, Goto, Finish, FinishUpload, At, Admits, Idle, RequestStates
<1>11. CASE PublishTransfer(r)
  BY <1>0, <1>11 DEF PublishTransfer, Goto, Finish, FinishUpload, At, Admits, Idle, RequestStates
<1>12. CASE CallReview(r)
  BY <1>0, <1>12 DEF CallReview, Goto, Finish, FinishUpload, At, Admits, Idle, RequestStates
<1>13. CASE ReviewRefused(r)
  BY <1>0, <1>13 DEF ReviewRefused, Goto, Finish, FinishUpload, At, Admits, Idle, RequestStates
<1>14. CASE ReviewRow(r)
  BY <1>0, <1>14 DEF ReviewRow, Goto, Finish, FinishUpload, At, Admits, Idle, RequestStates
<1>15. CASE DeleteLookup(r)
  BY <1>0, <1>15 DEF DeleteLookup, Goto, Finish, FinishUpload, At, Admits, Idle, RequestStates
<1>16. CASE PurgeNext(r)
  BY <1>0, <1>16 DEF PurgeNext, Goto, Finish, FinishUpload, At, Admits, Idle, RequestStates
<1>17. CASE DeleteRow(r)
  BY <1>0, <1>17 DEF DeleteRow, Goto, Finish, FinishUpload, At, Admits, Idle, RequestStates
<1>18. CASE DeleteEntry(r)
  BY <1>0, <1>18 DEF DeleteEntry, Goto, Finish, FinishUpload, At, Admits, Idle, RequestStates
<1>19. CASE DeleteFiles(r)
  BY <1>0, <1>19 DEF DeleteFiles, Goto, Finish, FinishUpload, At, Admits, Idle, RequestStates
<1>20. CASE JoinRow(r)
  <2>1. req' = req
        \/ \E d \in Devices : req' = [req EXCEPT ![r] =
              [Idle EXCEPT !.op = "join", !.pc = "join_entry", !.peer = d]]
    BY <1>20 DEF JoinRow
  <2>2. req[r].pc = "idle"
    BY <1>20 DEF JoinRow, At
  <2> QED BY <1>0, <2>1, <2>2 DEF Idle
<1>21. CASE JoinEntry(r)
  BY <1>0, <1>21 DEF JoinEntry, Goto, Finish, FinishUpload, At, Admits, Idle, RequestStates
<1>22. CASE BeginRemoval(r)
  BY <1>0, <1>22 DEF BeginRemoval, Goto, Finish, FinishUpload, At, Admits, Idle, RequestStates
<1>23. CASE DeleteDeviceRow(r)
  BY <1>0, <1>23 DEF DeleteDeviceRow, Goto, Finish, FinishUpload, At, Admits, Idle, RequestStates
<1>24. CASE DetachSender(r)
  BY <1>0, <1>24 DEF DetachSender, Goto, Finish, FinishUpload, At, Admits, Idle, RequestStates
<1>25. CASE ForgetDevice(r)
  BY <1>0, <1>25 DEF ForgetDevice, Goto, Finish, FinishUpload, At, Admits, Idle, RequestStates
<1>26. CASE DrainEntries(r)
  BY ZenonT(60), <1>0, <1>26 DEF DrainEntries, Goto, Finish, FinishUpload, At, Admits, Idle,
      RequestStates
<1>27. CASE WipeRows(r)
  BY <1>0, <1>27 DEF WipeRows, Goto, Finish, FinishUpload, At, Admits, Idle, RequestStates
<1>28. CASE WipeFiles(r)
  BY <1>0, <1>28 DEF WipeFiles, Goto, Finish, FinishUpload, At, Admits, Idle, RequestStates
<1>29. CASE ResetRows(r)
  BY <1>0, <1>29 DEF ResetRows, Goto, Finish, FinishUpload, At, Admits, Idle, RequestStates
<1>30. CASE ResetPeople(r)
  BY <1>0, <1>30 DEF ResetPeople, Goto, Finish, FinishUpload, At, Admits, Idle, RequestStates
<1>31. CASE DatabaseFails(r)
  BY <1>0, <1>31 DEF DatabaseFails, Goto, Finish, FinishUpload, At, Admits, Idle, RequestStates
<1>32. CASE Disconnect(r)
  BY <1>0, <1>32 DEF Disconnect, Goto, Finish, FinishUpload, At, Admits, Idle, RequestStates
<1>e. CASE ReviewEntry(r)
  BY <1>0, <1>e DEF ReviewEntry, RequestStates
<1> QED
  BY <1>1, <1>2, <1>3, <1>4, <1>5, <1>6, <1>7, <1>8, <1>9, <1>10, <1>11, <1>12, <1>13, <1>14, <1>15, <1>16, <1>17, <1>18, <1>19, <1>20, <1>21, <1>22, <1>23, <1>24, <1>25, <1>26, <1>27, <1>28, <1>29, <1>30, <1>31, <1>32, <1>e
  DEF Serve, Start, Proceed

\* The steps of an upload up to its publication.
Writes(r) ==
  \/ BeginUpload(r) \/ ReceiveChunk(r) \/ CompleteUpload(r)
  \/ CheckBatch(r) \/ BeginCopy(r) \/ CompleteCopy(r)
  \/ PersistTransfer(r) \/ PublishTransfer(r)

LEMMA WriterStep ==
  ASSUME TypeOK, NEW r \in Requests, Serve(r)
  PROVE  req'[r].pc \in Copying \cup {"batch"} => Writes(r)
<1> SUFFICES ASSUME ~Writes(r) PROVE req'[r].pc \notin {"writing", "persist", "publish", "batch"}
  BY DEF Copying
<1>0. req \in [Requests -> RequestStates]
  BY DEF TypeOK, RequestsOK
<1>1. CASE AbandonUpload(r)
  BY <1>0, <1>1 DEF AbandonUpload, Goto, Finish, FinishUpload, At, Admits, Idle, RequestStates
<1>2. CASE AbandonBatch(r)
  BY <1>0, <1>2 DEF AbandonBatch, Goto, Finish, FinishUpload, At, Admits, Idle, RequestStates
<1>3. CASE PersistFails(r)
  BY <1>0, <1>3 DEF PersistFails, Goto, Finish, FinishUpload, At, Admits, Idle, RequestStates
<1>4. CASE CallReview(r)
  BY <1>0, <1>4 DEF CallReview, Goto, Finish, FinishUpload, At, Admits, Idle, RequestStates
<1>5. CASE ReviewEntry(r)
  BY <1>0, <1>5 DEF ReviewEntry, Goto, Finish, FinishUpload, At, Admits, Idle, RequestStates
<1>6. CASE ReviewRefused(r)
  BY <1>0, <1>6 DEF ReviewRefused, Goto, Finish, FinishUpload, At, Admits, Idle, RequestStates
<1>7. CASE ReviewRow(r)
  BY <1>0, <1>7 DEF ReviewRow, Goto, Finish, FinishUpload, At, Admits, Idle, RequestStates
<1>8. CASE DeleteLookup(r)
  BY <1>0, <1>8 DEF DeleteLookup, Goto, Finish, FinishUpload, At, Admits, Idle, RequestStates
<1>9. CASE PurgeNext(r)
  BY <1>0, <1>9 DEF PurgeNext, Goto, Finish, FinishUpload, At, Admits, Idle, RequestStates
<1>10. CASE DeleteRow(r)
  BY <1>0, <1>10 DEF DeleteRow, Goto, Finish, FinishUpload, At, Admits, Idle, RequestStates
<1>11. CASE DeleteEntry(r)
  BY <1>0, <1>11 DEF DeleteEntry, Goto, Finish, FinishUpload, At, Admits, Idle, RequestStates
<1>12. CASE DeleteFiles(r)
  BY <1>0, <1>12 DEF DeleteFiles, Goto, Finish, FinishUpload, At, Admits, Idle, RequestStates
<1>13. CASE JoinRow(r)
  <2>1. \/ req' = req /\ req[r].pc = "idle"
        \/ \E d \in Devices : req' = [req EXCEPT ![r] =
              [Idle EXCEPT !.op = "join", !.pc = "join_entry", !.peer = d]]
    BY <1>13 DEF JoinRow, At
  <2> QED BY <1>0, <2>1 DEF Idle
<1>14. CASE JoinEntry(r)
  BY <1>0, <1>14 DEF JoinEntry, Goto, Finish, FinishUpload, At, Admits, Idle, RequestStates
<1>15. CASE BeginRemoval(r)
  BY <1>0, <1>15 DEF BeginRemoval, Goto, Finish, FinishUpload, At, Admits, Idle, RequestStates
<1>16. CASE DeleteDeviceRow(r)
  BY <1>0, <1>16 DEF DeleteDeviceRow, Goto, Finish, FinishUpload, At, Admits, Idle, RequestStates
<1>17. CASE DetachSender(r)
  BY <1>0, <1>17 DEF DetachSender, Goto, Finish, FinishUpload, At, Admits, Idle, RequestStates
<1>18. CASE ForgetDevice(r)
  BY <1>0, <1>18 DEF ForgetDevice, Goto, Finish, FinishUpload, At, Admits, Idle, RequestStates
<1>19. CASE DrainEntries(r)
  <2>1. CASE req' = [req EXCEPT ![r] =
              [Idle EXCEPT !.op = "clear", !.pc = "wipe_rows", !.todo = Listed]]
    BY <1>0, <2>1 DEF Idle
  <2>2. CASE req' = [req EXCEPT ![r].pc = "reset_people", ![r].todo = Listed]
    BY <1>0, <2>2 DEF RequestStates
  <2> QED BY <1>19, <2>1, <2>2 DEF DrainEntries
<1>20. CASE WipeRows(r)
  BY <1>0, <1>20 DEF WipeRows, Goto, Finish, FinishUpload, At, Admits, Idle, RequestStates
<1>21. CASE WipeFiles(r)
  BY <1>0, <1>21 DEF WipeFiles, Goto, Finish, FinishUpload, At, Admits, Idle, RequestStates
<1>22. CASE ResetRows(r)
  BY <1>0, <1>22 DEF ResetRows, Goto, Finish, FinishUpload, At, Admits, Idle, RequestStates
<1>23. CASE ResetPeople(r)
  BY <1>0, <1>23 DEF ResetPeople, Goto, Finish, FinishUpload, At, Admits, Idle, RequestStates
<1>24. CASE DatabaseFails(r)
  BY <1>0, <1>24 DEF DatabaseFails, Goto, Finish, FinishUpload, At, Admits, Idle, RequestStates
<1>25. CASE Disconnect(r)
  BY <1>0, <1>25 DEF Disconnect, Goto, Finish, FinishUpload, At, Admits, Idle, RequestStates
<1> QED
  BY <1>1, <1>2, <1>3, <1>4, <1>5, <1>6, <1>7, <1>8, <1>9, <1>10, <1>11, <1>12, <1>13, <1>14, <1>15, <1>16, <1>17, <1>18, <1>19, <1>20, <1>21, <1>22, <1>23, <1>24, <1>25
  DEF Serve, Start, Proceed, Writes

(***************************************************************************)
(* The locks                                                               *)
(***************************************************************************)
LEMMA ReviewLocksMapStep == TypeOK /\ ReviewLocksMap /\ [Next]_vars => ReviewLocksMap'
<1> SUFFICES ASSUME TypeOK, ReviewLocksMap, [Next]_vars PROVE ReviewLocksMap'
  OBVIOUS
<1> USE DEF people, locks, store, At, ReviewLocksMap
<1>0. req \in [Requests -> RequestStates]
  BY DEF TypeOK, RequestsOK
\* A free map means that no review waits for the database.
<1>1. MapFree => \A s \in Requests : req[s].pc # "review_row"
  BY DEF MapFree
<1>2. ASSUME NEW r \in Requests, ReviewEntry(r) PROVE ReviewLocksMap'
  <2>1. PICK t \in Transfers, verdict \in {Accepted, Rejected} :
         /\ memory' = [memory EXCEPT ![t].status = verdict]
         /\ req' = [req EXCEPT ![r].pc = "review_row", ![r].id = t]
    BY <1>2 DEF ReviewEntry
  <2>2. Present(memory'[t])
    BY <2>1 DEF TypeOK, StoreOK, Entries, Absent, Present, Accepted, Rejected
  <2>3. req'[r].id = t /\ \A s \in Requests \ {r} : req'[s].pc # "review_row"
    BY <1>0, <1>1, <1>2, <2>1 DEF ReviewEntry, RequestStates
  <2> QED BY <1>2, <2>2, <2>3 DEF ReviewEntry
<1>3. ASSUME NEW r \in Requests, Serve(r), ~ReviewEntry(r) PROVE ReviewLocksMap'
  <2>1. /\ \A s \in Requests \ {r} : req'[s] = req[s]
        /\ req'[r].pc # "review_row"
    BY <1>3, SlotStep
  <2>2. CASE PublishTransfer(r) \/ DeleteEntry(r) \/ DetachSender(r) \/ DrainEntries(r)
    BY <1>1, <2>1, <2>2 DEF PublishTransfer, DeleteEntry, DetachSender, DrainEntries
  <2>3. CASE ReviewRow(r) \/ DatabaseFails(r) \/ Disconnect(r)
    BY <2>1, <2>3 DEF ReviewRow, DatabaseFails, Disconnect, ReleaseLocks
  <2>4. CASE UNCHANGED <<memory, transfersLock>>
    BY <2>1, <2>4
  <2> QED
    BY <1>3, <2>2, <2>3, <2>4 DEF Serve, Start, Proceed, BeginUpload, CheckBatch,
      CallReview, DeleteLookup, JoinRow, BeginRemoval, ResetRows, ReceiveChunk,
      CompleteUpload, AbandonUpload, BeginCopy, CompleteCopy, AbandonBatch,
      PersistTransfer, PersistFails, ReviewRefused, PurgeNext, DeleteRow,
      DeleteFiles, JoinEntry, DeleteDeviceRow, ForgetDevice, WipeRows, WipeFiles,
      ResetPeople
<1>4. ASSUME Sweep PROVE ReviewLocksMap'
  BY <1>1, <1>4 DEF Sweep, SweepEntries, SweepRows, SweepFiles
<1>5. ASSUME NEW t \in Transfers, Expire(t) PROVE ReviewLocksMap'
  BY <1>5 DEF Expire
<1>6. CASE Restart
  BY <1>6 DEF Restart, Idle
<1>7. CASE UNCHANGED vars
  BY <1>7 DEF vars
<1> QED
  BY <1>2, <1>3, <1>4, <1>5, <1>6, <1>7 DEF Next

\* upload_lock: whoever copies holds it.
LEMMA SoleWriterStep == TypeOK /\ SoleWriter /\ [Next]_vars => SoleWriter'
<1> SUFFICES ASSUME TypeOK, SoleWriter, [Next]_vars PROVE SoleWriter'
  OBVIOUS
<1> USE DEF people, locks, store, At, SoleWriter
<1>0. req \in [Requests -> RequestStates] /\ \A r \in Requests : WellPlaced(req[r])
  BY DEF TypeOK, RequestsOK
<1>1. uploadLock = NoRequest =>
        \A s \in Requests : req[s].pc \notin Copying \cup {"batch"}
  OBVIOUS
<1>2. ASSUME NEW r \in Requests, Serve(r) PROVE SoleWriter'
  <2>0. \A s \in Requests \ {r} : req'[s] = req[s]
    BY <1>2, SlotStep
  \* The holder lets the lock go when it is done.
  <2>1. CASE /\ uploadLock' = NoRequest /\ uploadLock = r
             /\ req'[r].pc = "idle"
    BY <2>0, <2>1 DEF Copying
  <2>2. CASE uploadLock = NoRequest /\ uploadLock' = r
    BY <1>1, <2>0, <2>2
  <2>3. CASE uploadLock' = uploadLock /\ (req'[r].pc \in Copying \cup {"batch"} =>
                                           req[r].pc \in Copying \cup {"batch"})
    BY <2>0, <2>3
  <2>4. CASE BeginUpload(r) \/ CheckBatch(r)
    BY <2>2, <2>4 DEF BeginUpload, CheckBatch, TakeUploadLock
  <2>5. CASE AbandonUpload(r) \/ AbandonBatch(r) \/ PersistFails(r)
    <3>1. req[r].pc \in Copying \cup {"batch"} /\ FinishUpload(r)
      BY <1>0, <2>5 DEF AbandonUpload, AbandonBatch, PersistFails, Copying, RequestStates
    <3> QED BY <1>0, <2>1, <3>1 DEF FinishUpload, Finish, Idle
  <2>6. CASE PublishTransfer(r)
    <3>1. CASE req[r].batch = <<>>
      BY <1>0, <2>1, <2>6, <3>1 DEF PublishTransfer, FinishUpload, Finish, Idle, Copying
    <3>2. CASE req[r].batch # <<>>
      BY <1>0, <2>3, <2>6, <3>2 DEF PublishTransfer, Copying
    <3> QED BY <3>1, <3>2
  <2>7. CASE ReceiveChunk(r) \/ CompleteUpload(r) \/ BeginCopy(r) \/ CompleteCopy(r) \/ PersistTransfer(r)
    BY <1>0, <2>3, <2>7 DEF ReceiveChunk, CompleteUpload, BeginCopy, CompleteCopy,
      PersistTransfer, Goto, Copying, RequestStates
  <2>8. CASE DatabaseFails(r) \/ Disconnect(r)
    BY <1>0, <2>0, <2>8 DEF DatabaseFails, Disconnect, ReleaseLocks, Finish, Idle, Copying
  <2>9. CASE ~Writes(r) /\ uploadLock' = uploadLock
    BY <1>2, <2>0, <2>9, WriterStep
  <2> QED
    BY <1>2, <2>4, <2>5, <2>6, <2>7, <2>8, <2>9 DEF Serve, Start, Proceed, Writes,
      DeleteLookup, CallReview, JoinRow, BeginRemoval, DrainEntries, ResetRows,
      ReviewEntry, ReviewRefused, ReviewRow, PurgeNext, DeleteRow, DeleteEntry,
      DeleteFiles, JoinEntry, DeleteDeviceRow, DetachSender, ForgetDevice,
      WipeRows, WipeFiles, ResetPeople
<1>3. CASE Sweep \/ (\E t \in Transfers : Expire(t)) \/ UNCHANGED vars
  BY <1>3 DEF Sweep, SweepEntries, SweepRows, SweepFiles, Expire, vars
<1>4. CASE Restart
  BY <1>4 DEF Restart, Idle, Copying
<1> QED
  BY <1>2, <1>3, <1>4 DEF Next

(***************************************************************************)
(* The files.  What is listed has its file because deletions remove the    *)
(* entry before the files, because an upload is published only when its    *)
(* file is complete, and because nobody else can have its fresh uuid in    *)
(* hand before that.                                                       *)
(***************************************************************************)
\* What a request or the cleanup task is about to delete.
InHand(r) ==
  req[r].todo \cup (IF req[r].pc \in Deleting THEN {req[r].id} ELSE {})

\* A transfer that is being uploaded is known to its upload alone.
UploadsAreFresh ==
  \A r \in Requests : req[r].pc \in Copying =>
    LET t == req[r].id IN
    /\ t \in drawn
    /\ ~Present(memory[t])
    /\ req[r].pc # "publish" => ~Present(rows[t])
    /\ req[r].pc # "writing" => dirs[t] = "complete"
    /\ t \notin sweep.ids
    /\ \A s \in Requests : t \notin InHand(s)

KnownAreDrawn ==
  \A t \in Transfers :
    (\/ Present(memory[t]) \/ Present(rows[t])
     \/ t \in sweep.ids \/ \E r \in Requests : t \in InHand(r))
    => t \in drawn

\* Files are removed after the entry.
EntriesGoFirst ==
  /\ \A r \in Requests :
       /\ req[r].pc = "delete_files" => ~Present(memory[req[r].id])
       /\ req[r].pc \in {"wipe_rows", "wipe_files", "reset_people"} =>
            \A t \in req[r].todo : ~Present(memory[t])
  /\ \A t \in sweep.ids : ~Present(memory[t])

RowsAreWhole == \A t \in Transfers : Present(rows[t]) => dirs[t] # "partial"

StoreInv ==
  /\ TypeOK
  /\ ReviewLocksMap
  /\ SoleWriter
  /\ UploadsAreFresh
  /\ KnownAreDrawn
  /\ EntriesGoFirst
  /\ RowsAreWhole
  /\ ListedHasFile

(***************************************************************************)
(* What a step does to each transfer                                       *)
(***************************************************************************)
LEMMA EntriesStep ==
  ASSUME TypeOK, [Next]_vars, NEW t \in Transfers, Present(memory'[t])
  PROVE  \/ Present(memory[t])
         \/ Restart /\ t \in Recoverable
         \/ \E r \in Requests : PublishTransfer(r) /\ req[r].id = t
<1> USE DEF store
<1>0. memory \in [Transfers -> Entries \cup {Absent}] /\ ~Present(Absent)
  BY DEF TypeOK, StoreOK, Present, Absent
<1>1. CASE memory' = memory
  BY <1>1
<1>2. CASE \E r \in Requests : PublishTransfer(r)
  <2> PICK r \in Requests : PublishTransfer(r)
    BY <1>2
  <2> QED BY <1>0 DEF PublishTransfer
<1>3. CASE \E r \in Requests : DeleteEntry(r) \/ DrainEntries(r)
  BY <1>0, <1>3 DEF DeleteEntry, DrainEntries
<1>4. CASE \E r \in Requests : ReviewEntry(r)
  <2>1. PICK u \in Transfers, verdict \in {Accepted, Rejected} :
         /\ CanReview(memory[u], req[CHOOSE r \in Requests : ReviewEntry(r)].dev, u \in expired)
         /\ memory' = [memory EXCEPT ![u].status = verdict]
    BY <1>4 DEF ReviewEntry
  <2>2. Present(memory[u])
    BY <2>1 DEF CanReview, Present, Pending
  <2> QED BY <1>0, <2>1, <2>2
<1>5. CASE \E r \in Requests : DetachSender(r)
  <2> PICK r \in Requests : DetachSender(r)
    BY <1>5
  <2>1. memory'[t].status = memory[t].status
    BY <1>0 DEF DetachSender, Entries, Absent
  <2> QED BY <2>1 DEF Present
<1>6. CASE SweepEntries
  BY <1>0, <1>6 DEF SweepEntries
<1>7. CASE Restart
  BY <1>0, <1>7 DEF Restart
<1> QED
  BY ZenonT(60), <1>1, <1>2, <1>3, <1>4, <1>5, <1>6, <1>7 DEF Next, vars, Sweep, SweepRows,
    SweepFiles, Expire, Serve, Start, Proceed, BeginUpload, CheckBatch, CallReview,
    DeleteLookup, JoinRow, BeginRemoval, ResetRows, ReceiveChunk, CompleteUpload,
    AbandonUpload, BeginCopy, CompleteCopy, AbandonBatch, PersistTransfer,
    PersistFails, ReviewRefused, ReviewRow, PurgeNext, DeleteRow, DeleteFiles,
    JoinEntry, DeleteDeviceRow, ForgetDevice, WipeRows, WipeFiles, ResetPeople,
    DatabaseFails, Disconnect

LEMMA RowsStep ==
  ASSUME TypeOK, [Next]_vars, NEW t \in Transfers, Present(rows'[t])
  PROVE  \/ Present(rows[t])
         \/ \E r \in Requests : PersistTransfer(r) /\ req[r].id = t
<1> USE DEF store
<1>0. rows \in [Transfers -> Entries \cup {Absent}] /\ ~Present(Absent)
  BY DEF TypeOK, StoreOK, Present, Absent
<1>1. CASE rows' = rows
  BY <1>1
<1>2. CASE \E r \in Requests : PersistTransfer(r)
  <2> PICK r \in Requests : PersistTransfer(r)
    BY <1>2
  <2> QED BY <1>0 DEF PersistTransfer
<1>3. CASE \E r \in Requests : DeleteRow(r) \/ WipeRows(r) \/ ResetRows(r)
  BY <1>0, <1>3 DEF DeleteRow, WipeRows, ResetRows
<1>4. CASE \E r \in Requests : ReviewRow(r)
  <2> PICK r \in Requests : ReviewRow(r)
    BY <1>4
  <2>1. CASE Present(rows[req[r].id])
    BY <1>0, <2>1 DEF ReviewRow
  <2>2. CASE ~Present(rows[req[r].id])
    BY <2>2 DEF ReviewRow
  <2> QED BY <2>1, <2>2
<1>5. CASE \E r \in Requests : DeleteDeviceRow(r)
  <2> PICK r \in Requests : DeleteDeviceRow(r)
    BY <1>5
  <2>1. rows'[t].status = rows[t].status
    BY DEF DeleteDeviceRow, Unreferenced
  <2> QED BY <2>1 DEF Present
<1>6. CASE SweepRows
  BY <1>0, <1>6 DEF SweepRows
<1>7. CASE Restart
  BY <1>0, <1>7 DEF Restart
<1> QED
  BY ZenonT(60), <1>1, <1>2, <1>3, <1>4, <1>5, <1>6, <1>7 DEF Next, vars, Sweep, SweepEntries,
    SweepFiles, Expire, Serve, Start, Proceed, BeginUpload, CheckBatch, CallReview,
    DeleteLookup, JoinRow, BeginRemoval, DrainEntries, ReceiveChunk, CompleteUpload,
    AbandonUpload, BeginCopy, CompleteCopy, AbandonBatch, PublishTransfer,
    PersistFails, ReviewRefused, ReviewEntry, PurgeNext, DeleteEntry, DeleteFiles,
    JoinEntry, DetachSender, ForgetDevice, WipeFiles, ResetPeople,
    DatabaseFails, Disconnect

LEMMA DirsStep ==
  ASSUME TypeOK, [Next]_vars, NEW t \in Transfers
  PROVE  \/ dirs'[t] = dirs[t]
         \/ t \notin drawn /\ rows' = rows
         \/ \E r \in Requests :
              /\ req[r].id = t /\ req[r].pc = "writing"
              /\ dirs'[t] = "complete"
         \/ \E r \in Requests :
              /\ req[r].id = t /\ req[r].pc \in {"writing", "persist"}
              /\ dirs'[t] = "none" /\ req'[r].pc = "idle"
         \/ \E r \in Requests :
              /\ \/ req[r].pc = "delete_files" /\ t = req[r].id
                 \/ req[r].pc = "wipe_files" /\ t \in req[r].todo
              /\ dirs'[t] = "none"
         \/ t \in sweep.ids /\ dirs'[t] = "none"
         \/ Restart /\ t \notin Recoverable /\ dirs'[t] = "none"
<1> USE DEF store
<1>0. /\ dirs \in [Transfers -> {"none", "partial", "complete"}]
      /\ req \in [Requests -> RequestStates]
  BY DEF TypeOK, StoreOK, RequestsOK
<1>1. CASE dirs' = dirs
  BY <1>1
<1>2. CASE \E r \in Requests : BeginUpload(r) \/ BeginCopy(r)
  BY <1>0, <1>2 DEF BeginUpload, BeginCopy
<1>3. CASE \E r \in Requests : CompleteUpload(r) \/ CompleteCopy(r)
  BY <1>0, <1>3 DEF CompleteUpload, CompleteCopy, At
<1>4. CASE \E r \in Requests : AbandonUpload(r) \/ AbandonBatch(r)
  BY <1>0, <1>4 DEF AbandonUpload, AbandonBatch, At, FinishUpload, Finish, Idle
<1>5. CASE \E r \in Requests : PersistFails(r)
  BY <1>0, <1>5 DEF PersistFails, At, FinishUpload, Finish, Idle
<1>6. CASE \E r \in Requests : DeleteFiles(r)
  BY <1>0, <1>6 DEF DeleteFiles, At
<1>7. CASE \E r \in Requests : WipeFiles(r)
  BY <1>0, <1>7 DEF WipeFiles, At
<1>8. CASE SweepFiles
  BY <1>0, <1>8 DEF SweepFiles
<1>9. CASE Restart
  BY <1>0, <1>9 DEF Restart
<1> QED
  BY ZenonT(60), <1>1, <1>2, <1>3, <1>4, <1>5, <1>6, <1>7, <1>8, <1>9 DEF Next, vars, Sweep,
    SweepEntries, SweepRows, Expire, Serve, Start, Proceed, CheckBatch, CallReview,
    DeleteLookup, JoinRow, BeginRemoval, DrainEntries, ReceiveChunk, PersistTransfer,
    PublishTransfer, ReviewRefused, ReviewEntry, ReviewRow, PurgeNext, DeleteRow,
    DeleteEntry, JoinEntry, DeleteDeviceRow, DetachSender, ForgetDevice, WipeRows,
    ResetRows, ResetPeople, DatabaseFails, Disconnect

LEMMA InHandStep ==
  ASSUME TypeOK, NEW r \in Requests, Serve(r)
  PROVE  InHand(r)' \subseteq InHand(r) \cup Listed
<1> USE DEF InHand, Deleting
<1>0. req \in [Requests -> RequestStates]
  BY DEF TypeOK, RequestsOK
<1>1. CASE BeginUpload(r)
  BY <1>0, <1>1 DEF BeginUpload, Goto, Finish, FinishUpload, At, Admits, Idle, RequestStates
<1>2. CASE ReceiveChunk(r)
  BY <1>0, <1>2 DEF ReceiveChunk, Goto, Finish, FinishUpload, At, Admits, Idle, RequestStates
<1>3. CASE AbandonUpload(r)
  BY <1>0, <1>3 DEF AbandonUpload, Goto, Finish, FinishUpload, At, Admits, Idle, RequestStates
<1>4. CASE CompleteUpload(r)
  BY <1>0, <1>4 DEF CompleteUpload, Goto, Finish, FinishUpload, At, Admits, Idle, RequestStates
<1>5. CASE CheckBatch(r)
  BY <1>0, <1>5 DEF CheckBatch, Goto, Finish, FinishUpload, At, Admits, Idle, RequestStates
<1>6. CASE BeginCopy(r)
  BY <1>0, <1>6 DEF BeginCopy, Goto, Finish, FinishUpload, At, Admits, Idle, RequestStates
<1>7. CASE CompleteCopy(r)
  BY <1>0, <1>7 DEF CompleteCopy, Goto, Finish, FinishUpload, At, Admits, Idle, RequestStates
<1>8. CASE AbandonBatch(r)
  BY <1>0, <1>8 DEF AbandonBatch, Goto, Finish, FinishUpload, At, Admits, Idle, RequestStates
<1>9. CASE PersistTransfer(r)
  BY <1>0, <1>9 DEF PersistTransfer, Goto, Finish, FinishUpload, At, Admits, Idle, RequestStates
<1>10. CASE PersistFails(r)
  BY <1>0, <1>10 DEF PersistFails, Goto, Finish, FinishUpload, At, Admits, Idle, RequestStates
<1>11. CASE PublishTransfer(r)
  <2>0. UNCHANGED <<rows, dirs>> /\ req[r].pc = "publish"
    BY <1>11 DEF PublishTransfer, At
  <2>1. CASE req[r].batch = <<>>
    BY <1>0, <1>11, <2>0, <2>1 DEF PublishTransfer, FinishUpload, Finish, Idle
  <2>2. CASE req[r].batch # <<>>
    <3>1. Goto(r, "batch")
      BY <1>11, <2>2 DEF PublishTransfer
    <3>2. req'[r] = [req[r] EXCEPT !.pc = "batch"]
      BY <1>0, <3>1 DEF Goto
    <3>3. req'[r].pc = "batch" /\ req'[r].todo = req[r].todo
      BY <1>0, <3>2 DEF RequestStates
    <3> QED BY <3>3
  <2> QED BY <2>1, <2>2
<1>12. CASE CallReview(r)
  BY <1>0, <1>12 DEF CallReview, Goto, Finish, FinishUpload, At, Admits, Idle, RequestStates
<1>13. CASE ReviewEntry(r)
  BY <1>0, <1>13 DEF ReviewEntry, Goto, Finish, FinishUpload, At, Admits, Idle, RequestStates
<1>14. CASE ReviewRefused(r)
  BY <1>0, <1>14 DEF ReviewRefused, Goto, Finish, FinishUpload, At, Admits, Idle, RequestStates
<1>15. CASE ReviewRow(r)
  BY <1>0, <1>15 DEF ReviewRow, Goto, Finish, FinishUpload, At, Admits, Idle, RequestStates
<1>16. CASE DeleteLookup(r)
  BY <1>0, <1>16 DEF DeleteLookup, Goto, Finish, FinishUpload, At, Admits, Idle, RequestStates
<1>17. CASE PurgeNext(r)
  BY <1>0, <1>17 DEF PurgeNext, Goto, Finish, FinishUpload, At, Admits, Idle, RequestStates
<1>18. CASE DeleteRow(r)
  BY <1>0, <1>18 DEF DeleteRow, Goto, Finish, FinishUpload, At, Admits, Idle, RequestStates
<1>19. CASE DeleteEntry(r)
  BY <1>0, <1>19 DEF DeleteEntry, Goto, Finish, FinishUpload, At, Admits, Idle, RequestStates
<1>20. CASE DeleteFiles(r)
  <2>1. CASE req[r].op = "delete"
    BY <1>0, <1>20, <2>1 DEF DeleteFiles, Finish, Idle
  <2>2. CASE req[r].op # "delete"
    <3>1. UNCHANGED <<memory, rows>> /\ Goto(r, "purge")
      BY <1>20, <2>2 DEF DeleteFiles
    <3>2. req'[r] = [req[r] EXCEPT !.pc = "purge"]
      BY <1>0, <3>1 DEF Goto
    <3>3. req'[r].pc = "purge" /\ req'[r].todo = req[r].todo
      BY <1>0, <3>2 DEF RequestStates
    <3> QED BY <1>0, <1>20, <3>1, <3>3 DEF DeleteFiles, At
  <2> QED BY <2>1, <2>2
<1>21. CASE JoinRow(r)
  <2>1. req' = req
        \/ \E d \in Devices : req' = [req EXCEPT ![r] =
              [Idle EXCEPT !.op = "join", !.pc = "join_entry", !.peer = d]]
    BY <1>21 DEF JoinRow, At
  <2> QED BY <1>0, <2>1 DEF Idle
<1>22. CASE JoinEntry(r)
  BY <1>0, <1>22 DEF JoinEntry, Goto, Finish, FinishUpload, At, Admits, Idle, RequestStates
<1>23. CASE BeginRemoval(r)
  BY <1>0, <1>23 DEF BeginRemoval, Goto, Finish, FinishUpload, At, Admits, Idle, RequestStates
<1>24. CASE DeleteDeviceRow(r)
  BY <1>0, <1>24 DEF DeleteDeviceRow, Goto, Finish, FinishUpload, At, Admits, Idle, RequestStates
<1>25. CASE DetachSender(r)
  BY <1>0, <1>25 DEF DetachSender, Goto, Finish, FinishUpload, At, Admits, Idle, RequestStates
<1>26. CASE ForgetDevice(r)
  BY <1>0, <1>26 DEF ForgetDevice, Goto, Finish, FinishUpload, At, Admits, Idle, RequestStates
<1>27. CASE DrainEntries(r)
  <2>1. CASE req' = [req EXCEPT ![r] =
              [Idle EXCEPT !.op = "clear", !.pc = "wipe_rows", !.todo = Listed]]
    BY <1>0, <2>1 DEF Idle
  <2>2. CASE /\ At(r, "reset_entries")
             /\ req' = [req EXCEPT ![r].pc = "reset_people", ![r].todo = Listed]
    BY <1>0, <2>2 DEF RequestStates
  <2> QED BY <1>27, <2>1, <2>2 DEF DrainEntries
<1>28. CASE WipeRows(r)
  BY <1>0, <1>28 DEF WipeRows, Goto, Finish, FinishUpload, At, Admits, Idle, RequestStates
<1>29. CASE WipeFiles(r)
  BY <1>0, <1>29 DEF WipeFiles, Goto, Finish, FinishUpload, At, Admits, Idle, RequestStates
<1>30. CASE ResetRows(r)
  BY <1>0, <1>30 DEF ResetRows, Goto, Finish, FinishUpload, At, Admits, Idle, RequestStates
<1>31. CASE ResetPeople(r)
  BY <1>0, <1>31 DEF ResetPeople, Goto, Finish, FinishUpload, At, Admits, Idle, RequestStates
<1>32. CASE DatabaseFails(r)
  BY <1>0, <1>32 DEF DatabaseFails, Goto, Finish, FinishUpload, At, Admits, Idle, RequestStates
<1>33. CASE Disconnect(r)
  BY <1>0, <1>33 DEF Disconnect, Goto, Finish, FinishUpload, At, Admits, Idle, RequestStates
<1> QED
  BY <1>1, <1>2, <1>3, <1>4, <1>5, <1>6, <1>7, <1>8, <1>9, <1>10, <1>11, <1>12, <1>13, <1>14, <1>15, <1>16, <1>17, <1>18, <1>19, <1>20, <1>21, <1>22, <1>23, <1>24, <1>25, <1>26, <1>27, <1>28, <1>29, <1>30, <1>31, <1>32, <1>33
  DEF Serve, Start, Proceed

\* How a request comes to the steps at which files are about to go.
LEMMA ArrivalStep ==
  ASSUME TypeOK, NEW r \in Requests, Serve(r)
  PROVE  /\ req'[r].pc = "delete_files" => DeleteEntry(r)
         /\ req'[r].pc \in {"wipe_rows", "reset_people"} => DrainEntries(r)
         /\ req'[r].pc = "wipe_files" => WipeRows(r) \/ ResetPeople(r)
<1>0. req \in [Requests -> RequestStates]
  BY DEF TypeOK, RequestsOK
<1>1. CASE BeginUpload(r)
  BY <1>0, <1>1 DEF BeginUpload, Goto, Finish, FinishUpload, At, Admits, Idle, RequestStates
<1>2. CASE ReceiveChunk(r)
  BY <1>0, <1>2 DEF ReceiveChunk, Goto, Finish, FinishUpload, At, Admits, Idle, RequestStates
<1>3. CASE AbandonUpload(r)
  BY <1>0, <1>3 DEF AbandonUpload, Goto, Finish, FinishUpload, At, Admits, Idle, RequestStates
<1>4. CASE CompleteUpload(r)
  BY <1>0, <1>4 DEF CompleteUpload, Goto, Finish, FinishUpload, At, Admits, Idle, RequestStates
<1>5. CASE CheckBatch(r)
  BY <1>0, <1>5 DEF CheckBatch, Goto, Finish, FinishUpload, At, Admits, Idle, RequestStates
<1>6. CASE BeginCopy(r)
  BY <1>0, <1>6 DEF BeginCopy, Goto, Finish, FinishUpload, At, Admits, Idle, RequestStates
<1>7. CASE CompleteCopy(r)
  BY <1>0, <1>7 DEF CompleteCopy, Goto, Finish, FinishUpload, At, Admits, Idle, RequestStates
<1>8. CASE AbandonBatch(r)
  BY <1>0, <1>8 DEF AbandonBatch, Goto, Finish, FinishUpload, At, Admits, Idle, RequestStates
<1>9. CASE PersistTransfer(r)
  BY <1>0, <1>9 DEF PersistTransfer, Goto, Finish, FinishUpload, At, Admits, Idle, RequestStates
<1>10. CASE PersistFails(r)
  BY <1>0, <1>10 DEF PersistFails, Goto, Finish, FinishUpload, At, Admits, Idle, RequestStates
<1>11. CASE PublishTransfer(r)
  BY <1>0, <1>11 DEF PublishTransfer, Goto, Finish, FinishUpload, At, Admits, Idle, RequestStates
<1>12. CASE CallReview(r)
  BY <1>0, <1>12 DEF CallReview, Goto, Finish, FinishUpload, At, Admits, Idle, RequestStates
<1>13. CASE ReviewEntry(r)
  BY <1>0, <1>13 DEF ReviewEntry, Goto, Finish, FinishUpload, At, Admits, Idle, RequestStates
<1>14. CASE ReviewRefused(r)
  BY <1>0, <1>14 DEF ReviewRefused, Goto, Finish, FinishUpload, At, Admits, Idle, RequestStates
<1>15. CASE ReviewRow(r)
  BY <1>0, <1>15 DEF ReviewRow, Goto, Finish, FinishUpload, At, Admits, Idle, RequestStates
<1>16. CASE DeleteLookup(r)
  BY <1>0, <1>16 DEF DeleteLookup, Goto, Finish, FinishUpload, At, Admits, Idle, RequestStates
<1>17. CASE PurgeNext(r)
  BY <1>0, <1>17 DEF PurgeNext, Goto, Finish, FinishUpload, At, Admits, Idle, RequestStates
<1>18. CASE DeleteRow(r)
  BY <1>0, <1>18 DEF DeleteRow, Goto, Finish, FinishUpload, At, Admits, Idle, RequestStates
<1>19. CASE DeleteFiles(r)
  BY <1>0, <1>19 DEF DeleteFiles, Goto, Finish, FinishUpload, At, Admits, Idle, RequestStates
<1>20. CASE JoinEntry(r)
  BY <1>0, <1>20 DEF JoinEntry, Goto, Finish, FinishUpload, At, Admits, Idle, RequestStates
<1>21. CASE BeginRemoval(r)
  BY <1>0, <1>21 DEF BeginRemoval, Goto, Finish, FinishUpload, At, Admits, Idle, RequestStates
<1>22. CASE DeleteDeviceRow(r)
  BY <1>0, <1>22 DEF DeleteDeviceRow, Goto, Finish, FinishUpload, At, Admits, Idle, RequestStates
<1>23. CASE DetachSender(r)
  BY <1>0, <1>23 DEF DetachSender, Goto, Finish, FinishUpload, At, Admits, Idle, RequestStates
<1>24. CASE ForgetDevice(r)
  BY <1>0, <1>24 DEF ForgetDevice, Goto, Finish, FinishUpload, At, Admits, Idle, RequestStates
<1>25. CASE WipeFiles(r)
  BY <1>0, <1>25 DEF WipeFiles, Goto, Finish, FinishUpload, At, Admits, Idle, RequestStates
<1>26. CASE ResetRows(r)
  BY <1>0, <1>26 DEF ResetRows, Goto, Finish, FinishUpload, At, Admits, Idle, RequestStates
<1>27. CASE DatabaseFails(r)
  BY <1>0, <1>27 DEF DatabaseFails, Goto, Finish, FinishUpload, At, Admits, Idle, RequestStates
<1>28. CASE Disconnect(r)
  BY <1>0, <1>28 DEF Disconnect, Goto, Finish, FinishUpload, At, Admits, Idle, RequestStates
<1>29. CASE JoinRow(r)
  <2>1. \/ req' = req /\ req[r].pc = "idle"
        \/ \E d \in Devices : req' = [req EXCEPT ![r] =
              [Idle EXCEPT !.op = "join", !.pc = "join_entry", !.peer = d]]
    BY <1>29 DEF JoinRow, At
  <2> QED BY <1>0, <2>1 DEF Idle
<1>30. CASE DeleteEntry(r)
  BY <1>0, <1>30 DEF DeleteEntry, Goto, RequestStates
<1>31. CASE DrainEntries(r)
  <2>1. \/ req' = [req EXCEPT ![r] =
              [Idle EXCEPT !.op = "clear", !.pc = "wipe_rows", !.todo = Listed]]
        \/ req' = [req EXCEPT ![r].pc = "reset_people", ![r].todo = Listed]
    BY <1>31 DEF DrainEntries
  <2>2. req'[r].pc = "wipe_rows" \/ req'[r].pc = "reset_people"
    <3>1. CASE req' = [req EXCEPT ![r] =
              [Idle EXCEPT !.op = "clear", !.pc = "wipe_rows", !.todo = Listed]]
      BY <1>0, <3>1 DEF Idle
    <3>2. CASE req' = [req EXCEPT ![r].pc = "reset_people", ![r].todo = Listed]
      BY <1>0, <3>2 DEF RequestStates
    <3> QED BY <2>1, <3>1, <3>2
  <2> QED BY <1>31, <2>2
<1>32. CASE WipeRows(r) \/ ResetPeople(r)
  BY <1>0, <1>32 DEF WipeRows, ResetPeople, Goto, RequestStates
<1> QED
  BY <1>1, <1>2, <1>3, <1>4, <1>5, <1>6, <1>7, <1>8, <1>9, <1>10, <1>11, <1>12, <1>13, <1>14, <1>15, <1>16, <1>17, <1>18, <1>19, <1>20, <1>21, <1>22, <1>23, <1>24, <1>25, <1>26, <1>27, <1>28, <1>29, <1>30, <1>31, <1>32 DEF Serve, Start, Proceed

\* What is about to be deleted was listed when it was picked.
LEMMA HandsStep ==
  ASSUME TypeOK, [Next]_vars, NEW r \in Requests
  PROVE  InHand(r)' \subseteq InHand(r) \cup Listed
<1>1. ASSUME NEW s \in Requests, Serve(s)
      PROVE  InHand(r)' \subseteq InHand(r) \cup Listed
  <2>1. CASE s = r
    BY <1>1, <2>1, InHandStep
  <2>2. CASE s # r
    BY <1>1, <2>2, SlotStep DEF InHand
  <2> QED BY <2>1, <2>2
<1>2. CASE UNCHANGED req
  BY <1>2 DEF InHand
<1>3. CASE Restart
  BY <1>3 DEF Restart, InHand, Idle, Deleting
<1> QED
  BY <1>1, <1>2, <1>3 DEF Next, vars, Sweep, SweepEntries, SweepRows, SweepFiles, Expire

LEMMA SweepStep ==
  ASSUME TypeOK, [Next]_vars
  PROVE  drawn \subseteq drawn' /\ sweep'.ids \subseteq sweep.ids \cup Listed
<1>1. CASE UNCHANGED <<sweep, drawn>>
  BY <1>1
<1>2. CASE Sweep \/ Restart
  BY <1>2 DEF TypeOK, Sweep, SweepEntries, SweepRows, SweepFiles, Restart, Resting
<1>3. CASE \E s \in Requests : BeginUpload(s) \/ BeginCopy(s) \/ JoinRow(s)
  BY <1>3 DEF BeginUpload, BeginCopy, JoinRow
<1> QED
  BY ZenonT(60), <1>1, <1>2, <1>3 DEF Next, vars, Expire, Serve, Start, Proceed, CheckBatch,
    CallReview, DeleteLookup, BeginRemoval, DrainEntries, ResetRows, ReceiveChunk,
    CompleteUpload, AbandonUpload, CompleteCopy, AbandonBatch, PersistTransfer,
    PersistFails, PublishTransfer, ReviewEntry, ReviewRefused, ReviewRow, PurgeNext,
    DeleteRow, DeleteEntry, DeleteFiles, JoinEntry, DeleteDeviceRow, DetachSender,
    ForgetDevice, WipeRows, WipeFiles, ResetPeople, DatabaseFails, Disconnect

\* A transfer that neither the entries nor a deletion know of.
Unknown(t) ==
  /\ ~Present(memory[t])
  /\ t \notin sweep.ids
  /\ \A s \in Requests : t \notin InHand(s)

LEMMA UnknownStep ==
  ASSUME TypeOK, [Next]_vars, ~Restart, NEW t \in Transfers, Unknown(t),
         \A s \in Requests : PublishTransfer(s) => req[s].id # t
  PROVE  Unknown(t)'
<1>1. ~Present(memory'[t])
  BY EntriesStep DEF Unknown
<1>2. \A s \in Requests : t \notin InHand(s)'
  BY HandsStep DEF Unknown, Listed
<1>3. t \notin sweep'.ids
  BY SweepStep DEF Unknown, Listed
<1> QED BY <1>1, <1>2, <1>3 DEF Unknown

LEMMA KnownAreDrawnStep == StoreInv /\ [Next]_vars => KnownAreDrawn'
<1> SUFFICES ASSUME StoreInv, [Next]_vars, NEW t \in Transfers, t \notin drawn'
             PROVE  ~(\/ Present(memory[t]) \/ Present(rows[t])
                      \/ t \in sweep.ids \/ \E r \in Requests : t \in InHand(r))'
  BY DEF KnownAreDrawn
<1> USE DEF StoreInv
<1>1. drawn \subseteq drawn' /\ sweep'.ids \subseteq sweep.ids \cup Listed
  BY SweepStep
<1>2. /\ ~Present(memory[t]) /\ ~Present(rows[t]) /\ t \notin sweep.ids
      /\ \A r \in Requests : t \notin InHand(r)
  BY <1>1 DEF KnownAreDrawn
<1>3. \A r \in Requests : PublishTransfer(r) \/ PersistTransfer(r) => req[r].id # t
  BY <1>1 DEF PublishTransfer, PersistTransfer, At, UploadsAreFresh, Copying
<1>4. ~Present(memory'[t])
  BY <1>2, <1>3, EntriesStep DEF Recoverable
<1>5. ~Present(rows'[t])
  BY <1>2, <1>3, RowsStep
<1>6. \A r \in Requests : t \notin InHand(r)'
  BY <1>2, HandsStep DEF Listed
<1> QED BY <1>1, <1>2, <1>4, <1>5, <1>6 DEF Listed

\* How an upload comes to its next step.
LEMMA CopyingStep ==
  ASSUME TypeOK, [Next]_vars, NEW r \in Requests, req'[r].pc \in Copying,
         ~BeginUpload(r), ~BeginCopy(r)
  PROVE  /\ req[r].pc \in Copying /\ req'[r].id = req[r].id
         /\ ~PublishTransfer(r) /\ ~Restart
         /\ PersistTransfer(r) => req'[r].pc = "publish"
         /\ \/ req'[r].pc = req[r].pc
            \/ PersistTransfer(r)
            \/ /\ req[r].pc = "writing" /\ req'[r].pc = "persist"
               /\ dirs'[req[r].id] = "complete"
<1> USE DEF Copying
<1>0. /\ req \in [Requests -> RequestStates] /\ dirs \in [Transfers -> {"none", "partial", "complete"}]
      /\ req[r].pc \in Copying => req[r].id \in Transfers
  BY DEF TypeOK, StoreOK, RequestsOK, WellPlaced
<1>1. ~Restart
  BY DEF Restart, Idle
<1>2. ~PublishTransfer(r)
  <2> SUFFICES ASSUME PublishTransfer(r) PROVE FALSE
    OBVIOUS
  <2>1. CASE req[r].batch = <<>>
    BY <1>0, <2>1 DEF PublishTransfer, FinishUpload, Finish, Idle
  <2>2. CASE req[r].batch # <<>>
    <3>1. Goto(r, "batch")
      BY <2>2 DEF PublishTransfer
    <3> QED BY <1>0, <3>1 DEF Goto, RequestStates
  <2> QED BY <2>1, <2>2
<1>2a. PersistTransfer(r) =>
         /\ req[r].pc = "persist" /\ req'[r].pc = "publish" /\ req'[r].id = req[r].id
  BY <1>0 DEF PersistTransfer, Goto, At, RequestStates
<1>3. CASE req'[r] = req[r]
  BY <1>1, <1>2, <1>2a, <1>3
<1>4. CASE ReceiveChunk(r)
  <2>1. /\ req[r].pc = "writing" /\ req'[r] = [req[r] EXCEPT !.size = @ + 1]
    BY <1>0, <1>4 DEF ReceiveChunk, At
  <2>2. req'[r].pc = "writing" /\ req'[r].id = req[r].id /\ ~PersistTransfer(r)
    BY <1>0, <2>1 DEF RequestStates, PersistTransfer, At
  <2> QED BY <1>1, <1>2, <2>1, <2>2
<1>5. CASE CompleteUpload(r) \/ CompleteCopy(r)
  <2>1. /\ req[r].pc = "writing" /\ req'[r].pc = "persist" /\ req'[r].id = req[r].id
    BY <1>0, <1>5 DEF CompleteUpload, CompleteCopy, Goto, At, RequestStates
  <2>2. dirs'[req[r].id] = "complete"
    BY <1>0, <1>5, <2>1 DEF CompleteUpload, CompleteCopy
  <2> QED BY <1>1, <1>2, <2>1, <2>2 DEF PersistTransfer, At
<1>6. CASE PersistTransfer(r)
  BY <1>1, <1>2, <1>2a, <1>6
<1>7. CASE CheckBatch(r)
  BY <1>0, <1>7 DEF CheckBatch
<1>8. ASSUME NEW s \in Requests, Serve(s), s # r
      PROVE  req'[r] = req[r]
  BY <1>8, SlotStep
<1>9. CASE UNCHANGED req
  BY <1>3, <1>9
<1> QED
  BY <1>1, <1>2, <1>2a, <1>3, <1>4, <1>5, <1>6, <1>7, <1>8, <1>9, WriterStep
  DEF Next, vars, Writes, Sweep, SweepEntries, SweepRows, SweepFiles, Expire

LEMMA UploadsAreFreshStep == StoreInv /\ [Next]_vars => UploadsAreFresh'
<1> SUFFICES ASSUME StoreInv, [Next]_vars, NEW r \in Requests, req'[r].pc \in Copying,
                    NEW t, t = req'[r].id
             PROVE  /\ t \in drawn'
                    /\ req'[r].pc # "publish" => ~Present(rows'[t])
                    /\ req'[r].pc # "writing" => dirs'[t] = "complete"
                    /\ Unknown(t)'
  BY DEF UploadsAreFresh, Unknown
<1> USE DEF StoreInv
<1>0. /\ req \in [Requests -> RequestStates]
      /\ \A s \in Requests : req[s].pc \in Copying => req[s].id \in Transfers
  BY DEF TypeOK, RequestsOK, WellPlaced
<1>1. \A s \in Requests : \A u : req[s].pc \in Copying /\ req[s].id = u => Unknown(u) /\ u \in drawn
  BY DEF UploadsAreFresh, Unknown
<1>2. ~Restart
  BY DEF Restart, Idle, Copying
<1>3. CASE BeginUpload(r) \/ BeginCopy(r)
  <2>1. /\ t \in Transfers \ drawn /\ t \in drawn' /\ rows' = rows
        /\ req'[r].pc = "writing"
    <3>1. CASE BeginUpload(r)
      BY <1>0, <3>1 DEF BeginUpload, store, Idle
    <3>2. CASE BeginCopy(r)
      <4>1. PICK u \in Transfers \ drawn :
              /\ drawn' = drawn \cup {u}
              /\ req' = [req EXCEPT ![r].pc = "writing", ![r].id = u,
                           ![r].size = Head(req[r].batch),
                           ![r].batch = Tail(req[r].batch)]
        BY <3>2 DEF BeginCopy
      <4>2. req'[r].pc = "writing" /\ req'[r].id = u
        BY <1>0, <4>1 DEF RequestStates
      <4> QED BY <3>2, <4>1, <4>2 DEF BeginCopy, store
    <3> QED BY <1>3, <3>1, <3>2
  <2>2. Unknown(t) /\ ~Present(rows[t])
    BY <2>1 DEF KnownAreDrawn, Unknown
  <2>3. \A s \in Requests : PublishTransfer(s) => req[s].id # t
    BY <1>1, <2>1 DEF PublishTransfer, At, Copying
  <2>4. Unknown(t)'
    BY <1>2, <2>1, <2>2, <2>3, UnknownStep
  <2> QED BY <2>1, <2>2, <2>4
<1>4. CASE ~BeginUpload(r) /\ ~BeginCopy(r)
  <2>1. /\ req[r].pc \in Copying /\ t = req[r].id /\ ~PublishTransfer(r)
        /\ PersistTransfer(r) => req'[r].pc = "publish"
        /\ \/ req'[r].pc = req[r].pc
           \/ PersistTransfer(r)
           \/ /\ req[r].pc = "writing" /\ req'[r].pc = "persist"
              /\ dirs'[t] = "complete"
    BY <1>4, CopyingStep
  \* Nobody else is uploading it, nor anything else.
  <2>2. \A s \in Requests : req[s].pc \in Copying => s = r
    BY <2>1 DEF SoleWriter
  <2>3. t \in Transfers /\ Unknown(t) /\ t \in drawn /\ t \in drawn'
    BY <1>0, <1>1, <2>1, SweepStep
  <2>4. \A s \in Requests : PublishTransfer(s) => req[s].id # t
    BY <2>1, <2>2 DEF PublishTransfer, At, Copying
  <2>5. Unknown(t)'
    BY <1>2, <2>3, <2>4, UnknownStep
  <2>6. ASSUME req'[r].pc # "publish" PROVE ~Present(rows'[t])
    <3>1. ~Present(rows[t])
      BY <2>1, <2>6 DEF UploadsAreFresh, PersistTransfer, At
    <3>2. \A s \in Requests : PersistTransfer(s) => req[s].id # t
      BY <2>1, <2>2, <2>6 DEF PersistTransfer, At, Copying
    <3> QED BY <2>3, <3>1, <3>2, RowsStep
  <2>7. ASSUME req'[r].pc # "writing" PROVE dirs'[t] = "complete"
    <3>1. CASE dirs'[t] # "complete"
      <4>1. dirs[t] = "complete"
        BY <2>1, <2>7, <3>1 DEF UploadsAreFresh, PersistTransfer, At
      <4>2. \A s \in Requests : t \notin InHand(s) /\ t \notin sweep.ids
        BY <2>3 DEF Unknown
      <4>3. \A s \in Requests : req[s].pc \in {"writing", "persist"} => req'[s].pc # "idle"
        BY <2>2 DEF Copying
      <4> QED
        BY <1>2, <2>3, <3>1, <4>1, <4>2, <4>3, DirsStep DEF InHand, Deleting
    <3> QED BY <3>1
  <2> QED BY <2>3, <2>5, <2>6, <2>7
<1> QED BY <1>3, <1>4

LEMMA EntriesGoFirstStep == StoreInv /\ [Next]_vars => EntriesGoFirst'
<1> SUFFICES ASSUME StoreInv, [Next]_vars PROVE EntriesGoFirst'
  OBVIOUS
<1> USE DEF StoreInv
<1>0. /\ req \in [Requests -> RequestStates]
      /\ memory \in [Transfers -> Entries \cup {Absent}] /\ ~Present(Absent)
      /\ \A s \in Requests : req[s].pc \in Copying \cup Deleting => req[s].id \in Transfers
      /\ sweep.ids \subseteq Transfers
  BY DEF TypeOK, StoreOK, RequestsOK, WellPlaced, Present, Absent
\* Nothing that is about to be deleted is published.
<1>1. ASSUME NEW t \in Transfers, ~Present(memory[t]), ~Restart,
             \/ t \in sweep.ids \/ \E r \in Requests : t \in InHand(r)
      PROVE  ~Present(memory'[t])
  <2>1. \A s \in Requests : PublishTransfer(s) => req[s].id # t
    BY <1>1 DEF PublishTransfer, At, Copying, UploadsAreFresh
  <2> QED BY <1>1, <2>1, EntriesStep
<1>2. ASSUME NEW r \in Requests, req'[r].pc = "delete_files"
      PROVE  ~Present(memory'[req'[r].id])
  <2>0. ~Restart
    BY <1>2 DEF Restart, Idle
  <2>1. CASE req'[r] = req[r]
    <3>1. /\ req[r].id \in Transfers /\ req[r].id \in InHand(r)
          /\ ~Present(memory[req[r].id])
      BY <1>0, <1>2, <2>1 DEF InHand, Deleting, EntriesGoFirst
    <3> QED BY <1>1, <2>0, <2>1, <3>1
  <2>2. CASE Serve(r)
    <3>1. DeleteEntry(r)
      BY <1>2, <2>2, ArrivalStep
    <3>2. req'[r].id = req[r].id /\ req[r].id \in Transfers
      BY <1>0, <3>1 DEF DeleteEntry, Goto, At, Deleting, RequestStates
    <3> QED BY <1>0, <3>1, <3>2 DEF DeleteEntry
  <2> QED
    BY <2>0, <2>1, <2>2, SlotStep DEF Next, vars, Sweep, SweepEntries, SweepRows,
      SweepFiles, Expire
<1>3. ASSUME NEW r \in Requests, req'[r].pc \in {"wipe_rows", "wipe_files", "reset_people"},
             NEW t \in req'[r].todo
      PROVE  ~Present(memory'[t])
  <2>0. ~Restart
    BY <1>3 DEF Restart, Idle
  <2>1. CASE req'[r] = req[r]
    <3>1. t \in Transfers /\ t \in InHand(r) /\ ~Present(memory[t])
      BY <1>0, <1>3, <2>1 DEF InHand, EntriesGoFirst, RequestStates
    <3> QED BY <1>1, <2>0, <3>1
  <2>2. CASE DrainEntries(r)
    <3>1. Listed \subseteq Transfers
      BY DEF Listed
    <3>2. t \in Transfers
      <4>1. CASE req' = [req EXCEPT ![r] =
              [Idle EXCEPT !.op = "clear", !.pc = "wipe_rows", !.todo = Listed]]
        BY <1>0, <1>3, <3>1, <4>1 DEF Idle
      <4>2. CASE req' = [req EXCEPT ![r].pc = "reset_people", ![r].todo = Listed]
        BY <1>0, <1>3, <3>1, <4>2 DEF RequestStates
      <4> QED BY <2>2, <4>1, <4>2 DEF DrainEntries
    <3> QED BY <1>0, <2>2, <3>2 DEF DrainEntries
  <2>3. CASE WipeRows(r) \/ ResetPeople(r)
    <3>1. /\ req[r].pc \in {"wipe_rows", "reset_people"} /\ req'[r].todo = req[r].todo
          /\ memory' = memory
      BY <1>0, <2>3 DEF WipeRows, ResetPeople, Goto, At, store, RequestStates
    <3> QED BY <1>3, <3>1 DEF EntriesGoFirst
  <2>4. CASE Serve(r)
    BY <1>3, <2>2, <2>3, <2>4, ArrivalStep
  <2> QED
    BY <2>0, <2>1, <2>4, SlotStep DEF Next, vars, Sweep, SweepEntries, SweepRows,
      SweepFiles, Expire
<1>4. ASSUME NEW t \in sweep'.ids PROVE ~Present(memory'[t])
  <2>0. ~Restart
    BY <1>4 DEF Restart, Resting
  <2>1. CASE t \in sweep.ids
    BY <1>0, <1>1, <2>0, <2>1 DEF EntriesGoFirst
  <2>2. CASE SweepEntries
    BY <1>0, <1>4, <2>2 DEF SweepEntries, Listed
  <2>3. CASE SweepRows \/ SweepFiles
    BY <1>4, <2>1, <2>3 DEF SweepRows, SweepFiles, Resting, TypeOK
  <2>4. CASE sweep' = sweep
    BY <1>4, <2>1, <2>4
  <2> QED
    BY ZenonT(60), <2>0, <2>2, <2>3, <2>4 DEF Next, vars, Expire, Serve, Start, Proceed, Sweep,
      BeginUpload, CheckBatch, CallReview, DeleteLookup, JoinRow, BeginRemoval,
      DrainEntries, ResetRows, ReceiveChunk, CompleteUpload, AbandonUpload,
      BeginCopy, CompleteCopy, AbandonBatch, PersistTransfer, PersistFails,
      PublishTransfer, ReviewEntry, ReviewRefused, ReviewRow, PurgeNext, DeleteRow,
      DeleteEntry, DeleteFiles, JoinEntry, DeleteDeviceRow, DetachSender,
      ForgetDevice, WipeRows, WipeFiles, ResetPeople, DatabaseFails, Disconnect
<1> QED BY <1>2, <1>3, <1>4 DEF EntriesGoFirst

LEMMA RowsAreWholeStep == StoreInv /\ [Next]_vars => RowsAreWhole'
<1> SUFFICES ASSUME StoreInv, [Next]_vars, NEW t \in Transfers, Present(rows'[t])
             PROVE  dirs'[t] # "partial"
  BY DEF RowsAreWhole
<1> USE DEF StoreInv
<1>1. CASE \E r \in Requests : PersistTransfer(r) /\ req[r].id = t
  BY <1>1 DEF PersistTransfer, UploadsAreFresh, At, Copying
<1>2. CASE Present(rows[t])
  BY <1>2, DirsStep DEF RowsAreWhole, KnownAreDrawn
<1> QED BY <1>1, <1>2, RowsStep

LEMMA ListedHasFileStep == StoreInv /\ [Next]_vars => ListedHasFile'
<1> SUFFICES ASSUME StoreInv, [Next]_vars, NEW t \in Transfers, Present(memory'[t])
             PROVE  dirs'[t] = "complete"
  BY DEF ListedHasFile, Listed
<1> USE DEF StoreInv
<1>1. CASE \E r \in Requests : PublishTransfer(r) /\ req[r].id = t
  BY <1>1 DEF PublishTransfer, UploadsAreFresh, At, Copying
<1>2. CASE Restart
  <2>1. t \in Recoverable
    BY <1>2 DEF Restart, Present, Absent
  <2>2. dirs[t] = "complete"
    BY <2>1 DEF Recoverable, RowsAreWhole, TypeOK, StoreOK
  <2> QED BY <1>2, <2>1, <2>2 DEF Restart
<1>3. CASE Present(memory[t]) /\ ~Restart
  <2>1. dirs[t] = "complete" /\ t \in drawn /\ t \notin sweep.ids
    BY <1>3 DEF ListedHasFile, Listed, KnownAreDrawn, EntriesGoFirst
  <2>2. \A r \in Requests :
          /\ req[r].pc \in {"writing", "persist"} => req[r].id # t
          /\ req[r].pc = "delete_files" => req[r].id # t
          /\ req[r].pc = "wipe_files" => t \notin req[r].todo
    BY <1>3 DEF UploadsAreFresh, EntriesGoFirst, Copying
  <2> QED BY <1>3, <2>1, <2>2, DirsStep
<1> QED BY <1>1, <1>2, <1>3, EntriesStep

(***************************************************************************)
(* The theorems                                                            *)
(***************************************************************************)
LEMMA StoreInvInit == Init => StoreInv
<1> SUFFICES ASSUME Init PROVE StoreInv
  OBVIOUS
<1> USE DEF Init
<1>1. TypeOK
  BY IdleType DEF TypeOK, RequestsOK, StoreOK, MaybeDevice, Resting
<1>2. ReviewLocksMap /\ SoleWriter /\ UploadsAreFresh
  BY DEF ReviewLocksMap, SoleWriter, UploadsAreFresh, Idle, Copying, At
<1>3. KnownAreDrawn /\ EntriesGoFirst /\ RowsAreWhole /\ ListedHasFile
  BY DEF KnownAreDrawn, EntriesGoFirst, RowsAreWhole, ListedHasFile, Listed, Present,
    Absent, InHand, Idle, Resting, Deleting
<1> QED BY <1>1, <1>2, <1>3 DEF StoreInv

\* StoreInv is inductive, whatever the constants.
THEOREM StoreInvariant == Spec => []StoreInv
<1>1. StoreInv /\ [Next]_vars => StoreInv'
  <2> SUFFICES ASSUME StoreInv, [Next]_vars PROVE StoreInv'
    OBVIOUS
  <2>1. TypeOK' /\ ReviewLocksMap' /\ SoleWriter'
    BY TypeStep, ReviewLocksMapStep, SoleWriterStep DEF StoreInv
  <2>2. UploadsAreFresh' /\ KnownAreDrawn'
    BY UploadsAreFreshStep, KnownAreDrawnStep
  <2>3. EntriesGoFirst' /\ RowsAreWhole' /\ ListedHasFile'
    BY EntriesGoFirstStep, RowsAreWholeStep, ListedHasFileStep
  <2> QED BY <2>1, <2>2, <2>3 DEF StoreInv
<1> QED
  BY <1>1, StoreInvInit, PTL DEF Spec

\* Every handler is at one of its own steps with what the step needs in hand,
\* and every copy of a transfer is a whole one or absent.
THEOREM TypeCorrect == Spec => []TypeOK
BY StoreInvariant, PTL DEF StoreInv

\* At most one upload is ever between its capacity check and its entry,
\* whatever fails and whoever disconnects (upload_lock).
THEOREM OneUploadAtATime == Spec => []SoleWriter
BY StoreInvariant, PTL DEF StoreInv

\* Whatever AppState.transfers lists has all its bytes on disk, through any
\* deletions, sweeps, resets, crashes and failed database calls.
THEOREM ListedTransfersHaveFiles == Spec => []ListedHasFile
BY StoreInvariant, PTL DEF StoreInv
=============================================================================
