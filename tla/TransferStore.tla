---------------------------- MODULE TransferStore ----------------------------
(***************************************************************************)
(* The transfers of the hub, kept three times: as rows in SQLite, as       *)
(* entries of AppState.transfers, and as directories under the storage     *)
(* directory.  Nothing ties the three together but the order in which each *)
(* handler touches them (backend/src/routes/transfers.rs, the transfer     *)
(* half of routes/devices.rs, cleanup.rs) and what start-up repairs        *)
(* (db.rs load_transfers, main.rs reconcile_transfer_storage).             *)
(*                                                                         *)
(* A request is a slot of `req` that runs one handler; every await of the  *)
(* handler that another task can observe ends a step.  A handler may meet  *)
(* a database error, be dropped when its client disconnects, or die with   *)
(* the process: the set Faults says which of these happen.                 *)
(***************************************************************************)
EXTENDS TransferPolicy, Integers, Sequences, FiniteSetsExt

CONSTANTS
  Devices,       \* device ids
  FirstDevices,  \* the devices that have joined when the behaviour starts
  FirstHost,     \* the host among them
  Transfers,     \* the uuids that may be drawn for transfers
  NoTransfer,
  Requests,      \* concurrently served requests
  NoRequest,
  Calls,         \* the handlers clients call, a subset of Handlers
  Faults,        \* what may go wrong, of {"db", "drop", "crash", "hostless"}
  FileSizes,     \* the sizes of the files on the host's own disk
  MaxFile,       \* limits.max_file_bytes
  MaxBatch,      \* limits.max_batch_bytes
  MaxBatchFiles, \* limits.max_files_per_batch
  MaxStorage     \* limits.max_storage_bytes

Handlers == {"upload", "local", "delete", "clear", "review",
             "join", "remove", "reset_host", "reset_all"}

ASSUME ConstantsAssumption ==
  /\ FirstDevices \subseteq Devices
  /\ FirstHost \in FirstDevices
  /\ NoDevice \notin Devices
  /\ NoTransfer \notin Transfers
  /\ Devices \cap Transfers = {}  \* uuids are unique
  /\ IsFiniteSet(Transfers)
  /\ NoRequest \notin Requests
  /\ Calls \subseteq Handlers
  /\ Faults \subseteq {"db", "drop", "crash", "hostless"}
  /\ FileSizes \subseteq Nat
  /\ MaxFile \in Nat
  /\ MaxBatch \in Nat
  /\ MaxBatchFiles \in Nat
  /\ MaxStorage \in Nat

VARIABLES
  memory,         \* AppState.transfers, Absent where the map has no entry
  rows,           \* the transfers table, Absent where there is no row
  dirs,           \* the storage directory: "none", "partial" or "complete"
  devices,        \* the keys of AppState.devices
  deviceRows,     \* the ids in the devices table
  host,           \* AppState.host_device_id
  hostRow,        \* the host_device_id setting
  uploadLock,     \* the request that holds upload_lock
  transfersLock,  \* the request that holds transfers.write() over an await
  req,            \* what each request is doing
  sweep,          \* what the cleanup task is doing
  expired,        \* the transfers whose expires_at has passed
  drawn,          \* the uuids handed out, to transfers and to devices
  deleted         \* history: transfers whose deletion was acknowledged

store == <<memory, rows, dirs>>
people == <<devices, deviceRows, host, hostRow>>
locks == <<uploadLock, transfersLock>>
vars == <<store, people, locks, req, sweep, expired, drawn, deleted>>

(***************************************************************************)
(* Types                                                                   *)
(***************************************************************************)
MaybeDevice == Devices \cup {NoDevice}

Absent == [sender |-> NoDevice, target |-> NoDevice,
           status |-> "absent", size |-> 0]

Entries == [sender : MaybeDevice, target : MaybeDevice,
            status : Statuses, size : 0..MaxFile]

Present(e) == e.status # "absent"

\* A request slot: the handler and its step, the requester while it matters,
\* the named target or leaving device, the transfer in hand, the bytes
\* received, the files of a batch still to copy, the transfers still to remove.
Idle == [op |-> "none", pc |-> "idle", dev |-> NoDevice, peer |-> NoDevice,
         id |-> NoTransfer, size |-> 0, batch |-> <<>>, todo |-> {}]

Resting == [pc |-> "resting", ids |-> {}, due |-> {}]

\* The steps of each handler.
Copying == {"writing", "persist", "publish"}
Deleting == {"delete_row", "delete_entry", "delete_files"}
Leaving == {"purge", "detach", "forget"} \cup Deleting
Wiping == {"wipe_rows", "wipe_files"}
Resetting == {"reset_entries", "reset_people", "wipe_files"}

Points ==
  {"idle", "batch", "review_entry", "review_row", "join_entry"}
    \cup Copying \cup Leaving \cup Wiping \cup Resetting

RequestStates ==
  [op : Handlers \cup {"none"}, pc : Points,
   dev : MaybeDevice, peer : MaybeDevice,
   id : Transfers \cup {NoTransfer}, size : 0..MaxFile,
   batch : Seq(0..MaxFile), todo : SUBSET Transfers]

\* Each handler is at a step of its own, with what the step needs in hand.
WellPlaced(q) ==
  /\ q.op = "none" <=> q.pc = "idle"
  /\ q.op = "upload" => q.pc \in Copying
  /\ q.op = "local" => q.pc \in Copying \cup {"batch"}
  /\ q.batch # <<>> => q.op = "local"
  /\ q.pc = "batch" => q.batch # <<>>
  /\ q.op = "delete" => q.pc \in Deleting
  /\ q.op = "clear" => q.pc \in Wiping
  /\ q.op = "review" => q.pc \in {"review_entry", "review_row"}
  /\ q.op = "join" => q.pc = "join_entry"
  /\ q.op \in {"remove", "reset_host"} => q.pc \in Leaving
  /\ q.op = "reset_all" => q.pc \in Resetting
  /\ q.op \in {"join", "remove", "reset_host"} => q.peer \in Devices
  /\ q.op \in {"upload", "local"} => q.dev \in Devices
  /\ q.pc \in Copying \cup Deleting \cup {"review_row"} => q.id \in Transfers

RequestsOK ==
  /\ req \in [Requests -> RequestStates]
  /\ \A r \in Requests : WellPlaced(req[r])

StoreOK ==
  /\ memory \in [Transfers -> Entries \cup {Absent}]
  /\ rows \in [Transfers -> Entries \cup {Absent}]
  /\ dirs \in [Transfers -> {"none", "partial", "complete"}]

\* The type invariant: every handler is at one of its own steps with what the
\* step needs in hand, and every copy of a transfer is a whole one or absent.
TypeOK ==
  /\ RequestsOK
  /\ StoreOK
  /\ devices \subseteq Devices
  /\ deviceRows \subseteq Devices
  /\ host \in MaybeDevice
  /\ hostRow \in MaybeDevice
  /\ uploadLock \in Requests \cup {NoRequest}
  /\ transfersLock \in Requests \cup {NoRequest}
  /\ sweep \in [pc : {"resting", "rows", "files"},
                ids : SUBSET Transfers, due : SUBSET Transfers]
  /\ expired \subseteq Transfers
  /\ drawn \subseteq Transfers \cup Devices
  /\ deleted \subseteq Transfers

\* A den that some devices have joined and that holds no transfer yet.
Init ==
  /\ memory = [t \in Transfers |-> Absent]
  /\ rows = [t \in Transfers |-> Absent]
  /\ dirs = [t \in Transfers |-> "none"]
  /\ devices = FirstDevices
  /\ deviceRows = FirstDevices
  /\ host = FirstHost
  /\ hostRow = FirstHost
  /\ uploadLock = NoRequest
  /\ transfersLock = NoRequest
  /\ req = [r \in Requests |-> Idle]
  /\ sweep = Resting
  /\ expired = {}
  /\ drawn = FirstDevices
  /\ deleted = {}

(***************************************************************************)
(* What the handlers share                                                 *)
(***************************************************************************)
\* transfers.read() and transfers.write() wait for the writer that keeps the
\* map locked over its database call.
MapFree == transfersLock = NoRequest

At(r, pc) == req[r].pc = pc

Goto(r, pc) == req' = [req EXCEPT ![r].pc = pc]

Finish(r) == req' = [req EXCEPT ![r] = Idle]

FinishUpload(r) ==
  /\ uploadLock' = NoRequest
  /\ Finish(r)

Listed == {t \in Transfers : Present(memory[t])}

UsedBytes == MapThenSumSet(LAMBDA t : memory[t].size, Transfers)

HasStorageCapacity(n) == UsedBytes + n <= MaxStorage

BatchBytes(b) == MapThenSumSet(LAMBDA i : b[i], DOMAIN b)

\* Every list of at most max_files_per_batch files the host may name.
FileLists == UNION {[1..n -> FileSizes] : n \in 1..MaxBatchFiles}

\* The batches upload_local_paths lets through, as the sizes it measured.
Batches ==
  {b \in FileLists :
     (\A i \in DOMAIN b : b[i] <= MaxFile) /\ BatchBytes(b) <= MaxBatch}

ValidTarget(d) == d = NoDevice \/ d \in devices

NewEntry(q) ==
  [sender |-> q.dev, target |-> q.peer, size |-> q.size,
   status |-> IF q.peer = NoDevice THEN Available ELSE Pending]

\* A handler starts: the bearer token names the registered device d.  The
\* later steps of a handler do not ask again, so a device removed while its
\* request waits is a device removed just after its request got through; only
\* a review looks at its requester again, and its authentication is a step
\* of its own (CallReview).  Refusals that change nothing (400, 403, 404, 429)
\* are no steps.
Admits(r, d, op) ==
  /\ At(r, "idle")
  /\ op \in Calls
  /\ d \in devices

(***************************************************************************)
(* Uploads.  upload_lock is taken before the directory is made and held    *)
(* until the handler returns, so at most one upload writes at a time.      *)
(***************************************************************************)
\* Mutant of TakeUploadLock: a lock of its own for each request.
TakeOwnLock(r) == uploadLock' = r

\* state.upload_lock.lock().await
TakeUploadLock(r) ==
  /\ uploadLock = NoRequest
  /\ uploadLock' = r

\* upload_transfer up to the first chunk: lock, fresh uuid, create_dir_all.
BeginUpload(r) ==
  /\ TakeUploadLock(r)
  /\ \E d \in Devices, t \in Transfers \ drawn :
       /\ Admits(r, d, "upload")
       /\ drawn' = drawn \cup {t}
       /\ dirs' = [dirs EXCEPT ![t] = "partial"]
       /\ req' = [req EXCEPT ![r] = [Idle EXCEPT !.op = "upload", !.pc = "writing",
                                                 !.dev = d, !.id = t]]
  /\ UNCHANGED <<memory, rows, people, transfersLock, sweep, expired, deleted>>

\* One chunk of the multipart file: both limits are checked before it is
\* written, the storage limit against the entries in memory.
ReceiveChunk(r) ==
  /\ At(r, "writing")
  /\ req[r].op = "upload"
  /\ MapFree
  /\ req[r].size < MaxFile
  /\ HasStorageCapacity(req[r].size + 1)
  /\ req' = [req EXCEPT ![r].size = @ + 1]
  /\ UNCHANGED <<store, people, locks, sweep, expired, drawn, deleted>>

\* save_multipart_transfer fails (too large, storage full, malformed form,
\* unknown target, write error): its directory is removed.
AbandonUpload(r) ==
  /\ At(r, "writing")
  /\ req[r].op = "upload"
  /\ dirs' = [dirs EXCEPT ![req[r].id] = "none"]
  /\ FinishUpload(r)
  /\ UNCHANGED <<memory, rows, people, transfersLock, sweep, expired, drawn, deleted>>

\* The last chunk is flushed and the target, if any, is registered.
CompleteUpload(r) ==
  /\ At(r, "writing")
  /\ req[r].op = "upload"
  /\ \E d \in MaybeDevice :
       /\ ValidTarget(d)
       /\ req' = [req EXCEPT ![r].pc = "persist", ![r].peer = d]
  /\ dirs' = [dirs EXCEPT ![req[r].id] = "complete"]
  /\ UNCHANGED <<memory, rows, people, locks, sweep, expired, drawn, deleted>>

\* upload_local_paths: the whole batch is measured once, before the first copy.
CheckBatch(r) ==
  /\ Admits(r, host, "local")
  /\ TakeUploadLock(r)
  /\ MapFree
  /\ \E b \in Batches, d \in MaybeDevice :
       /\ ValidTarget(d)
       /\ HasStorageCapacity(BatchBytes(b))
       /\ req' = [req EXCEPT ![r] = [Idle EXCEPT !.op = "local", !.pc = "batch",
                    !.dev = host, !.peer = d, !.batch = b]]
  /\ UNCHANGED <<store, people, transfersLock, sweep, expired, drawn, deleted>>

\* create_dir_all for the next file of the batch, and the start of its copy.
BeginCopy(r) ==
  /\ At(r, "batch")
  /\ \E t \in Transfers \ drawn :
       /\ drawn' = drawn \cup {t}
       /\ dirs' = [dirs EXCEPT ![t] = "partial"]
       /\ req' = [req EXCEPT ![r].pc = "writing", ![r].id = t,
                             ![r].size = Head(req[r].batch),
                             ![r].batch = Tail(req[r].batch)]
  /\ UNCHANGED <<memory, rows, people, locks, sweep, expired, deleted>>

\* fs::copy succeeds.
CompleteCopy(r) ==
  /\ At(r, "writing")
  /\ req[r].op = "local"
  /\ dirs' = [dirs EXCEPT ![req[r].id] = "complete"]
  /\ Goto(r, "persist")
  /\ UNCHANGED <<memory, rows, people, locks, sweep, expired, drawn, deleted>>

\* create_dir_all or fs::copy fails: the directory being written, if any, is
\* removed and the batch ends; the files already published stay.
AbandonBatch(r) ==
  /\ req[r].op = "local"
  /\ \/ At(r, "batch") /\ UNCHANGED dirs
     \/ At(r, "writing") /\ dirs' = [dirs EXCEPT ![req[r].id] = "none"]
  /\ FinishUpload(r)
  /\ UNCHANGED <<memory, rows, people, transfersLock, sweep, expired, drawn, deleted>>

\* The foreign keys of the transfers table: sender and target have a row.
ReferencesHold(q) ==
  /\ q.dev \in deviceRows
  /\ q.peer \in deviceRows \cup {NoDevice}

\* Mutant of PersistTransfer: the row does not name the target.
PersistUntargeted(r) ==
  /\ At(r, "persist")
  /\ ReferencesHold(req[r])
  /\ rows' = [rows EXCEPT ![req[r].id] = [NewEntry(req[r]) EXCEPT !.target = NoDevice]]
  /\ Goto(r, "publish")
  /\ UNCHANGED <<memory, dirs, people, locks, sweep, expired, drawn, deleted>>

\* db::insert_transfer.
PersistTransfer(r) ==
  /\ At(r, "persist")
  /\ ReferencesHold(req[r])
  /\ rows' = [rows EXCEPT ![req[r].id] = NewEntry(req[r])]
  /\ Goto(r, "publish")
  /\ UNCHANGED <<memory, dirs, people, locks, sweep, expired, drawn, deleted>>

\* db::insert_transfer fails.  upload_transfer returns and leaves the files,
\* upload_local_paths removes them.
PersistFails(r) ==
  /\ At(r, "persist")
  /\ ReferencesHold(req[r]) => "db" \in Faults
  /\ dirs' = IF req[r].op = "local"
               THEN [dirs EXCEPT ![req[r].id] = "none"]
               ELSE dirs
  /\ FinishUpload(r)
  /\ UNCHANGED <<memory, rows, people, transfersLock, sweep, expired, drawn, deleted>>

\* The entry appears in AppState.transfers; then the handler answers, or goes
\* on to the next file of its batch.
PublishTransfer(r) ==
  /\ At(r, "publish")
  /\ MapFree
  /\ memory' = [memory EXCEPT ![req[r].id] = NewEntry(req[r])]
  /\ IF req[r].batch = <<>>
       THEN FinishUpload(r)
       ELSE Goto(r, "batch") /\ UNCHANGED uploadLock
  /\ UNCHANGED <<rows, dirs, people, transfersLock, sweep, expired, drawn, deleted>>

(***************************************************************************)
(* Review.  The status changes in memory first; the map stays locked for   *)
(* writing until the database has answered.                                *)
(***************************************************************************)
CallReview(r) ==
  /\ \E d \in Devices :
       /\ Admits(r, d, "review")
       /\ req' = [req EXCEPT ![r] = [Idle EXCEPT !.op = "review",
                                       !.pc = "review_entry", !.dev = d]]
  /\ UNCHANGED <<store, people, locks, sweep, expired, drawn, deleted>>

\* accept_transfer or reject_transfer finds the transfer and may review it.
ReviewEntry(r) ==
  /\ At(r, "review_entry")
  /\ MapFree
  /\ \E t \in Transfers, verdict \in {Accepted, Rejected} :
       /\ CanReview(memory[t], req[r].dev, t \in expired)
       /\ memory' = [memory EXCEPT ![t].status = verdict]
       /\ req' = [req EXCEPT ![r].pc = "review_row", ![r].id = t]
  /\ transfersLock' = r
  /\ UNCHANGED <<rows, dirs, people, uploadLock, sweep, expired, drawn, deleted>>

\* It does not: 404.
ReviewRefused(r) ==
  /\ At(r, "review_entry")
  /\ MapFree
  /\ Finish(r)
  /\ UNCHANGED <<store, people, locks, sweep, expired, drawn, deleted>>

\* Mutant of ReviewRow: the verdict stays in memory.
ReviewRowUnwritten(r) ==
  /\ At(r, "review_row")
  /\ transfersLock' = NoRequest
  /\ Finish(r)
  /\ UNCHANGED <<store, people, uploadLock, sweep, expired, drawn, deleted>>

\* Mutant of ReviewRow: the guard outlives the handler.
ReviewRowStillLocked(r) ==
  /\ At(r, "review_row")
  /\ rows' = [rows EXCEPT ![req[r].id] = memory[req[r].id]]
  /\ Finish(r)
  /\ UNCHANGED <<memory, dirs, people, locks, sweep, expired, drawn, deleted>>

\* db::update_transfer_status: UPDATE ... WHERE id, which no row may match.
ReviewRow(r) ==
  /\ At(r, "review_row")
  /\ LET t == req[r].id IN
       rows' = IF Present(rows[t])
                 THEN [rows EXCEPT ![t].status = memory[t].status]
                 ELSE rows
  /\ transfersLock' = NoRequest
  /\ Finish(r)
  /\ UNCHANGED <<memory, dirs, people, uploadLock, sweep, expired, drawn, deleted>>

(***************************************************************************)
(* Deletion of one transfer: row, then entry, then files.  The steps of    *)
(* delete_transfer and of remove_transfers_targeted_to, which repeats them *)
(* for each transfer of its snapshot.                                      *)
(***************************************************************************)
DeleteLookup(r) ==
  /\ MapFree
  /\ \E d \in Devices, t \in Listed :
       /\ Admits(r, d, "delete")
       /\ CanDelete(memory[t], d, d = host)
       /\ req' = [req EXCEPT ![r] = [Idle EXCEPT !.op = "delete",
                                       !.pc = "delete_row", !.id = t]]
  /\ UNCHANGED <<store, people, locks, sweep, expired, drawn, deleted>>

\* remove_transfers_targeted_to turns to the next transfer of its snapshot.
PurgeNext(r) ==
  /\ At(r, "purge")
  /\ \E t \in req[r].todo :
       req' = [req EXCEPT ![r].pc = "delete_row", ![r].id = t, ![r].todo = @ \ {t}]
  /\ UNCHANGED <<store, people, locks, sweep, expired, drawn, deleted>>

\* Mutant of DeleteRow: a database error is logged and the handler goes on.
DeleteRowRegardless(r) ==
  /\ At(r, "delete_row")
  /\ \/ rows' = [rows EXCEPT ![req[r].id] = Absent]
     \/ "db" \in Faults /\ UNCHANGED rows
  /\ Goto(r, "delete_entry")
  /\ UNCHANGED <<memory, dirs, people, locks, sweep, expired, drawn, deleted>>

DeleteRow(r) ==
  /\ At(r, "delete_row")
  /\ rows' = [rows EXCEPT ![req[r].id] = Absent]
  /\ Goto(r, "delete_entry")
  /\ UNCHANGED <<memory, dirs, people, locks, sweep, expired, drawn, deleted>>

DeleteEntry(r) ==
  /\ At(r, "delete_entry")
  /\ MapFree
  /\ memory' = [memory EXCEPT ![req[r].id] = Absent]
  /\ Goto(r, "delete_files")
  /\ UNCHANGED <<rows, dirs, people, locks, sweep, expired, drawn, deleted>>

\* Mutant of DeleteFiles: any deletion goes on with a device's other transfers.
DeleteFilesAndPurge(r) ==
  /\ At(r, "delete_files")
  /\ dirs' = [dirs EXCEPT ![req[r].id] = "none"]
  /\ Goto(r, "purge")
  /\ UNCHANGED <<memory, rows, people, locks, sweep, expired, drawn, deleted>>

DeleteFiles(r) ==
  /\ At(r, "delete_files")
  /\ dirs' = [dirs EXCEPT ![req[r].id] = "none"]
  /\ IF req[r].op = "delete"
       THEN /\ deleted' = deleted \cup {req[r].id}
            /\ Finish(r)
       ELSE Goto(r, "purge") /\ UNCHANGED deleted
  /\ UNCHANGED <<memory, rows, people, locks, sweep, expired, drawn>>

(***************************************************************************)
(* A device joins, with the right PIN or as the first one: register_device *)
(* as far as the transfers depend on it.  DeviceRegistry has its steps.    *)
(***************************************************************************)
\* The row, and the host's place if it is free; or the row alone, when what
\* follows it fails.
JoinRow(r) ==
  /\ At(r, "idle")
  /\ "join" \in Calls
  /\ \E d \in Devices \ drawn :
       /\ drawn' = drawn \cup {d}
       /\ deviceRows' = deviceRows \cup {d}
       /\ \/ /\ host' = IF host = NoDevice THEN d ELSE host
             /\ hostRow' = IF host = NoDevice THEN d ELSE hostRow
             /\ req' = [req EXCEPT ![r] = [Idle EXCEPT !.op = "join",
                                             !.pc = "join_entry", !.peer = d]]
          \/ /\ Faults \cap {"db", "drop"} # {}
             /\ UNCHANGED <<host, hostRow, req>>
  /\ UNCHANGED <<store, devices, locks, sweep, expired, deleted>>

JoinEntry(r) ==
  /\ At(r, "join_entry")
  /\ devices' = devices \cup {req[r].peer}
  /\ Finish(r)
  /\ UNCHANGED <<store, deviceRows, host, hostRow, locks, sweep, expired, drawn, deleted>>

(***************************************************************************)
(* A device leaves: remove_device, and reset_host_identity for the host    *)
(* itself (`peer` is the leaving device).                                  *)
(***************************************************************************)
\* The permission checks, and the snapshot of the transfers targeted to the
\* leaving device.
BeginRemoval(r) ==
  /\ MapFree
  /\ \E d \in Devices, leaver \in Devices, op \in {"remove", "reset_host"} :
       /\ Admits(r, d, op)
       /\ IF op = "remove"
            THEN d \in {host, leaver} /\ leaver # host
            ELSE d = host /\ leaver = host
       /\ req' = [req EXCEPT ![r] = [Idle EXCEPT !.op = op, !.pc = "purge",
                    !.peer = leaver,
                    !.todo = {t \in Listed : memory[t].target = leaver}]]
  /\ UNCHANGED <<store, people, locks, sweep, expired, drawn, deleted>>

\* Mutant of Unreferenced: a row that loses its target is opened to everyone.
UnreferencedAndOpened(e, d) ==
  [sender |-> IF e.sender = d THEN NoDevice ELSE e.sender,
   target |-> IF e.target = d THEN NoDevice ELSE e.target,
   status |-> IF e.target = d THEN Available ELSE e.status,
   size |-> e.size]

\* What ON DELETE SET NULL does to a row that refers to the device.
Unreferenced(e, d) ==
  [sender |-> IF e.sender = d THEN NoDevice ELSE e.sender,
   target |-> IF e.target = d THEN NoDevice ELSE e.target,
   status |-> e.status,
   size |-> e.size]

\* db::delete_device, or db::release_host_device, which deletes the setting
\* whichever device it names.
DeleteDeviceRow(r) ==
  /\ At(r, "purge")
  /\ req[r].todo = {}
  /\ deviceRows' = deviceRows \ {req[r].peer}
  /\ hostRow' = IF req[r].op = "reset_host" THEN NoDevice ELSE hostRow
  /\ rows' = [t \in Transfers |-> Unreferenced(rows[t], req[r].peer)]
  /\ Goto(r, "detach")
  /\ UNCHANGED <<memory, dirs, devices, host, locks, sweep, expired, drawn, deleted>>

\* detach_sender_metadata: the entries forget their sender, not their target.
DetachSender(r) ==
  /\ At(r, "detach")
  /\ MapFree
  /\ memory' = [t \in Transfers |->
       [memory[t] EXCEPT !.sender = IF @ = req[r].peer THEN NoDevice ELSE @]]
  /\ Goto(r, "forget")
  /\ UNCHANGED <<rows, dirs, people, locks, sweep, expired, drawn, deleted>>

ForgetDevice(r) ==
  /\ At(r, "forget")
  /\ host' = IF req[r].op = "reset_host" THEN NoDevice ELSE host
  /\ devices' = devices \ {req[r].peer}
  /\ Finish(r)
  /\ UNCHANGED <<store, deviceRows, hostRow, locks, sweep, expired, drawn, deleted>>

(***************************************************************************)
(* delete_all_transfers empties the map, then the table, then the          *)
(* directories; reset_desktop_data starts with the table.                  *)
(***************************************************************************)
DrainEntries(r) ==
  /\ MapFree
  /\ memory' = [t \in Transfers |-> Absent]
  /\ \/ /\ Admits(r, host, "clear")
        /\ req' = [req EXCEPT ![r] = [Idle EXCEPT !.op = "clear",
                                        !.pc = "wipe_rows", !.todo = Listed]]
     \/ /\ At(r, "reset_entries")
        /\ req' = [req EXCEPT ![r].pc = "reset_people", ![r].todo = Listed]
  /\ UNCHANGED <<rows, dirs, people, locks, sweep, expired, drawn, deleted>>

\* db::delete_all_transfers.
WipeRows(r) ==
  /\ At(r, "wipe_rows")
  /\ rows' = [t \in Transfers |-> Absent]
  /\ Goto(r, "wipe_files")
  /\ UNCHANGED <<memory, dirs, people, locks, sweep, expired, drawn, deleted>>

\* Mutant of WipeFiles: the whole storage directory is cleared.
WipeAllFiles(r) ==
  /\ At(r, "wipe_files")
  /\ dirs' = [t \in Transfers |-> "none"]
  /\ deleted' = deleted \cup req[r].todo
  /\ Finish(r)
  /\ UNCHANGED <<memory, rows, people, locks, sweep, expired, drawn>>

WipeFiles(r) ==
  /\ At(r, "wipe_files")
  /\ dirs' = [t \in Transfers |-> IF t \in req[r].todo THEN "none" ELSE dirs[t]]
  /\ deleted' = deleted \cup req[r].todo
  /\ Finish(r)
  /\ UNCHANGED <<memory, rows, people, locks, sweep, expired, drawn>>

\* db::reset_all_data, one transaction.
ResetRows(r) ==
  /\ Admits(r, host, "reset_all")
  /\ rows' = [t \in Transfers |-> Absent]
  /\ deviceRows' = {}
  /\ hostRow' = NoDevice
  /\ req' = [req EXCEPT ![r] = [Idle EXCEPT !.op = "reset_all", !.pc = "reset_entries"]]
  /\ UNCHANGED <<memory, dirs, devices, host, locks, sweep, expired, drawn, deleted>>

ResetPeople(r) ==
  /\ At(r, "reset_people")
  /\ devices' = {}
  /\ host' = NoDevice
  /\ Goto(r, "wipe_files")
  /\ UNCHANGED <<store, deviceRows, hostRow, locks, sweep, expired, drawn, deleted>>

(***************************************************************************)
(* The cleanup task.  Its clock reading is taken once: `due` is what had   *)
(* expired by then, `ids` what it found in memory.                         *)
(***************************************************************************)
SweepEntries ==
  /\ sweep.pc = "resting"
  /\ MapFree
  /\ LET found == Listed \cap expired IN
       /\ found # {}
       /\ memory' = [t \in Transfers |-> IF t \in found THEN Absent ELSE memory[t]]
       /\ sweep' = [pc |-> "rows", ids |-> found, due |-> expired]
  /\ UNCHANGED <<rows, dirs, people, locks, req, expired, drawn, deleted>>

\* Mutant of SweepRows: the comparison of expires_at is the wrong way round.
SweepLiveRows ==
  /\ sweep.pc = "rows"
  /\ rows' = [t \in Transfers |-> IF t \in sweep.due THEN rows[t] ELSE Absent]
  /\ sweep' = [sweep EXCEPT !.pc = "files"]
  /\ UNCHANGED <<memory, dirs, people, locks, req, expired, drawn, deleted>>

\* db::delete_expired_transfers; an error is logged and the sweep goes on.
SweepRows ==
  /\ sweep.pc = "rows"
  /\ \/ rows' = [t \in Transfers |-> IF t \in sweep.due THEN Absent ELSE rows[t]]
     \/ "db" \in Faults /\ UNCHANGED rows
  /\ sweep' = [sweep EXCEPT !.pc = "files"]
  /\ UNCHANGED <<memory, dirs, people, locks, req, expired, drawn, deleted>>

SweepFiles ==
  /\ sweep.pc = "files"
  /\ dirs' = [t \in Transfers |-> IF t \in sweep.ids THEN "none" ELSE dirs[t]]
  /\ sweep' = Resting
  /\ UNCHANGED <<memory, rows, people, locks, req, expired, drawn, deleted>>

Sweep == SweepEntries \/ SweepRows \/ SweepFiles

\* expires_at passes.  It is at least an hour after the upload.
Expire(t) ==
  /\ t \notin expired
  /\ Present(memory[t]) \/ Present(rows[t])
  /\ expired' = expired \cup {t}
  /\ UNCHANGED <<store, people, locks, req, sweep, drawn, deleted>>

(***************************************************************************)
(* Failures                                                                *)
(***************************************************************************)
\* What dropping the handler's lock guards releases.
ReleaseLocks(r) ==
  /\ uploadLock' = IF uploadLock = r THEN NoRequest ELSE uploadLock
  /\ transfersLock' = IF transfersLock = r THEN NoRequest ELSE transfersLock

\* The handler's database call fails and it returns 500 where it stands:
\* nothing it did before is undone.
DatabaseFails(r) ==
  /\ "db" \in Faults
  /\ \/ req[r].pc \in {"delete_row", "wipe_rows", "review_row"}
     \/ At(r, "purge") /\ req[r].todo = {}
  /\ ReleaseLocks(r)
  /\ Finish(r)
  /\ UNCHANGED <<store, people, sweep, expired, drawn, deleted>>

\* Mutant of Disconnect: a guard on the upload directory removes it on drop.
DisconnectAndCleanUp(r) ==
  /\ "drop" \in Faults
  /\ ~At(r, "idle")
  /\ dirs' = [t \in Transfers |->
       IF t = req[r].id /\ uploadLock = r THEN "none" ELSE dirs[t]]
  /\ ReleaseLocks(r)
  /\ Finish(r)
  /\ UNCHANGED <<memory, rows, people, sweep, expired, drawn, deleted>>

\* The client goes away and hyper drops the handler's future at an await.
Disconnect(r) ==
  /\ "drop" \in Faults
  /\ ~At(r, "idle")
  /\ ReleaseLocks(r)
  /\ Finish(r)
  /\ UNCHANGED <<store, people, sweep, expired, drawn, deleted>>

\* Mutant of Recoverable: stored_path is not looked up.
Unexpired == {t \in Transfers : Present(rows[t]) /\ t \notin expired}

\* What load_transfers keeps: the rows that have not expired and whose
\* stored_path exists.
Recoverable ==
  {t \in Transfers : Present(rows[t]) /\ t \notin expired /\ dirs[t] # "none"}

\* The process ends, at any point, and starts again on the same database and
\* storage directory, perhaps with DROP_DEN_RESET_HOST set ("hostless"):
\* load_persisted_runtime_state deletes the other rows, reconcile_transfer_storage
\* the directories of no entry.
Restart ==
  /\ "crash" \in Faults
  /\ LET kept == [t \in Transfers |-> IF t \in Recoverable THEN rows[t] ELSE Absent]
     IN  memory' = kept /\ rows' = kept
  /\ dirs' = [t \in Transfers |-> IF t \in Recoverable THEN dirs[t] ELSE "none"]
  /\ devices' = deviceRows
  /\ \/ hostRow' = hostRow
     \/ "hostless" \in Faults /\ hostRow' = NoDevice
  /\ host' = hostRow'
  /\ uploadLock' = NoRequest
  /\ transfersLock' = NoRequest
  /\ req' = [r \in Requests |-> Idle]
  /\ sweep' = Resting
  /\ UNCHANGED <<deviceRows, expired, drawn, deleted>>

(***************************************************************************)
(* The specification                                                       *)
(***************************************************************************)
\* The first step of a handler, and the step its client decides on.
Start(r) ==
  \/ BeginUpload(r) \/ CheckBatch(r) \/ CallReview(r) \/ DeleteLookup(r)
  \/ JoinRow(r) \/ BeginRemoval(r) \/ DrainEntries(r) \/ ResetRows(r)
  \/ ReceiveChunk(r)

\* The steps a handler takes by itself once it has started.
Proceed(r) ==
  \/ CompleteUpload(r) \/ AbandonUpload(r)
  \/ BeginCopy(r) \/ CompleteCopy(r) \/ AbandonBatch(r)
  \/ PersistTransfer(r) \/ PersistFails(r) \/ PublishTransfer(r)
  \/ ReviewEntry(r) \/ ReviewRefused(r) \/ ReviewRow(r)
  \/ PurgeNext(r) \/ DeleteRow(r) \/ DeleteEntry(r) \/ DeleteFiles(r)
  \/ JoinEntry(r) \/ DeleteDeviceRow(r) \/ DetachSender(r) \/ ForgetDevice(r)
  \/ WipeRows(r) \/ WipeFiles(r) \/ ResetPeople(r)

Serve(r) == Start(r) \/ Proceed(r) \/ DatabaseFails(r) \/ Disconnect(r)

Next ==
  \/ \E r \in Requests : Serve(r)
  \/ Sweep
  \/ \E t \in Transfers : Expire(t)
  \/ Restart

Spec == Init /\ [][Next]_vars

\* A handler that has started keeps running (its client's stream ends, one way
\* or the other), and the cleanup task keeps ticking.
FairSpec ==
  /\ Spec
  /\ \A r \in Requests : WF_vars(Proceed(r))
  /\ WF_vars(Sweep)

(***************************************************************************)
(* Safety                                                                  *)
(***************************************************************************)
\* Whatever AppState.transfers lists has all its bytes on disk: a listed
\* transfer can be opened for download (download_transfer, build_zip).
ListedHasFile == \A t \in Listed : dirs[t] = "complete"

\* An unexpired row always has its file, at every point of every handler and
\* whatever fails: no restart finds metadata whose file is missing.
LiveRowHasFile ==
  \A t \in Transfers \ expired : Present(rows[t]) => dirs[t] = "complete"

\* Once a deletion has been acknowledged with 204, by delete_transfer, by
\* delete_all_transfers or by reset_desktop_data, no later step and no restart
\* brings back the entry, the row or the files.
DeletionIsPermanent ==
  \A t \in deleted : ~Present(memory[t]) /\ ~Present(rows[t]) /\ dirs[t] = "none"

\* upload_lock covers the files being written and the entry they become, so
\* no two uploads are between their capacity check and their entry.
SoleWriter ==
  \A r \in Requests :
    req[r].pc \in Copying \cup {"batch"} => uploadLock = r

\* No handler takes the hub over max_storage_bytes, however the capacity
\* checks of concurrent uploads interleave; only a restart may, by loading
\* rows that memory had lost.
UploadsStayWithinStorage ==
  [][UsedBytes' <= MaxStorage \/ UsedBytes' <= UsedBytes \/ Restart]_vars

\* A device that may not see a listed transfer is not allowed to see it later,
\* restarts included (SECURITY.md: targeted transfers are for the host, the
\* sender and the recipient).
AudienceNeverWidens ==
  [][\A t \in Transfers, d \in Devices :
       (/\ Present(memory[t])
        /\ Present(memory'[t])
        /\ ~CanView(memory[t], d, d = host))
       => ~CanView(memory'[t], d, d = host')]_vars

\* When no handler runs, what the clients see is what a restart would restore.
AtRest == (\A r \in Requests : At(r, "idle")) /\ sweep.pc = "resting"

MemoryMatchesRows ==
  AtRest => \A t \in Transfers \ expired : memory[t] = rows[t]

\* The hub never holds more than max_storage_bytes, restarts included.
StoreWithinLimit == UsedBytes <= MaxStorage

\* The stage of each transfer in TransferLifecycle: what the database would
\* bring back if the process ended now.
Stage ==
  [t \in Transfers |->
     IF Present(rows[t]) /\ t \notin expired THEN rows[t].status
     ELSE IF t \notin drawn \/ \E r \in Requests :
               req[r].id = t /\ req[r].pc \in {"writing", "persist"}
     THEN "unborn" ELSE "gone"]

Lifecycle == INSTANCE TransferLifecycle WITH stage <- Stage

\* The hub implements the lifecycle: one publication, at most one review, and
\* no return, through crashes, dropped handlers and failed database calls.
ImplementsLifecycle == Lifecycle!Spec

(***************************************************************************)
(* Liveness                                                                *)
(***************************************************************************)
\* Every handler ends: no two of them wait for each other's locks.
RequestsFinish == \A r \in Requests : ~At(r, "idle") ~> At(r, "idle")

\* An expired transfer leaves nothing behind: no entry, no row, no file.
ExpiredIsRemoved ==
  \A t \in Transfers :
    t \in expired ~> ~Present(memory[t]) /\ ~Present(rows[t]) /\ dirs[t] = "none"

=============================================================================
