# Drop Den in TLA+

Drop Den is a LAN file-sharing hub: a Rust backend (axum, tokio, SQLite) that a
browser client, an Android wrapper and a Tauri desktop shell talk to. Devices
pair with a PIN, the first one becomes the host, files are uploaded to the hub
as broadcasts or for one target device, and messages and transfers expire.
The backend keeps almost every fact twice, in a map behind an async lock and in
a table, and a transfer a third time as a directory. No transaction spans the
three. What is correct about the hub is mostly the order in which handlers touch
them, which handlers may run in between, and what a restart makes of the rest.
That is what this project models.

## Inventory

Paths are below `backend/src/` unless they say otherwise.

| Component | State | Operations | Hard parts | Correct means |
| --- | --- | --- | --- | --- |
| Transfer store (`routes/transfers.rs`, `cleanup.rs`, `db.rs`, `main.rs`) | `transfers` map, `transfers` table, storage directory, `upload_lock` | upload, upload-local-paths, accept/reject, delete, delete all, sweep, start-up | every await is a place to interleave, to be dropped by a disconnect, or to crash | what is listed has its file; deleted stays deleted; the limit holds; nobody sees more than the policy lets them |
| Access policy (`transfer_policy.rs`) | none | view, download, delete, review | the rules are asked at different moments | one verdict per transfer, by its target |
| Device registry (`routes/devices.rs`, `auth.rs`) | `devices`, `sessions`, `host_device_id`, PIN and hash, `devices` and `app_settings` tables | register, remove, reset host, reset everything | PIN check and rotation, resets that race, memory against table | a PIN admits one guest; removed stays removed; the host can act; no one else loses access |
| Live events (`ws.rs`, `state.rs`) | broadcast channel of 256, one socket task per connection | publish, deliver, lag, disconnect | a socket that subscribes after it authenticates; lag | removed devices are cut off; clients catch up |
| Downloads (`routes/transfers.rs`) | ticket map, temporary ZIP files | issue ticket, download, ZIP | tickets that outlive what they were issued for; cancellation | no download past a removal; no file left behind |
| Messages (`routes/messages.rs`, `cleanup.rs`) | `messages` list and table | create, list, clear, expire | two pruners, clear against create | list and table agree |
| Configuration (`routes/config.rs`, `settings.rs`) | lifetime of transfers, limits | read, update | none to speak of | |
| Rate limiter (`rate_limit.rs`) | a queue of instants per key | check | the clock is read before the lock | at most N in a window |
| Web client: refresh (`hooks/useWebSocketRefresh.ts`) | query cache, socket | fetch, refetch on event, forget the session | stale answers | what is shown catches up with the hub |
| Web client: uploads (`FileUpload.tsx`) | upload list, running batch, desktop listeners | choose, drop, send, retry, clear | batches that outlive their component, drops that overlap | what is shown as uploaded is stored, once; the picker comes back |
| Web client: transfers (`TransferList.tsx`) | cached rows, config and ticket URLs; filter, sorting, limit | fetch, review, delete, preview | everything cached is old | the page offers what the hub would do |
| Web client: session and dialogs (`DeviceSetup`, `HostSettings`, `DeviceList`, `DesktopSettings`, `stores`) | session in the store and in `localStorage`, calls under way, the one dialog | join, leave, host's controls, folder, full reset | a session that changes under a call or a dialog | only what was confirmed is done; a session ends for a reason |
| Android wrapper (`android-wrapper`) | staged files and their list | stage, upload, retry, remove | process death, lost answers, activities created again | what is staged is kept until it is uploaded, and is uploaded; the storage stays bounded |
| Desktop shell (`src-tauri`) | sidecar handle, log files, storage choice | start, stop, restart, folder, rotate | a write that fails half-way, a sidecar that does not start, renames that fail | the folder shown is the folder used; one sidecar, bounded logs |

The components meet in these places. `remove_device`, `reset_host_identity` and
`reset_desktop_data` change the registry and the transfers in one handler.
SQLite's foreign keys (`migrations/001_initial.sql`) clear a removed device from
rows that name it. Registration, removal, publication, review and deletion each
send an event. The desktop shell restarts the backend after a full reset.

`PROJECT.json` lists every component with its status and every hazard with its
line and the properties that would catch it going wrong.

## Modules

| Module | What it is |
| --- | --- |
| `TransferPolicy` | the four access rules of `transfer_policy.rs` as operators |
| `TransferLifecycle` | the abstract specification of a transfer: published once, reviewed at most once, gone for good |
| `TransferStore` | every handler that touches a transfer, the cleanup task, start-up |
| `TransferStore_proofs` | its inductive invariant and the theorems |
| `DeviceRegistry` | pairing, removal, host reset, full reset, start-up |
| `DeviceRegistry_proofs` | its inductive invariant and the theorems |
| `TransferLifecycle_proofs` | what becomes of a transfer: the refinement, durable rows and deletions, audiences, agreement of the copies, the storage limit |
| `EventStream` | the broadcast channel, a socket task, and the page that refreshes on events |
| `EventStream_proofs` | that sockets skip nothing and are cut off, and that idle pages are up to date |
| `ShareQueue` | the Android wrapper: staging, the upload queue, the activity and its callbacks |
| `ShareQueue_proofs` | that what is staged is kept and the storage bounded, with one activity |
| `UploadQueue` | the page's upload list in a browser, on the desktop and in the Android wrapper |
| `UploadQueue_proofs` | its inductive invariants and theorems |
| `TransferPanel` | the page's list of transfers, its caches and what it offers, against a hub that changes |
| `TransferPanel_proofs` | that previews are honoured, offers are the hub's, and every row can be reached |
| `DenPage` | the page around its session: calls, answers, dialogs, and the desktop's folder and restart |
| `DenPage_proofs` | that calls and commands are confirmed, "Start as host" makes a host, the folder form is right, and what ends a session |
| `MCTransferStore`, `MCDeviceRegistry` | symmetry for TLC |
| `MCDenPage` | four scenes, each with bounds and dialogs of its own |

### TransferStore

| Variable | Code |
| --- | --- |
| `memory`, `rows`, `dirs` | `AppState.transfers`; the `transfers` table; the directories below `storage_dir`, each missing, partly written or complete |
| `devices`, `deviceRows`, `host`, `hostRow` | `AppState.devices`, its table, `host_device_id`, its setting |
| `uploadLock` | the request that holds `upload_lock` |
| `transfersLock` | the review that holds `transfers.write()` over its database call |
| `req` | one record for each request being served: handler, next step, operands |
| `sweep` | the cleanup task: where it is, its clock reading, what it removed from memory |
| `expired`, `drawn` | transfers past `expires_at`; uuids used so far |
| `deleted` | history: deletions answered with 204 |

One action is what a handler does between two awaits at which another task can
see or change shared state. An upload is `BeginUpload` (lock, uuid, directory),
`ReceiveChunk` (limits, then the write), `CompleteUpload` or `AbandonUpload`,
`PersistTransfer` or `PersistFails`, `PublishTransfer`. A desktop batch is
`CheckBatch`, then `BeginCopy`, `CompleteCopy`, `PersistTransfer` and
`PublishTransfer` for each file, or `AbandonBatch`. A review is `CallReview`,
`ReviewEntry` (which locks the map) or `ReviewRefused`, and `ReviewRow`. A deletion is
`DeleteLookup`, `DeleteRow`, `DeleteEntry`, `DeleteFiles`, and the purge of a
leaving device's transfers (`PurgeNext`) repeats the last three. Clearing is
`DrainEntries`, `WipeRows`, `WipeFiles`; a full reset is `ResetRows`,
`DrainEntries`, `ResetPeople`, `WipeFiles`. A leaving device is `BeginRemoval`,
the purge, `DeleteDeviceRow`, `DetachSender`, `ForgetDevice`. The sweep is
`SweepEntries`, `SweepRows`, `SweepFiles`.

Failures are actions too. `DatabaseFails` is a database call that returns an
error, after which the handler answers 500 and undoes nothing. `Disconnect` is a
handler dropped at an await because its client went away: its locks are released
and nothing else happens. A dropped handler's database call that still takes
place is the drop one step later. `Restart` is the end of the process at any
point, and a start on the same database and directory: `load_transfers` keeps
the rows that have not expired and whose path exists (it does not look at the
length), and `reconcile_transfer_storage` removes the directories of no entry.
With the fault `"hostless"` a start may find `DROP_DEN_RESET_HOST` set, which
leaves the den without a host.

### DeviceRegistry

The registry is modelled on its own because its handlers have many more awaits
than the transfers can tell apart. `JoinRow` and `JoinEntry` of `TransferStore`
are its registration, and `DeleteDeviceRow`, `DetachSender` and `ForgetDevice`
its removal, with the steps merged that touch no transfer.

`register_device` holds `host_device_id.write()` from its PIN check to the end
of the rotation (`hostLock`): `BeginRegister`, `InsertDevice`, then `SetHostRow`
and `TakeHost` for the first device or `SaveNewPin`, `RotatePin` and
`RotateHash` for the others, then, without the lock, `AddDevice` and
`AddSession`. The three other handlers start with `Authenticate`, look at the
host (`CheckHost`), and go on through `DeleteDeviceRow`, `VacateHost`,
`ForgetDevice`, `RevokeSession`, or through `WipeRows` and the `Clear...` steps.
`Restart` draws a new PIN and may find `DROP_DEN_RESET_HOST` set. A PIN is a
fresh number: that a six-digit PIN is drawn twice is not modelled.

### EventStream

| Variable | Code |
| --- | --- |
| `version` | how often what the hub lists has changed (the four queries a page invalidates together) |
| `entries`, `sessions` | the devices in `AppState.devices` and in `AppState.sessions`, which a token needs both of and a socket only the second |
| `unannounced` | the handlers that have changed something: the sessions they are to end and the events they have not sent yet |
| `log` | every event sent; the channel of `AppState.events` is its last `Capacity` |
| `socket` | per page, the task of `ws.rs`: `Handshake` (`ws_handler`), `Subscribe`, `Receive`, `CheckSession`, `HangUp` |
| `page` | per page, the query (`fetch`, `data`, `shown`), how many events it has handled, whether its session was cleared |

The handlers are reduced to what they announce: `Change` (to any audience),
`RemoveDevice`, `ResetHost`, `ResetDesktop`, which take devices from the map,
`EndSessions`, a step later, then `Announce`, or `Forgo` when the
handler is dropped anywhere before that. `Lagged` is the receiver's error when the channel has
overwritten its next event; the loop ends on it. Events carry whom they are for
(`EventAudience`), whose sockets they end (`disconnect_devices`), and whose page
takes them as the end of its session (`handleWebSocketToast`). On the page,
`Hear` is `socket.onmessage`, `Answer` and `Show` the two ends of a `getJson`, and
`ClearOnUnauthorized` what a 401 does. What `invalidateQueries` does to a query
being fetched (`Refetch`) and that focus fetches again (`Refocus`) is the query
library's, modelled from how the hook uses it and marked external in the map.

### ShareQueue

| Variable | Code (`android-wrapper/app/src/main/java/com/dropden/mobile`) |
| --- | --- |
| `listed` | the list `ShareStagingStore` keeps in the preferences, with each item's state |
| `dirs` | the directory of each item: missing, with `content.part`, or with `content` |
| `session`, `web`, `honoured` | the session in the preferences, in the page's `localStorage`, and in the hub |
| `act` | an activity: `view` and `awaiting` (WebView, identity polling), `flow`, `staging`, `uploading` (`shareFlowActive`, `stagingShareIntent`, `uploading`), `jobs` and `job` (the single-thread executor), `posted` (`runOnUiThread`) |
| `staged`, `published` | history: items reported as staged, items the hub has taken |

The main thread runs whole methods and callbacks, each one action: `Launch` and
`Share` (`onCreate`, `onNewIntent`), `Retry`, `ChangeHost`, `Back`, `Connect`,
`PageFinished`, `PageFails`, `CaptureWebIdentity`, and what jobs post: `OnStaged`,
`OnBatchDone`, `OnConnected`. What a method makes of the activity is an operator
from record to record (`UploadPendingItems`, `EnsureRegisteredDevice`, `OpenHost`), so that
calls nest as in the code. The executor goes step by step, since the process may
die between any two writes: `BeginStaging`, `CopyUri`, `CommitFile` or `RejectFile`,
`ListItem` or `ListFails`, `EndStaging`; `BeginBatch`, `NextItem`, `Publish`,
`Uploaded`, `Interrupted` or `Unauthorized`, `PersistUpdate`, `DeleteFile`, `EndBatch`.
`loadItems` is not a getter: it drops items without a file, turns interrupted
uploads (also the one that is running) into pending ones, and deletes every other
directory. It is called under the store's lock from both threads, so `LoadIf`
waits for the job to leave the store. Its branch for a list that cannot be parsed, which
empties the storage, is left out: only this class writes the list, and a commit
replaces it as a whole.

Android is external: `Die` ends the process anywhere (also in the middle of
`loadItems`, which removes directories one by one and saves the list last), `Destroy` an activity, and
`Relaunch` creates one again, with the intent the system has on record or, after
a change of configuration, the last one the activity was given. A destroyed
activity's executor ends the job it is in; its callback may then give a job
to an executor that is shut down, which throws and ends the process (`Return`).
The hub is reduced to the session it honours and to taking a file (`Publish`),
with its answer as a later step that may be lost.

### UploadQueue

| Variable | Code (`frontend/src/components/FileUpload.tsx`) |
| --- | --- |
| `joined`, `page` | whether the component is mounted, and which mount it is |
| `uploads` | the `uploads` state, items with batch, file, path or not, status |
| `running` | the async functions that wait for an answer: `uploadFiles` between two requests, `uploadDroppedLocalPaths` |
| `registering`, `listeners`, `lastDrop` | `onDragDropEvent` that has not resolved, has, and the guard against duplicates |
| `native` | `nativeShareQueue`, what the wrapper reports |
| `chosen`, `stored`, `unsure`, `crossed` | history: what the user gave, what the hub stored, what it stored by a call reported as failed, overlapping drops |

`ChooseFiles`, `DropPaths` and `RetryFailed` start a batch; an answer (`FileStored`,
`FileFails`, `FileUnauthorized`, `PathsCopied`, `PathsFail`, `PathsUnauthorized`)
marks the item and sends the next file in the same step, as the loop does between
two awaits. `uploadFiles` marks by id and so never touches another batch's items,
`uploadDroppedLocalPaths` marks whatever the list holds. A 401 ends the session the
page has then. `Leave` unmounts; a batch goes on without a list. A registration of
the desktop listener that resolves after that is never undone.

### TransferPanel

The hub is the set of transfers with their status, audience and age, the members and
the start of the hub that keeps tickets; it changes at any time (`Arrive`,
`OtherReviews`, `Expire`, `Vanish`, `RemoveMember`, `Restart`). The page has a copy of
the rows and of the config (`Fetch`, `FetchConfig`), the ticket URLs it has asked for
(`QueryTicket`, `IssueTicket`), calls under way (`Click`, `Change`), and the filter,
sorting and limit of the list. What a row offers is computed as in the code
(`CanReviewTransfer`, `CanDeleteTransfer`, `IsTransferDownloadable`, `NeedsTicket`,
`Displayed`) and compared with `TransferPolicy`. Page and hub share one `expired`; that the
page reads its own clock (`TransferList.tsx:75`) shifts the moment at which a row
offers less, and is not modelled.

### DenPage

A click starts a call (`Submit`, `Leave`, `Request`, `SendMessage`,
`SaveTransferExpiry`, or `Yes` to a dialog), the hub serves it (`Serve`, or `Lose`),
and the page handles the answer (`Receive`). `Confirm` replaces the dialog that is
shown; `Yes` resolves the promise of the last one, with what its function had in
its closure. On the desktop the synchronous commands of the shell form a queue
(`invoked`), since Tauri runs them on the main thread: `RunGet`, `RunSet`, `RunReset`,
`RunRestart`. A command outlives the form that gave it. `Relaunch` closes and opens the
app; `Reload` loads the page; `FoldersMove` makes folders unusable or usable again
at any time.

The hub is `host` and `members` in memory, `rows` and `hostRow` in the tables, and `resets`, the
full resets it is serving. `reset_desktop_data` is `BeginReset` (let through, the tables are
wiped), `ClearSessions`, `ClearHost`, and after all the work on the files `Announce`; between these
any request may be served, registrations too, and `Drop` ends it early. A page in a browser
lives with the resets of the desktop's page, a page on the desktop with its own. The event is
`announced` for whatever session the page has, and `Notified` ends that session: `desktop_reset`
names nobody (`useWebSocketRefresh.ts:156`). `HubStarts` restores `members` and `host` from the tables,
so that a reset that a restart cuts short, or that was dropped, may end with a device back that had lost its session.
History tells the devices that were admitted while a full reset was served (`caught`) and those
that a start of the hub brought back (`revived`), and whether folders have come or gone since the
hub started (`moved`).

What the model assumes: the settings section stays open while there is a session; one
tab; a fetch of the config is one step; a registration, a removal and a host reset are one step
each, and a database error refuses a call without having changed anything (what is in between, and
the partial effects, are in `DeviceRegistry`). A hub that failed to restart may still answer, which
is more than it can do. A socket gets `desktop_reset` also if it has only just been opened,
which is more than `ws.rs` can send.

`EventStream` does not share variables with the two other backend modules: what it
needs of them is that a handler changes first and announces later, and that an
ended session is gone before its event is sent, which are `MakeChange` and
`EndSessions`.

## Runs

| Run | Instance | Question |
| --- | --- | --- |
| `store` | host and a guest, 2 transfers, 2 requests; upload, delete, clear, review; failing database, drops, restarts | are entries, rows and files ordered so that nothing listed is missing and nothing deleted returns; does the hub implement `TransferLifecycle`? |
| `store_at_rest` | the host, 2 transfers, 2 requests; upload, desktop batch, delete, review; restarts; fairness | do memory and table agree between requests, does the limit hold, does everything end? |
| `store_leavers` | 3 devices of which 2 join, 1 transfer, 2 requests; upload, join, remove, host reset, full reset; every fault, and starts that reset the host | is the lifecycle kept when people come and go? |
| `registry` | 3 devices, 2 requests, all four handlers; failing database, handlers dropped anywhere (but full resets), 2 restarts | one guest for each PIN, final removals, nobody else loses access |
| `registry_at_rest` | 3 devices, 2 requests; register, remove; failing database, 2 restarts; fairness | between requests: the shown PIN admits, the host can act, members are whole; every request ends |
| `events` | one device with one page, a channel of 2, three changes; dropped handlers; fairness | nothing is skipped, an ended session gets at most one event, the page catches up or forgets its session |
| `events_revoked` | violated | a device removed during its handshake keeps its socket |
| `share_queue` | one activity, 3 ids for a limit of 2 items, shares of 1 or 2 files without end; every fault; fairness | is everything staged kept until it is uploaded, does the storage stay bounded, does an upload settle all there is? |
| `uploads` | 3 files of which one is too large, a share, 3 batches and 2 joins, 4 of these together; fairness | is what is shown as uploaded stored, and once; does a retry send what was chosen; does the picker come back? |
| `transfer_panel` | 1 transfer of any sender and audience, 2 joins, 2 starts of the hub; lists of up to 7 rows for the limit | does the page offer what the hub would do, do its previews work, can every row be reached? |
| `den_page` | a browser with 2 calls at a time; a browser or the desktop with a call and a full reset; a desktop with a call, a changing command and a folder besides the default; 2 admissions, or 1 for the folder | is only what was confirmed done, is "Start as host" true, does the folder form tell the truth, what ends a live session? |
| `store_widening` | violated | a transfer to a removed recipient becomes a broadcast |

### Properties

`ListedHasFile`, `LiveRowHasFile`, `DeletionIsPermanent`, `MemoryMatchesRows`
relate the three copies of a transfer. `UploadsStayWithinStorage`,
`StoreWithinLimit` and `SoleWriter` are about the capacity check, which counts
entries and not bytes being written, so that only `upload_lock` makes it hold.
`AudienceNeverWidens` is about visibility across steps and restarts.
`ImplementsLifecycle` maps each transfer to what its row says a restart would
bring back, and shows that this follows `TransferLifecycle`. `OneGuestPerPin`,
`RemovalIsPermanent`, `MembersStay`, `PinShownAdmits`, `HostCanAct` and
`MembersAreWhole` are about the registry. `RequestsFinish` and `ExpiredIsRemoved`
are the liveness properties of the two. `NothingSkipped` says that a socket in
service has no gap, `OneLateEvent` and `NextEventCutsOff` that a removed device's
socket lives for one event more at most, whoever that event is for.
`ViewsCatchUp` is about events that arrive while older answers are under way, and
`EndedSessionsAreForgotten` about the two ways a page learns of its removal, either of
which may be missing. `StagedIsKept` and `StorageIsBounded` relate list, files and history across
process death; `StagedIsSettled` is about the flags and callbacks that must start
one more batch for what was staged during the last.

`SuccessWasStored` and `StoredOnce` relate the list to what the hub has, across failures,
retries, and answers to components that are gone; `RetryKeepsContent` says that the
empty `File` made up for a dropped path is never sent; `PickerComesBack` that no item stays
active for ever. `OffersMatchPolicy` compares the rules the page has written in
TypeScript, on its copies, with the hub's on the same data; `PreviewsWork` the age of a
cached ticket URL with the hub's ticket; `AllCanBeReached` the limit of the list with
what it shows. `DoneAsAsked` follows a call back to the dialog that named it.
`StartAsHostMakesHost` says that a stale config cannot make a "Start as host" join a
host's den. `FolderFormIsRight` relates form, settings file and running hub.
`OnlyFormerCallsEndSession` lists what ends a session that the hub still has. There are
four: an answer to a call of a former
session; the page's own full reset; `desktop_reset`, for a device admitted while that reset was served;
and an older answer, for a device that the reset had deprived of its session and a start of the hub brought back.
The run finds the first three; the last needs a restart after which the page is not loaded again, and is there for the proof.

Where a property is left out of a run, the code does not keep it there.
`MemoryMatchesRows` needs database calls that succeed and handlers that are not
dropped: a failed `update_transfer_status` leaves the entry accepted and the row
pending, and a failed `delete_all_transfers` leaves rows without entries, which
also is how a restart can exceed the limit. It also needs that nobody clears
everything: `delete_all_transfers` or `reset_desktop_data` between the row and
the entry of an upload leaves an entry without a row. `LiveRowHasFile` and
`DeletionIsPermanent` are not checked with a full reset, whose first step
empties the tables before the entries: an upload by a device that joins between
the two survives in one of them. `HostCanAct` and `MembersAreWhole` are not
checked with a stale host reset, which can leave the host setting naming a
device that has no row. Full resets are not dropped in `registry`, for size; the theorems cover them too. A full reset that meets a
registration between the emptying of the tables and of the maps leaves a device row
behind (`devices.rs:242`), which no property forbids. A host reset that was let through before another one ended deposes whoever
is host by then (`devices.rs:185`): the model shows it and no property forbids it. `StagedIsKept` is
checked with one activity. With two, which `singleTop` allows (a share that opens one in
the sender's task), it fails: each has a store of its own, and the clean-up in one's
`loadItems` removes the directory that the other has renamed and not yet listed.
Nothing is promised of a page whose first fetch was
under way when its socket subscribed: no invalidation follows the subscription,
so a change announced in between stays unseen until the next event or focus.
`ViewsCatchUp` therefore starts at the events a page is told of.

In `uploads`, drops that overlap are excepted (`crossed`): the answer to the first marks the
items of the second by index, and the list then shows as uploaded what is not. A path
call that fails half-way has published some of its files, all of which are shown as failed and
go up again (`unsure`). The wrapper's own timer dismisses failures that cannot be
retried together with successes. In `transfer_panel`, URLs of a former session or of a
hub that has restarted stay in the cache until they are four minutes old, and their
previews fail. In `den_page`, a late answer of a former session does end the new one, and so does
`desktop_reset` for a device that registers while the desktop resets the hub (`devices.rs:243` to `254`), which
is why `OnlyFormerCallsEndSession` names these cases; a folder that comes or goes while the hub runs makes
the form offer a restart that changes nothing, or none that would, until the hub starts again; a full reset whose hub part succeeded and whose
folder part failed leaves the preference and a page whose session the hub has forgotten; an answer
to a registration that is lost leaves a host that no page holds the token of; a `get` of the folder
that answers late replaces what was typed.

### Bounds

Two concurrent requests are enough for every race listed in the hazards: each
is between two handlers, or a handler and the sweep or a restart. Two transfers
let the storage limit, of which each takes half or all, be reached by two
uploads, and let a clear or a purge meet a second transfer; three devices are a
host, a recipient or guest, and someone who may not see. Files are of 0 to 2
units where `MaxFile` is 1, so that a file of exactly the limit and one above
it occur. `MaxRestarts` bounds the restarts of the registry, which draw PINs;
those of the store need no bound. Uuids are never drawn twice, so that the
number of devices and transfers bounds how often something is created.

In `events` three announcements against a channel of two let a socket lag, and leave
one event for after a lag, a removal or a reset. One device and one page are
enough: pages share nothing they write, and an event for somebody else is one whose
audience does not hold the device. The version is the only counter.

In `share_queue`, ids are taken again once nothing refers to them, so the number of
shares is not bounded; a third id for a limit of two lets the limit be broken, and one is always
free when a file is copied. Two undone jobs (`MaxJobs`) are a
running batch and a share, or two shares, besides the batch that follows them. One registration (`MaxJoins`)
lets a session be captured, refused and captured again although stale.
The limit of bytes is the limit of items.

In `uploads` a batch of two files has a file that fails and one that does not; a third batch is
a retry of what two others left, and a second join lets a batch meet a component
that is not its own. `MaxEvents` bounds batches and joins together, so that three batches happen in one
join and two in two. In `transfer_panel` rows do not
touch each other; the limit of 3 is checked on every number of rows up to 7, two steps beyond it. In
`den_page` each scene has bounds of its own (`MCDenPage`), since their product has too many states,
and opens only the dialogs it is about (`asks`): the host's in a browser, `resetHost` beside a full reset as a browser sees
it, `resetHost`, `leaveDesktop` and `resetAll` as the desktop sees it, the shell's for the folder. In a browser
two calls are a former session's and the present one's, and two admissions are the two sessions. Beside a full reset two
admissions are a device before it and one that is admitted in the middle of it; the one call is the reset's own, or what
overlaps the desktop's. For the folder one call and one changing command suffice for a command that outlives
its form and a folder that is changed behind it. For a full reset beside a chosen folder
`FolderFormIsRight` rests on its proof.

Deadlock is checked in the `store` runs, where a request or a restart is always
possible. In the registry the device ids run out, and a den without one is at
rest for good; in `events` the bound on changes ends everything; an app nobody opens again
stays closed in `share_queue`; in the three modules of the page the bounds on joins end
everything.

### Fairness

`FairSpec` asks that a handler that has started goes on (`Proceed`) and that the
cleanup task ticks. tokio schedules both; the cleanup loop is never left. That
an upload's stream ends one way or the other is an assumption about clients:
the code has no time limit for it. Nothing is assumed of what clients start
(`Start`), of chunks arriving, of faults, or of time. A request that waits for
`upload_lock` or for a registration has not taken its first step, so
`RequestsFinish` does not speak of it. `EventStream`'s `FairSpec` asks the same of
handlers about to announce, of socket tasks and of the page's event loop, that a
fetch is answered, and that a page without a session closes its socket (the
effect's clean-up). An event the page cannot receive because its connection is lost is the
`HangUp` that may come at any time and that nothing forces. `ShareQueue`'s asks that
executors go on and that the main thread
takes what is posted; nothing of the user, the page, the hub or the system. Connecting and the wait for an answer have
time-outs (`TransferUploader.java`), writing the body has none but TCP's: that a call ends is an assumption there. `UploadQueue`'s
asks that each call is answered or its connection breaks. `TransferPanel` and `DenPage` have
safety properties only.

## Proofs

Every invariant, every action property and the refinement that a passing run checks is also a
theorem, for all values of the constants that satisfy the assumption of the module: any number of
devices, requests, transfers, files, calls and restarts. A few theorems have a hypothesis on
which handlers are called and which faults happen. It is then that of a
run, or weaker; Properties and the comment on the hypothesis say what goes wrong without it. `TransferStore` assumes that the
uuids of devices and transfers differ and that there are finitely many transfers, so that
their sizes have a sum.

| Theorem | Property | Holds for |
| --- | --- | --- |
| `TransferStore_proofs`: `TypeCorrect`, `OneUploadAtATime`, `ListedTransfersHaveFiles` | `TypeOK`, `SoleWriter`, `ListedHasFile` | everything |
| `TransferLifecycle_proofs`: `HubImplementsLifecycle`, `UploadsFitTheStorage` | `ImplementsLifecycle`, `UploadsStayWithinStorage` | everything |
| `LiveRowsHaveFiles`, `DeletionsArePermanent` | `LiveRowHasFile`, `DeletionIsPermanent` | `JoinsOrResets`: joins and full resets are not combined |
| `AudiencesNeverWiden` | `AudienceNeverWidens` | `NobodyLeaves`: no removal, no reset, no start that resets the host |
| `MemoryMatchesDatabase`, `TheStoreStaysWithinLimit` | `MemoryMatchesRows`, `StoreWithinLimit` | `OneAtATime`: no clearing, leaving or reset; crashes as the only fault |
| `DeviceRegistry_proofs`: `TypeCorrect`, `PinsAdmitOne`, `RemovalsArePermanent`, `MembersKeepAccess` | `TypeOK`, `OneGuestPerPin`, `RemovalIsPermanent`, `MembersStay` | everything |
| `ThePinShownAdmits` | `PinShownAdmits` | no full reset |
| `TheHostCanAct`, `MembersHaveAll` | `HostCanAct`, `MembersAreWhole` | `NoResets`: no reset, registrations are not dropped; the second also needs that removals are not |
| `EventStream_proofs`: `NothingIsSkipped`, `AtMostOneLateEvent` | `NothingSkipped`, `OneLateEvent` | everything |
| `IdlePagesAreUpToDate` | the safety half of `ViewsCatchUp` | everything |
| `ShareQueue_proofs`: `NothingSharedIsLost`, `StorageStaysBounded` | `StagedIsKept`, `StorageIsBounded` | `OneActivity` |
| `UploadQueue_proofs`: `RetriesKeepContent`, `SuccessesAreStored`, `NothingIsStoredTwice` | `RetryKeepsContent`, `SuccessWasStored`, `StoredOnce` | everything |
| `TransferPanel_proofs`: `PreviewsAreHonoured`, `RowsOfferWhatTheHubDoes`, `EverythingCanBeReached` | `PreviewsWork`, `OffersMatchPolicy`, `AllCanBeReached` | everything |
| `DenPage_proofs`: `AllIsConfirmed`, `HostButtonMakesHost`, `TheFolderFormIsRight`, `SessionsEndForAReason` | `DoneAsAsked`, `StartAsHostMakesHost`, `FolderFormIsRight`, `OnlyFormerCallsEndSession` | everything |

Each rests on an inductive invariant, which has a name, and whose new parts TLC checked on
the runs before they were proved.

### The store

`ListedHasFile` alone is not inductive. An entry is published several steps after
its file was complete, and nothing may remove the file in between: `StoreInv`
says that the transfer being uploaded is its upload's alone, with a complete
directory once it is written (`UploadsAreFresh`), and that no handler holds it for
deletion (`InHand`), because whatever is held was listed or stored once and
uuids are drawn once (`KnownAreDrawn`). A deletion must not remove the files of
an entry: `EntriesGoFirst` says that whatever is about to lose its files has lost its
entry, in a deletion, a clear, a reset and the sweep alike. A restart lists
every row that has a directory, complete or not, so no row may have a partial
one (`RowsAreWhole`). `ReviewLocksMap` says that the entry a review changed is
still there when it writes the row. `StoreInv` is the conjunction of these with
the type invariant and `SoleWriter`. There is one lemma for each group of actions and
conjunct, and a step lemma (`ListedHasFileStep` and its siblings) for each part.

`TransferLifecycle_proofs` builds on it. For the refinement, `LifecycleInv` says that a review
which has changed the entry still finds the row pending (`ReviewsArePending`, `PendingInBoth`), that a
row is as its upload wrote it until it is published, and that what is being uploaded
has not expired; each step then is a step of `TransferLifecycle` on every transfer, or a
stutter. `DurableInv` adds the order of a deletion seen from the database: files go after the row
(`RowsGoFirst`), the sweep holds nothing but what has expired, uuids that were deleted
are not uploaded again. A reset that is under way has left no row
(`ResetsLeaveNothing`), which fails as soon as someone joins between: that is
why `JoinsOrResets` is needed. `CopiesMatch` says of every unexpired transfer how
entry and row may differ while exactly one handler is between its two writes. A
review and a deletion may be so at once, and the deletion wins.

The storage limit needs `RoomOK`: after the check, entries and what the upload under way
is still to add, the rest of its batch included, stay within the limit. Other handlers only
remove entries then, as nobody else holds `upload_lock`. The sum of the sizes is a fold over a set
that picks its elements in no known order; that it does not depend on the order, grows with
its terms and changes by one term at a time is the first section of the module. It needs
induction over finite sets, which is done by looking at a smallest counterexample:
strict inclusion of finite subsets is well-founded.

### The registry

`RegistryInv`: PINs are numbered as
they are drawn, and `PinsOK` says that a PIN that was used differs from what the hub compares with,
and from every PIN a handler is about to compare with: this is inductive only because a
registration holds the host lock until it has rotated (`LockOK`), so that whoever is let in
finds no other registration with the same PIN. The next two theorems need that a
registration's device is nobody else's until it is listed (`DrawnOK`). `RemovalOK` follows a
removal from the row to the entry, and `MembersOK` a registration from its row to its
session. There is one lemma for each part that covers every step of a handler
(`PinsServed` and its siblings), over lemmas on what a step does to the request slots
(`StepShapes`, `EndShapes`, `DrawShapes`). For the den between requests, `PinPending` says
that the shown PIN and the compared one differ only inside a rotation, `HostOK` that
the host setting names the host or is about to, has a row, and is never the device of a removal,
and `HostListed` and `MembersListed` who is in the map.

### Events and the Android queue

`StreamInv`: a socket has sent exactly the events for its device between its first
position and its next one, in order; one that has sent a late event is at its check or closed; and
a page that was told of a change shows it, has the answer, or is about to fetch. `QueueInv`: a list
that a job is about to save has every staged item, the file it deletes is none of theirs, and it
removes an item only after the hub has published it (`JobOK`); files on disk and the room that a
share was given stay within the limit (`StorageOK`).

### The page

For `SuccessWasStored` the invariant says that the
list is the one of the newest batch of the mounted component, so that an answer marks either
items of its own or none, and that whatever is `success` was stored when it was marked. For
`StoredOnce`, `AccountOK` keeps an account for each file: its stores, the running batches that hold it,
and one for a listed failure are together no more than the times it was given.

A URL that counts as fresh belongs to a ticket of this start, of a device
that was a member when it was issued, and what would revoke it also ends what
`PreviewsWork` asks about. `AllCanBeReached` needs how many rows a limit displays
(`DisplayedSize`): a row is displayed if fewer rows than the limit come before it, and
no two rows have equally many before them.

`CallsInv` says that the promise that is resolved is that of the dialog that is shown
(`DialogOK`), that a call keeps what it was started with, and that a registration that carries no PIN is
admitted only if there is no host (`RegistrationOK`). `QueueOK` says the same of each
command that waits in the shell. `FolderInv` relates form, preference and the folders that can
be used; full resets and moving folders are covered by it. `SessionInv` says that a call of the present session carries its token and that an answer
which reports somebody gone is true and stays so (`CallHonest`), unless a start of the hub brings the device back, which is why
honesty is asked for the devices that stand (`Standing`), that is, members that were not revived. There is at most one registration, and
its device is new to every call and dialog (`OneRegistration`): a call that names the
present session while it is not of it cannot exist. `ResetsOK` says that the session of a page to which `desktop_reset`
has come is either gone from the hub or `caught`: whoever was a member when a full reset began is none
after `ClearSessions`, and whoever has become one since was admitted while the reset was served.

### What is left to TLC

Liveness: `RequestsFinish` (of store and registry), `ExpiredIsRemoved`, `NextEventCutsOff`, `ViewsCatchUp`,
`EndedSessionsAreForgotten`, `StagedIsSettled` and `PickerComesBack`. Their fairness speaks of which
actions are enabled, which the prover cannot reason about. Where a property is
proved under a hypothesis, what happens without it is only known from TLC.

## Not modelled

Errors of `remove_dir_all`, which the code ignores; names, types and contents of
files; the rate limits, whose refusals change nothing; clock time, which appears
only as a transfer having expired and a ticket having aged; toasts and the two timers that
clear them; the bodies of messages.

- Downloads: tickets are modelled as far as previews use them; single files and the ZIP are
  streams whose only state is a temporary file. The ZIP holds all that is visible, not what
  the page's filter shows.
- Messages: the hub's list and table, with two pruners.
- Service worker and PWA: caching of the shell by generated code. A new worker reloads the page, which
  may interrupt an upload.
- A second tab shares `localStorage` with the first but not its store, and may end a session
  of the other at its next load.
- Diagnostics and the join card of the desktop (`DesktopDiagnostics`, `JoinCard`): they display, copy
  and export, and change nothing of the den.
- Rotation of the sidecar's logs, packaging, scripts.

## Plan

1. `Downloads`: tickets against removal, reset, expiry and review; the temporary
   ZIP against cancellation and restart.
2. `MessageBoard`: list and table, clear against create, the two pruners.
3. Sidecar and log rotation of the desktop shell.
4. Theorems about these, and `TransferStore`'s hypotheses made weaker: `MemoryMatchesRows`
   with clearings and removals for transfers that they do not touch.

The order is by what a mistake would cost.
