--------------------------- MODULE DeviceRegistry ---------------------------
(***************************************************************************)
(* Who belongs to the den: the devices, their sessions, the host and the   *)
(* join PIN, in AppState and in SQLite (backend/src/routes/devices.rs,     *)
(* auth.rs, and the loading in db.rs).  Pairing, removal, host reset and   *)
(* full reset run concurrently; only pairing holds a lock, the write lock  *)
(* of host_device_id, over its database calls.                             *)
(*                                                                         *)
(* A device has one session, whose token its client gets with the answer   *)
(* to its registration; `sessions` holds the devices whose token the hub   *)
(* knows, and the rows carry the token's digest.  The join_pin_hash        *)
(* setting is written by the code and read by nothing, so it is no         *)
(* variable.  The transfers a leaving device takes along are in            *)
(* TransferStore.                                                          *)
(***************************************************************************)
EXTENDS Naturals

CONSTANTS
  Devices,    \* the uuids that may be drawn for devices
  NoDevice,
  Requests,
  NoRequest,
  Calls,      \* the handlers clients call, a subset of Handlers
  Faults,     \* what may go wrong, a subset of {"db", "crash"}
  Dropped,    \* the handlers whose clients may go away, a subset of Handlers
  MaxRestarts \* bound: how often the hub restarts

Handlers == {"register", "remove", "reset_host", "reset_all"}

ASSUME RegistryAssumption ==
  /\ NoDevice \notin Devices
  /\ NoRequest \notin Requests
  /\ Calls \subseteq Handlers
  /\ Faults \subseteq {"db", "crash"}
  /\ Dropped \subseteq Handlers
  /\ MaxRestarts \in Nat

VARIABLES
  devices,     \* the keys of AppState.devices
  sessions,    \* the devices AppState.sessions maps a token to
  deviceRows,  \* the devices table
  host,        \* AppState.host_device_id
  hostRow,     \* the host_device_id setting
  pin,         \* AppState.join_pin, what the host's screen shows
  pinHash,     \* AppState.join_pin_hash, what a guest's PIN is compared with
  hostLock,    \* the registration that holds host_device_id.write()
  req,         \* what each request is doing
  drawn,       \* device ids drawn so far
  pins,        \* how many PINs have been drawn so far: each is a new number
  restarts,
  joined,      \* the registrations answered: who has a token, and the PIN used
  leaving,     \* history: devices that a removal, host reset or full reset
               \* let through so far was about, or met
  removed      \* history: devices whose removal was acknowledged

memory == <<devices, sessions, host, pin, pinHash>>
database == <<deviceRows, hostRow>>
history == <<joined, leaving, removed>>
vars == <<memory, database, hostLock, req, drawn, pins, restarts, history>>

MaybeDevice == Devices \cup {NoDevice}

NoPin == 0  \* of a registration that needs none
Pins == Nat \ {NoPin}

\* A request slot: the handler and its step, the device that registers or
\* leaves, the PIN a registration was let in with, and the PIN a handler draws.
Idle == [op |-> "none", pc |-> "idle", dev |-> NoDevice, pin |-> NoPin, new |-> NoPin]

\* The steps of a registration: under the lock, and after it.
Registering == {"insert", "set_host", "take_host", "set_pin", "rotate", "rotate_hash"}
Listing == {"add_device", "add_session"}
Leaving == {"check", "delete_row", "vacate", "forget", "revoke"}
Resetting == {"wipe_rows", "clear_devices", "clear_sessions", "clear_host",
              "clear_pin", "clear_hash"}
Points == {"idle"} \cup Registering \cup Listing \cup Leaving \cup Resetting

RequestStates ==
  [op : Handlers \cup {"none"}, pc : Points,
   dev : MaybeDevice, pin : Nat, new : Nat]

WellPlaced(q) ==
  /\ q.op = "none" <=> q.pc = "idle"
  /\ q.op = "register" => q.pc \in Registering \cup Listing
  /\ q.op \in {"remove", "reset_host"} => q.pc \in Leaving
  /\ q.op = "reset_all" => q.pc \in Resetting
  /\ q.pc # "idle" => q.dev \in Devices
  /\ q.pc \in {"rotate", "rotate_hash", "clear_pin", "clear_hash"} => q.new \in Pins

Joined(d) == \E j \in joined : j.dev = d

\* The type invariant, with the place and the operands of every handler.
TypeOK ==
  /\ devices \subseteq Devices
  /\ sessions \subseteq Devices
  /\ deviceRows \subseteq Devices
  /\ host \in MaybeDevice
  /\ hostRow \in MaybeDevice
  /\ pin \in 1..pins
  /\ pinHash \in 1..pins
  /\ hostLock \in Requests \cup {NoRequest}
  /\ req \in [Requests -> RequestStates]
  /\ \A r \in Requests : WellPlaced(req[r])
  /\ drawn \subseteq Devices
  /\ pins \in Pins
  /\ restarts \in 0..MaxRestarts
  /\ joined \subseteq [dev : Devices, pin : Nat]
  /\ leaving \cup removed \subseteq Devices

\* A fresh hub: nobody has joined, and start-up has drawn a PIN.
Init ==
  /\ devices = {} /\ sessions = {} /\ deviceRows = {}
  /\ host = NoDevice /\ hostRow = NoDevice
  /\ pin = 1 /\ pinHash = 1 /\ pins = 1
  /\ hostLock = NoRequest
  /\ req = [r \in Requests |-> Idle]
  /\ drawn = {} /\ restarts = 0
  /\ joined = {} /\ leaving = {} /\ removed = {}

(***************************************************************************)
(* What the handlers share                                                 *)
(***************************************************************************)
At(r, pc) == req[r].pc = pc

Goto(r, pc) == req' = [req EXCEPT ![r].pc = pc]

Finish(r) == req' = [req EXCEPT ![r] = Idle]

\* host_device_id.read() and .write() wait for a registration.
HostFree == hostLock = NoRequest

\* authenticate_session_token: the session, then the device.
Authenticates(d) == d \in sessions /\ d \in devices

(***************************************************************************)
(* register_device                                                         *)
(***************************************************************************)
\* Mutant of BeginRegister: the PIN is checked before the lock is taken, and
\* the lock is not taken at all.
BeginRegisterUnlocked(r) ==
  /\ At(r, "idle")
  /\ "register" \in Calls
  /\ HostFree
  /\ \E d \in Devices \ drawn :
       /\ drawn' = drawn \cup {d}
       /\ req' = [req EXCEPT ![r] =
            [Idle EXCEPT !.op = "register", !.pc = "insert", !.dev = d,
               !.pin = IF host = NoDevice THEN NoPin ELSE pinHash]]
  /\ UNCHANGED <<memory, database, hostLock, pins, restarts, history>>

\* host_device_id.write(), then the PIN unless there is no host yet.  A wrong
\* PIN changes nothing; the right one is the one that was hashed.
BeginRegister(r) ==
  /\ At(r, "idle")
  /\ "register" \in Calls
  /\ HostFree
  /\ hostLock' = r
  /\ \E d \in Devices \ drawn :
       /\ drawn' = drawn \cup {d}
       /\ req' = [req EXCEPT ![r] =
            [Idle EXCEPT !.op = "register", !.pc = "insert", !.dev = d,
               !.pin = IF host = NoDevice THEN NoPin ELSE pinHash]]
  /\ UNCHANGED <<memory, database, pins, restarts, history>>

\* db::insert_device; is_first_device was read under the same lock.
InsertDevice(r) ==
  /\ At(r, "insert")
  /\ deviceRows' = deviceRows \cup {req[r].dev}
  /\ Goto(r, IF req[r].pin = NoPin THEN "set_host" ELSE "set_pin")
  /\ UNCHANGED <<memory, hostRow, hostLock, drawn, pins, restarts, history>>

\* The first device: db::set_setting, then the field.
SetHostRow(r) ==
  /\ At(r, "set_host")
  /\ hostRow' = req[r].dev
  /\ Goto(r, "take_host")
  /\ UNCHANGED <<memory, deviceRows, hostLock, drawn, pins, restarts, history>>

TakeHost(r) ==
  /\ At(r, "take_host")
  /\ host' = req[r].dev
  /\ hostLock' = NoRequest
  /\ Goto(r, "add_device")
  /\ UNCHANGED <<devices, sessions, pin, pinHash, database, drawn, pins, restarts, history>>

\* Mutant of SaveNewPin: no PIN is drawn.
SaveNoPin(r) ==
  /\ At(r, "set_pin")
  /\ Goto(r, "rotate")
  /\ UNCHANGED <<memory, database, hostLock, drawn, pins, restarts, history>>

\* The others: rotate_join_pin saves the hash of a PIN it draws, then shows
\* the PIN, then compares with it.
SaveNewPin(r) ==
  /\ At(r, "set_pin")
  /\ pins' = pins + 1
  /\ req' = [req EXCEPT ![r].pc = "rotate", ![r].new = pins + 1]
  /\ UNCHANGED <<memory, database, hostLock, drawn, restarts, history>>

RotatePin(r) ==
  /\ At(r, "rotate")
  /\ pin' = req[r].new
  /\ Goto(r, "rotate_hash")
  /\ UNCHANGED <<devices, sessions, host, pinHash, database, hostLock, drawn, pins, restarts, history>>

RotateHash(r) ==
  /\ At(r, "rotate_hash")
  /\ pinHash' = req[r].new
  /\ hostLock' = NoRequest
  /\ Goto(r, "add_device")
  /\ UNCHANGED <<devices, sessions, host, pin, database, drawn, pins, restarts, history>>

AddDevice(r) ==
  /\ At(r, "add_device")
  /\ devices' = devices \cup {req[r].dev}
  /\ Goto(r, "add_session")
  /\ UNCHANGED <<sessions, host, pin, pinHash, database, hostLock, drawn, pins, restarts, history>>

\* The session, and the answer that gives the client its token.
AddSession(r) ==
  /\ At(r, "add_session")
  /\ sessions' = sessions \cup {req[r].dev}
  /\ joined' = joined \cup {[dev |-> req[r].dev, pin |-> req[r].pin]}
  /\ Finish(r)
  /\ UNCHANGED <<devices, host, pin, pinHash, database, hostLock, drawn, pins, restarts,
                 leaving, removed>>

(***************************************************************************)
(* remove_device, reset_host_identity, reset_desktop_data                  *)
(***************************************************************************)
\* The token of a device that was given one is looked up.  A guest may remove itself, the host
\* anyone; a reset of the host is about the requester, a full reset is the
\* host's.  Each then awaits before it looks at the host again.
Authenticate(r) ==
  /\ At(r, "idle")
  /\ HostFree
  /\ \E d \in devices, leaver \in devices, op \in Calls \ {"register"} :
       /\ Joined(d) /\ Authenticates(d)
       /\ op = "remove" => d \in {host, leaver}
       /\ op = "reset_host" => leaver = d
       /\ op = "reset_all" => leaver = d /\ d = host
       /\ req' = [req EXCEPT ![r] =
            [Idle EXCEPT !.op = op, !.dev = leaver,
               !.pc = IF op = "reset_all" THEN "wipe_rows" ELSE "check"]]
  /\ UNCHANGED <<memory, database, hostLock, drawn, pins, restarts, history>>

\* Mutant of MayLeave: the host may be removed like anyone else.
AnyoneMayLeave(r) == req[r].op = "reset_host" => host = req[r].dev

\* The host cannot be removed, and resets nobody but itself.
MayLeave(r) == (host = req[r].dev) <=> (req[r].op = "reset_host")

CheckHost(r) ==
  /\ At(r, "check")
  /\ HostFree
  /\ IF MayLeave(r)
       THEN Goto(r, "delete_row") /\ leaving' = leaving \cup {req[r].dev}
       ELSE Finish(r) /\ UNCHANGED leaving
  /\ UNCHANGED <<memory, database, hostLock, drawn, pins, restarts, joined, removed>>

\* Mutant of DeleteDeviceRow: a database error is logged and the removal goes on.
DeleteDeviceRowRegardless(r) ==
  /\ At(r, "delete_row")
  /\ \/ deviceRows' = deviceRows \ {req[r].dev}
     \/ "db" \in Faults /\ UNCHANGED deviceRows
  /\ hostRow' = IF req[r].op = "reset_host" THEN NoDevice ELSE hostRow
  /\ Goto(r, IF req[r].op = "reset_host" THEN "vacate" ELSE "forget")
  /\ UNCHANGED <<memory, hostLock, drawn, pins, restarts, history>>

\* db::delete_device, or db::release_host_device, which deletes the host
\* setting whichever device it names.
DeleteDeviceRow(r) ==
  /\ At(r, "delete_row")
  /\ deviceRows' = deviceRows \ {req[r].dev}
  /\ hostRow' = IF req[r].op = "reset_host" THEN NoDevice ELSE hostRow
  /\ Goto(r, IF req[r].op = "reset_host" THEN "vacate" ELSE "forget")
  /\ UNCHANGED <<memory, hostLock, drawn, pins, restarts, history>>

\* *host_device_id.write() = None, whoever is host by now.
VacateHost(r) ==
  /\ At(r, "vacate")
  /\ HostFree
  /\ host' = NoDevice
  /\ Goto(r, "forget")
  /\ UNCHANGED <<devices, sessions, pin, pinHash, database, hostLock, drawn, pins, restarts, history>>

\* A removal that finds the device gone already answers 404.
ForgetDevice(r) ==
  /\ At(r, "forget")
  /\ devices' = devices \ {req[r].dev}
  /\ IF req[r].op = "reset_host" \/ req[r].dev \in devices
       THEN Goto(r, "revoke")
       ELSE Finish(r)
  /\ UNCHANGED <<sessions, host, pin, pinHash, database, hostLock, drawn, pins, restarts, history>>

\* Mutant of RevokeSession: the sessions of all other devices are dropped.
RevokeOtherSessions(r) ==
  /\ At(r, "revoke")
  /\ sessions' = sessions \cap {req[r].dev}
  /\ removed' = removed \cup {req[r].dev}
  /\ Finish(r)
  /\ UNCHANGED <<devices, host, pin, pinHash, database, hostLock, drawn, pins, restarts,
                 joined, leaving>>

RevokeSession(r) ==
  /\ At(r, "revoke")
  /\ sessions' = sessions \ {req[r].dev}
  /\ removed' = removed \cup {req[r].dev}
  /\ Finish(r)
  /\ UNCHANGED <<devices, host, pin, pinHash, database, hostLock, drawn, pins, restarts,
                 joined, leaving>>

\* db::reset_all_data, one transaction, with the hash of a new PIN.
WipeRows(r) ==
  /\ At(r, "wipe_rows")
  /\ deviceRows' = {}
  /\ hostRow' = NoDevice
  /\ pins' = pins + 1
  /\ req' = [req EXCEPT ![r].pc = "clear_devices", ![r].new = pins + 1]
  /\ leaving' = leaving \cup drawn
  /\ UNCHANGED <<memory, hostLock, drawn, restarts, joined, removed>>

ClearDevices(r) ==
  /\ At(r, "clear_devices")
  /\ devices' = {}
  /\ leaving' = leaving \cup drawn
  /\ Goto(r, "clear_sessions")
  /\ UNCHANGED <<sessions, host, pin, pinHash, database, hostLock, drawn, pins, restarts,
                 joined, removed>>

ClearSessions(r) ==
  /\ At(r, "clear_sessions")
  /\ sessions' = {}
  /\ leaving' = leaving \cup drawn
  /\ Goto(r, "clear_host")
  /\ UNCHANGED <<devices, host, pin, pinHash, database, hostLock, drawn, pins, restarts,
                 joined, removed>>

ClearHost(r) ==
  /\ At(r, "clear_host")
  /\ HostFree
  /\ host' = NoDevice
  /\ Goto(r, "clear_pin")
  /\ UNCHANGED <<devices, sessions, pin, pinHash, database, hostLock, drawn, pins, restarts, history>>

ClearPin(r) ==
  /\ At(r, "clear_pin")
  /\ pin' = req[r].new
  /\ Goto(r, "clear_hash")
  /\ UNCHANGED <<devices, sessions, host, pinHash, database, hostLock, drawn, pins, restarts, history>>

ClearHash(r) ==
  /\ At(r, "clear_hash")
  /\ pinHash' = req[r].new
  /\ Finish(r)
  /\ UNCHANGED <<devices, sessions, host, pin, database, hostLock, drawn, pins, restarts, history>>

(***************************************************************************)
(* Failures                                                                *)
(***************************************************************************)
\* Mutant of ReleaseHost: the guard outlives the handler.
KeepHost(r) == hostLock' = IF hostLock = r THEN r ELSE hostLock

ReleaseHost(r) == hostLock' = IF hostLock = r THEN NoRequest ELSE hostLock

\* The handler's database call fails and it returns 500 where it stands; a
\* registration leaves the row it has inserted.
DatabaseFails(r) ==
  /\ "db" \in Faults
  /\ req[r].pc \in {"insert", "set_host", "set_pin", "delete_row", "wipe_rows"}
  /\ ReleaseHost(r)
  /\ Finish(r)
  /\ UNCHANGED <<memory, database, drawn, pins, restarts, history>>

\* The client goes away and hyper drops the handler's future at an await.
\* Nobody holds join_pin or join_pin_hash for longer than a copy takes, so a
\* handler is not suspended between the two.
Disconnect(r) ==
  /\ req[r].op \in Dropped
  /\ req[r].pc \notin {"idle", "rotate_hash", "clear_hash"}
  /\ ReleaseHost(r)
  /\ Finish(r)
  /\ UNCHANGED <<memory, database, drawn, pins, restarts, history>>

\* The process ends, at any point, and starts again on the same database,
\* with a PIN of its own and perhaps with DROP_DEN_RESET_HOST set.
Restart ==
  /\ "crash" \in Faults
  /\ restarts < MaxRestarts
  /\ restarts' = restarts + 1
  /\ pins' = pins + 1
  /\ pin' = pins + 1
  /\ pinHash' = pins + 1
  /\ \E kept \in {hostRow, NoDevice} : hostRow' = kept /\ host' = kept
  /\ devices' = deviceRows
  /\ sessions' = deviceRows
  /\ hostLock' = NoRequest
  /\ req' = [r \in Requests |-> Idle]
  /\ UNCHANGED <<deviceRows, drawn, history>>

(***************************************************************************)
(* The specification                                                       *)
(***************************************************************************)
\* The steps a handler takes by itself once it has started.
Proceed(r) ==
  \/ InsertDevice(r) \/ SetHostRow(r) \/ TakeHost(r)
  \/ SaveNewPin(r) \/ RotatePin(r) \/ RotateHash(r) \/ AddDevice(r) \/ AddSession(r)
  \/ CheckHost(r) \/ DeleteDeviceRow(r) \/ VacateHost(r)
  \/ ForgetDevice(r) \/ RevokeSession(r)
  \/ WipeRows(r) \/ ClearDevices(r) \/ ClearSessions(r) \/ ClearHost(r)
  \/ ClearPin(r) \/ ClearHash(r)

Serve(r) ==
  \/ BeginRegister(r) \/ Authenticate(r) \/ Proceed(r)
  \/ DatabaseFails(r) \/ Disconnect(r)

Next == (\E r \in Requests : Serve(r)) \/ Restart

Spec == Init /\ [][Next]_vars

\* A handler that has started keeps running; a pending writer of
\* host_device_id gets its turn (tokio's RwLock is fair, and registrations
\* come to an end).
FairSpec == Spec /\ \A r \in Requests : WF_vars(Proceed(r))

(***************************************************************************)
(* Properties                                                              *)
(***************************************************************************)
\* A PIN lets in at most one device, however many guests send it at once:
\* register_device rotates it before it lets go of the host lock.
OneGuestPerPin ==
  \A i, j \in joined : i.pin = j.pin /\ i.pin # NoPin => i = j

\* A device whose removal was acknowledged is never listed again, has no row
\* for a restart to load, and nobody gets through with its token.
RemovalIsPermanent ==
  \A d \in removed : d \notin devices \cup deviceRows

\* A device that got its token keeps access, restarts included, until its
\* removal or a reset is let through: no failure of another request takes it away.
MembersStay ==
  \A d \in Devices \ leaving :
    Joined(d) => Authenticates(d) /\ d \in deviceRows

AtRest == \A r \in Requests : At(r, "idle")

\* When no handler runs, the PIN on the host's screen is the one that admits.
PinShownAdmits == AtRest => pin = pinHash

\* When no handler runs, the host is a device that can be authenticated.
HostCanAct == AtRest /\ host # NoDevice => Authenticates(host)

\* When no handler runs, whoever is listed can use its token and has a
\* row, and the host is the one a restart would restore.
MembersAreWhole ==
  AtRest => host = hostRow /\ devices \subseteq sessions \cap deviceRows

\* Every handler ends: none waits for a host lock that is never released.
RequestsFinish == \A r \in Requests : ~At(r, "idle") ~> At(r, "idle")
=============================================================================
