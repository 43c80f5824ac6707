------------------------ MODULE DeviceRegistry_proofs ------------------------
(***************************************************************************)
(* Proofs about DeviceRegistry for any number of devices, concurrent       *)
(* requests and restarts, any calls, any faults and any handlers dropped.  *)
(***************************************************************************)
EXTENDS DeviceRegistry, TLAPS

USE RegistryAssumption DEF RegistryAssumption

(***************************************************************************)
(* The inductive invariant                                                 *)
(***************************************************************************)
\* Where a handler has drawn a PIN that is not yet compared with.
Rotating == {"rotate", "rotate_hash", "clear_devices", "clear_sessions", "clear_host",
             "clear_pin", "clear_hash"}

\* PINs are numbered in the order in which they are drawn.
SlotsOK ==
  /\ req \in [Requests -> RequestStates]
  /\ \A r \in Requests :
       /\ WellPlaced(req[r])
       /\ req[r].pin <= pins /\ req[r].new <= pins
       /\ req[r].pc \in Rotating => req[r].new \in Pins
       /\ req[r].op # "register" => req[r].pin = NoPin
  /\ pins \in Pins

StateOK ==
  /\ devices \subseteq Devices /\ sessions \subseteq Devices
  /\ deviceRows \subseteq Devices /\ drawn \subseteq Devices
  /\ host \in MaybeDevice /\ hostRow \in MaybeDevice
  /\ hostLock \in Requests \cup {NoRequest}
  /\ pin \in 1..pins /\ pinHash \in 1..pins
  /\ restarts \in 0..MaxRestarts
  /\ joined \subseteq [dev : Devices, pin : 0..pins]
  /\ leaving \cup removed \subseteq Devices

\* A registration holds the host lock until it has rotated the PIN.
LockOK == \A r \in Requests : req[r].pc \in Registering => hostLock = r

\* A PIN that has let a device in: it is the PIN of no other, it is not compared
\* with any more once its registration has let go of the lock, and no handler is
\* about to bring it back.
PinsOK ==
  /\ \A r \in Requests : req[r].pc \in {"set_host", "take_host"} => req[r].pin = NoPin
  /\ \A r, s \in Requests :
       r # s /\ req[r].pin # NoPin => req[r].pin # req[s].pin
  /\ \A r \in Requests, j \in joined : req[r].pin # NoPin => req[r].pin # j.pin
  /\ OneGuestPerPin
  /\ \A r \in Requests : req[r].pc \in Listing => req[r].pin # pinHash
  /\ \A j \in joined : j.pin # pinHash
  /\ \A r \in Requests : req[r].pc \in Rotating =>
       /\ req[r].new # pinHash
       /\ \A s \in Requests : s # r /\ req[s].pc \in Rotating => req[s].new # req[r].new
       /\ \A s \in Requests : req[s].pin # req[r].new
       /\ \A j \in joined : j.pin # req[r].new

\* A registration's device is nobody's until it is listed.
Unlisted == Registering \cup {"add_device"}

DrawnOK ==
  /\ devices \cup deviceRows \cup removed \subseteq drawn
  /\ \A j \in joined : j.dev \in drawn
  /\ \A r \in Requests : req[r].pc # "idle" => req[r].dev \in drawn
  /\ \A r \in Requests : req[r].pc \in Unlisted =>
       /\ req[r].dev \notin devices \cup removed
       /\ ~Joined(req[r].dev)
       /\ \A s \in Requests : s # r /\ req[s].pc # "idle" => req[s].dev # req[r].dev

\* A removal takes the row, then the entry.
RemovalOK ==
  /\ RemovalIsPermanent
  /\ \A r \in Requests :
       /\ req[r].pc \in {"vacate", "forget", "revoke"} => req[r].dev \notin deviceRows
       /\ req[r].pc = "revoke" => req[r].dev \notin devices

\* Where a registration has written its row, and where it has listed its device;
\* and whoever loses one of them is leaving.
MembersOK ==
  /\ MembersStay
  /\ \A r \in Requests :
       /\ req[r].op = "register" /\ req[r].pc # "insert" /\ req[r].dev \notin leaving =>
            req[r].dev \in deviceRows
       /\ req[r].pc = "add_session" /\ req[r].dev \notin leaving => req[r].dev \in devices
       /\ req[r].pc \in Leaving \ {"check"} => req[r].dev \in leaving

RegistryInv ==
  SlotsOK /\ StateOK /\ LockOK /\ PinsOK /\ DrawnOK /\ RemovalOK /\ MembersOK

(***************************************************************************)
(* What a step does to the request slots                                   *)
(***************************************************************************)
OthersKeep(r) == \A s \in Requests : s # r => req'[s] = req[s]

Moved(r, pc) ==
  /\ OthersKeep(r)
  /\ req'[r].pc = pc /\ req'[r].op = req[r].op /\ req'[r].dev = req[r].dev
  /\ req'[r].pin = req[r].pin /\ req'[r].new = req[r].new

Ended(r) == OthersKeep(r) /\ req'[r] = Idle

LEMMA IdleFacts ==
  /\ Idle \in RequestStates /\ WellPlaced(Idle)
  /\ Idle.op = "none" /\ Idle.pc = "idle" /\ Idle.pin = NoPin /\ Idle.new = NoPin
BY DEF Idle, RequestStates, WellPlaced, Handlers, Points, MaybeDevice, NoPin, Registering,
       Listing, Leaving, Resetting

LEMMA SlotStep ==
  ASSUME SlotsOK, NEW r \in Requests, NEW q \in RequestStates, WellPlaced(q),
         req' = [req EXCEPT ![r] = q], pins' \in Pins, pins <= pins',
         q.pin <= pins', q.new <= pins', q.pc \in Rotating => q.new \in Pins,
         q.op # "register" => q.pin = NoPin
  PROVE  SlotsOK' /\ OthersKeep(r) /\ req'[r] = q
<1>1. req' \in [Requests -> RequestStates] /\ req'[r] = q /\ OthersKeep(r)
  BY DEF SlotsOK, OthersKeep
<1>2. \A s \in Requests : req[s].pin \in Nat /\ req[s].new \in Nat
  BY DEF SlotsOK, RequestStates
<1>3. pins \in Nat /\ pins' \in Nat
  BY DEF SlotsOK, Pins
<1>4. ASSUME NEW s \in Requests
      PROVE  /\ WellPlaced(req'[s])
             /\ req'[s].pin <= pins' /\ req'[s].new <= pins'
             /\ req'[s].pc \in Rotating => req'[s].new \in Pins
             /\ req'[s].op # "register" => req'[s].pin = NoPin
  <2>1. CASE s = r
    BY <1>1, <2>1
  <2>2. CASE s # r
    BY <1>1, <1>2, <1>3, <2>2 DEF OthersKeep, SlotsOK
  <2> QED BY <2>1, <2>2
<1> QED BY <1>1, <1>4 DEF SlotsOK, WellPlaced

LEMMA GotoStep ==
  ASSUME SlotsOK, NEW r \in Requests, NEW pc \in Points, Goto(r, pc), UNCHANGED pins,
         WellPlaced([req[r] EXCEPT !.pc = pc]), pc \in Rotating => req[r].new \in Pins
  PROVE  SlotsOK' /\ Moved(r, pc)
<1>1. req[r] \in RequestStates
  BY DEF SlotsOK
<1>2. PICK q : q = [req[r] EXCEPT !.pc = pc]
  OBVIOUS
<1>3. /\ q \in RequestStates /\ q.pc = pc /\ q.op = req[r].op /\ q.dev = req[r].dev
      /\ q.pin = req[r].pin /\ q.new = req[r].new
  BY <1>1, <1>2 DEF RequestStates
<1>4. req' = [req EXCEPT ![r] = q]
  BY <1>2 DEF Goto, SlotsOK
<1>5. SlotsOK' /\ OthersKeep(r) /\ req'[r] = q
  <2>1. pins \in Nat /\ pins <= pins'
    BY DEF SlotsOK, Pins
  <2> QED BY <1>2, <1>3, <1>4, <2>1, SlotStep DEF SlotsOK
<1> QED BY <1>3, <1>5 DEF Moved

LEMMA FinishStep ==
  ASSUME SlotsOK, NEW r \in Requests, Finish(r), UNCHANGED pins
  PROVE  SlotsOK' /\ Ended(r)
<1>1. pins \in Nat /\ pins <= pins' /\ NoPin <= pins'
  BY DEF SlotsOK, Pins, NoPin
<1>2. Idle.pc \notin Rotating
  BY IdleFacts DEF Rotating
<1> QED BY <1>1, <1>2, IdleFacts, SlotStep DEF Finish, Ended, SlotsOK

\* Which handlers can be at a step, and where a handler may go on.
LEMMA Placement ==
  ASSUME NEW q \in RequestStates, WellPlaced(q)
  PROVE  /\ q.pc \in Registering \cup Listing <=> q.op = "register"
         /\ q.pc \in Leaving <=> q.op \in {"remove", "reset_host"}
         /\ q.pc \in Resetting <=> q.op = "reset_all"
         /\ q.pc = "idle" <=> q.op = "none"
         /\ q.pc # "idle" => q.dev \in Devices
<1>1. q.op \in Handlers \cup {"none"} /\ q.pc \in Points
  BY DEF RequestStates
<1> QED BY <1>1 DEF WellPlaced, Handlers, Points, Registering, Listing, Leaving, Resetting

\* A slot may move on to pc.
MayMove(q, pc) == pc \in Points /\ WellPlaced([q EXCEPT !.pc = pc])

LEMMA Moves ==
  ASSUME NEW q \in RequestStates, WellPlaced(q)
  PROVE  /\ q.pc = "insert" => MayMove(q, "set_host") /\ MayMove(q, "set_pin")
         /\ q.pc = "set_host" => MayMove(q, "take_host")
         /\ q.pc = "take_host" => MayMove(q, "add_device")
         /\ q.pc = "rotate" => MayMove(q, "rotate_hash")
         /\ q.pc = "rotate_hash" => MayMove(q, "add_device")
         /\ q.pc = "add_device" => MayMove(q, "add_session")
         /\ q.pc = "check" => MayMove(q, "delete_row")
         /\ q.pc = "delete_row" => MayMove(q, "vacate") /\ MayMove(q, "forget")
         /\ q.pc = "vacate" => MayMove(q, "forget")
         /\ q.pc = "forget" => MayMove(q, "revoke")
         /\ q.pc = "clear_devices" => MayMove(q, "clear_sessions")
         /\ q.pc = "clear_sessions" => MayMove(q, "clear_host")
         /\ q.pc = "clear_host" /\ q.new \in Pins => MayMove(q, "clear_pin")
         /\ q.pc = "clear_pin" => MayMove(q, "clear_hash")
<1>1. \A pc \in Points : LET p == [q EXCEPT !.pc = pc] IN
        p.pc = pc /\ p.op = q.op /\ p.dev = q.dev /\ p.new = q.new
  BY DEF RequestStates
<1>2. q.op \in Handlers \cup {"none"}
  BY DEF RequestStates
<1> QED BY <1>1, <1>2 DEF MayMove, WellPlaced, Handlers, Points, Registering, Listing, Leaving, Resetting

LEMMA GotoMoves ==
  ASSUME SlotsOK, NEW r \in Requests, NEW pc, Goto(r, pc), MayMove(req[r], pc), UNCHANGED pins,
         pc \in Rotating => req[r].pc \in Rotating
  PROVE  SlotsOK' /\ Moved(r, pc)
BY GotoStep DEF MayMove, SlotsOK

\* The steps by which a handler goes on.
LEMMA StepShapes ==
  ASSUME SlotsOK, NEW r \in Requests
  PROVE  /\ InsertDevice(r) => SlotsOK' /\ (Moved(r, "set_host") \/ Moved(r, "set_pin"))
         /\ SetHostRow(r) => SlotsOK' /\ Moved(r, "take_host")
         /\ TakeHost(r) => SlotsOK' /\ Moved(r, "add_device")
         /\ RotatePin(r) => SlotsOK' /\ Moved(r, "rotate_hash")
         /\ RotateHash(r) => SlotsOK' /\ Moved(r, "add_device")
         /\ AddDevice(r) => SlotsOK' /\ Moved(r, "add_session")
         /\ CheckHost(r) => SlotsOK' /\ (Moved(r, "delete_row") \/ Ended(r))
         /\ DeleteDeviceRow(r) => SlotsOK' /\ (Moved(r, "vacate") \/ Moved(r, "forget"))
         /\ VacateHost(r) => SlotsOK' /\ Moved(r, "forget")
         /\ ForgetDevice(r) => SlotsOK' /\ (Moved(r, "revoke") \/ Ended(r))
         /\ ClearDevices(r) => SlotsOK' /\ Moved(r, "clear_sessions")
         /\ ClearSessions(r) => SlotsOK' /\ Moved(r, "clear_host")
         /\ ClearHost(r) => SlotsOK' /\ Moved(r, "clear_pin")
         /\ ClearPin(r) => SlotsOK' /\ Moved(r, "clear_hash")
<1>1. req[r] \in RequestStates /\ WellPlaced(req[r])
      /\ (req[r].pc \in Rotating => req[r].new \in Pins)
  BY DEF SlotsOK
<1>2. InsertDevice(r) => SlotsOK' /\ (Moved(r, "set_host") \/ Moved(r, "set_pin"))
  BY <1>1, Moves, GotoMoves DEF InsertDevice, At, Rotating
<1>3. SetHostRow(r) => SlotsOK' /\ Moved(r, "take_host")
  BY <1>1, Moves, GotoMoves DEF SetHostRow, At, Rotating
<1>4. TakeHost(r) => SlotsOK' /\ Moved(r, "add_device")
  BY <1>1, Moves, GotoMoves DEF TakeHost, At, Rotating
<1>5. RotatePin(r) => SlotsOK' /\ Moved(r, "rotate_hash")
  BY <1>1, Moves, GotoMoves DEF RotatePin, At, Rotating
<1>6. RotateHash(r) => SlotsOK' /\ Moved(r, "add_device")
  BY <1>1, Moves, GotoMoves DEF RotateHash, At, Rotating
<1>7. AddDevice(r) => SlotsOK' /\ Moved(r, "add_session")
  BY <1>1, Moves, GotoMoves DEF AddDevice, At, Rotating
<1>8. CheckHost(r) => SlotsOK' /\ (Moved(r, "delete_row") \/ Ended(r))
  BY <1>1, Moves, GotoMoves, FinishStep DEF CheckHost, At, Rotating
<1>9. DeleteDeviceRow(r) => SlotsOK' /\ (Moved(r, "vacate") \/ Moved(r, "forget"))
  BY <1>1, Moves, GotoMoves DEF DeleteDeviceRow, At, Rotating
<1>10. VacateHost(r) => SlotsOK' /\ Moved(r, "forget")
  BY <1>1, Moves, GotoMoves DEF VacateHost, At, Rotating
<1>11. ForgetDevice(r) => SlotsOK' /\ (Moved(r, "revoke") \/ Ended(r))
  BY <1>1, Moves, GotoMoves, FinishStep DEF ForgetDevice, At, Rotating
<1>12. ClearDevices(r) => SlotsOK' /\ Moved(r, "clear_sessions")
  BY <1>1, Moves, GotoMoves DEF ClearDevices, At, Rotating
<1>13. ClearSessions(r) => SlotsOK' /\ Moved(r, "clear_host")
  BY <1>1, Moves, GotoMoves DEF ClearSessions, At, Rotating
<1>14. ClearHost(r) => SlotsOK' /\ Moved(r, "clear_pin")
  BY <1>1, Moves, GotoMoves DEF ClearHost, At, Rotating
<1>15. ClearPin(r) => SlotsOK' /\ Moved(r, "clear_hash")
  BY <1>1, Moves, GotoMoves DEF ClearPin, At, Rotating
<1> QED BY <1>2, <1>3, <1>4, <1>5, <1>6, <1>7, <1>8, <1>9, <1>10, <1>11, <1>12, <1>13, <1>14, <1>15

\* The steps by which a handler ends.
LEMMA EndShapes ==
  ASSUME SlotsOK, NEW r \in Requests,
         \/ AddSession(r) \/ RevokeSession(r) \/ ClearHash(r)
         \/ DatabaseFails(r) \/ Disconnect(r)
  PROVE  SlotsOK' /\ Ended(r)
BY FinishStep DEF AddSession, RevokeSession, ClearHash, DatabaseFails, Disconnect

\* A slot in which a PIN is drawn.
Drew(r, pc) ==
  /\ OthersKeep(r)
  /\ req'[r].pc = pc /\ req'[r].op = req[r].op /\ req'[r].dev = req[r].dev
  /\ req'[r].pin = req[r].pin /\ req'[r].new = pins + 1
  /\ pins' = pins + 1

LEMMA DrawStep ==
  ASSUME SlotsOK, NEW r \in Requests, NEW pc \in Points, pins' = pins + 1,
         req' = [req EXCEPT ![r].pc = pc, ![r].new = pins + 1],
         \/ req[r].pc = "set_pin" /\ pc = "rotate"
         \/ req[r].pc = "wipe_rows" /\ pc = "clear_devices"
  PROVE  SlotsOK' /\ Drew(r, pc)
<1>1. /\ req[r] \in RequestStates /\ WellPlaced(req[r])
      /\ pins \in Nat /\ pins' \in Pins /\ pins + 1 \in Nat
  BY DEF SlotsOK, Pins, NoPin
<1>2. PICK q : q = [req[r] EXCEPT !.pc = pc, !.new = pins + 1]
  OBVIOUS
<1>3. /\ q \in RequestStates /\ q.pc = pc /\ q.op = req[r].op /\ q.dev = req[r].dev
      /\ q.pin = req[r].pin /\ q.new = pins + 1
  BY <1>1, <1>2 DEF RequestStates
<1>4. WellPlaced(q)
  BY <1>1, <1>3 DEF WellPlaced, Registering, Listing, Leaving, Resetting, Pins, NoPin
<1>5. req' = [req EXCEPT ![r] = q]
  BY <1>2 DEF SlotsOK
<1>6. pins <= pins' /\ q.pin <= pins' /\ q.new <= pins' /\ q.new \in Pins
      /\ (q.op # "register" => q.pin = NoPin)
  <2>1. req[r].pin \in Nat /\ req[r].pin <= pins /\ (q.op # "register" => req[r].pin = NoPin)
    BY <1>1, <1>3 DEF SlotsOK, RequestStates
  <2> QED BY <1>1, <1>3, <2>1 DEF Pins, NoPin
<1> QED BY <1>1, <1>3, <1>4, <1>5, <1>6, SlotStep DEF Drew

LEMMA DrawShapes ==
  ASSUME SlotsOK, NEW r \in Requests
  PROVE  /\ SaveNewPin(r) => SlotsOK' /\ Drew(r, "rotate")
         /\ WipeRows(r) => SlotsOK' /\ Drew(r, "clear_devices")
BY DrawStep DEF SaveNewPin, WipeRows, At, Points, Registering, Resetting

\* A slot that is taken.
Began(r, op, pc, d, p) ==
  /\ OthersKeep(r)
  /\ req'[r].op = op /\ req'[r].pc = pc /\ req'[r].dev = d /\ req'[r].pin = p

LEMMA BeginStep ==
  ASSUME SlotsOK, NEW r \in Requests, UNCHANGED pins,
         NEW op \in Handlers, NEW pc \in Points, NEW d \in Devices, NEW p \in 0..pins,
         \/ op = "register" /\ pc = "insert"
         \/ op \in {"remove", "reset_host"} /\ pc = "check" /\ p = NoPin
         \/ op = "reset_all" /\ pc = "wipe_rows" /\ p = NoPin,
         req' = [req EXCEPT ![r] = [Idle EXCEPT !.op = op, !.pc = pc, !.dev = d, !.pin = p]]
  PROVE  SlotsOK' /\ Began(r, op, pc, d, p)
<1>1. PICK q : q = [Idle EXCEPT !.op = op, !.pc = pc, !.dev = d, !.pin = p]
  OBVIOUS
<1>2. /\ q \in RequestStates /\ q.pc = pc /\ q.op = op /\ q.dev = d
      /\ q.pin = p /\ q.new = NoPin
  <2>1. pins \in Nat /\ p \in Nat /\ NoPin \in Nat
    BY DEF SlotsOK, Pins, NoPin
  <2>2. q = [op |-> op, pc |-> pc, dev |-> d, pin |-> p, new |-> NoPin]
    BY <1>1 DEF Idle
  <2> QED BY <2>1, <2>2 DEF RequestStates, MaybeDevice
<1>3. WellPlaced(q)
  BY <1>2 DEF WellPlaced, Registering, Listing, Leaving, Resetting
<1>4. pins \in Pins /\ pins <= pins' /\ q.pin <= pins' /\ q.new <= pins'
  BY <1>2 DEF SlotsOK, Pins, NoPin
<1>5. q.pc \notin Rotating /\ (q.op # "register" => q.pin = NoPin)
  BY <1>2 DEF Rotating
<1> QED BY <1>1, <1>2, <1>3, <1>4, <1>5, SlotStep DEF Began

LEMMA BeginRegisterShape ==
  ASSUME SlotsOK, StateOK, NEW r \in Requests, BeginRegister(r)
  PROVE  /\ SlotsOK' /\ drawn \subseteq drawn' /\ drawn' \subseteq Devices
         /\ \E d \in Devices \ drawn :
              /\ Began(r, "register", "insert", d, IF host = NoDevice THEN NoPin ELSE pinHash)
              /\ d \in drawn'
<1>1. PICK d \in Devices \ drawn :
        /\ drawn' = drawn \cup {d}
        /\ req' = [req EXCEPT ![r] =
             [Idle EXCEPT !.op = "register", !.pc = "insert", !.dev = d,
                !.pin = IF host = NoDevice THEN NoPin ELSE pinHash]]
  BY DEF BeginRegister
<1>2. PICK p : p = IF host = NoDevice THEN NoPin ELSE pinHash
  OBVIOUS
<1>3. p \in 0..pins
  BY <1>2 DEF StateOK, NoPin, SlotsOK, Pins
<1>4. SlotsOK' /\ Began(r, "register", "insert", d, p)
  <2>1. UNCHANGED pins /\ "register" \in Handlers /\ "insert" \in Points
    BY DEF BeginRegister, Handlers, Points, Registering
  <2>2. req' = [req EXCEPT ![r] =
          [Idle EXCEPT !.op = "register", !.pc = "insert", !.dev = d, !.pin = p]]
    BY <1>1, <1>2
  <2> QED BY <1>3, <2>1, <2>2, BeginStep
<1> QED BY <1>1, <1>2, <1>4 DEF StateOK

LEMMA IdleExcept ==
  ASSUME NEW op \in Handlers, NEW pc \in Points, NEW d \in Devices
  PROVE  [Idle EXCEPT !.op = op, !.dev = d, !.pc = pc]
           = [Idle EXCEPT !.op = op, !.pc = pc, !.dev = d, !.pin = NoPin]
<1>1. PICK q : q = [Idle EXCEPT !.op = op, !.dev = d, !.pc = pc]
  OBVIOUS
<1>2. PICK p : p = [Idle EXCEPT !.op = op, !.pc = pc, !.dev = d, !.pin = NoPin]
  OBVIOUS
<1>3. q = [op |-> op, pc |-> pc, dev |-> d, pin |-> NoPin, new |-> NoPin]
  BY <1>1 DEF Idle
<1>4. p = [op |-> op, pc |-> pc, dev |-> d, pin |-> NoPin, new |-> NoPin]
  BY <1>2 DEF Idle
<1> QED BY <1>1, <1>2, <1>3, <1>4

LEMMA AuthenticateShape ==
  ASSUME SlotsOK, StateOK, NEW r \in Requests, Authenticate(r)
  PROVE  /\ SlotsOK'
         /\ \E d \in devices, op \in Handlers \ {"register"}, pc \in {"check", "wipe_rows"} :
              /\ Began(r, op, pc, d, NoPin)
              /\ pc = "check" <=> op # "reset_all"
<1>1. PICK d \in devices, op \in Calls \ {"register"} :
        req' = [req EXCEPT ![r] =
            [Idle EXCEPT !.op = op, !.dev = d,
               !.pc = IF op = "reset_all" THEN "wipe_rows" ELSE "check"]]
  BY DEF Authenticate
<1>2. PICK pc \in {"check", "wipe_rows"} : pc = IF op = "reset_all" THEN "wipe_rows" ELSE "check"
  OBVIOUS
<1>3. UNCHANGED pins /\ op \in Handlers /\ pc \in Points /\ d \in Devices /\ NoPin \in 0..pins
  BY <1>2 DEF Authenticate, Points, Leaving, Resetting, StateOK, NoPin, SlotsOK, Pins
<1>4. req' = [req EXCEPT ![r] = [Idle EXCEPT !.op = op, !.pc = pc, !.dev = d, !.pin = NoPin]]
  <2>1. [Idle EXCEPT !.op = op, !.dev = d, !.pc = pc]
          = [Idle EXCEPT !.op = op, !.pc = pc, !.dev = d, !.pin = NoPin]
    BY <1>3, IdleExcept
  <2> QED BY <1>1, <1>2, <2>1
<1>5. SlotsOK' /\ Began(r, op, pc, d, NoPin)
  <2>1. \/ op \in {"remove", "reset_host"} /\ pc = "check"
        \/ op = "reset_all" /\ pc = "wipe_rows"
    BY <1>1, <1>2, <1>3 DEF Handlers
  <2> QED BY <1>3, <1>4, <2>1, BeginStep
<1> QED BY <1>1, <1>2, <1>3, <1>5

LEMMA RestartShape ==
  ASSUME SlotsOK, Restart
  PROVE  SlotsOK' /\ pins' = pins + 1 /\ \A r \in Requests : req'[r] = Idle
<1>1. \A r \in Requests : req'[r] = Idle
  BY DEF Restart
<1>2. pins \in Nat /\ pins' = pins + 1 /\ pins' \in Pins
  BY DEF SlotsOK, Restart, Pins, NoPin
<1>3. NoPin <= pins' /\ Idle.pc \notin Rotating
  BY <1>2, IdleFacts DEF Rotating, Pins, NoPin
<1>4. req' \in [Requests -> RequestStates]
  BY IdleFacts DEF Restart
<1> QED BY <1>1, <1>2, <1>3, <1>4, IdleFacts DEF SlotsOK, WellPlaced

(***************************************************************************)
(* PinsOK                                                                  *)
(***************************************************************************)
LEMMA PinsKept ==
  ASSUME SlotsOK, PinsOK, NEW r \in Requests, OthersKeep(r), UNCHANGED <<pinHash, joined>>,
         req'[r].pin \in {req[r].pin, NoPin},
         req'[r].pc \in Listing => req'[r].pin # pinHash,
         req'[r].pc \in {"set_host", "take_host"} => req'[r].pin = NoPin,
         req'[r].pc \in Rotating =>
           req[r].pc \in Rotating /\ req'[r].new = req[r].new
  PROVE  PinsOK'
<1>1. \A s \in Requests :
        /\ req'[s].pin \in {req[s].pin, NoPin}
        /\ req'[s].pc \in Listing => req'[s].pin # pinHash
        /\ req'[s].pc \in {"set_host", "take_host"} => req'[s].pin = NoPin
        /\ req'[s].pc \in Rotating =>
             req[s].pc \in Rotating /\ req'[s].new = req[s].new /\ req[s].new # NoPin
  BY DEF PinsOK, OthersKeep, SlotsOK, Pins
<1>2. \A t, s \in Requests : t # s /\ req'[t].pin # NoPin => req'[t].pin # req'[s].pin
  BY <1>1 DEF PinsOK
<1>3. \A s \in Requests, j \in joined' : req'[s].pin # NoPin => req'[s].pin # j.pin
  BY <1>1 DEF PinsOK
<1>4. \A s \in Requests : req'[s].pc \in Rotating =>
        /\ req'[s].new # pinHash'
        /\ \A t \in Requests : t # s /\ req'[t].pc \in Rotating => req'[t].new # req'[s].new
        /\ \A t \in Requests : req'[t].pin # req'[s].new
        /\ \A j \in joined' : j.pin # req'[s].new
  BY <1>1 DEF PinsOK
<1> QED BY <1>1, <1>2, <1>3, <1>4 DEF PinsOK, OneGuestPerPin

\* A registration's own PIN is drawn before it is let in, so a PIN just drawn is new.
LEMMA PinsDrawn ==
  ASSUME SlotsOK, StateOK, PinsOK, NEW r \in Requests, NEW pc \in {"rotate", "clear_devices"},
         Drew(r, pc), UNCHANGED <<pinHash, joined>>
  PROVE  PinsOK'
<1>1. /\ pins \in Nat /\ req'[r].new = pins + 1 /\ pinHash <= pins /\ pinHash \in Nat
      /\ \A s \in Requests : /\ req[s].pin \in Nat /\ req[s].pin <= pins
                             /\ req[s].new \in Nat /\ req[s].new <= pins
      /\ \A j \in joined : j.pin \in Nat /\ j.pin <= pins
  BY DEF SlotsOK, StateOK, RequestStates, Pins, Drew
<1>2. /\ \A s \in Requests : req'[s].pin = req[s].pin
      /\ \A s \in Requests : s # r => req'[s] = req[s]
      /\ req'[r].pc = pc
  BY DEF Drew, OthersKeep
<1>3. \A s \in Requests :
        /\ req'[s].pc \in {"set_host", "take_host"} => req'[s].pin = NoPin
        /\ req'[s].pc \in Listing => req'[s].pin # pinHash
  BY <1>2 DEF PinsOK, Listing
<1>4. \A t, s \in Requests : t # s /\ req'[t].pin # NoPin => req'[t].pin # req'[s].pin
  BY <1>2 DEF PinsOK
<1>5. \A s \in Requests, j \in joined' : req'[s].pin # NoPin => req'[s].pin # j.pin
  BY <1>2 DEF PinsOK
<1>6. ASSUME NEW s \in Requests, req'[s].pc \in Rotating
      PROVE  /\ req'[s].new # pinHash'
             /\ \A t \in Requests : t # s /\ req'[t].pc \in Rotating => req'[t].new # req'[s].new
             /\ \A t \in Requests : req'[t].pin # req'[s].new
             /\ \A j \in joined' : j.pin # req'[s].new
  <2>1. CASE s = r
    <3>1. \A t \in Requests : t # r => req'[t].new <= pins /\ req'[t].new \in Nat
      BY <1>1, <1>2
    <3>2. \A t \in Requests : req'[t].pin <= pins /\ req'[t].pin \in Nat
      BY <1>1, <1>2
    <3> QED BY <1>1, <2>1, <3>1, <3>2
  <2>2. CASE s # r
    <3>1. req'[s] = req[s] /\ req[s].new <= pins /\ req[s].new \in Nat
      BY <1>1, <1>2, <2>2
    <3>2. /\ req'[s].new # pinHash'
          /\ \A t \in Requests : req'[t].pin # req'[s].new
          /\ \A j \in joined' : j.pin # req'[s].new
      BY <1>2, <1>6, <3>1 DEF PinsOK
    <3>3. ASSUME NEW t \in Requests, t # s, req'[t].pc \in Rotating
          PROVE  req'[t].new # req'[s].new
      <4>1. CASE t = r
        BY <1>1, <3>1, <4>1
      <4>2. CASE t # r
        BY <1>2, <1>6, <3>1, <3>3, <4>2 DEF PinsOK
      <4> QED BY <4>1, <4>2
    <3> QED BY <3>2, <3>3
  <2> QED BY <2>1, <2>2
<1> QED BY <1>3, <1>4, <1>5, <1>6 DEF PinsOK, OneGuestPerPin

\* A PIN that is compared with from now on has let nobody in.
LEMMA PinsCompared ==
  ASSUME SlotsOK, StateOK, PinsOK, NEW r \in Requests, OthersKeep(r), UNCHANGED joined,
         req[r].pc \in Rotating, pinHash' = req[r].new,
         req'[r].pin \in {req[r].pin, NoPin}, req'[r].pc \in {"add_device", "idle"}
  PROVE  PinsOK'
<1>1. req[r].new # NoPin
  BY DEF SlotsOK, Pins
<1>2. \A s \in Requests :
        /\ req'[s].pin \in {req[s].pin, NoPin}
        /\ req'[s].pc \in {"set_host", "take_host"} => req'[s].pin = NoPin
        /\ req'[s].pc \in Rotating => s # r /\ req'[s] = req[s] /\ req[s].new # NoPin
  BY DEF PinsOK, OthersKeep, SlotsOK, Pins, Rotating
<1>3. \A s \in Requests : req'[s].pin # pinHash'
  BY <1>1, <1>2 DEF PinsOK
<1>4. \A j \in joined' : j.pin # pinHash'
  BY DEF PinsOK
<1>5. \A t, s \in Requests : t # s /\ req'[t].pin # NoPin => req'[t].pin # req'[s].pin
  BY <1>2 DEF PinsOK
<1>6. \A s \in Requests, j \in joined' : req'[s].pin # NoPin => req'[s].pin # j.pin
  BY <1>2 DEF PinsOK
<1>7. \A s \in Requests : req'[s].pc \in Rotating =>
        /\ req'[s].new # pinHash'
        /\ \A t \in Requests : t # s /\ req'[t].pc \in Rotating => req'[t].new # req'[s].new
        /\ \A t \in Requests : req'[t].pin # req'[s].new
        /\ \A j \in joined' : j.pin # req'[s].new
  BY <1>2 DEF PinsOK
<1> QED BY <1>2, <1>3, <1>4, <1>5, <1>6, <1>7 DEF PinsOK, OneGuestPerPin

\* Whoever is let in sends a PIN that has let in nobody.
LEMMA PinsAdmitted ==
  ASSUME SlotsOK, StateOK, LockOK, PinsOK, NEW r \in Requests, OthersKeep(r),
         UNCHANGED <<pinHash, joined>>, HostFree,
         req'[r].pc = "insert", req'[r].pin \in {NoPin, pinHash}
  PROVE  PinsOK'
<1>1. pinHash # NoPin
  BY DEF StateOK, NoPin
<1>2. \A s \in Requests : req[s].pin # pinHash
  <2> SUFFICES ASSUME NEW s \in Requests PROVE req[s].pin # pinHash
    OBVIOUS
  <2>1. CASE req[s].op # "register"
    BY <1>1, <2>1 DEF SlotsOK
  <2>2. CASE req[s].op = "register"
    <3>1. req[s].pc \in Registering \cup Listing
      BY <2>2 DEF SlotsOK, WellPlaced
    <3>2. req[s].pc \notin Registering
      BY DEF LockOK, HostFree, RegistryAssumption
    <3> QED BY <3>1, <3>2 DEF PinsOK
  <2> QED BY <2>1, <2>2
<1>3. \A s \in Requests :
        /\ s # r => req'[s] = req[s]
        /\ req'[s].pc \in {"set_host", "take_host"} => req'[s].pin = NoPin
        /\ req'[s].pc \in Listing => req'[s].pin # pinHash
        /\ req'[s].pc \in Rotating => s # r /\ req[s].new # NoPin
  BY DEF PinsOK, OthersKeep, SlotsOK, Pins, Rotating, Listing
<1>4. \A t, s \in Requests : t # s /\ req'[t].pin # NoPin => req'[t].pin # req'[s].pin
  BY <1>2, <1>3 DEF PinsOK
<1>5. \A s \in Requests, j \in joined' : req'[s].pin # NoPin => req'[s].pin # j.pin
  BY <1>3 DEF PinsOK
<1>6. \A s \in Requests : req'[s].pc \in Rotating =>
        /\ req'[s].new # pinHash'
        /\ \A t \in Requests : t # s /\ req'[t].pc \in Rotating => req'[t].new # req'[s].new
        /\ \A t \in Requests : req'[t].pin # req'[s].new
        /\ \A j \in joined' : j.pin # req'[s].new
  BY <1>3 DEF PinsOK
<1> QED BY <1>3, <1>4, <1>5, <1>6 DEF PinsOK, OneGuestPerPin

\* The answer to a registration spends the PIN it was let in with.
LEMMA PinsSpent ==
  ASSUME SlotsOK, StateOK, PinsOK, NEW r \in Requests, AddSession(r)
  PROVE  PinsOK'
<1>1. OthersKeep(r) /\ req'[r] = Idle
  BY EndShapes DEF Ended
<1>2. PICK k : k = [dev |-> req[r].dev, pin |-> req[r].pin]
  OBVIOUS
<1>3. /\ k.pin = req[r].pin /\ joined' = joined \cup {k} /\ pinHash' = pinHash
      /\ req[r].pc \in Listing
  BY <1>2 DEF AddSession, At, Listing
<1>4. \A s \in Requests :
        /\ s # r => req'[s] = req[s]
        /\ req'[s].pc \in {"set_host", "take_host"} => req'[s].pin = NoPin
        /\ req'[s].pc \in Listing => req'[s].pin # pinHash
        /\ req'[s].pin \in {req[s].pin, NoPin}
        /\ req'[s].pin # NoPin => s # r
        /\ req'[s].pc \in Rotating => s # r /\ req[s].new # NoPin
  BY <1>1, IdleFacts DEF PinsOK, OthersKeep, SlotsOK, Pins, Rotating, Listing
<1>5. \A t, s \in Requests : t # s /\ req'[t].pin # NoPin => req'[t].pin # req'[s].pin
  BY <1>4 DEF PinsOK
<1>6. \A s \in Requests, j \in joined' : req'[s].pin # NoPin => req'[s].pin # j.pin
  BY <1>3, <1>4 DEF PinsOK
<1>7. \A s \in Requests : req'[s].pc \in Rotating =>
        /\ req'[s].new # pinHash'
        /\ \A t \in Requests : t # s /\ req'[t].pc \in Rotating => req'[t].new # req'[s].new
        /\ \A t \in Requests : req'[t].pin # req'[s].new
        /\ \A j \in joined' : j.pin # req'[s].new
  BY <1>3, <1>4 DEF PinsOK
<1>8. OneGuestPerPin'
  BY <1>3 DEF PinsOK, OneGuestPerPin
<1>9. \A j \in joined' : j.pin # pinHash'
  BY <1>3 DEF PinsOK
<1> QED BY <1>3, <1>4, <1>5, <1>6, <1>7, <1>8, <1>9 DEF PinsOK

\* The steps that neither let anyone in, nor draw a PIN, nor begin to compare with one.
QuietSteps(r) ==
  \/ InsertDevice(r) \/ SetHostRow(r) \/ TakeHost(r) \/ RotatePin(r) \/ AddDevice(r)
  \/ CheckHost(r) \/ DeleteDeviceRow(r) \/ VacateHost(r) \/ ForgetDevice(r) \/ RevokeSession(r)
  \/ ClearDevices(r) \/ ClearSessions(r) \/ ClearHost(r) \/ ClearPin(r)
  \/ DatabaseFails(r) \/ Disconnect(r)

LEMMA QuietShapes ==
  ASSUME SlotsOK, StateOK, PinsOK, NEW r \in Requests, QuietSteps(r)
  PROVE  /\ OthersKeep(r) /\ UNCHANGED <<pinHash, joined>>
         /\ req'[r].pin \in {req[r].pin, NoPin}
         /\ req'[r].pc \in Listing => req'[r].pin # pinHash
         /\ req'[r].pc \in {"set_host", "take_host"} => req'[r].pin = NoPin
         /\ req'[r].pc \in Rotating => req[r].pc \in Rotating /\ req'[r].new = req[r].new
<1>1. CASE InsertDevice(r)
  <2>1. req[r].pin = NoPin \/ Moved(r, "set_pin")
    <3> SUFFICES ASSUME req[r].pin # NoPin PROVE Moved(r, "set_pin")
      OBVIOUS
    <3>1. MayMove(req[r], "set_pin") /\ Goto(r, "set_pin") /\ UNCHANGED pins
      BY <1>1, Moves DEF InsertDevice, At, SlotsOK
    <3> QED BY <3>1, GotoMoves DEF Rotating
  <2> QED
    BY <1>1, <2>1, StepShapes
    DEF InsertDevice, Moved, memory, history, Listing, Rotating
<1>2. CASE TakeHost(r)
  <2>1. req[r].pin = NoPin /\ NoPin # pinHash
    BY <1>2 DEF TakeHost, At, PinsOK, StateOK, NoPin
  <2> QED
    BY <1>2, <2>1, StepShapes DEF TakeHost, Moved, history, Listing, Rotating
<1>3. CASE SetHostRow(r)
  BY <1>3, StepShapes DEF SetHostRow, At, Moved, memory, history, Listing, Rotating, PinsOK
<1>4. CASE RotatePin(r)
  BY <1>4, StepShapes DEF RotatePin, At, Moved, history, Listing, Rotating
<1>5. CASE AddDevice(r)
  BY <1>5, StepShapes DEF AddDevice, At, Moved, history, Listing, Rotating, PinsOK
<1>6. CASE CheckHost(r)
  BY <1>6, StepShapes, IdleFacts DEF CheckHost, Moved, Ended, memory, Listing, Rotating
<1>7. CASE DeleteDeviceRow(r)
  BY <1>7, StepShapes DEF DeleteDeviceRow, Moved, memory, history, Listing, Rotating
<1>8. CASE VacateHost(r)
  BY <1>8, StepShapes DEF VacateHost, Moved, history, Listing, Rotating
<1>9. CASE ForgetDevice(r)
  BY <1>9, StepShapes, IdleFacts DEF ForgetDevice, Moved, Ended, history, Listing, Rotating
<1>10. CASE RevokeSession(r)
  BY <1>10, EndShapes, IdleFacts DEF RevokeSession, Ended, Listing, Rotating
<1>11. CASE ClearDevices(r)
  BY <1>11, StepShapes DEF ClearDevices, At, Moved, Listing, Rotating
<1>12. CASE ClearSessions(r)
  BY <1>12, StepShapes DEF ClearSessions, At, Moved, Listing, Rotating
<1>13. CASE ClearHost(r)
  BY <1>13, StepShapes DEF ClearHost, At, Moved, history, Listing, Rotating
<1>14. CASE ClearPin(r)
  BY <1>14, StepShapes DEF ClearPin, At, Moved, history, Listing, Rotating
<1>15. CASE DatabaseFails(r)
  BY <1>15, EndShapes, IdleFacts DEF DatabaseFails, Ended, memory, history, Listing, Rotating
<1>16. CASE Disconnect(r)
  BY <1>16, EndShapes, IdleFacts DEF Disconnect, Ended, memory, history, Listing, Rotating
<1> QED
  BY <1>1, <1>2, <1>3, <1>4, <1>5, <1>6, <1>7, <1>8, <1>9, <1>10, <1>11, <1>12, <1>13,
     <1>14, <1>15, <1>16 DEF QuietSteps

\* PinsOK is kept by every step of a handler.
LEMMA PinsServed ==
  ASSUME SlotsOK, StateOK, LockOK, PinsOK, NEW r \in Requests, Serve(r)
  PROVE  PinsOK'
<1>1. CASE QuietSteps(r)
  BY <1>1, QuietShapes, PinsKept
<1>2. CASE BeginRegister(r)
  <2>1. PICK d \in Devices \ drawn :
          Began(r, "register", "insert", d, IF host = NoDevice THEN NoPin ELSE pinHash)
    BY <1>2, BeginRegisterShape
  <2>2. UNCHANGED <<pinHash, joined>> /\ HostFree
    BY <1>2 DEF BeginRegister, memory, history
  <2> QED BY <2>1, <2>2, PinsAdmitted DEF Began
<1>3. CASE Authenticate(r)
  <2>1. PICK d \in devices, op \in Handlers \ {"register"}, pc \in {"check", "wipe_rows"} :
          Began(r, op, pc, d, NoPin)
    BY <1>3, AuthenticateShape
  <2>2. UNCHANGED <<pinHash, joined>> /\ pc \notin Listing \cup Rotating \cup {"set_host", "take_host"}
    BY <1>3 DEF Authenticate, memory, history, Listing, Rotating
  <2> QED BY <2>1, <2>2, PinsKept DEF Began
<1>4. CASE SaveNewPin(r)
  BY <1>4, DrawShapes, PinsDrawn DEF SaveNewPin, memory, history
<1>5. CASE WipeRows(r)
  BY <1>5, DrawShapes, PinsDrawn DEF WipeRows, memory
<1>6. CASE RotateHash(r)
  <2>1. req[r].pc \in Rotating /\ pinHash' = req[r].new /\ UNCHANGED joined
    BY <1>6 DEF RotateHash, At, Rotating, history
  <2> QED BY <1>6, <2>1, StepShapes, PinsCompared DEF Moved
<1>7. CASE ClearHash(r)
  <2>1. req[r].pc \in Rotating /\ pinHash' = req[r].new /\ UNCHANGED joined
    BY <1>7 DEF ClearHash, At, Rotating, history
  <2> QED BY <1>7, <2>1, EndShapes, IdleFacts, PinsCompared DEF Ended
<1>8. CASE AddSession(r)
  BY <1>8, PinsSpent
<1> QED
  BY <1>1, <1>2, <1>3, <1>4, <1>5, <1>6, <1>7, <1>8 DEF Serve, Proceed, QuietSteps

LEMMA PinsRestarted ==
  ASSUME SlotsOK, StateOK, PinsOK, Restart
  PROVE  PinsOK'
<1>1. /\ \A s \in Requests : req'[s].pc = "idle" /\ req'[s].pin = NoPin
      /\ pins \in Nat /\ pinHash' = pins + 1 /\ UNCHANGED joined
  BY RestartShape, IdleFacts DEF SlotsOK, Pins, Restart, history
<1>2. \A j \in joined : j.pin \in Nat /\ j.pin <= pins
  BY <1>1 DEF StateOK
<1>3. \A j \in joined' : j.pin # pinHash'
  BY <1>1, <1>2
<1> QED BY <1>1, <1>3 DEF PinsOK, OneGuestPerPin, Listing, Rotating

(***************************************************************************)
(* StateOK and LockOK                                                      *)
(***************************************************************************)
LEMMA StateServed ==
  ASSUME SlotsOK, StateOK, NEW r \in Requests, Serve(r)
  PROVE  StateOK'
<1>1. /\ pins \in Nat /\ req[r].pin \in 0..pins
      /\ req[r].pc # "idle" => req[r].dev \in Devices
      /\ req[r].pc \in Rotating => req[r].new \in 1..pins
  BY DEF SlotsOK, RequestStates, WellPlaced, Pins, NoPin
<1>2. CASE BeginRegister(r)
  BY <1>2 DEF BeginRegister, StateOK, memory, database, history
<1>3. CASE Authenticate(r)
  BY <1>3 DEF Authenticate, StateOK, memory, database, history
<1>4. CASE InsertDevice(r)
  BY <1>1, <1>4 DEF InsertDevice, At, StateOK, memory, history
<1>5. CASE SetHostRow(r)
  BY <1>1, <1>5 DEF SetHostRow, At, StateOK, memory, history, MaybeDevice
<1>6. CASE TakeHost(r)
  BY <1>1, <1>6 DEF TakeHost, At, StateOK, database, history, MaybeDevice
<1>7. CASE SaveNewPin(r)
  <2>1. pins' = pins + 1 /\ UNCHANGED <<memory, database, hostLock, drawn, restarts, history>>
    BY <1>7 DEF SaveNewPin
  <2>2. pin \in 1..pins' /\ pinHash \in 1..pins' /\ joined \subseteq [dev : Devices, pin : 0..pins']
    BY <1>1, <2>1 DEF StateOK
  <2> QED BY <2>1, <2>2 DEF StateOK, memory, database, history
<1>8. CASE RotatePin(r)
  BY <1>1, <1>8 DEF RotatePin, At, StateOK, database, history, Rotating
<1>9. CASE RotateHash(r)
  BY <1>1, <1>9 DEF RotateHash, At, StateOK, database, history, Rotating
<1>10. CASE AddDevice(r)
  BY <1>1, <1>10 DEF AddDevice, At, StateOK, database, history
<1>11. CASE AddSession(r)
  <2>1. req[r].dev \in Devices
    BY <1>1, <1>11 DEF AddSession, At
  <2>2. [dev |-> req[r].dev, pin |-> req[r].pin] \in [dev : Devices, pin : 0..pins]
    BY <1>1, <2>1
  <2> QED BY <1>11, <2>1, <2>2 DEF AddSession, StateOK, database
<1>12. CASE CheckHost(r)
  BY <1>1, <1>12 DEF CheckHost, At, StateOK, memory, database
<1>13. CASE DeleteDeviceRow(r)
  BY <1>1, <1>13 DEF DeleteDeviceRow, At, StateOK, memory, history, MaybeDevice
<1>14. CASE VacateHost(r)
  BY <1>14 DEF VacateHost, StateOK, database, history, MaybeDevice
<1>15. CASE ForgetDevice(r)
  BY <1>15 DEF ForgetDevice, StateOK, database, history
<1>16. CASE RevokeSession(r)
  BY <1>1, <1>16 DEF RevokeSession, At, StateOK, database
<1>17. CASE WipeRows(r)
  <2>1. /\ pins' = pins + 1 /\ UNCHANGED <<memory, hostLock, drawn, restarts, joined, removed>>
        /\ deviceRows' = {} /\ hostRow' = NoDevice /\ leaving' = leaving \cup drawn
    BY <1>17 DEF WipeRows
  <2>2. pin \in 1..pins' /\ pinHash \in 1..pins' /\ joined \subseteq [dev : Devices, pin : 0..pins']
    BY <1>1, <2>1 DEF StateOK
  <2> QED BY <2>1, <2>2 DEF StateOK, memory, MaybeDevice
<1>18. CASE ClearDevices(r)
  BY <1>18 DEF ClearDevices, StateOK, database
<1>19. CASE ClearSessions(r)
  BY <1>19 DEF ClearSessions, StateOK, database
<1>20. CASE ClearHost(r)
  BY <1>20 DEF ClearHost, StateOK, database, history, MaybeDevice
<1>21. CASE ClearPin(r)
  BY <1>1, <1>21 DEF ClearPin, At, StateOK, database, history, Rotating
<1>22. CASE ClearHash(r)
  BY <1>1, <1>22 DEF ClearHash, At, StateOK, database, history, Rotating
<1>23. CASE DatabaseFails(r)
  BY <1>23 DEF DatabaseFails, ReleaseHost, StateOK, memory, database, history
<1>24. CASE Disconnect(r)
  BY <1>24 DEF Disconnect, ReleaseHost, StateOK, memory, database, history
<1> QED
  BY <1>2, <1>3, <1>4, <1>5, <1>6, <1>7, <1>8, <1>9, <1>10, <1>11, <1>12, <1>13, <1>14,
     <1>15, <1>16, <1>17, <1>18, <1>19, <1>20, <1>21, <1>22, <1>23, <1>24 DEF Serve, Proceed

LEMMA StateRestarted ==
  ASSUME SlotsOK, StateOK, Restart
  PROVE  StateOK'
<1>1. /\ pins \in Nat /\ pins' = pins + 1 /\ pin' = pins + 1 /\ pinHash' = pins + 1
      /\ restarts < MaxRestarts /\ restarts' = restarts + 1
      /\ hostRow' \in {hostRow, NoDevice} /\ host' = hostRow'
      /\ devices' = deviceRows /\ sessions' = deviceRows /\ hostLock' = NoRequest
      /\ UNCHANGED <<deviceRows, drawn, joined, leaving, removed>>
  BY DEF SlotsOK, Pins, Restart, history
<1>2. restarts' \in 0..MaxRestarts /\ pin' \in 1..pins' /\ pinHash' \in 1..pins'
  BY <1>1 DEF StateOK
<1>3. joined' \subseteq [dev : Devices, pin : 0..pins']
  BY <1>1 DEF StateOK
<1> QED BY <1>1, <1>2, <1>3 DEF StateOK, MaybeDevice

\* What else a step does to the lock.
LEMMA LockServed ==
  ASSUME SlotsOK, StateOK, LockOK, NEW r \in Requests, Serve(r)
  PROVE  LockOK'
<1>1. CASE BeginRegister(r)
  <2>1. OthersKeep(r)
    BY <1>1, BeginRegisterShape DEF Began
  <2>2. hostLock' = r /\ hostLock = NoRequest
    BY <1>1 DEF BeginRegister, HostFree
  <2> QED BY <2>1, <2>2 DEF LockOK, OthersKeep, RegistryAssumption
<1>2. CASE Authenticate(r)
  <2>1. PICK d \in devices, op \in Handlers \ {"register"}, pc \in {"check", "wipe_rows"} :
          Began(r, op, pc, d, NoPin)
    BY <1>2, AuthenticateShape
  <2> QED BY <1>2, <2>1 DEF Authenticate, LockOK, Began, OthersKeep, Registering
<1>3. CASE DatabaseFails(r) \/ Disconnect(r)
  <2>1. OthersKeep(r) /\ req'[r].pc = "idle"
    BY <1>3, EndShapes, IdleFacts DEF Ended
  <2>2. hostLock' = IF hostLock = r THEN NoRequest ELSE hostLock
    BY <1>3 DEF DatabaseFails, Disconnect, ReleaseHost
  <2> QED BY <2>1, <2>2 DEF LockOK, OthersKeep, Registering
<1>4. CASE TakeHost(r) \/ RotateHash(r)
  <2>1. OthersKeep(r) /\ req'[r].pc = "add_device" /\ req[r].pc \in Registering
    BY <1>4, StepShapes DEF Moved, TakeHost, RotateHash, At, Registering
  <2> QED BY <2>1 DEF LockOK, OthersKeep, Registering
<1>5. ASSUME UNCHANGED hostLock, OthersKeep(r),
             req'[r].pc \in Registering => req[r].pc \in Registering
      PROVE  LockOK'
  BY <1>5 DEF LockOK, OthersKeep
<1>6. CASE InsertDevice(r) \/ SetHostRow(r)
  BY <1>5, <1>6, StepShapes DEF Moved, InsertDevice, SetHostRow, At, Registering
<1>7. CASE SaveNewPin(r) \/ WipeRows(r)
  BY <1>5, <1>7, DrawShapes DEF Drew, SaveNewPin, WipeRows, At, Registering
<1>8. CASE RotatePin(r) \/ AddDevice(r) \/ VacateHost(r)
  BY <1>5, <1>8, StepShapes DEF Moved, RotatePin, AddDevice, VacateHost, At, Registering
<1>9. CASE AddSession(r) \/ RevokeSession(r) \/ ClearHash(r)
  BY <1>5, <1>9, EndShapes, IdleFacts
  DEF Ended, AddSession, RevokeSession, ClearHash, Registering
<1>10. CASE CheckHost(r)
  BY <1>5, <1>10, StepShapes, IdleFacts DEF Moved, Ended, CheckHost, Registering
<1>11. CASE DeleteDeviceRow(r)
  BY <1>5, <1>11, StepShapes DEF Moved, DeleteDeviceRow, Registering
<1>12. CASE ForgetDevice(r)
  BY <1>5, <1>12, StepShapes, IdleFacts DEF Moved, Ended, ForgetDevice, Registering
<1>13. CASE ClearDevices(r) \/ ClearSessions(r) \/ ClearHost(r) \/ ClearPin(r)
  BY <1>5, <1>13, StepShapes
  DEF Moved, ClearDevices, ClearSessions, ClearHost, ClearPin, Registering
<1> QED
  BY <1>1, <1>2, <1>3, <1>4, <1>6, <1>7, <1>8, <1>9, <1>10, <1>11, <1>12, <1>13
  DEF Serve, Proceed

(***************************************************************************)
(* DrawnOK                                                                 *)
(***************************************************************************)
\* What a handler adds is its own device.
LEMMA DrawnKept ==
  ASSUME SlotsOK, DrawnOK, NEW r \in Requests, OthersKeep(r), UNCHANGED drawn,
         req[r].pc # "idle", req'[r].pc # "idle" => req'[r].dev = req[r].dev,
         devices' \subseteq devices \cup {req[r].dev},
         deviceRows' \subseteq deviceRows \cup {req[r].dev},
         removed' \subseteq removed \cup {req[r].dev},
         \A j \in joined' : j \in joined \/ j.dev = req[r].dev,
         req'[r].pc \in Unlisted =>
           /\ req[r].pc \in Unlisted
           /\ devices' \cup removed' \subseteq devices \cup removed /\ joined' = joined
  PROVE  DrawnOK'
<1>1. devices' \cup deviceRows' \cup removed' \subseteq drawn'
  BY DEF DrawnOK
<1>2. \A j \in joined' : j.dev \in drawn'
  BY DEF DrawnOK
<1>3. \A s \in Requests : req'[s].pc # "idle" =>
        req'[s].dev \in drawn' /\ req'[s].dev = req[s].dev /\ req[s].pc # "idle"
  BY DEF DrawnOK, OthersKeep
<1>4. ASSUME NEW s \in Requests, req'[s].pc \in Unlisted
      PROVE  /\ req'[s].dev \notin devices' \cup removed'
             /\ \A j \in joined' : j.dev # req'[s].dev
             /\ \A t \in Requests : t # s /\ req'[t].pc # "idle" => req'[t].dev # req'[s].dev
  <2>1. req[s].pc \in Unlisted /\ req'[s].dev = req[s].dev
    BY <1>3, <1>4 DEF OthersKeep, Unlisted, Registering
  <2>2. \A t \in Requests : t # s /\ req'[t].pc # "idle" => req'[t].dev # req'[s].dev
    BY <1>3, <2>1 DEF DrawnOK
  <2>3. CASE s = r
    <3>1. /\ devices' \cup removed' \subseteq devices \cup removed /\ joined' = joined
          /\ req[s].dev \notin devices \cup removed /\ ~Joined(req[s].dev)
      BY <1>4, <2>1, <2>3 DEF DrawnOK
    <3> QED BY <2>1, <2>2, <3>1 DEF Joined
  <2>4. CASE s # r
    <3>1. /\ req[s].dev # req[r].dev
          /\ req[s].dev \notin devices \cup removed /\ ~Joined(req[s].dev)
      BY <2>1, <2>4 DEF DrawnOK
    <3> QED BY <2>1, <2>2, <3>1 DEF Joined
  <2> QED BY <2>3, <2>4
<1> QED BY <1>1, <1>2, <1>3, <1>4 DEF DrawnOK, Joined

LEMMA DrawnServed ==
  ASSUME SlotsOK, StateOK, DrawnOK, NEW r \in Requests, Serve(r)
  PROVE  DrawnOK'
<1>1. CASE BeginRegister(r)
  <2>1. PICK d \in Devices \ drawn : /\ drawn' = drawn \cup {d}
                                     /\ OthersKeep(r) /\ req'[r].dev = d
    <3>1. PICK d \in Devices \ drawn :
            /\ Began(r, "register", "insert", d, IF host = NoDevice THEN NoPin ELSE pinHash)
            /\ d \in drawn'
      BY <1>1, BeginRegisterShape
    <3>2. \E e \in Devices \ drawn : drawn' = drawn \cup {e}
      BY <1>1 DEF BeginRegister
    <3> QED BY <3>1, <3>2 DEF Began
  <2>2. UNCHANGED <<devices, deviceRows, removed, joined>>
    BY <1>1 DEF BeginRegister, memory, database, history
  <2>3. \A s \in Requests : req'[s].pc # "idle" => req'[s].dev \in drawn'
    BY <2>1 DEF DrawnOK, OthersKeep
  <2>4. ASSUME NEW s \in Requests, req'[s].pc \in Unlisted
        PROVE  /\ req'[s].dev \notin devices \cup removed
               /\ ~Joined(req'[s].dev)
               /\ \A t \in Requests : t # s /\ req'[t].pc # "idle" => req'[t].dev # req'[s].dev
    <3>1. \A t \in Requests : t # r => req'[t] = req[t]
      BY <2>1 DEF OthersKeep
    <3>2. CASE s = r
      BY <2>1, <3>1, <3>2 DEF DrawnOK, Joined
    <3>3. CASE s # r
      <4>1. req'[s] = req[s] /\ req[s].dev \in drawn /\ req[s].pc \in Unlisted
        BY <2>4, <3>1, <3>3 DEF DrawnOK, Unlisted, Registering
      <4> QED BY <2>1, <3>1, <4>1 DEF DrawnOK
    <3> QED BY <3>2, <3>3
  <2> QED BY <2>1, <2>2, <2>3, <2>4 DEF DrawnOK, Joined
<1>2. CASE Authenticate(r)
  <2>1. PICK d \in devices, op \in Handlers \ {"register"}, pc \in {"check", "wipe_rows"} :
          Began(r, op, pc, d, NoPin)
    BY <1>2, AuthenticateShape
  <2>2. UNCHANGED <<devices, deviceRows, removed, joined, drawn>>
    BY <1>2 DEF Authenticate, memory, database, history
  <2>3. /\ \A t \in Requests : t # r => req'[t] = req[t]
        /\ req'[r].dev = d /\ req'[r].pc \notin Unlisted
    BY <2>1 DEF Began, OthersKeep, Unlisted, Registering
  <2> QED BY <2>2, <2>3 DEF DrawnOK, Joined
<1>3. CASE InsertDevice(r) \/ SetHostRow(r) \/ TakeHost(r) \/ RotatePin(r) \/ RotateHash(r)
  <2>1. /\ OthersKeep(r) /\ req'[r].dev = req[r].dev /\ req[r].pc # "idle"
        /\ req[r].pc \in Unlisted
    BY <1>3, StepShapes
    DEF Moved, InsertDevice, SetHostRow, TakeHost, RotatePin, RotateHash, At, Unlisted, Registering
  <2>2. /\ UNCHANGED <<devices, removed, joined, drawn>>
        /\ deviceRows' \subseteq deviceRows \cup {req[r].dev}
    BY <1>3
    DEF InsertDevice, SetHostRow, TakeHost, RotatePin, RotateHash, memory, database, history
  <2> QED BY <2>1, <2>2, DrawnKept
<1>4. CASE SaveNewPin(r)
  <2>1. /\ OthersKeep(r) /\ req'[r].dev = req[r].dev /\ req[r].pc # "idle"
        /\ req[r].pc \in Unlisted
    BY <1>4, DrawShapes DEF Drew, SaveNewPin, At, Unlisted, Registering
  <2>2. UNCHANGED <<devices, deviceRows, removed, joined, drawn>>
    BY <1>4 DEF SaveNewPin, memory, database, history
  <2> QED BY <2>1, <2>2, DrawnKept
<1>5. CASE WipeRows(r)
  <2>1. /\ OthersKeep(r) /\ req'[r].dev = req[r].dev /\ req[r].pc # "idle"
        /\ req'[r].pc \notin Unlisted
    BY <1>5, DrawShapes DEF Drew, WipeRows, At, Unlisted, Registering
  <2>2. UNCHANGED <<devices, removed, joined, drawn>> /\ deviceRows' = {}
    BY <1>5 DEF WipeRows, memory
  <2> QED BY <2>1, <2>2, DrawnKept
<1>6. CASE AddDevice(r) \/ VacateHost(r) \/ ClearHost(r) \/ ClearPin(r) \/ ClearDevices(r)
           \/ ClearSessions(r) \/ DeleteDeviceRow(r)
  <2>1. /\ OthersKeep(r) /\ req'[r].dev = req[r].dev /\ req[r].pc # "idle"
        /\ req'[r].pc \notin Unlisted
    BY <1>6, StepShapes
    DEF Moved, AddDevice, VacateHost, ClearHost, ClearPin, ClearDevices, ClearSessions,
        DeleteDeviceRow, At, Unlisted, Registering
  <2>2. /\ UNCHANGED <<removed, joined, drawn>>
        /\ devices' \subseteq devices \cup {req[r].dev} /\ deviceRows' \subseteq deviceRows
    BY <1>6
    DEF AddDevice, VacateHost, ClearHost, ClearPin, ClearDevices, ClearSessions,
        DeleteDeviceRow, memory, database, history
  <2> QED BY <2>1, <2>2, DrawnKept
<1>7. CASE CheckHost(r) \/ ForgetDevice(r)
  <2>1. /\ OthersKeep(r) /\ req[r].pc # "idle" /\ req'[r].pc \notin Unlisted
        /\ req'[r].pc # "idle" => req'[r].dev = req[r].dev
    BY <1>7, StepShapes, IdleFacts
    DEF Moved, Ended, CheckHost, ForgetDevice, At, Unlisted, Registering
  <2>2. UNCHANGED <<removed, joined, drawn, deviceRows>> /\ devices' \subseteq devices
    BY <1>7 DEF CheckHost, ForgetDevice, memory, database, history
  <2> QED BY <2>1, <2>2, DrawnKept
<1>8. CASE AddSession(r) \/ RevokeSession(r) \/ ClearHash(r) \/ DatabaseFails(r) \/ Disconnect(r)
  <2>1. OthersKeep(r) /\ req'[r].pc = "idle" /\ req[r].pc # "idle" /\ req'[r].pc \notin Unlisted
    BY <1>8, EndShapes, IdleFacts
    DEF Ended, AddSession, RevokeSession, ClearHash, DatabaseFails, Disconnect, At, Unlisted,
        Registering
  <2>2. /\ UNCHANGED <<drawn, devices, deviceRows>>
        /\ removed' \subseteq removed \cup {req[r].dev}
    BY <1>8
    DEF AddSession, RevokeSession, ClearHash, DatabaseFails, Disconnect, memory, database, history
  <2>3. \A j \in joined' : j \in joined \/ j.dev = req[r].dev
    BY <1>8
    DEF AddSession, RevokeSession, ClearHash, DatabaseFails, Disconnect, memory, database, history
  <2> QED BY <2>1, <2>2, <2>3, DrawnKept
<1> QED BY <1>1, <1>2, <1>3, <1>4, <1>5, <1>6, <1>7, <1>8 DEF Serve, Proceed

(***************************************************************************)
(* RemovalOK                                                               *)
(***************************************************************************)
\* Only a registration adds, and its device is nobody's yet.
LEMMA RemovalKept ==
  ASSUME SlotsOK, DrawnOK, RemovalOK, NEW r \in Requests, OthersKeep(r), UNCHANGED removed,
         \/ devices' \subseteq devices /\ deviceRows' \subseteq deviceRows
         \/ /\ req[r].pc \in Unlisted
            /\ devices' \subseteq devices \cup {req[r].dev}
            /\ deviceRows' \subseteq deviceRows \cup {req[r].dev},
         req'[r].pc \in {"vacate", "forget", "revoke"} => req'[r].dev \notin deviceRows',
         req'[r].pc = "revoke" => req'[r].dev \notin devices'
  PROVE  RemovalOK'
<1>1. RemovalIsPermanent'
  BY DEF RemovalOK, RemovalIsPermanent, DrawnOK
<1>2. ASSUME NEW s \in Requests
      PROVE  /\ req'[s].pc \in {"vacate", "forget", "revoke"} => req'[s].dev \notin deviceRows'
             /\ req'[s].pc = "revoke" => req'[s].dev \notin devices'
  <2>1. CASE s = r
    BY <2>1
  <2>2. CASE s # r
    <3>1. req'[s] = req[s]
      BY <2>2 DEF OthersKeep
    <3>2. req[r].pc \in Unlisted /\ req[s].pc # "idle" => req[s].dev # req[r].dev
      BY <2>2 DEF DrawnOK
    <3> QED BY <3>1, <3>2 DEF RemovalOK
  <2> QED BY <2>1, <2>2
<1> QED BY <1>1, <1>2 DEF RemovalOK

LEMMA RemovalServed ==
  ASSUME SlotsOK, StateOK, DrawnOK, RemovalOK, NEW r \in Requests, Serve(r)
  PROVE  RemovalOK'
<1>1. CASE BeginRegister(r)
  <2>1. OthersKeep(r) /\ req'[r].pc = "insert"
    BY <1>1, BeginRegisterShape DEF Began
  <2>2. UNCHANGED <<devices, deviceRows, removed>>
    BY <1>1 DEF BeginRegister, memory, database, history
  <2> QED BY <2>1, <2>2, RemovalKept
<1>2. CASE Authenticate(r)
  <2>1. PICK d \in devices, op \in Handlers \ {"register"}, pc \in {"check", "wipe_rows"} :
          Began(r, op, pc, d, NoPin)
    BY <1>2, AuthenticateShape
  <2>2. UNCHANGED <<devices, deviceRows, removed>>
    BY <1>2 DEF Authenticate, memory, database, history
  <2>3. OthersKeep(r) /\ req'[r].pc \notin {"vacate", "forget", "revoke"}
    BY <2>1 DEF Began
  <2> QED BY <2>2, <2>3, RemovalKept
<1>3. CASE InsertDevice(r) \/ SetHostRow(r) \/ TakeHost(r) \/ RotatePin(r) \/ RotateHash(r)
           \/ AddDevice(r)
  <2>1. /\ OthersKeep(r) /\ req[r].pc \in Unlisted
        /\ req'[r].pc \notin {"vacate", "forget", "revoke"}
    BY <1>3, StepShapes
    DEF Moved, InsertDevice, SetHostRow, TakeHost, RotatePin, RotateHash, AddDevice, At,
        Unlisted, Registering
  <2>2. /\ UNCHANGED removed
        /\ devices' \subseteq devices \cup {req[r].dev}
        /\ deviceRows' \subseteq deviceRows \cup {req[r].dev}
    BY <1>3
    DEF InsertDevice, SetHostRow, TakeHost, RotatePin, RotateHash, AddDevice, memory, database,
        history
  <2> QED BY <2>1, <2>2, RemovalKept
<1>4. CASE SaveNewPin(r) \/ WipeRows(r)
  <2>1. OthersKeep(r) /\ req'[r].pc \notin {"vacate", "forget", "revoke"}
    BY <1>4, DrawShapes DEF Drew
  <2>2. UNCHANGED <<devices, removed>> /\ deviceRows' \subseteq deviceRows
    BY <1>4 DEF SaveNewPin, WipeRows, memory, database, history
  <2> QED BY <2>1, <2>2, RemovalKept
<1>5. CASE CheckHost(r) \/ ClearDevices(r) \/ ClearSessions(r) \/ ClearHost(r) \/ ClearPin(r)
  <2>1. OthersKeep(r) /\ req'[r].pc \notin {"vacate", "forget", "revoke"}
    BY <1>5, StepShapes, IdleFacts
    DEF Moved, Ended, CheckHost, ClearDevices, ClearSessions, ClearHost, ClearPin
  <2>2. UNCHANGED <<deviceRows, removed>> /\ devices' \subseteq devices
    BY <1>5 DEF CheckHost, ClearDevices, ClearSessions, ClearHost, ClearPin, memory, database, history
  <2> QED BY <2>1, <2>2, RemovalKept
<1>6. CASE DeleteDeviceRow(r)
  <2>1. OthersKeep(r) /\ req'[r].dev = req[r].dev /\ req'[r].pc # "revoke"
    BY <1>6, StepShapes DEF Moved
  <2>2. UNCHANGED <<devices, removed>> /\ deviceRows' = deviceRows \ {req[r].dev}
    BY <1>6 DEF DeleteDeviceRow, memory, history
  <2> QED BY <2>1, <2>2, RemovalKept
<1>7. CASE VacateHost(r)
  <2>1. OthersKeep(r) /\ req'[r].dev = req[r].dev /\ req'[r].pc # "revoke" /\ req[r].pc = "vacate"
    BY <1>7, StepShapes DEF Moved, VacateHost, At
  <2>2. UNCHANGED <<devices, deviceRows, removed>>
    BY <1>7 DEF VacateHost, database, history
  <2> QED BY <2>1, <2>2, RemovalKept DEF RemovalOK
<1>8. CASE ForgetDevice(r)
  <2>1. /\ OthersKeep(r) /\ req[r].pc = "forget"
        /\ \/ req'[r].pc = "idle"
           \/ req'[r].pc = "revoke" /\ req'[r].dev = req[r].dev
    BY <1>8, StepShapes, IdleFacts DEF Moved, Ended, ForgetDevice, At
  <2>2. UNCHANGED <<deviceRows, removed>> /\ devices' = devices \ {req[r].dev}
    BY <1>8 DEF ForgetDevice, database, history
  <2>3. req[r].dev \notin deviceRows
    BY <2>1 DEF RemovalOK
  <2> QED BY <2>1, <2>2, <2>3, RemovalKept
<1>9. CASE RevokeSession(r)
  <2>1. /\ OthersKeep(r) /\ req[r].pc = "revoke" /\ req'[r].pc = "idle"
        /\ UNCHANGED <<devices, deviceRows>> /\ removed' = removed \cup {req[r].dev}
    BY <1>9, EndShapes, IdleFacts DEF Ended, RevokeSession, At, database
  <2>2. req[r].dev \notin devices \cup deviceRows
    BY <2>1 DEF RemovalOK
  <2> QED BY <2>1, <2>2 DEF RemovalOK, RemovalIsPermanent, OthersKeep
<1>10. CASE AddSession(r) \/ ClearHash(r) \/ DatabaseFails(r) \/ Disconnect(r)
  <2>1. OthersKeep(r) /\ req'[r].pc = "idle"
    BY <1>10, EndShapes, IdleFacts DEF Ended
  <2>2. UNCHANGED <<devices, deviceRows, removed>>
    BY <1>10 DEF AddSession, ClearHash, DatabaseFails, Disconnect, memory, database, history
  <2> QED BY <2>1, <2>2, RemovalKept
<1> QED
  BY <1>1, <1>2, <1>3, <1>4, <1>5, <1>6, <1>7, <1>8, <1>9, <1>10 DEF Serve, Proceed

(***************************************************************************)
(* MembersOK                                                               *)
(***************************************************************************)
\* Whoever a step takes something from is leaving.
LEMMA MembersKept ==
  ASSUME SlotsOK, StateOK, DrawnOK, MembersOK, NEW r \in Requests, OthersKeep(r), UNCHANGED joined,
         leaving \subseteq leaving',
         \A d \in drawn \ leaving' :
           /\ d \in devices => d \in devices'
           /\ d \in sessions => d \in sessions'
           /\ d \in deviceRows => d \in deviceRows',
         req'[r].op = "register" /\ req'[r].pc # "insert" /\ req'[r].dev \notin leaving' =>
           req'[r].dev \in deviceRows',
         req'[r].pc = "add_session" /\ req'[r].dev \notin leaving' => req'[r].dev \in devices',
         req'[r].pc \in Leaving \ {"check"} => req'[r].dev \in leaving'
  PROVE  MembersOK'
<1>1. MembersStay'
  BY DEF MembersOK, MembersStay, Joined, Authenticates, DrawnOK
<1>2. ASSUME NEW s \in Requests
      PROVE  /\ req'[s].op = "register" /\ req'[s].pc # "insert" /\ req'[s].dev \notin leaving' =>
                  req'[s].dev \in deviceRows'
             /\ req'[s].pc = "add_session" /\ req'[s].dev \notin leaving' => req'[s].dev \in devices'
             /\ req'[s].pc \in Leaving \ {"check"} => req'[s].dev \in leaving'
  <2>1. CASE s = r
    BY <2>1
  <2>2. CASE s # r
    <3>1. req'[s] = req[s] /\ (req[s].op = "register" => req[s].pc # "idle")
      BY <2>2 DEF OthersKeep, SlotsOK, WellPlaced
    <3>2. req[s].pc # "idle" => req[s].dev \in drawn
      BY DEF DrawnOK
    <3> QED BY <3>1, <3>2 DEF MembersOK
  <2> QED BY <2>1, <2>2
<1> QED BY <1>1, <1>2 DEF MembersOK

LEMMA MembersServed ==
  ASSUME SlotsOK, StateOK, DrawnOK, MembersOK, NEW r \in Requests, Serve(r)
  PROVE  MembersOK'
<1>1. /\ req[r].pc \in Registering \cup Listing <=> req[r].op = "register"
      /\ req[r].pc # "idle" => req[r].dev \in drawn
  BY Placement DEF SlotsOK, DrawnOK
<1>2. CASE BeginRegister(r)
  <2>1. OthersKeep(r) /\ req'[r].pc = "insert"
    BY <1>2, BeginRegisterShape DEF Began
  <2>2. UNCHANGED <<devices, sessions, deviceRows, joined, leaving>>
    BY <1>2 DEF BeginRegister, memory, database, history
  <2> QED BY <2>1, <2>2, MembersKept DEF Leaving
<1>3. CASE Authenticate(r)
  <2>1. PICK d \in devices, op \in Handlers \ {"register"}, pc \in {"check", "wipe_rows"} :
          Began(r, op, pc, d, NoPin)
    BY <1>3, AuthenticateShape
  <2>2. UNCHANGED <<devices, sessions, deviceRows, joined, leaving>>
    BY <1>3 DEF Authenticate, memory, database, history
  <2>3. OthersKeep(r) /\ req'[r].op # "register" /\ req'[r].pc \notin (Leaving \ {"check"}) \cup {"add_session"}
    BY <2>1 DEF Began, Leaving
  <2> QED BY <2>2, <2>3, MembersKept
<1>4. CASE InsertDevice(r)
  <2>1. OthersKeep(r) /\ req'[r].dev = req[r].dev /\ req'[r].pc \in {"set_host", "set_pin"}
    BY <1>4, StepShapes DEF Moved
  <2>2. UNCHANGED <<devices, sessions, joined, leaving>> /\ deviceRows' = deviceRows \cup {req[r].dev}
    BY <1>4 DEF InsertDevice, memory, history
  <2> QED BY <2>1, <2>2, MembersKept DEF Leaving
<1>5. CASE SetHostRow(r) \/ TakeHost(r) \/ RotatePin(r) \/ RotateHash(r) \/ AddDevice(r)
  <2>1. /\ OthersKeep(r) /\ req'[r].dev = req[r].dev /\ req'[r].pc \notin Leaving
        /\ req'[r].pc = "add_session" => req'[r].dev \in devices'
        /\ req[r].pc \in (Registering \cup Listing) \ {"insert"}
    BY <1>5, StepShapes
    DEF Moved, SetHostRow, TakeHost, RotatePin, RotateHash, AddDevice, At, Leaving, Registering,
        Listing
  <2>2. /\ UNCHANGED <<sessions, joined, leaving, deviceRows>> /\ devices \subseteq devices'
    BY <1>5
    DEF SetHostRow, TakeHost, RotatePin, RotateHash, AddDevice, memory, database, history
  <2>3. req[r].dev \notin leaving => req[r].dev \in deviceRows
    BY <1>1, <2>1 DEF MembersOK
  <2> QED BY <2>1, <2>2, <2>3, MembersKept
<1>6. CASE SaveNewPin(r)
  <2>1. /\ OthersKeep(r) /\ req'[r].dev = req[r].dev /\ req'[r].pc = "rotate"
        /\ req[r].pc = "set_pin"
    BY <1>6, DrawShapes DEF Drew, SaveNewPin, At
  <2>2. UNCHANGED <<devices, sessions, joined, leaving, deviceRows>>
    BY <1>6 DEF SaveNewPin, memory, database, history
  <2>3. req[r].dev \notin leaving => req[r].dev \in deviceRows
    BY <1>1, <2>1 DEF MembersOK, Registering
  <2> QED BY <2>1, <2>2, <2>3, MembersKept DEF Leaving
<1>7. CASE AddSession(r)
  <2>1. OthersKeep(r) /\ req'[r] = Idle /\ req[r].pc = "add_session"
    BY <1>7, EndShapes DEF Ended, AddSession, At
  <2>2. PICK k : k = [dev |-> req[r].dev, pin |-> req[r].pin]
    OBVIOUS
  <2>3. /\ k.dev = req[r].dev /\ joined' = joined \cup {k}
        /\ sessions' = sessions \cup {req[r].dev} /\ UNCHANGED <<devices, deviceRows, leaving>>
    BY <1>7, <2>2 DEF AddSession, database
  <2>4. req[r].dev \notin leaving => req[r].dev \in devices /\ req[r].dev \in deviceRows
    BY <1>1, <2>1 DEF MembersOK, Listing
  <2>5. MembersStay'
    BY <2>3, <2>4 DEF MembersOK, MembersStay, Joined, Authenticates
  <2> QED BY <2>1, <2>3, <2>5, IdleFacts DEF MembersOK, OthersKeep, Leaving
<1>8. CASE CheckHost(r)
  <2>1. /\ OthersKeep(r) /\ req[r].pc = "check"
        /\ \/ req'[r].pc = "idle" /\ req'[r].op = "none"
           \/ /\ req'[r].pc = "delete_row" /\ req'[r].dev = req[r].dev /\ req'[r].op = req[r].op
              /\ leaving' = leaving \cup {req[r].dev}
    <3>1. req[r] \in RequestStates /\ WellPlaced(req[r]) /\ UNCHANGED pins /\ req[r].pc = "check"
      BY <1>8 DEF CheckHost, At, SlotsOK
    <3>2. CASE MayLeave(r)
      BY <1>8, <3>1, <3>2, Moves, GotoMoves DEF CheckHost, Moved, Rotating
    <3>3. CASE ~MayLeave(r)
      BY <1>8, <3>1, <3>3, FinishStep, IdleFacts DEF CheckHost, Ended
    <3> QED BY <3>2, <3>3
  <2>2. req[r].op # "register"
    BY <1>1, <2>1 DEF Registering, Listing
  <2>3. UNCHANGED <<devices, sessions, joined, deviceRows>> /\ leaving \subseteq leaving'
    BY <1>8 DEF CheckHost, memory, database
  <2> QED BY <2>1, <2>2, <2>3, MembersKept DEF Leaving
<1>9. CASE DeleteDeviceRow(r) \/ VacateHost(r)
  <2>1. /\ OthersKeep(r) /\ req'[r].dev = req[r].dev /\ req'[r].pc # "add_session"
        /\ req'[r].op = req[r].op /\ req[r].pc \in Leaving \ {"check"}
    BY <1>9, StepShapes DEF Moved, DeleteDeviceRow, VacateHost, At, Leaving
  <2>2. req[r].op # "register" /\ req[r].dev \in leaving
    BY <1>1, <2>1 DEF Registering, Listing, Leaving, MembersOK
  <2>3. UNCHANGED <<devices, sessions, joined, leaving>> /\ deviceRows \ {req[r].dev} \subseteq deviceRows'
    BY <1>9 DEF DeleteDeviceRow, VacateHost, memory, database, history
  <2> QED BY <2>1, <2>2, <2>3, MembersKept
<1>10. CASE ForgetDevice(r)
  <2>1. /\ OthersKeep(r) /\ req[r].pc = "forget"
        /\ \/ req'[r].pc = "idle" /\ req'[r].op = "none"
           \/ req'[r].pc = "revoke" /\ req'[r].dev = req[r].dev /\ req'[r].op = req[r].op
    BY <1>10, StepShapes, IdleFacts DEF Moved, Ended, ForgetDevice, At
  <2>2. req[r].op # "register" /\ req[r].dev \in leaving
    BY <1>1, <2>1 DEF Registering, Listing, Leaving, MembersOK
  <2>3. UNCHANGED <<deviceRows, sessions, joined, leaving>> /\ devices' = devices \ {req[r].dev}
    BY <1>10 DEF ForgetDevice, database, history
  <2> QED BY <2>1, <2>2, <2>3, MembersKept DEF Leaving
<1>11. CASE RevokeSession(r)
  <2>1. OthersKeep(r) /\ req'[r].pc = "idle" /\ req'[r].op = "none" /\ req[r].pc = "revoke"
    BY <1>11, EndShapes, IdleFacts DEF Ended, RevokeSession, At
  <2>2. req[r].dev \in leaving
    BY <2>1 DEF Leaving, MembersOK
  <2>3. UNCHANGED <<devices, deviceRows, joined, leaving>> /\ sessions' = sessions \ {req[r].dev}
    BY <1>11 DEF RevokeSession, database
  <2> QED BY <2>1, <2>2, <2>3, MembersKept DEF Leaving
<1>12. CASE WipeRows(r)
  <2>1. /\ OthersKeep(r) /\ req'[r].op = req[r].op /\ req[r].pc = "wipe_rows"
        /\ req'[r].pc = "clear_devices"
    BY <1>12, DrawShapes DEF Drew, WipeRows, At
  <2>2. req[r].op # "register"
    BY <1>1, <2>1 DEF Registering, Listing
  <2>3. UNCHANGED <<devices, sessions, joined>> /\ leaving' = leaving \cup drawn
    BY <1>12 DEF WipeRows, memory
  <2> QED BY <2>1, <2>2, <2>3, MembersKept DEF Leaving
<1>13. CASE ClearDevices(r) \/ ClearSessions(r)
  <2>1. /\ OthersKeep(r) /\ req'[r].op = req[r].op /\ req[r].pc \in Resetting
        /\ req'[r].pc \in {"clear_sessions", "clear_host"}
    BY <1>13, StepShapes DEF Moved, ClearDevices, ClearSessions, At, Resetting
  <2>2. req[r].op # "register"
    BY <1>1, <2>1 DEF Registering, Listing, Resetting
  <2>3. UNCHANGED joined /\ leaving' = leaving \cup drawn
    BY <1>13 DEF ClearDevices, ClearSessions
  <2> QED BY <2>1, <2>2, <2>3, MembersKept DEF Leaving
<1>14. CASE ClearHost(r) \/ ClearPin(r)
  <2>1. /\ OthersKeep(r) /\ req'[r].op = req[r].op /\ req[r].pc \in Resetting
        /\ req'[r].pc \in {"clear_pin", "clear_hash"}
    BY <1>14, StepShapes DEF Moved, ClearHost, ClearPin, At, Resetting
  <2>2. req[r].op # "register"
    BY <1>1, <2>1 DEF Registering, Listing, Resetting
  <2>3. UNCHANGED <<devices, sessions, deviceRows, joined, leaving>>
    BY <1>14 DEF ClearHost, ClearPin, database, history
  <2> QED BY <2>1, <2>2, <2>3, MembersKept DEF Leaving
<1>15. CASE ClearHash(r) \/ DatabaseFails(r) \/ Disconnect(r)
  <2>1. OthersKeep(r) /\ req'[r].pc = "idle" /\ req'[r].op = "none"
    BY <1>15, EndShapes, IdleFacts DEF Ended
  <2>2. UNCHANGED <<devices, sessions, deviceRows, joined, leaving>>
    BY <1>15 DEF ClearHash, DatabaseFails, Disconnect, memory, database, history
  <2> QED BY <2>1, <2>2, MembersKept DEF Leaving
<1> QED
  BY <1>2, <1>3, <1>4, <1>5, <1>6, <1>7, <1>8, <1>9, <1>10, <1>11, <1>12, <1>13, <1>14, <1>15
  DEF Serve, Proceed

(***************************************************************************)
(* The theorems                                                            *)
(***************************************************************************)
LEMMA RegistryInvInit ==
  ASSUME Init
  PROVE  RegistryInv
<1>1. /\ devices = {} /\ sessions = {} /\ deviceRows = {} /\ drawn = {} /\ joined = {}
      /\ leaving = {} /\ removed = {} /\ host = NoDevice /\ hostRow = NoDevice
      /\ pin = 1 /\ pinHash = 1 /\ pins = 1 /\ restarts = 0 /\ hostLock = NoRequest
  BY DEF Init
<1>2. req \in [Requests -> RequestStates] /\ \A r \in Requests : req[r] = Idle
  BY IdleFacts DEF Init
<1>3. Idle.pc \notin Rotating \cup Registering \cup Listing \cup Leaving \cup {"set_host", "take_host", "add_device"}
  BY IdleFacts DEF Rotating, Registering, Listing, Leaving
<1>4. SlotsOK
  BY <1>1, <1>2, <1>3, IdleFacts DEF SlotsOK, Pins, NoPin, WellPlaced
<1>5. StateOK
  BY <1>1 DEF StateOK, MaybeDevice
<1>6. LockOK /\ PinsOK
  BY <1>1, <1>2, <1>3, IdleFacts DEF LockOK, PinsOK, OneGuestPerPin
<1>7. DrawnOK
  BY <1>1, <1>2, <1>3, IdleFacts DEF DrawnOK, Unlisted
<1>8. RemovalOK /\ MembersOK
  BY <1>1, <1>2, <1>3, IdleFacts
  DEF RemovalOK, RemovalIsPermanent, MembersOK, MembersStay, Joined, Leaving
<1> QED BY <1>4, <1>5, <1>6, <1>7, <1>8 DEF RegistryInv

LEMMA SlotsServed ==
  ASSUME SlotsOK, StateOK, NEW r \in Requests, Serve(r)
  PROVE  SlotsOK'
BY BeginRegisterShape, AuthenticateShape, StepShapes, DrawShapes, EndShapes DEF Serve, Proceed

\* A restart ends every request, and loads the rows.
LEMMA RegistryRestarted ==
  ASSUME RegistryInv, Restart
  PROVE  RegistryInv'
<1>1. SlotsOK' /\ StateOK' /\ PinsOK'
  BY RestartShape, StateRestarted, PinsRestarted DEF RegistryInv
<1>2. \A r \in Requests : req'[r].pc = "idle" /\ req'[r].op = "none"
  BY RestartShape, IdleFacts DEF RegistryInv
<1>3. devices' = deviceRows /\ sessions' = deviceRows
      /\ UNCHANGED <<deviceRows, drawn, joined, leaving, removed>>
  BY DEF Restart, history
<1>4. LockOK'
  BY <1>2 DEF LockOK, Registering
<1>5. DrawnOK'
  BY <1>2, <1>3 DEF RegistryInv, DrawnOK, Unlisted, Registering
<1>6. RemovalOK'
  BY <1>2, <1>3 DEF RegistryInv, RemovalOK, RemovalIsPermanent
<1>7. MembersOK'
  BY <1>2, <1>3 DEF RegistryInv, MembersOK, MembersStay, Joined, Authenticates, Leaving
<1> QED BY <1>1, <1>4, <1>5, <1>6, <1>7 DEF RegistryInv

LEMMA RegistryInvNext ==
  ASSUME RegistryInv, [Next]_vars
  PROVE  RegistryInv'
<1>1. CASE UNCHANGED vars
  BY <1>1
  DEF vars, memory, database, history, RegistryInv, SlotsOK, StateOK, LockOK, PinsOK,
      OneGuestPerPin, DrawnOK, Joined, RemovalOK, RemovalIsPermanent, MembersOK, MembersStay,
      Authenticates, WellPlaced
<1>2. ASSUME NEW r \in Requests, Serve(r)
      PROVE  RegistryInv'
  BY <1>2, SlotsServed, StateServed, LockServed, PinsServed, DrawnServed, RemovalServed,
     MembersServed
  DEF RegistryInv
<1>3. CASE Restart
  BY <1>3, RegistryRestarted
<1> QED BY <1>1, <1>2, <1>3 DEF Next

\* The invariant holds in every state of the registry.
THEOREM RegistryIsInvariant == Spec => []RegistryInv
<1>1. Init => RegistryInv
  BY RegistryInvInit
<1>2. RegistryInv /\ [Next]_vars => RegistryInv'
  BY RegistryInvNext
<1> QED BY <1>1, <1>2, PTL DEF Spec

\* The registry's state is well formed, and every handler is at a step of its own
\* with the operands that step needs (all of devices.rs's handlers).
THEOREM TypeCorrect == Spec => []TypeOK
<1>1. RegistryInv => TypeOK
  <2> SUFFICES ASSUME RegistryInv PROVE TypeOK
    OBVIOUS
  <2>1. joined \subseteq [dev : Devices, pin : Nat]
    BY DEF RegistryInv, StateOK, SlotsOK, Pins
  <2> QED BY <2>1 DEF RegistryInv, SlotsOK, StateOK, TypeOK
<1> QED BY <1>1, RegistryIsInvariant, PTL

\* However many guests send a PIN at once, it lets in at most one device
\* (register_device compares and rotates it under host_device_id.write()).
THEOREM PinsAdmitOne == Spec => []OneGuestPerPin
<1>1. RegistryInv => OneGuestPerPin
  BY DEF RegistryInv, PinsOK
<1> QED BY <1>1, RegistryIsInvariant, PTL

\* A device whose removal was acknowledged never comes back, restarts included
\* (remove_device and reset_host_identity delete the row before the entry).
THEOREM RemovalsArePermanent == Spec => []RemovalIsPermanent
<1>1. RegistryInv => RemovalIsPermanent
  BY DEF RegistryInv, RemovalOK
<1> QED BY <1>1, RegistryIsInvariant, PTL

\* A device that has its token keeps access until its own removal or a reset is
\* let through, whatever fails or crashes (register_device writes the row first).
THEOREM MembersKeepAccess == Spec => []MembersStay
<1>1. RegistryInv => MembersStay
  BY DEF RegistryInv, MembersOK
<1> QED BY <1>1, RegistryIsInvariant, PTL

(***************************************************************************)
(* What holds when no handler runs, for hubs whose clients do without some *)
(* of the calls.                                                           *)
(***************************************************************************)
ServedCalls == \A r \in Requests : req[r].op \in Calls \cup {"none"}

LEMMA ServedCallsStep ==
  ASSUME RegistryInv, ServedCalls, [Next]_vars
  PROVE  ServedCalls'
<1>0. SlotsOK /\ StateOK
  BY DEF RegistryInv
<1>1. ASSUME NEW r \in Requests, OthersKeep(r),
             req'[r].op = req[r].op \/ req'[r].op \in Calls \cup {"none"}
      PROVE  ServedCalls'
  BY <1>1 DEF ServedCalls, OthersKeep
<1>2. ASSUME NEW r \in Requests, Serve(r)
      PROVE  ServedCalls'
  <2>1. CASE BeginRegister(r)
    BY <1>0, <1>1, <2>1, BeginRegisterShape DEF Began, BeginRegister
  <2>2. CASE Authenticate(r)
    <3>1. PICK d \in devices, op \in Calls \ {"register"} :
            req' = [req EXCEPT ![r] = [Idle EXCEPT !.op = op, !.dev = d,
              !.pc = IF op = "reset_all" THEN "wipe_rows" ELSE "check"]]
      BY <2>2 DEF Authenticate
    <3>2. OthersKeep(r) /\ req'[r].op = op
      BY <1>0, <3>1 DEF SlotsOK, OthersKeep, Idle
    <3> QED BY <1>1, <3>2
  <2>3. \/ OthersKeep(r) /\ (req'[r].op = req[r].op \/ req'[r].op = "none")
        \/ BeginRegister(r) \/ Authenticate(r)
    BY <1>0, <1>2, StepShapes, EndShapes, DrawShapes, IdleFacts
    DEF Serve, Proceed, Moved, Ended, Drew
  <2> QED BY <1>1, <2>1, <2>2, <2>3
<1>3. CASE Restart
  BY <1>0, <1>3, RestartShape, IdleFacts DEF ServedCalls
<1>4. CASE UNCHANGED vars
  BY <1>4 DEF vars, ServedCalls
<1> QED BY <1>2, <1>3, <1>4 DEF Next

LEMMA ServedCallsInvariant == Spec => []ServedCalls
<1>1. Init => ServedCalls
  BY IdleFacts DEF Init, ServedCalls
<1> QED BY <1>1, ServedCallsStep, RegistryIsInvariant, PTL DEF Spec

\* The PIN that is shown is compared with, or a registration is about to.
PinPending ==
  /\ \A r \in Requests : At(r, "rotate_hash") => pin = req[r].new
  /\ (\A r \in Requests : ~At(r, "rotate_hash")) => pin = pinHash

LEMMA PinPendingStep ==
  ASSUME "reset_all" \notin Calls, RegistryInv, ServedCalls, PinPending, [Next]_vars
  PROVE  PinPending'
<1>0. SlotsOK /\ StateOK /\ LockOK
  BY DEF RegistryInv
<1>1. ASSUME NEW r \in Requests, OthersKeep(r), UNCHANGED <<pin, pinHash>>,
             ~At(r, "rotate_hash"), req'[r].pc # "rotate_hash"
      PROVE  PinPending'
  BY <1>1 DEF PinPending, OthersKeep, At
<1>2. ASSUME NEW r \in Requests, Serve(r)
      PROVE  PinPending'
  <2>0. req[r].pc \notin Resetting
    BY <1>0, Placement DEF SlotsOK, ServedCalls
  <2>1. \A s \in Requests \ {r} : req[r].pc \in Registering => ~At(s, "rotate_hash")
    BY <1>0 DEF LockOK, At, Registering
  <2>2. CASE RotatePin(r)
    <3>1. OthersKeep(r) /\ req'[r].pc = "rotate_hash" /\ pin' = req'[r].new
      BY <1>0, <2>2, StepShapes DEF RotatePin, Moved
    <3> QED BY <2>1, <2>2, <3>1 DEF PinPending, OthersKeep, RotatePin, At, Registering
  <2>3. CASE RotateHash(r)
    <3>1. /\ OthersKeep(r) /\ req'[r].pc = "add_device" /\ pinHash' = req[r].new
          /\ pin' = pin /\ At(r, "rotate_hash")
      BY <1>0, <2>3, StepShapes DEF RotateHash, Moved
    <3> QED BY <2>1, <3>1 DEF PinPending, OthersKeep, At, Registering
  <2>4. CASE BeginRegister(r)
    BY <1>0, <1>1, <2>4, BeginRegisterShape DEF Began, BeginRegister, At, memory
  <2>5. CASE Authenticate(r)
    BY <1>0, <1>1, <2>5, AuthenticateShape DEF Began, Authenticate, At, memory
  <2>6. CASE InsertDevice(r) \/ SetHostRow(r) \/ TakeHost(r) \/ AddDevice(r) \/ CheckHost(r)
    BY <1>0, <1>1, <2>6, StepShapes, IdleFacts
    DEF Moved, Ended, InsertDevice, SetHostRow, TakeHost, AddDevice, CheckHost, At, memory
  <2>7. CASE DeleteDeviceRow(r) \/ VacateHost(r) \/ ForgetDevice(r)
    BY <1>0, <1>1, <2>7, StepShapes, IdleFacts
    DEF Moved, Ended, DeleteDeviceRow, VacateHost, ForgetDevice, At, memory
  <2>8. CASE AddSession(r) \/ RevokeSession(r)
    BY <1>0, <1>1, <2>8, EndShapes, IdleFacts DEF Ended, AddSession, RevokeSession, At
  <2>9. CASE DatabaseFails(r) \/ Disconnect(r)
    BY <1>0, <1>1, <2>9, EndShapes, IdleFacts DEF Ended, DatabaseFails, Disconnect, At, memory
  <2>10. CASE SaveNewPin(r)
    BY <1>0, <1>1, <2>10, DrawShapes DEF Drew, SaveNewPin, At, memory
  <2> QED
    BY <1>2, <2>0, <2>2, <2>3, <2>4, <2>5, <2>6, <2>7, <2>8, <2>9, <2>10
    DEF Serve, Proceed, WipeRows, ClearDevices, ClearSessions, ClearHost, ClearPin,
        ClearHash, At, Resetting
<1>3. CASE Restart
  BY <1>0, <1>3, RestartShape, IdleFacts DEF PinPending, Restart, At
<1>4. CASE UNCHANGED vars
  BY <1>4 DEF vars, memory, PinPending, At
<1> QED BY <1>2, <1>3, <1>4 DEF Next

\* The PIN on the host's screen is the one that admits, whenever no handler
\* runs: a registration saves, shows and compares with the new one under the
\* host lock.  A full reset changes the two without it, in between those of a
\* registration perhaps, and is left out.
THEOREM ThePinShownAdmits ==
  ASSUME "reset_all" \notin Calls
  PROVE  Spec => []PinShownAdmits
<1>1. Init => PinPending
  BY IdleFacts DEF Init, PinPending, At
<1>2. PinPending => PinShownAdmits
  BY DEF PinPending, PinShownAdmits, AtRest, At
<1> QED
  BY <1>1, <1>2, PinPendingStep, ServedCallsInvariant, RegistryIsInvariant, PTL DEF Spec

\* Nobody resets the host or the hub, and a registration is not dropped: one
\* that is, between its row and its session, leaves a device that is listed and
\* whose token the hub does not know.
NoResets == Calls \cap {"reset_host", "reset_all"} = {} /\ "register" \notin Dropped

\* From its row to its entry a registration keeps the row.
Rowed == (Registering \ {"insert"}) \cup {"add_device"}

\* Where a removal has been let through.
Removing == Leaving \ {"check"}

\* The host setting names the host or is about to, names a device that has a
\* row, and is never the device of a removal.
HostOK ==
  /\ \A r \in Requests : ~At(r, "vacate")
  /\ \A r \in Requests : At(r, "take_host") => hostRow = req[r].dev
  /\ (\A r \in Requests : ~At(r, "take_host")) => host = hostRow
  /\ hostRow # NoDevice => hostRow \in deviceRows
  /\ \A r \in Requests : req[r].pc \in Rowed => req[r].dev \in deviceRows
  /\ \A r \in Requests : req[r].pc \in Removing => req[r].dev \notin {host, hostRow}

\* What can run then.
LEMMA OnlyMembersMove ==
  ASSUME NoResets, SlotsOK, ServedCalls, HostOK, NEW r \in Requests
  PROVE  /\ req[r].op \in {"none", "register", "remove"}
         /\ req[r].pc \notin Resetting
         /\ ~At(r, "vacate")
<1>1. req[r] \in RequestStates /\ WellPlaced(req[r]) /\ req[r].op \in Calls \cup {"none"}
  BY DEF SlotsOK, ServedCalls
<1>2. req[r].op \in {"none", "register", "remove"}
  BY <1>1 DEF NoResets, RegistryAssumption, Handlers
<1> QED BY <1>1, <1>2, Placement DEF HostOK

\* Nobody else handles the device of a registration that has not listed it.
LEMMA NobodyElse ==
  ASSUME RegistryInv, NEW r \in Requests, req[r].pc \in Registering \cup {"add_device"},
         NEW s \in Requests \ {r}
  PROVE  /\ req[s].pc # "idle" => req[s].dev # req[r].dev
         /\ req[r].pc \in Registering => req[s].pc \notin Registering
BY DEF RegistryInv, DrawnOK, Unlisted, LockOK

\* The steps that change neither the rows nor the host.
LEMMA HostKept ==
  ASSUME HostOK, NEW r \in Requests, OthersKeep(r), UNCHANGED <<host, database>>,
         req[r].pc # "take_host", req'[r].pc \notin {"take_host", "vacate"},
         req'[r].pc \in Rowed => req[r].pc \in Rowed /\ req'[r].dev = req[r].dev,
         req'[r].pc \in Removing =>
           /\ req'[r].dev = req[r].dev
           /\ req[r].pc \in Removing \/ req[r].dev \notin {host, hostRow}
  PROVE  HostOK'
BY DEF HostOK, OthersKeep, At, database

LEMMA HostServed ==
  ASSUME NoResets, RegistryInv, ServedCalls, HostOK, NEW r \in Requests, Serve(r)
  PROVE  HostOK'
<1> USE DEF memory
<1>0. SlotsOK /\ StateOK
  BY DEF RegistryInv
<1>1. CASE BeginRegister(r)
  <2>1. Idle.pc # "take_host" /\ req[r].pc = "idle"
    BY <1>1, IdleFacts DEF BeginRegister, At
  <2> QED BY <1>0, <1>1, <2>1, BeginRegisterShape, HostKept
    DEF Began, BeginRegister, Rowed, Registering, Removing, Leaving
<1>2. CASE Authenticate(r)
  <2>1. req[r].pc = "idle"
    BY <1>2 DEF Authenticate, At
  <2> QED BY <1>0, <1>2, <2>1, AuthenticateShape, HostKept
    DEF Began, Authenticate, Rowed, Registering, Removing, Leaving
<1>3. CASE InsertDevice(r)
  <2>1. /\ OthersKeep(r) /\ req'[r].pc \in {"set_host", "set_pin"}
        /\ req'[r].dev = req[r].dev /\ req[r].pc = "insert"
        /\ deviceRows' = deviceRows \cup {req[r].dev} /\ UNCHANGED <<host, hostRow>>
    BY <1>0, <1>3, StepShapes DEF InsertDevice, Moved, At
  <2> QED BY <2>1 DEF HostOK, OthersKeep, At, Rowed, Removing, Leaving
<1>4. CASE SetHostRow(r)
  <2>1. /\ OthersKeep(r) /\ req'[r].pc = "take_host"
        /\ req'[r].dev = req[r].dev /\ req[r].pc = "set_host"
        /\ hostRow' = req[r].dev /\ UNCHANGED <<host, deviceRows>>
    BY <1>0, <1>4, StepShapes DEF SetHostRow, Moved, At
  <2>2. req[r].dev \in deviceRows
    BY <2>1 DEF HostOK, Rowed, Registering
  <2>3. \A s \in Requests \ {r} : req[s].pc # "take_host"
    BY <2>1, NobodyElse DEF Registering
  <2>4. \A s \in Requests \ {r} : req[s].pc \in Removing => req[s].dev # req[r].dev
    BY <2>1, NobodyElse DEF Registering, Removing, Leaving
  <2> QED BY <2>1, <2>2, <2>3, <2>4 DEF HostOK, OthersKeep, At, Removing, Leaving
<1>5. CASE TakeHost(r)
  <2>1. /\ OthersKeep(r) /\ req'[r].pc = "add_device"
        /\ req'[r].dev = req[r].dev /\ req[r].pc = "take_host"
        /\ host' = req[r].dev /\ UNCHANGED <<hostRow, deviceRows>>
    BY <1>0, <1>5, StepShapes DEF TakeHost, Moved, At, database
  <2>2. req[r].dev \in deviceRows /\ hostRow = req[r].dev
    BY <2>1 DEF HostOK, Rowed, Registering, At
  <2>3. \A s \in Requests \ {r} : req[s].pc # "take_host"
    BY <2>1, NobodyElse DEF Registering
  <2> QED BY <2>1, <2>2, <2>3 DEF HostOK, OthersKeep, At, Removing, Leaving
<1>6. CASE SaveNewPin(r)
  BY <1>0, <1>6, DrawShapes, HostKept
  DEF Drew, SaveNewPin, At, Rowed, Registering, Removing, Leaving
<1>7. CASE RotatePin(r) \/ RotateHash(r)
  BY <1>0, <1>7, StepShapes, HostKept
  DEF Moved, RotatePin, RotateHash, At, Rowed, Registering, Removing, Leaving
<1>8. CASE AddDevice(r)
  BY <1>0, <1>8, StepShapes, HostKept
  DEF Moved, AddDevice, At, Rowed, Registering, Removing, Leaving
<1>9. CASE AddSession(r) \/ RevokeSession(r)
  BY <1>0, <1>9, EndShapes, IdleFacts, HostKept
  DEF Ended, AddSession, RevokeSession, At, Rowed, Registering, Removing, Leaving
<1>10. CASE CheckHost(r)
  <2>1. req[r].op # "reset_host" /\ req[r].pc = "check"
    BY <1>0, <1>10, OnlyMembersMove DEF CheckHost, At
  <2>2. host = hostRow
    BY <1>10 DEF RegistryInv, LockOK, HostOK, CheckHost, HostFree, At, Registering,
      RegistryAssumption
  <2>3. CASE MayLeave(r)
    <3>1. OthersKeep(r) /\ req'[r].pc = "delete_row" /\ req'[r].dev = req[r].dev
      BY <1>0, <1>10, <2>1, <2>3, Moves, GotoMoves
      DEF CheckHost, SlotsOK, Rotating, Moved
    <3>2. req[r].dev \notin {host, hostRow}
      BY <2>1, <2>2, <2>3 DEF MayLeave
    <3> QED BY <1>10, <2>1, <3>1, <3>2, HostKept DEF CheckHost, Rowed, Registering
  <2>4. CASE ~MayLeave(r)
    BY <1>0, <1>10, <2>1, <2>4, FinishStep, IdleFacts, HostKept
    DEF CheckHost, Ended, Rowed, Registering, Removing, Leaving
  <2> QED BY <2>3, <2>4
<1>11. CASE DeleteDeviceRow(r)
  <2>1. req[r].op # "reset_host" /\ req[r].pc = "delete_row"
    BY <1>0, <1>11, OnlyMembersMove DEF DeleteDeviceRow, At
  <2>2. /\ OthersKeep(r) /\ req'[r].pc = "forget" /\ req'[r].dev = req[r].dev
        /\ deviceRows' = deviceRows \ {req[r].dev} /\ UNCHANGED <<host, hostRow>>
    BY <1>0, <1>11, <2>1, Moves, GotoMoves DEF DeleteDeviceRow, SlotsOK, Rotating, Moved
  <2>3. req[r].dev \notin {host, hostRow}
    BY <2>1 DEF HostOK, Removing, Leaving
  <2>4. \A s \in Requests \ {r} : req[s].pc \in Rowed => req[s].dev # req[r].dev
    BY <2>1, NobodyElse DEF Rowed
  <2> QED BY <2>1, <2>2, <2>3, <2>4
    DEF HostOK, OthersKeep, At, Rowed, Registering
<1>12. CASE ForgetDevice(r)
  BY <1>0, <1>12, StepShapes, IdleFacts, HostKept
  DEF Moved, Ended, ForgetDevice, At, Rowed, Registering, Removing, Leaving
<1>13. CASE DatabaseFails(r)
  BY <1>0, <1>13, EndShapes, IdleFacts, HostKept
  DEF Ended, DatabaseFails, Rowed, Registering, Removing, Leaving
<1>14. CASE Disconnect(r)
  <2>1. req[r].pc # "take_host"
    BY <1>0, <1>14, Placement DEF Disconnect, NoResets, SlotsOK, Registering
  <2> QED BY <1>0, <1>14, <2>1, EndShapes, IdleFacts, HostKept
    DEF Ended, Disconnect, Rowed, Registering, Removing, Leaving
<1> QED
  BY <1>0, <1>1, <1>2, <1>3, <1>4, <1>5, <1>6, <1>7, <1>8, <1>9, <1>10, <1>11, <1>12, <1>13,
     <1>14, OnlyMembersMove
  DEF Serve, Proceed, VacateHost, WipeRows, ClearDevices, ClearSessions, ClearHost,
      ClearPin, ClearHash, At, Resetting

LEMMA HostRestarted ==
  ASSUME RegistryInv, HostOK, Restart
  PROVE  HostOK'
<1>1. \A r \in Requests : req'[r].pc = "idle"
  BY RestartShape, IdleFacts DEF RegistryInv
<1> QED BY <1>1 DEF Restart, HostOK, At, Rowed, Registering, Removing, Leaving

\* The host can be authenticated, or its registration is about to list it.
HostListed ==
  host # NoDevice =>
    \/ Authenticates(host)
    \/ \E r \in Requests : req[r].dev = host /\ At(r, "add_device")
    \/ host \in devices /\ \E r \in Requests : req[r].dev = host /\ At(r, "add_session")

LEMMA HostListedKept ==
  ASSUME HostListed, NEW r \in Requests, OthersKeep(r), host' = host,
         host \in devices => host \in devices',
         host \in sessions => host \in sessions',
         req[r].pc \notin Listing
  PROVE  HostListed'
BY DEF HostListed, Authenticates, OthersKeep, At, Listing

LEMMA HostListedServed ==
  ASSUME NoResets, RegistryInv, ServedCalls, HostOK, HostListed,
         NEW r \in Requests, Serve(r)
  PROVE  HostListed'
<1> USE DEF memory
<1>0. SlotsOK /\ StateOK
  BY DEF RegistryInv
<1>1. CASE BeginRegister(r)
  BY <1>0, <1>1, BeginRegisterShape, HostListedKept DEF Began, BeginRegister, At, Listing
<1>2. CASE Authenticate(r)
  BY <1>0, <1>2, AuthenticateShape, HostListedKept DEF Began, Authenticate, At, Listing
<1>3. CASE InsertDevice(r) \/ SetHostRow(r)
  BY <1>0, <1>3, StepShapes, HostListedKept DEF Moved, InsertDevice, SetHostRow, At, Listing
<1>4. CASE TakeHost(r)
  <2>1. req'[r].pc = "add_device" /\ req'[r].dev = host'
    BY <1>0, <1>4, StepShapes DEF Moved, TakeHost
  <2> QED BY <2>1 DEF HostListed, At
<1>5. CASE SaveNewPin(r)
  BY <1>0, <1>5, DrawShapes, HostListedKept DEF Drew, SaveNewPin, At, Listing
<1>6. CASE RotatePin(r) \/ RotateHash(r)
  BY <1>0, <1>6, StepShapes, HostListedKept DEF Moved, RotatePin, RotateHash, At, Listing
<1>7. CASE AddDevice(r)
  <2>1. /\ OthersKeep(r) /\ req'[r].pc = "add_session" /\ req'[r].dev = req[r].dev
        /\ devices' = devices \cup {req[r].dev} /\ UNCHANGED <<host, sessions>>
        /\ req[r].pc = "add_device"
    BY <1>0, <1>7, StepShapes DEF Moved, AddDevice, At
  <2> QED BY <2>1 DEF HostListed, Authenticates, OthersKeep, At
<1>8. CASE AddSession(r)
  <2>1. /\ OthersKeep(r) /\ req[r].pc = "add_session"
        /\ sessions' = sessions \cup {req[r].dev} /\ UNCHANGED <<host, devices>>
    BY <1>0, <1>8, EndShapes DEF Ended, AddSession, At
  <2>2. CASE req[r].dev = host
    <3>1. \A s \in Requests : ~(req[s].dev = host /\ At(s, "add_device"))
      BY <2>1, <2>2, NobodyElse DEF At
    <3> QED BY <2>1, <2>2, <3>1 DEF HostListed, Authenticates
  <2>3. CASE req[r].dev # host
    BY <2>1, <2>3 DEF HostListed, Authenticates, OthersKeep, At
  <2> QED BY <2>2, <2>3
<1>9. CASE CheckHost(r) \/ DeleteDeviceRow(r)
  BY <1>0, <1>9, StepShapes, HostListedKept
  DEF Moved, Ended, CheckHost, DeleteDeviceRow, At, Listing
<1>10. CASE ForgetDevice(r) \/ RevokeSession(r)
  <2>1. req[r].dev # host
    BY <1>10 DEF ForgetDevice, RevokeSession, At, HostOK, Removing, Leaving
  <2> QED BY <1>0, <1>10, <2>1, StepShapes, EndShapes, HostListedKept
    DEF Moved, Ended, ForgetDevice, RevokeSession, At, Listing
<1>11. CASE DatabaseFails(r)
  BY <1>0, <1>11, EndShapes, HostListedKept DEF Ended, DatabaseFails, Listing
<1>12. CASE Disconnect(r)
  <2>1. req[r].pc \notin Listing
    BY <1>0, <1>12, Placement DEF Disconnect, NoResets, SlotsOK
  <2> QED BY <1>0, <1>12, <2>1, EndShapes, HostListedKept DEF Ended, Disconnect
<1> QED
  BY <1>0, <1>1, <1>2, <1>3, <1>4, <1>5, <1>6, <1>7, <1>8, <1>9, <1>10, <1>11, <1>12,
     OnlyMembersMove
  DEF Serve, Proceed, VacateHost, WipeRows, ClearDevices, ClearSessions, ClearHost,
      ClearPin, ClearHash, At, Resetting

\* Whoever is listed has a session, or its registration is about to give it
\* one; and a row, or its removal is about to take it off the list.
MembersListed ==
  \A d \in devices :
    /\ d \in sessions \/ \E r \in Requests : req[r].dev = d /\ At(r, "add_session")
    /\ d \in deviceRows \/ \E r \in Requests : req[r].dev = d /\ At(r, "forget")

LEMMA MembersListedKept ==
  ASSUME MembersListed, NEW r \in Requests, OthersKeep(r), devices' \subseteq devices,
         devices' \cap sessions \subseteq sessions',
         devices' \cap deviceRows \subseteq deviceRows',
         req[r].pc = "add_session" => req[r].dev \in sessions',
         req[r].pc = "forget" => req[r].dev \notin devices'
  PROVE  MembersListed'
<1>1. ASSUME NEW d \in devices'
      PROVE  d \in sessions' \/ \E s \in Requests : req'[s].dev = d /\ req'[s].pc = "add_session"
  BY <1>1 DEF MembersListed, OthersKeep, At
<1>2. ASSUME NEW d \in devices'
      PROVE  d \in deviceRows' \/ \E s \in Requests : req'[s].dev = d /\ req'[s].pc = "forget"
  BY <1>2 DEF MembersListed, OthersKeep, At
<1> QED BY <1>1, <1>2 DEF MembersListed, At

LEMMA MembersListedServed ==
  ASSUME NoResets, "remove" \notin Dropped, RegistryInv, ServedCalls, HostOK,
         MembersListed, NEW r \in Requests, Serve(r)
  PROVE  MembersListed'
<1> USE DEF memory, database
<1>0. SlotsOK /\ StateOK
  BY DEF RegistryInv
<1>1. CASE BeginRegister(r)
  BY <1>0, <1>1, BeginRegisterShape, MembersListedKept DEF Began, BeginRegister, At
<1>2. CASE Authenticate(r)
  BY <1>0, <1>2, AuthenticateShape, MembersListedKept DEF Began, Authenticate, At
<1>3. CASE InsertDevice(r) \/ SetHostRow(r) \/ TakeHost(r)
  BY <1>0, <1>3, StepShapes, MembersListedKept
  DEF Moved, InsertDevice, SetHostRow, TakeHost, At
<1>4. CASE SaveNewPin(r)
  BY <1>0, <1>4, DrawShapes, MembersListedKept DEF Drew, SaveNewPin, At
<1>5. CASE RotatePin(r) \/ RotateHash(r) \/ CheckHost(r)
  BY <1>0, <1>5, StepShapes, MembersListedKept
  DEF Moved, Ended, RotatePin, RotateHash, CheckHost, At
<1>6. CASE AddDevice(r)
  <2>1. /\ OthersKeep(r) /\ req'[r].pc = "add_session" /\ req'[r].dev = req[r].dev
        /\ devices' = devices \cup {req[r].dev} /\ UNCHANGED <<deviceRows, sessions>>
        /\ req[r].pc = "add_device"
    BY <1>0, <1>6, StepShapes DEF Moved, AddDevice, At
  <2>2. req[r].dev \in deviceRows
    BY <2>1 DEF HostOK, Rowed
  <2> QED BY <2>1, <2>2 DEF MembersListed, OthersKeep, At
<1>7. CASE AddSession(r)
  BY <1>0, <1>7, EndShapes, MembersListedKept DEF Ended, AddSession, At
<1>8. CASE DeleteDeviceRow(r)
  <2>1. req[r].op # "reset_host" /\ req[r].pc = "delete_row"
    BY <1>0, <1>8, OnlyMembersMove DEF DeleteDeviceRow, At
  <2>2. /\ OthersKeep(r) /\ req'[r].pc = "forget" /\ req'[r].dev = req[r].dev
        /\ deviceRows' = deviceRows \ {req[r].dev} /\ UNCHANGED <<devices, sessions>>
    BY <1>0, <1>8, <2>1, Moves, GotoMoves DEF DeleteDeviceRow, SlotsOK, Rotating, Moved
  <2> QED BY <2>1, <2>2 DEF MembersListed, OthersKeep, At
<1>9. CASE ForgetDevice(r)
  BY <1>0, <1>9, StepShapes, MembersListedKept DEF Moved, Ended, ForgetDevice, At
<1>10. CASE RevokeSession(r)
  <2>1. req[r].dev \notin devices
    BY <1>10 DEF RegistryInv, RemovalOK, RevokeSession, At
  <2> QED BY <1>0, <1>10, <2>1, EndShapes, MembersListedKept DEF Ended, RevokeSession, At
<1>11. CASE DatabaseFails(r)
  BY <1>0, <1>11, EndShapes, MembersListedKept DEF Ended, DatabaseFails
<1>12. ~Disconnect(r)
  BY <1>0, OnlyMembersMove, Placement DEF Disconnect, NoResets, SlotsOK
<1> QED
  BY <1>0, <1>1, <1>2, <1>3, <1>4, <1>5, <1>6, <1>7, <1>8, <1>9, <1>10, <1>11, <1>12,
     OnlyMembersMove
  DEF Serve, Proceed, VacateHost, WipeRows, ClearDevices, ClearSessions, ClearHost,
      ClearPin, ClearHash, At, Resetting

LEMMA HostInvariant ==
  ASSUME NoResets
  PROVE  Spec => [](HostOK /\ HostListed)
<1>1. Init => HostOK /\ HostListed
  BY IdleFacts DEF Init, HostOK, HostListed, At, Rowed, Registering, Removing, Leaving
<1>2. RegistryInv /\ ServedCalls /\ HostOK /\ HostListed /\ [Next]_vars
        => (HostOK /\ HostListed)'
  <2> SUFFICES ASSUME RegistryInv, ServedCalls, HostOK, HostListed, [Next]_vars
               PROVE  HostOK' /\ HostListed'
    OBVIOUS
  <2>1. CASE Restart
    BY <2>1, HostRestarted DEF Restart, HostOK, HostListed, Authenticates
  <2>2. CASE UNCHANGED vars
    BY <2>2 DEF vars, memory, database, HostOK, HostListed, Authenticates, At
  <2> QED BY <2>1, <2>2, HostServed, HostListedServed DEF Next
<1> QED BY <1>1, <1>2, RegistryIsInvariant, ServedCallsInvariant, PTL DEF Spec

\* When no handler runs, the host is a device whose token gets it through, after
\* crashes and failing database calls too (register_device lists the host, and
\* remove_device refuses it, under the lock of host_device_id).
THEOREM TheHostCanAct ==
  ASSUME NoResets
  PROVE  Spec => []HostCanAct
<1>1. HostOK /\ HostListed => HostCanAct
  BY DEF HostListed, HostCanAct, AtRest, At
<1> QED BY <1>1, HostInvariant, PTL

\* When no handler runs, the three records of a member (the entry, the session,
\* the row) stand or fall together, and the host is the one a restart would
\* restore; here a removal is not dropped either, which would leave its device
\* listed without a row.
THEOREM MembersHaveAll ==
  ASSUME NoResets, "remove" \notin Dropped
  PROVE  Spec => []MembersAreWhole
<1>1. Init => MembersListed
  BY DEF Init, MembersListed
<1>2. RegistryInv /\ ServedCalls /\ HostOK /\ MembersListed /\ [Next]_vars
        => MembersListed'
  <2> SUFFICES ASSUME RegistryInv, ServedCalls, HostOK, MembersListed, [Next]_vars
               PROVE  MembersListed'
    OBVIOUS
  <2>1. CASE Restart
    BY <2>1 DEF Restart, MembersListed
  <2>2. CASE UNCHANGED vars
    BY <2>2 DEF vars, memory, database, MembersListed, At
  <2> QED BY <2>1, <2>2, MembersListedServed DEF Next
<1>3. HostOK /\ MembersListed => MembersAreWhole
  BY DEF HostOK, MembersListed, MembersAreWhole, AtRest, At
<1> QED
  BY <1>1, <1>2, <1>3, HostInvariant, RegistryIsInvariant, ServedCallsInvariant,
    PTL DEF Spec
=============================================================================
