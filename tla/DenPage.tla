------------------------------- MODULE DenPage -------------------------------
(***************************************************************************)
(* One page of the web client around its session: joining, leaving, the    *)
(* host's controls, the dialog that confirms them, and on the desktop the  *)
(* transfer folder and the full reset (frontend/src/components:            *)
(* DeviceSetup, HostSettings, DeviceList, MessagePanel, DesktopSettings,   *)
(* DialogViewport; api/client.ts and devices.ts; store/deviceStore.ts and  *)
(* dialogStore.ts; src-tauri/src/main.rs).                                 *)
(*                                                                         *)
(* A click starts a call, the hub serves it, and the page handles the      *)
(* answer: three steps, with anything in between.  A dialog covers the     *)
(* page, but is not tied to the component or the session that opened it,   *)
(* and the keyboard still reaches what it covers.  The page's own devices  *)
(* are numbers, one for each time the hub admits it.                       *)
(***************************************************************************)
EXTENDS Naturals, Sequences, FiniteSets

CONSTANTS
  Runtimes,   \* what the page may run in
  NoDevice,
  NoFolder,
  Folders,    \* the folders a user may choose for transfers
  Default,    \* the folder of the installation
  MaxJoins,   \* bound: how often the hub admits the page
  MaxCalls,   \* bound: how many calls wait at a time
  MaxInvoked, \* bound: how many commands that change something wait at a time
  MaxResets   \* bound: how many full resets are under way at a time

Other == 0  \* every other device

ASSUME PageAssumption ==
  /\ Runtimes \subseteq {"browser", "desktop"}
  /\ {MaxJoins, MaxCalls, MaxInvoked, MaxResets} \subseteq Nat
  /\ NoDevice \notin 0..MaxJoins
  /\ Default \notin Folders /\ NoFolder \notin Folders \cup {Default}

VARIABLES
  runtime,
  host,      \* AppState.host_device_id
  members,   \* the page's devices the hub has sessions for
  rows,      \* those the devices table has,
  hostRow,   \* and host_device_id of the settings table
  resets,    \* the full resets under way: who asked, and what comes next
  born,      \* how many devices the hub has admitted
  hosts,     \* history: those it made host
  caught,    \* history: those it admitted while a full reset was under way,
  revived,   \* and those a start of the hub brought back from their rows
  me,        \* the page's session, in the store and in localStorage
  announced, \* whether desktop_reset has come to the socket of that session
  hasHost,   \* has_host_device of the config cached for no session
  isHost,    \* is_host_device of the config cached for this session,
  dir,       \* and its storage_dir
  calls,     \* the requests whose answers the page waits for
  dialog,    \* the dialog that is shown
  verified,  \* whether its input holds the text it asks for
  usable,    \* the folders that can be written to
  running,   \* the folder the hub has been started with
  moved,     \* history: whether folders have come or gone since then
  pref,      \* transfer_storage_dir of desktop-settings.json
  saved,     \* savedTransferStorageDir and
  fallback,  \* storageFallbackActive of the mounted form
  invoked,   \* the commands of the desktop shell, which runs one at a time
  untold     \* history: whether pref was written without telling the form

tables == <<rows, hostRow>>
hub == <<host, members, tables, resets, born, hosts, caught, revived>>
session == <<me, announced, hasHost, isHost, dir>>
prompt == <<dialog, verified>>
shell == <<usable, running, moved, pref>>
form == <<saved, fallback, invoked, untold>>
vars == <<runtime, hub, session, calls, prompt, shell, form>>

NoDialog == [shown |-> "none"]

\* A command for the desktop shell, and whether the form that gave it still is
\* the mounted one.
Command(op, folder, live, seen) == [op |-> op, folder |-> folder, live |-> live, seen |-> seen]
Get == Command("get", NoFolder, TRUE, NoDialog)

\* The commands of a queue that change something.
Changes(queue) ==
  LET before[n \in 0..Len(queue)] ==
        IF n = 0 THEN <<>>
        ELSE IF queue[n].op = "get" THEN before[n - 1]
        ELSE Append(before[n - 1], queue[n])
  IN  before[Len(queue)]

MayInvoke == Len(Changes(invoked)) < MaxInvoked

Init ==
  /\ runtime \in Runtimes
  /\ host \in {NoDevice, Other}
  /\ members = {} /\ rows = {} /\ hostRow = host /\ resets = {}
  /\ born = 0 /\ hosts = {} /\ caught = {} /\ revived = {}
  /\ me = NoDevice /\ announced = FALSE /\ hasHost = FALSE /\ isHost = FALSE /\ dir = NoFolder
  /\ calls = {} /\ dialog = NoDialog /\ verified = FALSE
  /\ usable = Folders /\ running = Default /\ moved = FALSE /\ pref = Default
  /\ saved = NoFolder /\ fallback = FALSE /\ untold = FALSE
  /\ invoked = IF runtime = "desktop" THEN <<Get>> ELSE <<>>

(***************************************************************************)
(* The session                                                             *)
(***************************************************************************)
\* The desktop form is mounted anew: it forgets what it had read and reads it
\* again.  Commands that wait run, but no longer tell a form.
Orphaned(queue) ==
  LET waiting == Changes(queue)
  IN  [n \in DOMAIN waiting |-> [waiting[n] EXCEPT !.live = FALSE]]

MountForm(queue) ==
  /\ saved' = NoFolder /\ fallback' = FALSE
  /\ invoked' = IF runtime = "desktop"
                  THEN Append(Orphaned(queue), Get)
                  ELSE <<>>

\* App shows other components with a session than without one.
Remounts(d) == (d = NoDevice) # (me = NoDevice)

\* Mutant of SetSession: the socket of the former session is not closed.
SetSessionKeepingSocket(d, queue) ==
  /\ me' = d /\ isHost' = FALSE /\ dir' = NoFolder
  /\ IF Remounts(d) THEN MountForm(queue)
     ELSE invoked' = queue /\ UNCHANGED <<saved, fallback>>
  /\ UNCHANGED <<announced, hasHost>>

\* setDevice and clearDevice; the config is cached for each session, and each has
\* a socket of its own.
SetSession(d, queue) ==
  /\ me' = d /\ announced' = FALSE /\ isHost' = FALSE /\ dir' = NoFolder
  /\ IF Remounts(d) THEN MountForm(queue)
     ELSE invoked' = queue /\ UNCHANGED <<saved, fallback>>
  /\ UNCHANGED hasHost

ClearDevice == SetSession(NoDevice, invoked)

KeepSession == UNCHANGED <<session, saved, fallback, invoked>>

\* GET /api/config, which is never refused.  When the form learns storage_dir
\* before it has read the preference, it reads it once more.
FetchConfig ==
  /\ IF me = NoDevice
       THEN hasHost' = (host # NoDevice) /\ UNCHANGED <<isHost, dir, invoked>>
       ELSE /\ isHost' = (me \in members /\ host = me)
            /\ dir' = IF isHost' /\ runtime = "desktop" THEN running ELSE NoFolder
            /\ invoked' = IF runtime = "desktop" /\ dir' # dir /\ saved = NoFolder
                            THEN Append(invoked, Get)
                            ELSE invoked
            /\ UNCHANGED hasHost
  /\ UNCHANGED <<runtime, hub, me, announced, calls, prompt, shell, saved, fallback, untold>>

(***************************************************************************)
(* Calls                                                                   *)
(***************************************************************************)
\* A call: the device it is about (for a registration, the device admitted),
\* the one whose token it carries, the session its component had when the user
\* asked for it, what the user saw then, and the answer.
Start(op, id, asked, seen) ==
  calls' = calls \cup
    {[op |-> op, id |-> id, dev |-> me, asked |-> asked, seen |-> seen, answer |-> "none"]}

Pending(ops) == \E c \in calls : c.op \in ops /\ c.asked = me
MayCall == Cardinality(calls) < MaxCalls

\* DeviceSetup: without a session a PIN is asked for if the config says that
\* there is a host, and the button is called accordingly.
RequiresPin == hasHost
Label == IF RequiresPin THEN "Join" ELSE "Start as host"

\* Mutant of Registration: a PIN that was typed earlier is sent in any case.
AnyRegistration == {"register", "registerWithPin"}

Registration == {IF RequiresPin THEN "registerWithPin" ELSE "register"}

Submit ==
  /\ me = NoDevice /\ ~Pending(AnyRegistration)
  /\ MayCall /\ born < MaxJoins
  /\ \E op \in Registration : Start(op, NoDevice, me, Label)
  /\ UNCHANGED <<runtime, hub, session, prompt, shell, form>>

\* The button is there for a guest, as far as the page knows.
CanLeave == me # NoDevice /\ ~isHost /\ ~Pending({"leave"})

\* onSwitchDevice.
Leave ==
  /\ CanLeave
  /\ MayCall
  /\ Start("leave", me, me, "Leave den")
  /\ UNCHANGED <<runtime, hub, session, prompt, shell, form>>

\* A query of the session.
Request ==
  /\ me # NoDevice
  /\ MayCall
  /\ Start("request", NoDevice, me, "request")
  /\ UNCHANGED <<runtime, hub, session, prompt, shell, form>>

\* sendMessage: one at a time.
SendMessage ==
  /\ me # NoDevice /\ ~Pending({"message"})
  /\ MayCall
  /\ Start("message", NoDevice, me, "Send")
  /\ UNCHANGED <<runtime, hub, session, prompt, shell, form>>

Answered(c, answer) == (calls \ {c}) \cup {[c EXCEPT !.answer = answer]}

\* register_device.
Admit(c) ==
  LET d == born + 1 IN
  /\ c.op \in AnyRegistration
  /\ \/ /\ (host = NoDevice \/ c.op = "registerWithPin")
        /\ born' = d /\ members' = members \cup {d} /\ rows' = rows \cup {d}
        /\ IF host = NoDevice THEN host' = d /\ hostRow' = d /\ hosts' = hosts \cup {d}
           ELSE UNCHANGED <<host, hostRow, hosts>>
        /\ caught' = IF resets = {} THEN caught ELSE caught \cup {d}
        /\ UNCHANGED <<resets, revived>>
        /\ calls' = (calls \ {c}) \cup {[c EXCEPT !.answer = "ok", !.id = d]}
     \/ /\ host # NoDevice
        /\ calls' = Answered(c, "unauthorized")
        /\ UNCHANGED hub

\* remove_device.
Remove(c) ==
  /\ c.op \in {"leave", "leaveDesktop", "remove"}
  /\ \/ /\ (c.id = host \/ c.dev \notin {host, c.id})
        /\ calls' = Answered(c, "refused") /\ UNCHANGED hub
     \/ /\ c.dev \in {host, c.id}
        /\ c.id # host
        /\ IF c.id \in members \cup {Other} THEN calls' = Answered(c, "ok")
           ELSE calls' = Answered(c, "notFound")
        /\ members' = members \ {c.id} /\ rows' = rows \ {c.id}
        /\ UNCHANGED <<host, hostRow, resets, born, hosts, caught, revived>>

\* reset_host_identity, clear_messages, delete_all_transfers, update_host_settings.
HostOnly(c) ==
  /\ c.op \in {"resetHost", "clearMessages", "clearTransfers", "saveExpiry"}
  /\ IF c.dev # host THEN calls' = Answered(c, "refused") /\ UNCHANGED <<host, members, tables>>
     ELSE /\ calls' = Answered(c, "ok")
          /\ IF c.op = "resetHost"
               THEN /\ host' = NoDevice /\ members' = members \ {c.dev}
                    /\ hostRow' = NoDevice /\ rows' = rows \ {c.dev}
               ELSE UNCHANGED <<host, members, tables>>
  /\ UNCHANGED <<resets, born, hosts, caught, revived>>

\* reset_desktop_data is let through, and has wiped the tables.
BeginReset(d) ==
  /\ Cardinality(resets) < MaxResets
  /\ resets' = resets \cup {[by |-> d, next |-> "sessions"]}
  /\ rows' = {} /\ hostRow' = NoDevice
  /\ UNCHANGED <<host, members, born, hosts, caught, revived>>

ResetAll(c) ==
  /\ c.op = "resetAll"
  /\ IF c.dev = host THEN BeginReset(c.dev) /\ calls' = Answered(c, "serving")
     ELSE calls' = Answered(c, "refused") /\ UNCHANGED hub

\* The hub serves a call of the page, or fails at it.
Serve(c) ==
  /\ c.answer = "none"
  /\ \/ Admit(c)
     \/ /\ c.op \notin AnyRegistration /\ c.dev \notin members
        /\ calls' = Answered(c, "unauthorized") /\ UNCHANGED hub
     \/ c.dev \in members /\ (Remove(c) \/ HostOnly(c) \/ ResetAll(c))
     \/ /\ c.dev \in members /\ c.op \in {"request", "message"}
        /\ calls' = Answered(c, "ok") /\ UNCHANGED hub
     \/ calls' = Answered(c, "refused") /\ UNCHANGED hub
  /\ UNCHANGED <<runtime, session, prompt, shell, form>>

\* The connection breaks before or after that.
Lose(c) ==
  /\ c.answer # "lost"
  /\ calls' = Answered(c, "lost")
  /\ UNCHANGED <<runtime, hub, session, prompt, shell, form>>

\* The rest of reset_desktop_data.  Other requests are served between its steps,
\* registrations among them, and all it does to the files comes before the
\* announcement.
Wait(r, next) == resets' = (resets \ {r}) \cup {[r EXCEPT !.next = next]}

ClearSessions(r) ==
  /\ r.next = "sessions" /\ Wait(r, "host")
  /\ members' = {}
  /\ UNCHANGED <<host, tables, calls, announced>>

ClearHost(r) ==
  /\ r.next = "host" /\ Wait(r, "announcement")
  /\ host' = NoDevice
  /\ UNCHANGED <<members, tables, calls, announced>>

WaitsFor(r) == {c \in calls : c.answer = "serving" /\ c.dev = r.by}

\* desktop_reset goes to every socket there is.
Announce(r) ==
  /\ r.next = "announcement" /\ resets' = resets \ {r}
  /\ announced' = (me # NoDevice)
  /\ IF WaitsFor(r) = {} THEN UNCHANGED calls
     ELSE \E c \in WaitsFor(r) : calls' = Answered(c, "ok")
  /\ UNCHANGED <<host, members, tables>>

\* The handler is dropped with the connection of who waits for it.
Drop(r) ==
  /\ WaitsFor(r) = {} /\ resets' = resets \ {r}
  /\ UNCHANGED <<host, members, tables, calls, announced>>

ResetStep(r) ==
  /\ ClearSessions(r) \/ ClearHost(r) \/ Announce(r) \/ Drop(r)
  /\ UNCHANGED <<runtime, born, hosts, caught, revived, me, hasHost, isHost, dir, prompt, shell, form>>

\* Another device: it becomes host or ceases to be, and as host it may remove
\* the page's device, or reset the den if the page is not the desktop's.
OthersAct ==
  /\ \/ host = NoDevice /\ host' = Other /\ hostRow' = Other /\ UNCHANGED <<members, rows, resets>>
     \/ host = Other /\ host' = NoDevice /\ hostRow' = NoDevice /\ UNCHANGED <<members, rows, resets>>
     \/ /\ host = Other
        /\ \E d \in members : members' = members \ {d} /\ rows' = rows \ {d}
        /\ UNCHANGED <<host, hostRow, resets>>
     \/ host = Other /\ runtime = "browser" /\ BeginReset(Other)
  /\ UNCHANGED <<runtime, born, hosts, caught, revived, session, calls, prompt, shell, form>>

(***************************************************************************)
(* Answers                                                                 *)
(***************************************************************************)
\* clearSessionOnUnauthorized for every request, and the handlers that leave,
\* which take an identity the hub does not know for one that has left.
EndsSession(c) ==
  \/ c.answer = "unauthorized" /\ me # NoDevice
  \/ c.op \in {"leave", "leaveDesktop"} /\ c.answer \in {"ok", "unauthorized", "notFound"}
  \/ c.op = "resetHost" /\ c.answer = "ok"

\* The page handles the answer; after a full reset of the hub it resets the
\* preference too, and waits for that.
Receive(c) ==
  /\ c.answer \notin {"none", "serving"}
  /\ calls' = calls \ {c}
  /\ IF EndsSession(c) THEN ClearDevice
     ELSE IF c.op \in AnyRegistration /\ c.answer = "ok" THEN SetSession(c.id, invoked)
     ELSE IF c.op = "resetAll" /\ c.answer = "ok"
       THEN /\ invoked' = Append(invoked, Command("resetAll", NoFolder, FALSE, c.seen))
            /\ UNCHANGED <<session, saved, fallback>>
     ELSE KeepSession
  /\ UNCHANGED <<runtime, hub, prompt, shell, untold>>

\* useWebSocketRefresh: device_removed or session_revoked arrives, which names the
\* device, or desktop_reset, which ends whatever session there is.
Notified ==
  /\ me # NoDevice
  /\ me \notin members \/ announced
  /\ ClearDevice
  /\ UNCHANGED <<runtime, hub, calls, prompt, shell, untold>>

(***************************************************************************)
(* The dialog                                                              *)
(***************************************************************************)
Dialog(op, id) == [op |-> op, id |-> id, asked |-> me]

\* Mutant of Confirm: the dialog is replaced, the promise it resolves is not.
ConfirmKeeping(d) ==
  /\ dialog' = [shown |-> d, typed |-> FALSE,
                promise |-> IF dialog = NoDialog THEN d ELSE dialog.promise]
  /\ verified' = FALSE

\* confirm replaces the dialog that is shown; whoever waits for that one waits
\* for ever.  The input is emptied.  `typed` is history: what was typed in it.
Confirm(d) ==
  /\ dialog' = [shown |-> d, typed |-> FALSE, promise |-> d]
  /\ verified' = FALSE

Ask(op, id) ==
  /\ Confirm(Dialog(op, id))
  /\ UNCHANGED <<runtime, hub, session, calls, shell, form>>

IsHostHere == me # NoDevice /\ isHost

\* HostSettings: messages or transfers are cleared, or the host identity reset.
AskAsHost ==
  /\ IsHostHere
  /\ \E op \in {"clearMessages", "clearTransfers", "resetHost"} : Ask(op, NoDevice)

\* saveTransferExpiry does not ask; the setting itself is the hub's.
SaveTransferExpiry ==
  /\ IsHostHere /\ ~Pending({"saveExpiry"})
  /\ MayCall
  /\ Start("saveExpiry", NoDevice, me, "Save")
  /\ UNCHANGED <<runtime, hub, session, prompt, shell, form>>

\* DeviceList, for a device other than this one.
AskToRemove == IsHostHere /\ Ask("remove", Other)

\* resetDesktop.
AskToReset == runtime = "desktop" /\ IsHostHere /\ Ask("resetAll", NoDevice)

\* clearLocalIdentity.
AskToLeave ==
  /\ runtime = "desktop" /\ me # NoDevice /\ ~isHost
  /\ Ask("leaveDesktop", me)

TypeVerification ==
  /\ dialog # NoDialog /\ dialog.shown.op = "resetAll" /\ ~verified
  /\ verified' = TRUE /\ dialog' = [dialog EXCEPT !.typed = TRUE]
  /\ UNCHANGED <<runtime, hub, session, calls, shell, form>>

CanConfirm == dialog.shown.op = "resetAll" => verified

Cancel ==
  /\ dialog # NoDialog
  /\ dialog' = NoDialog /\ verified' = FALSE
  /\ UNCHANGED <<runtime, hub, session, calls, shell, form>>

\* What the user saw and typed.
Seen == [op |-> dialog.shown.op, id |-> dialog.shown.id, typed |-> dialog.typed]

\* The promise is resolved, and the function that waits for it goes on.
Yes ==
  /\ dialog # NoDialog /\ CanConfirm
  /\ dialog' = NoDialog /\ verified' = FALSE
  /\ LET d == dialog.promise IN
       IF d.op \in {"restore", "restart"}
         THEN /\ MayInvoke
              /\ invoked' = Append(invoked, Command(d.op, NoFolder, d.asked = me, Seen))
              /\ UNCHANGED calls
         ELSE /\ MayCall
              /\ Start(d.op, d.id, d.asked, Seen)
              /\ UNCHANGED invoked
  /\ UNCHANGED <<runtime, hub, session, shell, saved, fallback, untold>>

(***************************************************************************)
(* The transfer folder, and the desktop shell                              *)
(***************************************************************************)
IsSaving == \E n \in DOMAIN invoked : invoked[n].op = "set" /\ invoked[n].live

\* The input and the buttons beside it.
CanEditFolder == runtime = "desktop" /\ isHost /\ ~IsSaving

\* saveTransferStorageDir, for the folder that has been typed or chosen.
Save ==
  /\ CanEditFolder
  /\ MayInvoke
  /\ \E f \in (Folders \cup {Default}) \ {saved} :
       invoked' = Append(invoked, Command("set", f, TRUE, NoDialog))
  /\ UNCHANGED <<runtime, hub, session, calls, prompt, shell, saved, fallback, untold>>

\* Mutant of RestartOffered: the folder the hub fell back to is not looked at.
RestartOfferedInFallback ==
  saved # NoFolder /\ dir # NoFolder /\ saved # dir

\* storageChangePendingRestart.
RestartOffered ==
  ~fallback /\ saved # NoFolder /\ dir # NoFolder /\ saved # dir

\* restoreDefaultTransferStorageDir.
AskToRestore == CanEditFolder /\ Ask("restore", NoDevice)

\* restartDesktopApp.
AskToRestart ==
  /\ RestartOffered
  /\ Ask("restart", NoDevice)

\* configured_transfer_storage_dir: where the hub is told to put transfers.
FolderFor(p) == IF p \in usable THEN p ELSE Default

\* The form, if it is still mounted, takes over what a command has returned.
Show(c, folder, fell) ==
  IF c.live
    THEN saved' = folder /\ fallback' = fell /\ untold' = FALSE
    ELSE untold' = TRUE /\ UNCHANGED <<saved, fallback>>

\* get_transfer_storage_preference.
RunGet(c) ==
  /\ c.op = "get"
  /\ Show(c, pref, pref \notin usable \cup {Default})
  /\ invoked' = Tail(invoked)
  /\ UNCHANGED <<runtime, hub, session, calls, prompt, shell>>

\* A write that fails may have emptied the file, which then reads as default.
FailToWrite ==
  \/ UNCHANGED <<pref, saved, fallback, untold>>
  \/ pref' = Default /\ untold' = TRUE /\ UNCHANGED <<saved, fallback>>

\* set_transfer_storage_dir writes the settings if the folder can be written to.
RunSet(c) ==
  /\ c.op = "set"
  /\ \/ /\ c.folder \in usable \cup {Default}
        /\ pref' = c.folder
        /\ Show(c, c.folder, FALSE)
     \/ FailToWrite
  /\ invoked' = Tail(invoked)
  /\ UNCHANGED <<runtime, hub, session, calls, prompt, usable, running, moved>>

\* reset_transfer_storage_dir, for the form or at the end of a full reset, which
\* then clears the session and restarts.
RunReset(c) ==
  /\ c.op \in {"restore", "resetAll"}
  /\ \/ /\ pref' = Default
        /\ IF c.op = "resetAll"
             THEN /\ SetSession(NoDevice,
                       Append(Tail(invoked), Command("restart", NoFolder, FALSE, c.seen)))
                  /\ untold' = TRUE
             ELSE Show(c, Default, FALSE) /\ invoked' = Tail(invoked) /\ UNCHANGED session
     \/ FailToWrite /\ invoked' = Tail(invoked) /\ UNCHANGED session
  /\ UNCHANGED <<runtime, hub, calls, prompt, usable, running, moved>>

\* A page that is loaded: what it held is gone, but for localStorage.
Load(queue) ==
  /\ announced' = FALSE /\ hasHost' = FALSE /\ isHost' = FALSE /\ dir' = NoFolder
  /\ calls' = {} /\ dialog' = NoDialog /\ verified' = FALSE
  /\ MountForm(queue)
  /\ UNCHANGED me

\* The commands that wait, without the functions that waited for them.
Abandoned(queue) ==
  LET waiting == Changes(queue)
  IN  [n \in DOMAIN waiting |->
         [waiting[n] EXCEPT !.live = FALSE, !.op = IF @ = "resetAll" THEN "restore" ELSE @]]

\* The hub starts with what its tables have.
HubStarts ==
  /\ members' = rows /\ host' = hostRow /\ resets' = {}
  /\ revived' = revived \cup (rows \ members)
  /\ UNCHANGED <<tables, born, hosts, caught>>

\* restart_app: the hub is stopped and started, and the page loaded again, unless
\* the hub does not start, or not within 15 s.
RunRestart(c) ==
  /\ c.op = "restart"
  /\ \/ running' = FolderFor(pref) /\ moved' = FALSE /\ Load(Abandoned(Tail(invoked)))
     \/ /\ running' \in {running, FolderFor(pref)}
        /\ invoked' = Tail(invoked) /\ announced' = FALSE
        /\ UNCHANGED <<me, hasHost, isHost, dir, calls, prompt, moved, saved, fallback>>
  /\ HubStarts
  /\ UNCHANGED <<runtime, usable, pref, untold>>

RunCommand ==
  /\ invoked # <<>>
  /\ LET c == Head(invoked) IN RunGet(c) \/ RunSet(c) \/ RunReset(c) \/ RunRestart(c)

\* The user loads the page again.
Reload ==
  /\ Load(Abandoned(invoked))
  /\ UNCHANGED <<runtime, hub, shell, untold>>

\* The app is closed and opened.
Relaunch ==
  /\ runtime = "desktop"
  /\ running' = FolderFor(pref) /\ moved' = FALSE
  /\ Load(<<>>) /\ HubStarts
  /\ UNCHANGED <<runtime, usable, pref, untold>>

\* A drive is plugged in or out, or a folder's permissions change.
FoldersMove ==
  /\ runtime = "desktop"
  /\ usable' \in SUBSET Folders \ {usable}
  /\ moved' = TRUE
  /\ UNCHANGED <<runtime, hub, session, calls, prompt, running, pref, form>>

(***************************************************************************)
(* The specification                                                       *)
(***************************************************************************)
Next ==
  \/ Submit \/ Leave \/ Request \/ SendMessage \/ SaveTransferExpiry \/ FetchConfig \/ OthersAct \/ Notified
  \/ AskAsHost \/ AskToRemove \/ AskToReset \/ AskToLeave \/ AskToRestore \/ AskToRestart
  \/ TypeVerification \/ Cancel \/ Yes
  \/ Save \/ RunCommand \/ Reload \/ Relaunch \/ FoldersMove
  \/ \E c \in calls : Serve(c) \/ Lose(c) \/ Receive(c)
  \/ \E r \in resets : ResetStep(r)

Spec == Init /\ [][Next]_vars

(***************************************************************************)
(* Properties                                                              *)
(***************************************************************************)
Confirmed == {"clearMessages", "clearTransfers", "resetHost", "remove", "leaveDesktop",
              "resetAll", "restore", "restart"}

CallsAsAsked ==
  \A c \in calls : c.op \in Confirmed =>
    /\ c.seen.op = c.op /\ c.seen.id = c.id
    /\ c.op = "resetAll" => c.seen.typed

\* The full reset is followed by a restored folder and a restart.
CommandsAsAsked ==
  \A n \in DOMAIN invoked : LET c == invoked[n] IN
    /\ c.op \in {"restore", "resetAll"} => c.seen.op \in {c.op, "resetAll"}
    /\ c.op = "restart" => c.seen.op \in {"restart", "resetAll"}
    /\ c.op = "resetAll" => c.seen.typed

\* Nothing the page asks about is done unless the user said yes to the dialog
\* that named it, and typed the text if it is the full reset, however dialogs
\* replace each other, and whatever becomes of the session behind them.
DoneAsAsked == CallsAsAsked /\ CommandsAsAsked

\* Whoever is admitted after "Start as host" is the host then, however old the
\* config was that made the page call the button so.
StartAsHostMakesHost ==
  \A c \in calls :
    c.op \in AnyRegistration /\ c.answer = "ok" /\ c.seen = "Start as host" => c.id \in hosts

\* A session the hub still has is lost by an answer to a call that belongs to a
\* former session, by the end of a full reset the page had asked for, or by the
\* announcement of a full reset in the middle of which the hub admitted the device,
\* and in no other way.  Only a device that such a reset had deprived of its session,
\* and that a start of the hub brought back, may lose it to an older answer.
OnlyFormerCallsEndSession ==
  [][(me \in members /\ me' # me) =>
       \/ \E c \in calls : c \notin calls' /\ c.asked # me
       \/ invoked # <<>> /\ Head(invoked).op = "resetAll"
       \/ announced /\ me \in caught
       \/ me \in revived]_vars

\* The form shows the preference that is kept, unless it was written behind the
\* form's back; and with a config of the running hub it offers a restart exactly if
\* that would change the hub's folder, unless folders have come or gone since the
\* hub started.
FolderFormIsRight ==
  saved # NoFolder /\ ~untold =>
    /\ saved = pref
    /\ dir = running /\ ~moved => (RestartOffered <=> FolderFor(pref) # running)
=============================================================================
