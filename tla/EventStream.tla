----------------------------- MODULE EventStream -----------------------------
(***************************************************************************)
(* Live refresh: the hub's broadcast channel and one task per WebSocket    *)
(* (backend/src/state.rs, ws.rs), and the page at the other end, which     *)
(* fetches again whatever the hub lists on every event                     *)
(* (frontend/src/hooks/useWebSocketRefresh.ts, api/client.ts).             *)
(*                                                                         *)
(* `version` counts the changes of what the hub answers to the page's four *)
(* queries, which every event invalidates together.  A handler changes     *)
(* first and announces later, with awaits in between.  All devices have    *)
(* paired when the behaviour starts; a later pairing is a change like any  *)
(* other.  A restart of the hub closes every socket, as HangUp does.       *)
(***************************************************************************)
EXTENDS Integers, Sequences

CONSTANTS
  Devices,
  Pages,       \* page loads, each with one socket, which is never reopened
  Capacity,    \* of the broadcast channel
  Faults,      \* {"drop"} if handlers are dropped before they announce
  MaxVersion   \* bound: how often the hub changes

ASSUME StreamAssumption ==
  /\ Capacity \in Nat \ {0}
  /\ Faults \subseteq {"drop"}
  /\ MaxVersion \in Nat \ {0}

VARIABLES
  version,
  entries,      \* the devices in AppState.devices,
  sessions,     \* and those AppState.sessions has a token for
  unannounced,  \* handlers that have made their change: whose sessions they are
                \* about to end, and what they are about to send
  log,          \* every event sent so far; the channel holds the last ones
  socket,       \* the task of each socket
  page          \* what each page has received and shows

vars == <<version, entries, sessions, unannounced, log, socket, page>>

(***************************************************************************)
(* State                                                                   *)
(***************************************************************************)
\* A socket task: its device, its step, the first and the next event of its
\* subscription, the events sent (as positions in log), and how many of them
\* were sent to a device without a session.
Unopened == [dev |-> CHOOSE d \in Devices : TRUE, pc |-> "unopened",
             first |-> 1, next |-> 1, sent |-> <<>>, late |-> 0]

SocketSteps == {"unopened", "handshake", "upgrading", "receiving", "checking", "closed"}

\* A page: its fetch and the version in the answer, the version it shows (0
\* before the first answer), the events it has handled, whether it still has
\* its session; and as history the versions it has been told of while it
\* showed something, and whether the hub refused its token by then.
Blank == [fetch |-> "wanted", data |-> 0, shown |-> 0, heard |-> 0,
          cleared |-> FALSE, due |-> 0, warned |-> FALSE]

Init ==
  /\ version = 1
  /\ entries = Devices /\ sessions = Devices
  /\ unannounced = {}
  /\ log = <<>>
  /\ socket = [p \in Pages |-> Unopened]
  /\ page = [p \in Pages |-> Blank]

(***************************************************************************)
(* The handlers of the hub                                                 *)
(***************************************************************************)
\* An event: who may see it, whose sockets it ends, whose pages it tells to
\* forget their session, and the version of the hub it announces.
Event(to, ends, farewell) ==
  [to |-> to, ends |-> ends, farewell |-> farewell, at |-> version + 1]

\* A handler has made its change, and holds the events it will send once it has
\* ended the sessions of `drops`.
MakeChange(drops, events) ==
  /\ version < MaxVersion
  /\ version' = version + 1
  /\ unannounced' = unannounced \cup {[drops |-> drops, events |-> events]}
  /\ UNCHANGED <<sessions, log, socket, page>>

\* Pairings, messages, settings and broadcast transfers go to everybody, a
\* targeted transfer to the host, the sender and the target.
Change ==
  /\ \E to \in SUBSET Devices : MakeChange({}, <<Event(to, {}, {})>>)
  /\ UNCHANGED entries

\* remove_device has removed the entry.
RemoveDevice(d) ==
  /\ d \in entries
  /\ entries' = entries \ {d}
  /\ MakeChange({d}, <<Event(Devices, {d}, {d})>>)

\* reset_host_identity: session_revoked for the host, host_reset for all.
ResetHost(d) ==
  /\ d \in entries
  /\ entries' = entries \ {d}
  /\ MakeChange({d}, <<Event({d}, {d}, {d}), Event(Devices, {}, {})>>)

\* reset_desktop_data names no socket to end: desktop_reset goes to everybody.
ResetDesktop ==
  /\ entries # {}
  /\ entries' = {}
  /\ MakeChange(Devices, <<Event(Devices, {}, Devices)>>)

\* The sessions end after the entries, under a lock of their own.
EndSessions(h) ==
  /\ h.drops # {}
  /\ sessions' = sessions \ h.drops
  /\ unannounced' = (unannounced \ {h}) \cup {[h EXCEPT !.drops = {}]}
  /\ UNCHANGED <<version, entries, log, socket, page>>

\* events.send, with no await between the events of one handler.
Announce(h) ==
  /\ h.drops = {}
  /\ unannounced' = unannounced \ {h}
  /\ log' = log \o h.events
  /\ UNCHANGED <<version, entries, sessions, socket, page>>

\* The handler is dropped before it announces.
Forgo(h) ==
  /\ "drop" \in Faults
  /\ unannounced' = unannounced \ {h}
  /\ UNCHANGED <<version, entries, sessions, log, socket, page>>

\* authenticate_session_token.
Authenticated(d) == d \in sessions /\ d \in entries

(***************************************************************************)
(* The socket task                                                         *)
(***************************************************************************)
At(p, pc) == socket[p].pc = pc

Close(p) == socket' = [socket EXCEPT ![p].pc = "closed"]

\* The page loads with the stored session of d; it starts its queries and
\* its socket together.
OpenPage(p) ==
  /\ At(p, "unopened")
  /\ \E d \in Devices : socket' = [socket EXCEPT ![p].dev = d, ![p].pc = "handshake"]
  /\ UNCHANGED <<version, entries, sessions, unannounced, log, page>>

\* ws_handler: the session is looked up before the upgrade.
Handshake(p) ==
  /\ At(p, "handshake")
  /\ IF Authenticated(socket[p].dev)
       THEN socket' = [socket EXCEPT ![p].pc = "upgrading"]
       ELSE Close(p)
  /\ UNCHANGED <<version, entries, sessions, unannounced, log, page>>

\* handle_socket, once the upgrade is done: events.subscribe().
Subscribe(p) ==
  /\ At(p, "upgrading")
  /\ socket' = [socket EXCEPT ![p].pc = "receiving",
                              ![p].first = Len(log) + 1, ![p].next = Len(log) + 1]
  /\ UNCHANGED <<version, entries, sessions, unannounced, log, page>>

\* The channel has overwritten the event the socket would receive next.
Lagged(p) == socket[p].next + Capacity <= Len(log)

\* Mutant of Forward: an event for others is passed over without the check.
ForwardOwn(p, i) ==
  LET visible == socket[p].dev \in log[i].to IN
  socket' = [socket EXCEPT
    ![p].pc = IF visible THEN "checking" ELSE "receiving",
    ![p].next = i + 1,
    ![p].sent = IF visible THEN Append(@, i) ELSE @,
    ![p].late = IF visible /\ socket[p].dev \notin sessions THEN @ + 1 ELSE @]

\* The socket's next event is taken from the channel, sent if it is addressed
\* to the device, and followed by a check of the session.
Forward(p, i) ==
  LET visible == socket[p].dev \in log[i].to IN
  socket' = [socket EXCEPT
    ![p].pc = "checking",
    ![p].next = i + 1,
    ![p].sent = IF visible THEN Append(@, i) ELSE @,
    ![p].late = IF visible /\ socket[p].dev \notin sessions THEN @ + 1 ELSE @]

\* Mutant of Receive: a socket that lags goes on with the oldest event left.
ReceiveOldest(p) ==
  /\ At(p, "receiving")
  /\ socket[p].next <= Len(log)
  /\ Forward(p, IF Lagged(p) THEN Len(log) - Capacity + 1 ELSE socket[p].next)
  /\ UNCHANGED <<version, entries, sessions, unannounced, log, page>>

\* events.recv(); a lag ends the socket.
Receive(p) ==
  /\ At(p, "receiving")
  /\ socket[p].next <= Len(log)
  /\ IF Lagged(p) THEN Close(p) ELSE Forward(p, socket[p].next)
  /\ UNCHANGED <<version, entries, sessions, unannounced, log, page>>

\* Mutant of MustClose: only the events that name the device end its socket.
IsNamed(p) == socket[p].dev \in log[socket[p].next - 1].ends

MustClose(p) ==
  \/ socket[p].dev \in log[socket[p].next - 1].ends
  \/ socket[p].dev \notin sessions

CheckSession(p) ==
  /\ At(p, "checking")
  /\ IF MustClose(p)
       THEN Close(p)
       ELSE socket' = [socket EXCEPT ![p].pc = "receiving"]
  /\ UNCHANGED <<version, entries, sessions, unannounced, log, page>>

\* The page is closed or loses its connection.
HangUp(p) ==
  /\ socket[p].pc \in SocketSteps \ {"unopened", "closed"}
  /\ Close(p)
  /\ UNCHANGED <<version, entries, sessions, unannounced, log, page>>

(***************************************************************************)
(* The page                                                                *)
(***************************************************************************)
HasSession(p) == ~At(p, "unopened") /\ ~page[p].cleared

\* Mutant of Refetch: a fetch under way is not started again.
RefetchIfIdle(p) == IF page[p].fetch = "idle" THEN "wanted" ELSE page[p].fetch

\* invalidateQueries cancels a fetch under way and starts again, except that
\* the first fetch, while there is nothing to show, is left to end.
Refetch(p) ==
  IF page[p].shown = 0 /\ page[p].fetch # "idle" THEN page[p].fetch ELSE "wanted"

\* socket.onmessage: all queries are invalidated; a page that finds itself in
\* its list of devices forgets its session when the event says so.
Hear(p) ==
  /\ HasSession(p)
  /\ page[p].heard < Len(socket[p].sent)
  /\ LET e == log[socket[p].sent[page[p].heard + 1]]
         lists == page[p].shown # 0
     IN page' = [page EXCEPT
          ![p].heard = @ + 1,
          ![p].fetch = Refetch(p),
          ![p].cleared = lists /\ socket[p].dev \in e.farewell,
          ![p].due = IF lists THEN e.at ELSE @,
          ![p].warned = @ \/ (lists /\ ~Authenticated(socket[p].dev))]
  /\ UNCHANGED <<version, entries, sessions, unannounced, log, socket>>

\* The hub answers the page's queries, or refuses them with 401.
Answer(p) ==
  /\ HasSession(p)
  /\ page[p].fetch = "wanted"
  /\ page' = IF Authenticated(socket[p].dev)
               THEN [page EXCEPT ![p].fetch = "answered", ![p].data = version]
               ELSE [page EXCEPT ![p].fetch = "refused"]
  /\ UNCHANGED <<version, entries, sessions, unannounced, log, socket>>

\* The answer arrives.
Show(p) ==
  /\ HasSession(p)
  /\ page[p].fetch = "answered"
  /\ page' = [page EXCEPT ![p].fetch = "idle", ![p].shown = page[p].data]
  /\ UNCHANGED <<version, entries, sessions, unannounced, log, socket>>

\* Mutant of ClearOnUnauthorized: the query fails and the session stays.
ShowError(p) ==
  /\ HasSession(p)
  /\ page[p].fetch = "refused"
  /\ page' = [page EXCEPT ![p].fetch = "idle"]
  /\ UNCHANGED <<version, entries, sessions, unannounced, log, socket>>

\* clearSessionOnUnauthorized.
ClearOnUnauthorized(p) ==
  /\ HasSession(p)
  /\ page[p].fetch = "refused"
  /\ page' = [page EXCEPT ![p].fetch = "idle", ![p].cleared = TRUE]
  /\ UNCHANGED <<version, entries, sessions, unannounced, log, socket>>

\* The window gets the focus, and the queries are fetched again.
Refocus(p) ==
  /\ HasSession(p)
  /\ page[p].fetch = "idle"
  /\ page' = [page EXCEPT ![p].fetch = "wanted"]
  /\ UNCHANGED <<version, entries, sessions, unannounced, log, socket>>

(***************************************************************************)
(* The specification                                                       *)
(***************************************************************************)
Handle ==
  \/ Change \/ ResetDesktop
  \/ \E d \in Devices : RemoveDevice(d) \/ ResetHost(d)
  \/ \E h \in unannounced : EndSessions(h) \/ Announce(h) \/ Forgo(h)

\* What the hub's tasks and the page do by themselves.
RunSocket(p) == Handshake(p) \/ Subscribe(p) \/ Receive(p) \/ CheckSession(p)
RunPage(p) == Hear(p) \/ Answer(p) \/ Show(p) \/ ClearOnUnauthorized(p)

Next ==
  \/ Handle
  \/ \E p \in Pages :
       OpenPage(p) \/ RunSocket(p) \/ HangUp(p) \/ RunPage(p) \/ Refocus(p)

Spec == Init /\ [][Next]_vars

\* Handlers, sockets and pages keep running, fetches are answered, and a page
\* that has forgotten its session closes its socket.
FairSpec ==
  /\ Spec
  /\ WF_vars(\E h \in unannounced : EndSessions(h) \/ Announce(h))
  /\ \A p \in Pages :
       /\ WF_vars(RunSocket(p))
       /\ WF_vars(Hear(p))
       /\ WF_vars(Answer(p) \/ Show(p) \/ ClearOnUnauthorized(p))
       /\ WF_vars(page[p].cleared /\ HangUp(p))

(***************************************************************************)
(* Properties                                                              *)
(***************************************************************************)
\* The events sent through a socket, as positions in the log, go up.
InOrder(s) == \A k, l \in DOMAIN s.sent : k < l => s.sent[k] < s.sent[l]

\* A live page has been sent every event addressed to it since its socket
\* subscribed, each once and in order: a socket that misses one is closed.
NothingSkipped ==
  \A p \in Pages :
    LET s == socket[p] IN
    /\ InOrder(s)
    /\ {s.sent[k] : k \in DOMAIN s.sent}
         = {i \in s.first..(s.next - 1) : s.dev \in log[i].to}

\* A device whose session has ended is sent at most one event more: the
\* socket looks at the session after every event it takes.
OneLateEvent == \A p \in Pages : socket[p].late <= 1

\* The socket of a device without a session is closed by the next event,
\* whoever that event is addressed to and whether it names the device or not.
NextEventCutsOff ==
  \A p \in Pages :
    (/\ At(p, "receiving")
     /\ socket[p].dev \notin sessions
     /\ socket[p].next <= Len(log)) ~> At(p, "closed")

\* A page that shows something comes to show every change it is told of,
\* however its fetches and the events overtake each other.
ViewsCatchUp ==
  \A p \in Pages : \A v \in 1..MaxVersion :
    page[p].due = v ~> page[p].cleared \/ page[p].shown >= v

\* A page that shows something forgets its session once it hears of anything
\* after the hub has removed its device, though its session may outlive that.
EndedSessionsAreForgotten == \A p \in Pages : page[p].warned ~> page[p].cleared

\* Revoked sessions are disconnected (SECURITY.md), with nothing more said.
RevokedAreDisconnected ==
  \A p \in Pages :
    At(p, "receiving") /\ socket[p].dev \notin sessions ~> At(p, "closed")
=============================================================================
