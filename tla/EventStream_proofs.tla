------------------------- MODULE EventStream_proofs -------------------------
(***************************************************************************)
(* Proofs about EventStream for any number of devices and page loads, any  *)
(* channel capacity, any faults and any number of changes.                 *)
(***************************************************************************)
EXTENDS EventStream, SequenceTheorems, TLAPS

USE StreamAssumption DEF StreamAssumption

(***************************************************************************)
(* The inductive invariant                                                 *)
(***************************************************************************)
Events == [to : SUBSET Devices, ends : SUBSET Devices, farewell : SUBSET Devices,
           at : 1..MaxVersion]

Handlers == [drops : SUBSET Devices, events : Seq(Events)]

Sockets == [dev : Devices \cup {Unopened.dev}, pc : SocketSteps,
            first : Nat \ {0}, next : Nat \ {0}, sent : Seq(Nat), late : Nat]

PageStates == [fetch : {"wanted", "answered", "refused", "idle"},
               data : 0..MaxVersion, shown : 0..MaxVersion, heard : Nat,
               cleared : BOOLEAN, due : 0..MaxVersion, warned : BOOLEAN]

\* What handlers and channel hold was announced for a change that was made.
ChannelOK ==
  /\ version \in 1..MaxVersion
  /\ entries \subseteq Devices /\ sessions \subseteq Devices
  /\ unannounced \subseteq Handlers
  /\ log \in Seq(Events)
  /\ \A h \in unannounced : \A i \in 1..Len(h.events) : h.events[i].at <= version
  /\ \A i \in 1..Len(log) : log[i].at <= version

\* Where a socket's subscription stands, and what it has sent.
Served(s) ==
  /\ s.first <= s.next /\ s.next <= Len(log) + 1
  /\ InOrder(s)
  /\ \A k \in DOMAIN s.sent : s.sent[k] \in s.first..(s.next - 1) /\ s.dev \in log[s.sent[k]].to
  /\ \A i \in s.first..(s.next - 1) :
       s.dev \in log[i].to => \E k \in DOMAIN s.sent : s.sent[k] = i

\* An event that was sent late is followed by the check that ends the socket.
CutOff(s) ==
  /\ s.late <= 1
  /\ s.late = 1 => s.dev \notin sessions /\ s.pc \in {"checking", "closed"}

SocketsOK ==
  /\ socket \in [Pages -> Sockets]
  /\ \A p \in Pages : Served(socket[p]) /\ CutOff(socket[p])
  /\ \A p \in Pages : socket[p].pc \in {"unopened", "handshake", "upgrading"} =>
       socket[p].sent = <<>> /\ socket[p].first = socket[p].next

\* A page that has been told of a change shows it or is about to fetch it.
Following(q) ==
  ~q.cleared =>
    /\ q.fetch = "idle" => q.due <= q.shown
    /\ q.fetch = "answered" => q.due <= q.data

PagesOK ==
  /\ page \in [Pages -> PageStates]
  /\ \A p \in Pages : page[p].due <= version /\ Following(page[p])

StreamInv == ChannelOK /\ SocketsOK /\ PagesOK

(***************************************************************************)
(* The handlers and the channel                                            *)
(***************************************************************************)
LEMMA EventType ==
  ASSUME version \in 1..MaxVersion, version < MaxVersion,
         NEW to \in SUBSET Devices, NEW ends \in SUBSET Devices,
         NEW farewell \in SUBSET Devices
  PROVE  Event(to, ends, farewell) \in Events /\ Event(to, ends, farewell).at = version + 1
BY DEF Event, Events

\* What a handler holds has the new version.
LEMMA ChangeShape ==
  ASSUME ChannelOK, NEW drops \in SUBSET Devices, NEW events, MakeChange(drops, events),
         entries' \subseteq entries,
         events \in Seq(Events), \A i \in 1..Len(events) : events[i].at = version + 1
  PROVE  ChannelOK'
<1>1. PICK h : h = [drops |-> drops, events |-> events]
  OBVIOUS
<1>2. /\ version \in 1..MaxVersion /\ version < MaxVersion /\ version' = version + 1
      /\ unannounced' = unannounced \cup {h} /\ log' = log /\ sessions' = sessions
  BY <1>1 DEF ChannelOK, MakeChange
<1>3. ASSUME NEW g \in unannounced, NEW i \in 1..Len(g.events)
      PROVE  g.events[i].at <= version'
  <2>1. g.events \in Seq(Events) /\ g.events[i].at <= version
    BY DEF ChannelOK, Handlers
  <2>2. g.events[i] \in Events
    BY <2>1, ElementOfSeq
  <2> QED BY <1>2, <2>1, <2>2 DEF Events
<1>4. ASSUME NEW i \in 1..Len(log)
      PROVE  log[i].at <= version'
  <2>1. log[i] \in Events /\ log[i].at <= version
    BY ElementOfSeq DEF ChannelOK
  <2> QED BY <1>2, <2>1 DEF Events
<1>5. h \in Handlers /\ \A i \in 1..Len(h.events) : h.events[i].at <= version'
  BY <1>1, <1>2 DEF Handlers
<1> QED BY <1>2, <1>3, <1>4, <1>5 DEF ChannelOK

LEMMA OneOrTwo ==
  ASSUME NEW e \in Events, NEW f \in Events, e.at = version + 1, f.at = version + 1
  PROVE  /\ <<e>> \in Seq(Events) /\ \A i \in 1..Len(<<e>>) : <<e>>[i].at = version + 1
         /\ <<e, f>> \in Seq(Events) /\ \A i \in 1..Len(<<e, f>>) : <<e, f>>[i].at = version + 1
<1>1. \A i \in 1..Len(<<e>>) : i = 1
  OBVIOUS
<1>2. \A i \in 1..Len(<<e, f>>) : i = 1 \/ i = 2
  OBVIOUS
<1> QED BY <1>1, <1>2

LEMMA HandleShape ==
  ASSUME ChannelOK, Handle
  PROVE  ChannelOK' /\ sessions' \subseteq sessions /\ UNCHANGED <<socket, page>>
<1>1. ASSUME NEW to \in SUBSET Devices, MakeChange({}, <<Event(to, {}, {})>>), UNCHANGED entries
      PROVE  ChannelOK'
  <2>1. Event(to, {}, {}) \in Events /\ Event(to, {}, {}).at = version + 1
    BY <1>1, EventType DEF ChannelOK, MakeChange
  <2> QED BY <1>1, <2>1, OneOrTwo, ChangeShape
<1>2. ASSUME NEW d \in Devices, RemoveDevice(d)
      PROVE  ChannelOK'
  <2>1. Event(Devices, {d}, {d}) \in Events /\ Event(Devices, {d}, {d}).at = version + 1
    BY <1>2, EventType DEF ChannelOK, MakeChange, RemoveDevice
  <2> QED BY <1>2, <2>1, OneOrTwo, ChangeShape DEF RemoveDevice
<1>3. ASSUME NEW d \in Devices, ResetHost(d)
      PROVE  ChannelOK'
  <2>1. Event({d}, {d}, {d}) \in Events /\ Event({d}, {d}, {d}).at = version + 1
    BY <1>3, EventType DEF ChannelOK, MakeChange, ResetHost
  <2>2. Event(Devices, {}, {}) \in Events /\ Event(Devices, {}, {}).at = version + 1
    BY <1>3, EventType DEF ChannelOK, MakeChange, ResetHost
  <2> QED BY <1>3, <2>1, <2>2, OneOrTwo, ChangeShape DEF ResetHost
<1>4. ASSUME ResetDesktop
      PROVE  ChannelOK'
  <2>1. Event(Devices, {}, Devices) \in Events /\ Event(Devices, {}, Devices).at = version + 1
    BY <1>4, EventType DEF ChannelOK, MakeChange, ResetDesktop
  <2> QED BY <1>4, <2>1, OneOrTwo, ChangeShape DEF ResetDesktop
<1>5. ASSUME NEW h \in unannounced, Announce(h)
      PROVE  ChannelOK'
  <2>1. PICK es : es = h.events
    OBVIOUS
  <2>2. es \in Seq(Events) /\ log \in Seq(Events)
    BY <2>1 DEF ChannelOK, Handlers
  <2>3. log' \in Seq(Events) /\ Len(log') = Len(log) + Len(es)
    BY <1>5, <2>1, <2>2 DEF Announce
  <2>4. \A i \in 1..Len(log') :
          log'[i] = IF i <= Len(log) THEN log[i] ELSE es[i - Len(log)]
    BY <1>5, <2>1, <2>2, <2>3, ConcatProperties DEF Announce
  <2>5. \A i \in 1..Len(log') : log'[i].at <= version
    BY <2>1, <2>2, <2>3, <2>4 DEF ChannelOK
  <2> QED BY <1>5, <2>3, <2>5 DEF Announce, ChannelOK
<1>6. ASSUME NEW h \in unannounced, Forgo(h)
      PROVE  ChannelOK'
  BY <1>6 DEF ChannelOK, Forgo
<1>7. ASSUME NEW h \in unannounced, EndSessions(h)
      PROVE  ChannelOK'
  <2>1. PICK g : g = [h EXCEPT !.drops = {}]
    OBVIOUS
  <2>2. h \in Handlers /\ \A i \in 1..Len(h.events) : h.events[i].at <= version
    BY DEF ChannelOK
  <2>3. g \in Handlers /\ g.events = h.events
    BY <2>1, <2>2 DEF Handlers
  <2>4. unannounced' = (unannounced \ {h}) \cup {g}
    BY <1>7, <2>1 DEF EndSessions
  <2> QED BY <1>7, <2>2, <2>3, <2>4 DEF EndSessions, ChannelOK
<1>8. sessions' \subseteq sessions /\ UNCHANGED <<socket, page>>
  BY DEF Handle, Change, RemoveDevice, ResetHost, ResetDesktop, EndSessions, Announce, Forgo,
         MakeChange
<1> QED BY <1>1, <1>2, <1>3, <1>4, <1>5, <1>6, <1>7, <1>8 DEF Handle, Change

\* The log only grows.
LEMMA LogStep ==
  ASSUME ChannelOK, Handle
  PROVE  /\ Len(log) <= Len(log') /\ Len(log) \in Nat /\ Len(log') \in Nat
         /\ \A i \in 1..Len(log) : log'[i] = log[i]
         /\ version <= version'
<1>1. CASE UNCHANGED log
  <2>1. version \in Nat /\ Len(log) \in Nat
    BY DEF ChannelOK
  <2>2. version' = version \/ version' = version + 1
    BY DEF Handle, Change, RemoveDevice, ResetHost, ResetDesktop, EndSessions, Announce,
           Forgo, MakeChange
  <2> QED BY <1>1, <2>1, <2>2
<1>2. ASSUME NEW h \in unannounced, Announce(h)
      PROVE  /\ Len(log) <= Len(log') /\ Len(log) \in Nat /\ Len(log') \in Nat
             /\ \A i \in 1..Len(log) : log'[i] = log[i]
             /\ version <= version'
  <2>1. h.events \in Seq(Events) /\ log \in Seq(Events)
    BY DEF ChannelOK, Handlers
  <2> QED BY <1>2, <2>1, ConcatProperties DEF Announce, ChannelOK
<1> QED
  BY <1>1, <1>2 DEF Handle, Change, RemoveDevice, ResetHost, ResetDesktop, EndSessions,
                    Forgo, MakeChange

(***************************************************************************)
(* The sockets                                                             *)
(***************************************************************************)
\* A handler's step leaves what a socket has been sent as it is.
LEMMA SocketsHandled ==
  ASSUME ChannelOK, SocketsOK, Handle
  PROVE  SocketsOK'
<1>1. UNCHANGED socket /\ sessions' \subseteq sessions
  BY HandleShape
<1>2. ASSUME NEW p \in Pages
      PROVE  Served(socket[p])' /\ CutOff(socket[p])'
  <2>1. socket[p] \in Sockets /\ Served(socket[p]) /\ CutOff(socket[p])
    BY DEF SocketsOK
  <2>2. \A i \in socket[p].first..(socket[p].next - 1) : i \in 1..Len(log)
    BY <2>1, LogStep DEF Sockets, Served
  <2>3. \A i \in socket[p].first..(socket[p].next - 1) : log'[i] = log[i]
    BY <2>2, LogStep
  <2>4. socket[p].next <= Len(log') + 1
    BY <2>1, LogStep DEF Sockets, Served
  <2>6. Served(socket[p])'
    BY <1>1, <2>1, <2>3, <2>4 DEF Served, InOrder
  <2>7. CutOff(socket[p])'
    BY <1>1, <2>1 DEF CutOff
  <2> QED BY <2>6, <2>7
<1> QED BY <1>1, <1>2 DEF SocketsOK

\* Before it subscribes, a socket has been sent nothing.
Fresh(s) ==
  s.pc \in {"unopened", "handshake", "upgrading"} => s.sent = <<>> /\ s.first = s.next

\* One socket moves to a state that is in order, and no other socket changes.
LEMMA SocketSet ==
  ASSUME SocketsOK, UNCHANGED <<log, sessions>>, NEW p \in Pages, NEW s \in Sockets,
         socket' = [socket EXCEPT ![p] = s], Served(s), CutOff(s), Fresh(s)
  PROVE  SocketsOK'
<1>1. /\ socket \in [Pages -> Sockets]
      /\ \A q \in Pages : Served(socket[q]) /\ CutOff(socket[q]) /\ Fresh(socket[q])
  BY DEF SocketsOK, Fresh
<1>2. socket' \in [Pages -> Sockets] /\ socket'[p] = s
      /\ \A q \in Pages \ {p} : socket'[q] = socket[q]
  BY <1>1
<1>3. ASSUME NEW q \in Pages
      PROVE  Served(socket[q])' /\ CutOff(socket[q])' /\ Fresh(socket[q])'
  <2>1. CASE q = p
    BY <1>2, <2>1 DEF Served, InOrder, CutOff, Fresh
  <2>2. CASE q # p
    BY <1>1, <1>2, <2>2 DEF Served, InOrder, CutOff, Fresh
  <2> QED BY <2>1, <2>2
<1> QED BY <1>2, <1>3 DEF SocketsOK, Fresh

\* A socket that takes a step without an event.
LEMMA SocketMoved ==
  ASSUME SocketsOK, UNCHANGED <<log, sessions>>, NEW p \in Pages, NEW pc \in SocketSteps,
         socket' = [socket EXCEPT ![p].pc = pc],
         pc \in {"handshake", "upgrading", "unopened"} =>
           socket[p].pc \in {"unopened", "handshake", "upgrading"},
         pc \in {"checking", "closed"} \/ socket[p].late # 1
  PROVE  SocketsOK'
<1>1. /\ socket[p] \in Sockets /\ socket \in [Pages -> Sockets]
      /\ Served(socket[p]) /\ CutOff(socket[p]) /\ Fresh(socket[p])
  BY DEF SocketsOK, Fresh
<1>2. PICK s : s = [socket[p] EXCEPT !.pc = pc]
  OBVIOUS
<1>3. /\ s \in Sockets /\ s.pc = pc /\ s.dev = socket[p].dev /\ s.first = socket[p].first
      /\ s.next = socket[p].next /\ s.sent = socket[p].sent /\ s.late = socket[p].late
  BY <1>1, <1>2 DEF Sockets
<1>4. socket' = [socket EXCEPT ![p] = s]
  BY <1>1, <1>2
<1>5. Served(s) /\ CutOff(s) /\ Fresh(s)
  BY <1>1, <1>3 DEF Served, InOrder, CutOff, Fresh
<1> QED BY <1>3, <1>4, <1>5, SocketSet

\* The event a socket takes is sent if it is addressed to its device.
LEMMA SocketForwards ==
  ASSUME ChannelOK, SocketsOK, NEW p \in Pages, Receive(p), ~Lagged(p)
  PROVE  SocketsOK'
<1>1. /\ socket[p] \in Sockets /\ socket \in [Pages -> Sockets]
      /\ Served(socket[p]) /\ CutOff(socket[p])
  BY DEF SocketsOK
<1>2. PICK i, d, old : i = socket[p].next /\ d = socket[p].dev /\ old = socket[p].sent
  OBVIOUS
<1>3. /\ i \in Nat \ {0} /\ i <= Len(log) /\ Len(log) \in Nat /\ old \in Seq(Nat)
      /\ socket[p].pc = "receiving" /\ UNCHANGED <<log, sessions>>
  BY <1>1, <1>2 DEF Receive, At, Sockets, ChannelOK
<1>4. PICK sent : sent = IF d \in log[i].to THEN Append(old, i) ELSE old
  OBVIOUS
<1>5. PICK late : late = IF d \in log[i].to /\ d \notin sessions
                           THEN socket[p].late + 1 ELSE socket[p].late
  OBVIOUS
<1>6. PICK s : s = [socket[p] EXCEPT !.pc = "checking", !.next = i + 1, !.sent = sent,
                                     !.late = late]
  OBVIOUS
<1>7. sent \in Seq(Nat) /\ late \in Nat
  BY <1>1, <1>2, <1>3, <1>4, <1>5 DEF Sockets
<1>8. /\ s \in Sockets /\ s.pc = "checking" /\ s.dev = d /\ s.first = socket[p].first
      /\ s.next = i + 1 /\ s.sent = sent /\ s.late = late
  <2>1. i + 1 \in Nat \ {0} /\ "checking" \in SocketSteps
    BY <1>3 DEF SocketSteps
  <2> QED BY <1>1, <1>2, <1>6, <1>7, <2>1 DEF Sockets
<1>9. socket' = [socket EXCEPT ![p] = s]
  BY <1>1, <1>2, <1>4, <1>5, <1>6 DEF Receive, Forward
<1>10. /\ DOMAIN old = 1..Len(old) /\ Len(old) \in Nat
       /\ \A k \in DOMAIN old : old[k] \in s.first..(i - 1) /\ d \in log[old[k]].to
       /\ \A k, l \in DOMAIN old : k < l => old[k] < old[l]
       /\ \A j \in s.first..(i - 1) : d \in log[j].to => \E k \in DOMAIN old : old[k] = j
       /\ s.first \in Nat /\ s.first <= i
  BY SMTT(60), <1>1, <1>2, <1>3, <1>8 DEF Served, InOrder, Sockets
<1>11. ASSUME d \in log[i].to
       PROVE  Served(s)
  <2>1. /\ DOMAIN sent = 1..(Len(old) + 1) /\ sent[Len(old) + 1] = i
        /\ \A k \in DOMAIN old : sent[k] = old[k]
    BY <1>3, <1>4, <1>10, <1>11
  <2>2. \A k \in DOMAIN sent : k \in DOMAIN old \/ k = Len(old) + 1
    BY <1>10, <2>1
  <2>3. \A k \in DOMAIN sent : sent[k] \in s.first..i /\ d \in log[sent[k]].to
    BY <1>3, <1>10, <1>11, <2>1, <2>2
  <2>4. ASSUME NEW k \in DOMAIN sent, NEW l \in DOMAIN sent, k < l
        PROVE  sent[k] < sent[l]
    <3>1. k \in DOMAIN old
      BY <1>10, <2>1, <2>2, <2>4
    <3>2. CASE l \in DOMAIN old
      BY <1>10, <2>1, <2>4, <3>1, <3>2
    <3>3. CASE l = Len(old) + 1
      BY <1>3, <1>10, <2>1, <3>1, <3>3
    <3> QED BY <2>2, <3>2, <3>3
  <2>5. ASSUME NEW j \in s.first..i, d \in log[j].to
        PROVE  \E k \in DOMAIN sent : sent[k] = j
    <3>1. CASE j = i
      BY <1>10, <2>1, <3>1
    <3>2. CASE j # i
      <4>1. j \in s.first..(i - 1)
        BY <1>3, <1>10, <3>2
      <4>2. PICK k \in DOMAIN old : old[k] = j
        BY <1>10, <2>5, <4>1
      <4>3. k \in DOMAIN sent /\ sent[k] = j
        BY <1>10, <2>1, <4>2
      <4> QED BY <4>3
    <3> QED BY <3>1, <3>2
  <2> QED BY <1>3, <1>8, <1>10, <2>3, <2>4, <2>5 DEF Served, InOrder
<1>12. ASSUME d \notin log[i].to
       PROVE  Served(s)
  BY <1>3, <1>4, <1>8, <1>10, <1>12 DEF Served, InOrder
<1>13. Served(s)
  BY <1>11, <1>12
<1>14. CutOff(s)
  BY <1>1, <1>2, <1>3, <1>5, <1>7, <1>8 DEF CutOff, Sockets
<1>15. Fresh(s)
  BY <1>8 DEF Fresh
<1> QED BY <1>3, <1>8, <1>9, <1>13, <1>14, <1>15, SocketSet

\* The steps of the socket tasks, and the page load that opens a socket.
LEMMA SocketSteps_OK ==
  ASSUME ChannelOK, SocketsOK, NEW p \in Pages, OpenPage(p) \/ RunSocket(p) \/ HangUp(p)
  PROVE  SocketsOK' /\ UNCHANGED <<version, entries, sessions, unannounced, log, page>>
<1>1. /\ socket[p] \in Sockets /\ socket \in [Pages -> Sockets]
      /\ Served(socket[p]) /\ CutOff(socket[p]) /\ Fresh(socket[p])
  BY DEF SocketsOK, Fresh
<1>2. UNCHANGED <<version, entries, sessions, unannounced, log, page>>
  BY DEF OpenPage, RunSocket, Handshake, Subscribe, Receive, CheckSession, HangUp
<1>3. ASSUME Close(p)
      PROVE  SocketsOK'
  <2>1. "closed" \in SocketSteps
    BY DEF SocketSteps
  <2> QED BY <1>2, <1>3, <2>1, SocketMoved DEF Close
<1>4. ASSUME OpenPage(p)
      PROVE  SocketsOK'
  <2>1. PICK d \in Devices : socket' = [socket EXCEPT ![p].dev = d, ![p].pc = "handshake"]
    BY <1>4 DEF OpenPage
  <2>2. PICK s : s = [socket[p] EXCEPT !.dev = d, !.pc = "handshake"]
    OBVIOUS
  <2>3. "handshake" \in SocketSteps
    BY DEF SocketSteps
  <2>4. /\ s \in Sockets /\ s.pc = "handshake" /\ s.first = socket[p].first
        /\ s.next = socket[p].next /\ s.sent = socket[p].sent /\ s.late = socket[p].late
    BY <1>1, <2>2, <2>3 DEF Sockets
  <2>5. s.sent = <<>> /\ s.first = s.next /\ s.late # 1
    BY <1>1, <1>4, <2>4 DEF OpenPage, At, Fresh, CutOff
  <2>6. socket' = [socket EXCEPT ![p] = s]
    BY <1>1, <2>1, <2>2
  <2>7. Served(s) /\ CutOff(s) /\ Fresh(s)
    BY <1>1, <2>4, <2>5 DEF Served, InOrder, CutOff, Fresh, Sockets
  <2> QED BY <1>2, <2>4, <2>6, <2>7, SocketSet
<1>5. ASSUME Handshake(p)
      PROVE  SocketsOK'
  <2>1. CASE Close(p)
    BY <1>3, <2>1
  <2>2. CASE socket' = [socket EXCEPT ![p].pc = "upgrading"]
    <3>1. "upgrading" \in SocketSteps /\ socket[p].pc = "handshake" /\ socket[p].late # 1
      BY <1>1, <1>5 DEF SocketSteps, Handshake, At, CutOff
    <3> QED BY <1>2, <2>2, <3>1, SocketMoved
  <2> QED BY <1>5, <2>1, <2>2 DEF Handshake
<1>6. ASSUME Subscribe(p)
      PROVE  SocketsOK'
  <2>1. PICK s, n : s = [socket[p] EXCEPT !.pc = "receiving", !.first = n, !.next = n]
                    /\ n = Len(log) + 1
    OBVIOUS
  <2>2. n \in Nat \ {0} /\ "receiving" \in SocketSteps
    BY <2>1 DEF ChannelOK, SocketSteps
  <2>3. /\ s \in Sockets /\ s.pc = "receiving" /\ s.first = n /\ s.next = n
        /\ s.sent = socket[p].sent /\ s.late = socket[p].late
    BY <1>1, <2>1, <2>2 DEF Sockets
  <2>4. s.sent = <<>> /\ s.late # 1
    BY <1>1, <1>6, <2>3 DEF Subscribe, At, Fresh, CutOff
  <2>5. socket' = [socket EXCEPT ![p] = s]
    BY <1>1, <1>6, <2>1 DEF Subscribe
  <2>6. Served(s) /\ CutOff(s) /\ Fresh(s)
    BY <1>1, <2>1, <2>2, <2>3, <2>4 DEF Served, InOrder, CutOff, Fresh
  <2> QED BY <1>2, <2>3, <2>5, <2>6, SocketSet
<1>7. ASSUME Receive(p)
      PROVE  SocketsOK'
  <2>1. CASE Lagged(p)
    BY <1>3, <1>7, <2>1 DEF Receive
  <2>2. CASE ~Lagged(p)
    BY <1>7, <2>2, SocketForwards
  <2> QED BY <2>1, <2>2
<1>8. ASSUME CheckSession(p)
      PROVE  SocketsOK'
  <2>1. CASE MustClose(p)
    BY <1>3, <1>8, <2>1 DEF CheckSession
  <2>2. CASE ~MustClose(p)
    <3>1. socket[p].late # 1 /\ "receiving" \in SocketSteps
      BY <1>1, <2>2 DEF MustClose, CutOff, SocketSteps
    <3>2. socket' = [socket EXCEPT ![p].pc = "receiving"]
      BY <1>8, <2>2 DEF CheckSession
    <3> QED BY <1>2, <3>1, <3>2, SocketMoved
  <2> QED BY <2>1, <2>2
<1>9. ASSUME HangUp(p)
      PROVE  SocketsOK'
  BY <1>3, <1>9 DEF HangUp
<1> QED BY <1>2, <1>4, <1>5, <1>6, <1>7, <1>8, <1>9 DEF RunSocket

(***************************************************************************)
(* The pages                                                               *)
(***************************************************************************)
\* One page moves to a state in which it follows the hub.
LEMMA PageSet ==
  ASSUME PagesOK, UNCHANGED version, NEW p \in Pages, NEW q \in PageStates,
         page' = [page EXCEPT ![p] = q], q.due <= version, Following(q)
  PROVE  PagesOK'
<1>1. /\ page' \in [Pages -> PageStates] /\ page'[p] = q
      /\ \A r \in Pages \ {p} : page'[r] = page[r]
  BY DEF PagesOK
<1>2. ASSUME NEW r \in Pages
      PROVE  page'[r].due <= version' /\ Following(page[r])'
  BY <1>1 DEF PagesOK, Following
<1> QED BY <1>1, <1>2 DEF PagesOK

\* The positions a socket has sent are positions in the log.
LEMMA SentIsLogged ==
  ASSUME ChannelOK, SocketsOK, NEW p \in Pages, NEW k \in 1..Len(socket[p].sent)
  PROVE  log[socket[p].sent[k]] \in Events /\ log[socket[p].sent[k]].at <= version
<1>1. socket[p] \in Sockets /\ Served(socket[p])
  BY DEF SocketsOK
<1>2. k \in DOMAIN socket[p].sent
  BY <1>1 DEF Sockets
<1>3. PICK i : i = socket[p].sent[k]
  OBVIOUS
<1>4. i \in socket[p].first..(socket[p].next - 1)
  BY <1>1, <1>2, <1>3 DEF Served
<1>5. i \in 1..Len(log)
  BY <1>1, <1>4 DEF Served, Sockets, ChannelOK
<1> QED BY <1>3, <1>5, ElementOfSeq DEF ChannelOK

LEMMA PageSteps ==
  ASSUME StreamInv, NEW p \in Pages, RunPage(p) \/ Refocus(p)
  PROVE  PagesOK' /\ UNCHANGED <<version, entries, sessions, unannounced, log, socket>>
<1>1. /\ page[p] \in PageStates /\ page \in [Pages -> PageStates]
      /\ page[p].due <= version /\ Following(page[p]) /\ ~page[p].cleared
      /\ version \in 1..MaxVersion
  BY DEF StreamInv, PagesOK, ChannelOK, RunPage, Refocus, Hear, Answer, Show,
         ClearOnUnauthorized, HasSession
<1>2. UNCHANGED <<version, entries, sessions, unannounced, log, socket>>
  BY DEF RunPage, Refocus, Hear, Answer, Show, ClearOnUnauthorized
<1>3. ASSUME Hear(p)
      PROVE  PagesOK'
  <2>1. PICK e : e = log[socket[p].sent[page[p].heard + 1]]
    OBVIOUS
  <2>2. page[p].heard + 1 \in 1..Len(socket[p].sent)
    BY <1>1, <1>3 DEF Hear, PageStates, StreamInv, SocketsOK, Sockets
  <2>3. e \in Events /\ e.at <= version
    BY <2>1, <2>2, SentIsLogged DEF StreamInv
  <2>4. PICK lists, cleared, warned, fetch, due :
          /\ lists = (page[p].shown # 0)
          /\ cleared = (lists /\ socket[p].dev \in e.farewell)
          /\ warned = (page[p].warned \/ (lists /\ ~Authenticated(socket[p].dev)))
          /\ fetch = Refetch(p)
          /\ due = IF lists THEN e.at ELSE page[p].due
    OBVIOUS
  <2>5. PICK q : q = [page[p] EXCEPT !.heard = @ + 1, !.fetch = fetch, !.cleared = cleared,
                                     !.due = due, !.warned = warned]
    OBVIOUS
  <2>6. page' = [page EXCEPT ![p] = q]
    BY <1>1, <1>3, <2>1, <2>4, <2>5 DEF Hear
  <2>7. fetch \in {"wanted", "answered", "refused", "idle"} /\ due \in 0..MaxVersion
        /\ due <= version /\ cleared \in BOOLEAN /\ warned \in BOOLEAN
    BY <1>1, <2>3, <2>4 DEF Refetch, PageStates, Events
  <2>8. /\ q \in PageStates /\ q.fetch = fetch /\ q.due = due /\ q.data = page[p].data
        /\ q.shown = page[p].shown
    <3>1. page[p].heard + 1 \in Nat
      BY <1>1 DEF PageStates
    <3> QED BY <1>1, <2>5, <2>7, <3>1 DEF PageStates
  <2>9. Following(q)
    BY <1>1, <2>4, <2>8 DEF Following, Refetch
  <2> QED BY <1>2, <2>6, <2>7, <2>8, <2>9, PageSet DEF StreamInv
<1>4. ASSUME Answer(p)
      PROVE  PagesOK'
  <2>1. CASE Authenticated(socket[p].dev)
    <3>1. PICK q : q = [page[p] EXCEPT !.fetch = "answered", !.data = version]
      OBVIOUS
    <3>2. page' = [page EXCEPT ![p] = q]
      BY <1>1, <1>4, <2>1, <3>1 DEF Answer
    <3>3. version \in 0..MaxVersion
      BY <1>1
    <3>4. q \in PageStates /\ q.fetch = "answered" /\ q.data = version /\ q.due = page[p].due
      BY <1>1, <3>1, <3>3 DEF PageStates
    <3> QED BY <1>1, <1>2, <3>2, <3>4, PageSet DEF StreamInv, Following
  <2>2. CASE ~Authenticated(socket[p].dev)
    <3>1. PICK q : q = [page[p] EXCEPT !.fetch = "refused"]
      OBVIOUS
    <3>2. page' = [page EXCEPT ![p] = q]
      BY <1>1, <1>4, <2>2, <3>1 DEF Answer
    <3>3. q \in PageStates /\ q.fetch = "refused" /\ q.due = page[p].due
      BY <1>1, <3>1 DEF PageStates
    <3> QED BY <1>1, <1>2, <3>2, <3>3, PageSet DEF StreamInv, Following
  <2> QED BY <2>1, <2>2
<1>5. ASSUME Show(p)
      PROVE  PagesOK'
  <2>1. PICK q : q = [page[p] EXCEPT !.fetch = "idle", !.shown = page[p].data]
    OBVIOUS
  <2>2. page' = [page EXCEPT ![p] = q]
    BY <1>1, <1>5, <2>1 DEF Show
  <2>3. q \in PageStates /\ q.fetch = "idle" /\ q.shown = page[p].data /\ q.due = page[p].due
    BY <1>1, <2>1 DEF PageStates
  <2>4. page[p].due <= page[p].data
    BY <1>1, <1>5 DEF Show, Following
  <2> QED BY <1>1, <1>2, <2>2, <2>3, <2>4, PageSet DEF StreamInv, Following
<1>6. ASSUME ClearOnUnauthorized(p)
      PROVE  PagesOK'
  <2>1. PICK q : q = [page[p] EXCEPT !.fetch = "idle", !.cleared = TRUE]
    OBVIOUS
  <2>2. page' = [page EXCEPT ![p] = q]
    BY <1>1, <1>6, <2>1 DEF ClearOnUnauthorized
  <2>3. q \in PageStates /\ q.cleared = TRUE /\ q.due = page[p].due
    BY <1>1, <2>1 DEF PageStates
  <2> QED BY <1>1, <1>2, <2>2, <2>3, PageSet DEF StreamInv, Following
<1>7. ASSUME Refocus(p)
      PROVE  PagesOK'
  <2>1. PICK q : q = [page[p] EXCEPT !.fetch = "wanted"]
    OBVIOUS
  <2>2. page' = [page EXCEPT ![p] = q]
    BY <1>1, <1>7, <2>1 DEF Refocus
  <2>3. q \in PageStates /\ q.fetch = "wanted" /\ q.due = page[p].due
    BY <1>1, <2>1 DEF PageStates
  <2> QED BY <1>1, <1>2, <2>2, <2>3, PageSet DEF StreamInv, Following
<1> QED BY <1>2, <1>3, <1>4, <1>5, <1>6, <1>7 DEF RunPage

(***************************************************************************)
(* The invariant holds                                                     *)
(***************************************************************************)
LEMMA StreamInit == Init => StreamInv
<1> SUFFICES ASSUME Init PROVE StreamInv
  OBVIOUS
<1>1. ChannelOK
  BY DEF Init, ChannelOK
<1>2. ASSUME NEW p \in Pages
      PROVE  /\ socket[p] \in Sockets /\ Served(socket[p]) /\ CutOff(socket[p])
             /\ Fresh(socket[p])
  <2>1. PICK d : d = Unopened.dev
    OBVIOUS
  <2>2. PICK s : s = [dev |-> d, pc |-> "unopened", first |-> 1, next |-> 1,
                      sent |-> <<>>, late |-> 0]
    OBVIOUS
  <2>3. socket[p] = s
    BY <2>1, <2>2 DEF Init, Unopened
  <2>4. s \in Sockets
    BY <2>1, <2>2 DEF Sockets, SocketSteps
  <2>5. Served(s) /\ CutOff(s) /\ Fresh(s)
    BY <2>2 DEF Served, InOrder, CutOff, Fresh, Init
  <2> QED BY <2>3, <2>4, <2>5
<1>3. SocketsOK
  BY <1>2 DEF Init, SocketsOK, Fresh
<1>4. PagesOK
  BY DEF Init, Blank, PagesOK, PageStates, Following
<1> QED BY <1>1, <1>3, <1>4 DEF StreamInv

LEMMA StreamStep == StreamInv /\ [Next]_vars => StreamInv'
<1> SUFFICES ASSUME StreamInv, [Next]_vars PROVE StreamInv'
  OBVIOUS
<1> USE DEF StreamInv
<1>1. ASSUME UNCHANGED <<version, entries, sessions, unannounced, log>>
      PROVE  ChannelOK'
  BY <1>1 DEF ChannelOK
<1>2. ASSUME UNCHANGED <<version, page>>
      PROVE  PagesOK'
  BY <1>2 DEF PagesOK, Following
<1>3. ASSUME UNCHANGED <<sessions, log, socket>>
      PROVE  SocketsOK'
  BY <1>3 DEF SocketsOK, Served, InOrder, CutOff
<1>4. CASE Handle
  <2>1. PagesOK'
    <3>1. UNCHANGED page /\ version <= version' /\ version \in Nat /\ version' \in Nat
      BY <1>4, HandleShape, LogStep DEF ChannelOK
    <3> QED BY <3>1 DEF PagesOK, PageStates, Following
  <2> QED BY <1>4, <2>1, HandleShape, SocketsHandled
<1>5. ASSUME NEW p \in Pages, OpenPage(p) \/ RunSocket(p) \/ HangUp(p)
      PROVE  StreamInv'
  BY <1>1, <1>2, <1>5, SocketSteps_OK
<1>6. ASSUME NEW p \in Pages, RunPage(p) \/ Refocus(p)
      PROVE  StreamInv'
  BY <1>1, <1>3, <1>6, PageSteps
<1>7. CASE UNCHANGED vars
  BY <1>1, <1>2, <1>3, <1>7 DEF vars
<1> QED BY <1>4, <1>5, <1>6, <1>7 DEF Next

LEMMA StreamInvariance == Spec => []StreamInv
BY StreamInit, StreamStep, PTL DEF Spec

(***************************************************************************)
(* What follows                                                            *)
(***************************************************************************)
\* A live page has been sent every event addressed to its device since its
\* socket subscribed (ws.rs), each once and in order, whatever the capacity of
\* the channel: a socket that has missed an event sends nothing further.
THEOREM NothingIsSkipped == Spec => []NothingSkipped
<1>1. ASSUME StreamInv, NEW p \in Pages
      PROVE  /\ InOrder(socket[p])
             /\ {socket[p].sent[k] : k \in DOMAIN socket[p].sent}
                  = {i \in socket[p].first..(socket[p].next - 1) :
                       socket[p].dev \in log[i].to}
  BY <1>1 DEF StreamInv, SocketsOK, Served
<1>2. StreamInv => NothingSkipped
  BY <1>1 DEF NothingSkipped
<1> QED BY <1>2, StreamInvariance, PTL

\* A device whose session has ended is sent at most one event more, since the
\* socket task looks at the session after every event it takes (ws.rs).
THEOREM AtMostOneLateEvent == Spec => []OneLateEvent
<1>1. StreamInv => OneLateEvent
  BY DEF StreamInv, SocketsOK, CutOff, OneLateEvent
<1> QED BY <1>1, StreamInvariance, PTL

\* No order of events, fetches and answers leaves a page with its session idle
\* while it shows something older than what it has been told of: the
\* invalidation cancels the fetch whose answer would be too old.
THEOREM IdlePagesAreUpToDate ==
  Spec => [](\A p \in Pages :
               ~page[p].cleared /\ page[p].fetch = "idle" => page[p].due <= page[p].shown)
<1>1. StreamInv => \A p \in Pages :
        ~page[p].cleared /\ page[p].fetch = "idle" => page[p].due <= page[p].shown
  BY DEF StreamInv, PagesOK, Following
<1> QED BY <1>1, StreamInvariance, PTL
=============================================================================
