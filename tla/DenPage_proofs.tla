--------------------------- MODULE DenPage_proofs ---------------------------
(***************************************************************************)
(* Proofs about the calls of DenPage, the commands of the desktop shell,   *)
(* the form for the transfer folder, and what ends a session, for any      *)
(* runtimes, folders and bounds.                                           *)
(***************************************************************************)
EXTENDS DenPage, FiniteSetTheorems, SequenceTheorems, TLAPS

\* The function that waits for an answer is the one whose question is shown, and
\* an input that holds the text has been typed in.
DialogOK ==
  \/ dialog = NoDialog
  \/ \E d, typed :
       /\ dialog = [shown |-> d, typed |-> typed, promise |-> d]
       /\ d.op \in Confirmed
       /\ verified => typed

IsCall(c) ==
  c = [op |-> c.op, id |-> c.id, dev |-> c.dev, asked |-> c.asked, seen |-> c.seen,
       answer |-> c.answer]

\* A registration without a PIN is what the button asked for, and only the first
\* device is admitted by one.
RegistrationOK(c) ==
  c.op \in AnyRegistration /\ c.seen = "Start as host" =>
    c.op = "register" /\ (c.answer = "ok" => c.id \in hosts)

ConfirmationOK(c) ==
  c.op \in Confirmed => /\ c.seen.op = c.op /\ c.seen.id = c.id
                        /\ c.op = "resetAll" => c.seen.typed

\* Only a full reset takes the hub several steps.
ServingOK(c) == c.answer = "serving" => c.op = "resetAll"

CallOK(c) == IsCall(c) /\ RegistrationOK(c) /\ ConfirmationOK(c) /\ ServingOK(c)

CallsInv == DialogOK /\ \A c \in calls : CallOK(c)

LEMMA OpsApart == AnyRegistration \cap Confirmed = {}
BY DEF AnyRegistration, Confirmed

\* What happens to the calls in a step that adds none.
LEMMA FewerCalls ==
  ASSUME \A c \in calls : CallOK(c), calls' \subseteq calls, UNCHANGED hosts
  PROVE  \A c \in calls' : CallOK(c)'
BY DEF CallOK, IsCall, RegistrationOK, ConfirmationOK, ServingOK

LEMMA StartStep ==
  ASSUME \A c \in calls : CallOK(c), UNCHANGED hosts, NEW op, NEW id, NEW asked, NEW seen,
         Start(op, id, asked, seen),
         op \in AnyRegistration => op = "register" \/ seen = "Join",
         op \in Confirmed => /\ seen.op = op /\ seen.id = id
                             /\ op = "resetAll" => seen.typed
  PROVE  \A c \in calls' : CallOK(c)'
<1> DEFINE new == [op |-> op, id |-> id, dev |-> me, asked |-> asked, seen |-> seen,
                   answer |-> "none"]
<1>1. calls' = calls \cup {new}
  BY DEF Start
<1>2. PICK c : c = new
  OBVIOUS
<1>3. c.op = op /\ c.id = id /\ c.seen = seen /\ c.answer = "none" /\ IsCall(c)
  BY <1>2 DEF IsCall
<1>4. CallOK(c)'
  BY <1>3 DEF CallOK, IsCall, RegistrationOK, ConfirmationOK, ServingOK
<1>5. calls' = calls \cup {c}
  BY <1>1, <1>2
<1> QED BY <1>4, <1>5 DEF CallOK, IsCall, RegistrationOK, ConfirmationOK, ServingOK

\* An answer changes nothing else of a call, but for the device admitted.
LEMMA AnsweredStep ==
  ASSUME \A c \in calls : CallOK(c), NEW c \in calls, NEW answer,
         calls' = Answered(c, answer), hosts \subseteq hosts',
         c.op \in AnyRegistration => answer # "ok" \/ c.answer = "ok",
         answer = "serving" => c.op = "resetAll"
  PROVE  \A e \in calls' : CallOK(e)'
<1>1. PICK e : e = [c EXCEPT !.answer = answer]
  OBVIOUS
<1>2. IsCall(c)
  BY DEF CallOK
<1>3. /\ e.op = c.op /\ e.id = c.id /\ e.seen = c.seen /\ e.answer = answer /\ IsCall(e)
  BY <1>1, <1>2 DEF IsCall
<1>4. CallOK(e)'
  BY <1>3 DEF CallOK, IsCall, RegistrationOK, ConfirmationOK, ServingOK
<1>5. calls' = (calls \ {c}) \cup {e}
  BY <1>1 DEF Answered
<1> QED BY <1>4, <1>5 DEF CallOK, IsCall, RegistrationOK, ConfirmationOK, ServingOK

LEMMA AdmitStep ==
  ASSUME \A c \in calls : CallOK(c), NEW c \in calls, Admit(c)
  PROVE  \A e \in calls' : CallOK(e)'
<1> DEFINE d == born + 1
<1>1. CASE /\ host = NoDevice \/ c.op = "registerWithPin"
           /\ IF host = NoDevice THEN hosts' = hosts \cup {d} ELSE UNCHANGED hosts
           /\ calls' = (calls \ {c}) \cup {[c EXCEPT !.answer = "ok", !.id = d]}
  <2>1. PICK e : e = [c EXCEPT !.answer = "ok", !.id = d]
    OBVIOUS
  <2>2. IsCall(c) /\ RegistrationOK(c)
    BY DEF CallOK
  <2>3. e.op = c.op /\ e.id = d /\ e.seen = c.seen /\ e.answer = "ok" /\ IsCall(e)
    BY <2>1, <2>2 DEF IsCall
  <2>4. c.op = "register" => d \in hosts'
    BY <1>1
  <2>5. c.op \in AnyRegistration
    BY DEF Admit
  <2>6. CallOK(e)'
    BY <2>2, <2>3, <2>4, <2>5, OpsApart DEF CallOK, IsCall, RegistrationOK, ConfirmationOK, ServingOK
  <2>7. calls' = (calls \ {c}) \cup {e} /\ hosts \subseteq hosts'
    BY <1>1, <2>1
  <2> QED BY <2>6, <2>7 DEF CallOK, IsCall, RegistrationOK, ConfirmationOK, ServingOK
<1>2. CASE calls' = Answered(c, "unauthorized") /\ UNCHANGED hub
  BY <1>2, AnsweredStep DEF hub
<1> QED BY <1>1, <1>2 DEF Admit

LEMMA ServeStep ==
  ASSUME CallsInv, NEW c \in calls, Serve(c)
  PROVE  CallsInv'
<1>1. \A e \in calls : CallOK(e)
  BY DEF CallsInv
<1>2. \A e \in calls' : CallOK(e)'
  <2>1. CASE Admit(c)
    BY <1>1, <2>1, AdmitStep
  <2>2. CASE c.op \notin AnyRegistration
             /\ \E answer : /\ calls' = Answered(c, answer) /\ UNCHANGED hosts
                            /\ answer = "serving" => c.op = "resetAll"
    BY <1>1, <2>2, AnsweredStep
  <2>3. CASE calls' = Answered(c, "refused") /\ UNCHANGED hub
    BY <1>1, <2>3, AnsweredStep DEF hub
  <2>4. Remove(c) => c.op \notin AnyRegistration
                     /\ \E answer \in {"ok", "notFound", "refused"} :
                          calls' = Answered(c, answer) /\ UNCHANGED hosts
    BY DEF Remove, AnyRegistration, hub
  <2>5. HostOnly(c) => c.op \notin AnyRegistration
                       /\ \E answer \in {"ok", "refused"} :
                            calls' = Answered(c, answer) /\ UNCHANGED hosts
    BY DEF HostOnly, AnyRegistration
  <2>8. ResetAll(c) => /\ c.op = "resetAll" /\ c.op \notin AnyRegistration
                       /\ \E answer : calls' = Answered(c, answer) /\ UNCHANGED hosts
    BY DEF ResetAll, BeginReset, AnyRegistration, hub
  <2>6. c.op \in {"request", "message"} => c.op \notin AnyRegistration
    BY DEF AnyRegistration
  <2>7. \/ Admit(c) \/ Remove(c) \/ HostOnly(c) \/ ResetAll(c)
        \/ (c.op \notin AnyRegistration \/ c.op \in {"request", "message"})
           /\ (\E answer \in {"ok", "unauthorized"} : calls' = Answered(c, answer)) /\ UNCHANGED hub
        \/ calls' = Answered(c, "refused") /\ UNCHANGED hub
    BY DEF Serve
  <2> QED BY <2>1, <2>2, <2>3, <2>4, <2>5, <2>6, <2>7, <2>8 DEF hub
<1>3. DialogOK'
  BY DEF CallsInv, DialogOK, Serve, prompt, NoDialog
<1> QED BY <1>2, <1>3 DEF CallsInv

LEMMA AskStep ==
  ASSUME CallsInv, NEW op \in Confirmed, NEW id, Ask(op, id)
  PROVE  CallsInv'
<1>1. dialog' = [shown |-> Dialog(op, id), typed |-> FALSE, promise |-> Dialog(op, id)]
      /\ verified' = FALSE
  BY DEF Ask, Confirm
<1>2. PICK d : d = Dialog(op, id)
  OBVIOUS
<1>3. d.op \in Confirmed
  BY <1>2 DEF Dialog
<1>4. DialogOK'
  BY <1>1, <1>2, <1>3 DEF DialogOK
<1>5. \A c \in calls' : CallOK(c)'
  BY FewerCalls DEF CallsInv, Ask, hub
<1> QED BY <1>4, <1>5 DEF CallsInv

\* The dialog is answered.
LEMMA YesStep ==
  ASSUME CallsInv, Yes
  PROVE  CallsInv'
<1>1. PICK d, typed : /\ dialog = [shown |-> d, typed |-> typed, promise |-> d]
                      /\ d.op \in Confirmed
                      /\ verified => typed
  BY DEF CallsInv, DialogOK, Yes
<1>2. /\ dialog.promise = d /\ dialog.shown = d /\ dialog.typed = typed
  BY <1>1
<1>3. PICK seen : seen = Seen
  OBVIOUS
<1>4. seen.op = d.op /\ seen.id = d.id /\ seen.typed = typed
  BY <1>2, <1>3 DEF Seen
<1>5. d.op = "resetAll" => typed
  BY <1>1, <1>2 DEF Yes, CanConfirm
<1>6. UNCHANGED calls \/ Start(d.op, d.id, d.asked, seen)
  BY <1>2, <1>3 DEF Yes
<1>7. UNCHANGED hosts /\ \A c \in calls : CallOK(c)
  BY DEF Yes, hub, CallsInv
<1>8. d.op \notin AnyRegistration
  BY <1>1, OpsApart
<1>9. \A c \in calls' : CallOK(c)'
  BY <1>1, <1>4, <1>5, <1>6, <1>7, <1>8, FewerCalls, StartStep
<1>10. DialogOK'
  BY DEF Yes, DialogOK, NoDialog
<1> QED BY <1>9, <1>10 DEF CallsInv

\* Commands, loads and what others do add no call and open no dialog.
LEMMA QuietStep ==
  ASSUME CallsInv, calls' \subseteq calls, UNCHANGED hosts,
         dialog' = NoDialog \/ UNCHANGED prompt
  PROVE  CallsInv'
<1>1. \A c \in calls' : CallOK(c)'
  BY FewerCalls DEF CallsInv
<1>2. DialogOK'
  BY DEF CallsInv, DialogOK, prompt, NoDialog
<1> QED BY <1>1, <1>2 DEF CallsInv

\* The hub goes on with a full reset, the end of which answers its call.
LEMMA ResetStepCalls ==
  ASSUME CallsInv, NEW t \in resets, ResetStep(t)
  PROVE  CallsInv'
<1>1. UNCHANGED <<hosts, dialog, verified>>
  BY DEF ResetStep, prompt
<1>2. CASE UNCHANGED calls
  BY <1>1, <1>2, QuietStep DEF prompt
<1>3. CASE \E c \in WaitsFor(t) : calls' = Answered(c, "ok")
  <2>1. PICK c \in WaitsFor(t) : calls' = Answered(c, "ok")
    BY <1>3
  <2>2. c \in calls /\ c.op = "resetAll"
    BY <2>1 DEF WaitsFor, CallsInv, CallOK, ServingOK
  <2>3. c.op \notin AnyRegistration
    BY <2>2 DEF AnyRegistration
  <2>4. \A e \in calls' : CallOK(e)'
    BY <1>1, <2>1, <2>2, <2>3, AnsweredStep DEF CallsInv
  <2> QED BY <1>1, <2>4 DEF CallsInv, DialogOK, NoDialog
<1> QED BY <1>2, <1>3 DEF ResetStep, ClearSessions, ClearHost, Announce, Drop

LEMMA CallsInvInit == Init => CallsInv
BY DEF Init, CallsInv, DialogOK

LEMMA CommandStep ==
  ASSUME CallsInv, RunCommand
  PROVE  CallsInv'
<1>1. PICK c : RunGet(c) \/ RunSet(c) \/ RunReset(c) \/ RunRestart(c)
  BY DEF RunCommand
<1>2. calls' \subseteq calls /\ (dialog' = NoDialog \/ UNCHANGED prompt)
  BY <1>1 DEF RunGet, RunSet, RunReset, RunRestart, Load, prompt
<1>3. UNCHANGED hosts
  BY <1>1 DEF RunGet, RunSet, RunReset, RunRestart, HubStarts, hub
<1> QED BY <1>2, <1>3, QuietStep

LEMMA CallsInvNext == CallsInv /\ [Next]_vars => CallsInv'
<1> SUFFICES ASSUME CallsInv, [Next]_vars PROVE CallsInv'
  OBVIOUS
<1>1. \A c \in calls : CallOK(c)
  BY DEF CallsInv
<1>2. CASE Submit
  <2>1. UNCHANGED <<hosts, dialog, verified>>
    BY <1>2 DEF Submit, hub, prompt
  <2>2. PICK op \in Registration : Start(op, NoDevice, me, Label)
    BY <1>2 DEF Submit
  <2>3. op \in AnyRegistration /\ (op = "register" \/ Label = "Join")
    BY <2>2 DEF Registration, AnyRegistration, Label
  <2>4. op \notin Confirmed
    BY <2>3, OpsApart
  <2>5. \A c \in calls' : CallOK(c)'
    BY <1>1, <2>1, <2>2, <2>3, <2>4, StartStep
  <2> QED BY <2>1, <2>5 DEF CallsInv, DialogOK, NoDialog
<1>3. CASE Leave \/ Request \/ SendMessage \/ SaveTransferExpiry
  <2>1. UNCHANGED <<hosts, dialog, verified>>
    BY <1>3 DEF Leave, Request, SendMessage, SaveTransferExpiry, hub, prompt
  <2>2. PICK op \in {"leave", "request", "message", "saveExpiry"} :
              \E id, seen : Start(op, id, me, seen)
    BY <1>3 DEF Leave, Request, SendMessage, SaveTransferExpiry
  <2>3. op \notin AnyRegistration /\ op \notin Confirmed
    BY <2>2 DEF AnyRegistration, Confirmed
  <2>4. \A c \in calls' : CallOK(c)'
    BY <1>1, <2>1, <2>2, <2>3, StartStep
  <2> QED BY <2>1, <2>4 DEF CallsInv, DialogOK, NoDialog
<1>4. CASE FetchConfig \/ OthersAct \/ Notified \/ Save
  BY <1>4, QuietStep DEF FetchConfig, OthersAct, Notified, Save, hub
<1>5. CASE \/ AskAsHost \/ AskToRemove \/ AskToReset
          \/ AskToLeave \/ AskToRestore \/ AskToRestart
  <2>1. PICK op \in Confirmed : \E id : Ask(op, id)
    BY <1>5 DEF AskAsHost, AskToRemove, AskToReset, AskToLeave, AskToRestore, AskToRestart, Confirmed
  <2> QED BY <2>1, AskStep
<1>6. CASE TypeVerification
  <2>1. PICK d, typed : /\ dialog = [shown |-> d, typed |-> typed, promise |-> d]
                        /\ d.op \in Confirmed
    BY <1>6 DEF CallsInv, DialogOK, TypeVerification
  <2>2. dialog' = [shown |-> d, typed |-> TRUE, promise |-> d]
    BY <1>6, <2>1 DEF TypeVerification
  <2>3. DialogOK'
    BY <2>1, <2>2 DEF DialogOK
  <2>4. \A c \in calls' : CallOK(c)'
    BY <1>1, <1>6, FewerCalls DEF TypeVerification, hub
  <2> QED BY <2>3, <2>4 DEF CallsInv
<1>7. CASE Cancel \/ Reload \/ Relaunch \/ FoldersMove
  BY <1>7, QuietStep DEF Cancel, Reload, Relaunch, FoldersMove, Load, HubStarts, hub
<1>8. CASE Yes
  BY <1>8, YesStep
<1>9. CASE RunCommand
  BY <1>9, CommandStep
<1>10. CASE \E c \in calls : Serve(c)
  BY <1>10, ServeStep
<1>11. CASE \E c \in calls : Lose(c)
  <2>1. PICK c \in calls : calls' = Answered(c, "lost")
    BY <1>11 DEF Lose
  <2>2. UNCHANGED <<hosts, dialog, verified>>
    BY <1>11 DEF Lose, hub, prompt
  <2>3. \A e \in calls' : CallOK(e)'
    BY <1>1, <2>1, <2>2, AnsweredStep
  <2> QED BY <2>2, <2>3 DEF CallsInv, DialogOK, NoDialog
<1>12. CASE \E c \in calls : Receive(c)
  BY <1>12, QuietStep DEF Receive, hub
<1>13. CASE UNCHANGED vars
  BY <1>13, QuietStep DEF vars, hub
<1>14. CASE \E t \in resets : ResetStep(t)
  BY <1>14, ResetStepCalls
<1> QED BY <1>2, <1>3, <1>4, <1>5, <1>6, <1>7, <1>8, <1>9, <1>10, <1>11, <1>12, <1>13, <1>14
        DEF Next

\* Whoever is admitted after "Start as host" is the host then (DeviceSetup, the
\* register handler of the hub), whatever the page was told and when.
THEOREM HostButtonMakesHost == Spec => []StartAsHostMakesHost
<1>1. CallsInv => StartAsHostMakesHost
  BY DEF CallsInv, CallOK, RegistrationOK, StartAsHostMakesHost
<1> QED BY <1>1, CallsInvInit, CallsInvNext, PTL DEF Spec

\* No call of the hub is started for a confirmed control unless the dialog that
\* named it was answered (dialogStore, DialogViewport), also when dialogs replace
\* each other and when sessions end behind them.
THEOREM CallsAreConfirmed == Spec => []CallsAsAsked
<1>1. CallsInv => CallsAsAsked
  BY DEF CallsInv, CallOK, ConfirmationOK, CallsAsAsked
<1> QED BY <1>1, CallsInvInit, CallsInvNext, PTL DEF Spec

(***************************************************************************)
(* The queue of commands                                                   *)
(***************************************************************************)
\* Naturals are well ordered, as the finite sets 0..n are by inclusion.
LEMMA SmallestOf ==
  ASSUME NEW T \in SUBSET Nat, T # {}
  PROVE  \E m \in T : \A n \in T : m <= n
<1> DEFINE F == {0..n : n \in T}
<1>1. F \subseteq FiniteSubsetsOf(Nat) /\ F # {}
  <2>1. ASSUME NEW n \in T PROVE 0..n \in FiniteSubsetsOf(Nat)
    BY FS_Interval DEF FiniteSubsetsOf
  <2> QED BY <2>1
<1>2. PICK x \in F : \A y \in F : ~(<<y, x>> \in StrictSubsetOrdering(Nat))
  <2>1. IsWellFoundedOn(StrictSubsetOrdering(Nat), FiniteSubsetsOf(Nat))
    BY FS_StrictSubsetOrderingWellFounded
  <2> HIDE DEF F
  <2> QED BY <1>1, <2>1, WFMin
<1>3. PICK m \in T : x = 0..m
  BY <1>2
<1>4. ASSUME NEW n \in T, n < m PROVE FALSE
  <2>1. 0..n \subseteq 0..m /\ 0..n # 0..m /\ 0..m \subseteq Nat
    BY <1>4
  <2>2. <<0..n, 0..m>> \in StrictSubsetOrdering(Nat)
    BY <2>1 DEF StrictSubsetOrdering
  <2> QED BY <1>2, <1>3, <2>2
<1>5. \A n \in T : n \in Nat /\ m \in Nat /\ ~(n < m)
  BY <1>4
<1> QED BY <1>5

\* The recursive function that Changes applies.
IsBefore(f, q, m) ==
  f = [n \in 0..m |-> IF n = 0 THEN <<>>
                      ELSE IF q[n].op = "get" THEN f[n - 1]
                      ELSE Append(f[n - 1], q[n])]

LEMMA BeforeExists == ASSUME NEW q, NEW l \in Nat PROVE \E f : IsBefore(f, q, l)
<1> DEFINE T == {m \in Nat : ~\E f : IsBefore(f, q, m)}
<1> SUFFICES ASSUME T # {} PROVE FALSE
  OBVIOUS
<1>1. PICK m \in T : \A n \in T : m <= n
  BY SmallestOf
<1>2. CASE m = 0
  <2>1. IsBefore([n \in 0..0 |-> <<>>], q, 0)
    BY DEF IsBefore
  <2> QED BY <1>1, <1>2, <2>1
<1>3. CASE m # 0
  <2>1. m - 1 \in Nat /\ m - 1 \notin T
    BY <1>1, <1>3
  <2>2. PICK g : IsBefore(g, q, m - 1)
    BY <2>1
  <2>3. PICK last : last = IF q[m].op = "get" THEN g[m - 1] ELSE Append(g[m - 1], q[m])
    OBVIOUS
  <2> DEFINE f == [n \in 0..m |-> IF n = m THEN last ELSE g[n]]
  <2>4. \A n \in 0..m : f[n] = IF n = 0 THEN <<>>
                               ELSE IF q[n].op = "get" THEN f[n - 1]
                               ELSE Append(f[n - 1], q[n])
    <3> TAKE n \in 0..m
    <3>1. CASE n = m
      BY <1>3, <2>1, <2>3, <3>1
    <3>2. CASE n # m
      <4>1. n \in 0..m - 1 /\ f[n] = g[n] /\ (n # 0 => f[n - 1] = g[n - 1])
        BY <2>1, <3>2
      <4>2. g[n] = IF n = 0 THEN <<>> ELSE IF q[n].op = "get" THEN g[n - 1]
                   ELSE Append(g[n - 1], q[n])
        BY <2>2, <4>1 DEF IsBefore
      <4> QED BY <4>1, <4>2
    <3> QED BY <3>1, <3>2
  <2>5. IsBefore(f, q, m)
    BY <2>4 DEF IsBefore
  <2> QED BY <1>1, <2>5
<1> QED BY <1>2, <1>3

\* The commands that change something are commands of the queue.
LEMMA ChangesType ==
  ASSUME NEW S, NEW q \in Seq(S)
  PROVE  Changes(q) \in Seq(S)
<1>1. PICK l \in Nat : l = Len(q)
  OBVIOUS
<1> DEFINE f == CHOOSE g : IsBefore(g, q, l)
<1>2. Changes(q) = f[l]
  BY <1>1 DEF Changes, IsBefore
<1>3. IsBefore(f, q, l)
  BY BeforeExists
<1> HIDE DEF f
<1> DEFINE T == {m \in 0..l : f[m] \notin Seq(S)}
<1>4. T = {}
  <2> SUFFICES ASSUME T # {} PROVE FALSE
    OBVIOUS
  <2>0. T \in SUBSET Nat
    OBVIOUS
  <2>1. PICK m \in T : \A n \in T : m <= n
    BY <2>0, SmallestOf, Zenon
  <2>2. f[m] = IF m = 0 THEN <<>> ELSE IF q[m].op = "get" THEN f[m - 1]
               ELSE Append(f[m - 1], q[m])
    BY <1>3 DEF IsBefore
  <2>3. m # 0
    <3>1. <<>> \in Seq(S)
      BY EmptySeq
    <3>2. f[m] \notin Seq(S)
      OBVIOUS
    <3> QED BY <2>2, <3>1, <3>2, Zenon
  <2>4. m - 1 \in 0..l /\ m \in 1..l
    BY <2>3
  <2>5. f[m - 1] \in Seq(S)
    BY <2>1, <2>4
  <2>6. q[m] \in S
    BY <1>1, <2>4
  <2>7. Append(f[m - 1], q[m]) \in Seq(S)
    BY <2>5, <2>6, AppendProperties
  <2>8. f[m] \in Seq(S)
    BY <2>2, <2>3, <2>5, <2>7
  <2> QED BY <2>8
<1> QED BY <1>2, <1>4

IsCommand(c) == c = Command(c.op, c.folder, c.live, c.seen)

CommandOK(c) ==
  /\ IsCommand(c)
  /\ c.op \in {"restore", "resetAll"} => c.seen.op \in {c.op, "resetAll"}
  /\ c.op = "restart" => c.seen.op \in {"restart", "resetAll"}
  /\ c.op = "resetAll" => c.seen.typed

\* A sequence of commands, each of them as asked for.
QueueOK(queue) == \E S : queue \in Seq(S) /\ \A c \in S : CommandOK(c)

LEMMA CommandFields ==
  ASSUME NEW op, NEW folder, NEW live, NEW seen
  PROVE  LET c == Command(op, folder, live, seen) IN
         c.op = op /\ c.folder = folder /\ c.live = live /\ c.seen = seen /\ IsCommand(c)
BY DEF Command, IsCommand

LEMMA NoCommands == QueueOK(<<>>)
<1>1. PICK S, queue : S = {} /\ queue = <<>>
  OBVIOUS
<1>2. queue \in Seq(S)
  BY <1>1, EmptySeq
<1>3. \A c \in S : CommandOK(c)
  BY <1>1
<1>4. QueueOK(queue)
  BY <1>2, <1>3 DEF QueueOK
<1> QED BY <1>1, <1>4

LEMMA QueueElements ==
  ASSUME NEW queue, QueueOK(queue), NEW n \in DOMAIN queue
  PROVE  CommandOK(queue[n])
BY DEF QueueOK

LEMMA QueueAppend ==
  ASSUME NEW queue, QueueOK(queue), NEW c, CommandOK(c)
  PROVE  QueueOK(Append(queue, c))
<1>1. PICK S : queue \in Seq(S) /\ \A d \in S : CommandOK(d)
  BY DEF QueueOK
<1>2. queue \in Seq(S \cup {c})
  BY <1>1, SeqMonotonic
<1>3. Append(queue, c) \in Seq(S \cup {c})
  BY <1>2, AppendProperties
<1> QED BY <1>1, <1>3 DEF QueueOK

LEMMA QueueTail ==
  ASSUME NEW queue, QueueOK(queue), queue # <<>>
  PROVE  QueueOK(Tail(queue)) /\ CommandOK(Head(queue))
<1>1. PICK S : queue \in Seq(S) /\ \A d \in S : CommandOK(d)
  BY DEF QueueOK
<1>2. Tail(queue) \in Seq(S) /\ Head(queue) \in S
  BY <1>1, HeadTailProperties
<1> QED BY <1>1, <1>2 DEF QueueOK

LEMMA GetOK == CommandOK(Get)
<1>1. PICK c : c = Get
  OBVIOUS
<1>2. IsCommand(c) /\ c.op = "get"
  BY <1>1 DEF Get, Command, IsCommand
<1> QED BY <1>1, <1>2 DEF CommandOK

\* What waits when the functions are gone that gave the commands.
LEMMA QueueLeft ==
  ASSUME NEW queue, QueueOK(queue)
  PROVE  QueueOK(Orphaned(queue)) /\ QueueOK(Abandoned(queue))
<1>1. PICK S : queue \in Seq(S) /\ \A d \in S : CommandOK(d)
  BY DEF QueueOK
<1>2. PICK waiting \in Seq(S) : waiting = Changes(queue)
  BY <1>1, ChangesType
<1>3. ASSUME NEW c \in S
      PROVE  /\ CommandOK([c EXCEPT !.live = FALSE])
             /\ CommandOK([c EXCEPT !.live = FALSE,
                                    !.op = IF @ = "resetAll" THEN "restore" ELSE @])
  <2>1. CommandOK(c) /\ IsCommand(c)
    BY <1>1 DEF CommandOK
  <2>2. PICK d, e : /\ d = [c EXCEPT !.live = FALSE]
                    /\ e = [c EXCEPT !.live = FALSE,
                                     !.op = IF @ = "resetAll" THEN "restore" ELSE @]
    OBVIOUS
  <2>3. IsCommand(d) /\ d.op = c.op /\ d.seen = c.seen
    BY <2>1, <2>2 DEF IsCommand, Command
  <2>4. /\ IsCommand(e) /\ e.seen = c.seen
        /\ e.op = IF c.op = "resetAll" THEN "restore" ELSE c.op
    BY <2>1, <2>2 DEF IsCommand, Command
  <2>5. CommandOK(d) /\ CommandOK(e)
    BY <2>1, <2>3, <2>4 DEF CommandOK
  <2> QED BY <2>2, <2>5
<1>4. PICK D, E : /\ D = {[c EXCEPT !.live = FALSE] : c \in S}
                  /\ E = {[c EXCEPT !.live = FALSE,
                                    !.op = IF @ = "resetAll" THEN "restore" ELSE @] : c \in S}
  OBVIOUS
<1>5. (\A d \in D : CommandOK(d)) /\ (\A e \in E : CommandOK(e))
  BY <1>3, <1>4
<1>6. PICK l \in Nat : DOMAIN waiting = 1..l /\ \A n \in 1..l : waiting[n] \in S
  BY LenProperties
<1>7. Orphaned(queue) \in [1..l -> D]
  BY <1>2, <1>4, <1>6 DEF Orphaned
<1>8. Abandoned(queue) \in [1..l -> E]
  BY <1>2, <1>4, <1>6 DEF Abandoned
<1>9. Orphaned(queue) \in Seq(D) /\ Abandoned(queue) \in Seq(E)
  BY <1>7, <1>8, SeqDef
<1> QED BY <1>5, <1>9 DEF QueueOK

\* Whatever becomes of the session, the queue stays as asked for.
LEMMA SessionQueue ==
  ASSUME NEW d, NEW queue, QueueOK(queue), SetSession(d, queue)
  PROVE  QueueOK(invoked')
<1>1. QueueOK(Append(Orphaned(queue), Get))
  BY QueueLeft, GetOK, QueueAppend
<1>2. QueueOK(<<>>)
  BY NoCommands
<1> QED BY <1>1, <1>2 DEF SetSession, MountForm

LEMMA LoadQueue ==
  ASSUME NEW queue, QueueOK(queue), Load(queue)
  PROVE  QueueOK(invoked')
<1>1. QueueOK(Append(Orphaned(queue), Get))
  BY QueueLeft, GetOK, QueueAppend
<1>2. QueueOK(<<>>)
  BY NoCommands
<1> QED BY <1>1, <1>2 DEF Load, MountForm

\* The answer to a confirmed full reset is followed by the reset of the folder.
LEMMA ReceiveQueue ==
  ASSUME CallsInv, QueueOK(invoked), NEW c \in calls, Receive(c)
  PROVE  QueueOK(invoked')
<1>1. CASE EndsSession(c) \/ (c.op \in AnyRegistration /\ c.answer = "ok")
  BY <1>1, SessionQueue DEF Receive, ClearDevice, KeepSession
<1>2. CASE c.op = "resetAll" /\ invoked' = Append(invoked, Command("resetAll", NoFolder, FALSE, c.seen))
  <2>1. c.seen.op = "resetAll" /\ c.seen.typed
    BY <1>2 DEF CallsInv, CallOK, ConfirmationOK, Confirmed
  <2>2. PICK seen, new : seen = c.seen /\ new = Command("resetAll", NoFolder, FALSE, seen)
    OBVIOUS
  <2>3. new.op = "resetAll" /\ new.seen = seen /\ IsCommand(new)
    BY <2>2 DEF Command, IsCommand
  <2>4. CommandOK(new)
    BY <2>1, <2>2, <2>3 DEF CommandOK
  <2> QED BY <1>2, <2>2, <2>4, QueueAppend
<1> QED BY <1>1, <1>2 DEF Receive, KeepSession

LEMMA YesQueue ==
  ASSUME CallsInv, QueueOK(invoked), Yes
  PROVE  QueueOK(invoked')
<1>1. PICK d, typed : /\ dialog = [shown |-> d, typed |-> typed, promise |-> d]
                      /\ d.op \in Confirmed
  BY DEF CallsInv, DialogOK, Yes
<1>2. dialog.promise = d /\ dialog.shown = d
  BY <1>1
<1>3. PICK seen, live : seen = Seen /\ live = (d.asked = me)
  OBVIOUS
<1>4. seen.op = d.op
  BY <1>2, <1>3 DEF Seen
<1>5. CASE d.op \in {"restore", "restart"}
           /\ invoked' = Append(invoked, Command(d.op, NoFolder, live, seen))
  <2>1. PICK new : new = Command(d.op, NoFolder, live, seen)
    OBVIOUS
  <2>2. new.op = d.op /\ new.seen = seen /\ IsCommand(new)
    BY <2>1 DEF Command, IsCommand
  <2>3. CommandOK(new)
    BY <1>4, <1>5, <2>2 DEF CommandOK
  <2> QED BY <1>5, <2>1, <2>3, QueueAppend
<1>6. CASE UNCHANGED invoked
  BY <1>6
<1> QED BY <1>2, <1>3, <1>5, <1>6 DEF Yes

LEMMA SaveQueue ==
  ASSUME QueueOK(invoked), Save
  PROVE  QueueOK(invoked')
<1>1. PICK f : invoked' = Append(invoked, Command("set", f, TRUE, NoDialog))
  BY DEF Save
<1>2. PICK new : new = Command("set", f, TRUE, NoDialog)
  OBVIOUS
<1>3. new.op = "set" /\ IsCommand(new)
  BY <1>2 DEF Command, IsCommand
<1>4. CommandOK(new)
  BY <1>3 DEF CommandOK
<1> QED BY <1>1, <1>2, <1>4, QueueAppend

\* A restart that follows a full reset is the one that was asked for with it.
LEMMA CommandQueue ==
  ASSUME QueueOK(invoked), RunCommand
  PROVE  QueueOK(invoked')
<1>1. PICK c : c = Head(invoked) /\ (RunGet(c) \/ RunSet(c) \/ RunReset(c) \/ RunRestart(c))
  BY DEF RunCommand
<1>2. PICK rest : rest = Tail(invoked)
  OBVIOUS
<1>3. QueueOK(rest) /\ CommandOK(c)
  BY <1>1, <1>2, QueueTail DEF RunCommand
<1>4. CASE invoked' = rest
  BY <1>3, <1>4
<1>5. ASSUME c.op = "resetAll",
             SetSession(NoDevice, Append(rest, Command("restart", NoFolder, FALSE, c.seen)))
      PROVE  QueueOK(invoked')
  <2>1. PICK new : new = Command("restart", NoFolder, FALSE, c.seen)
    OBVIOUS
  <2>2. new.op = "restart" /\ new.seen = c.seen /\ IsCommand(new)
    BY <2>1 DEF Command, IsCommand
  <2>3. CommandOK(new)
    BY <1>3, <1>5, <2>2 DEF CommandOK
  <2>4. PICK queue : queue = Append(rest, new) /\ QueueOK(queue)
    BY <1>3, <2>3, QueueAppend
  <2> QED BY <1>5, <2>1, <2>4, SessionQueue
<1>6. ASSUME Load(Abandoned(rest)) PROVE QueueOK(invoked')
  <2>1. PICK queue : queue = Abandoned(rest) /\ QueueOK(queue)
    BY <1>3, QueueLeft
  <2> QED BY <1>6, <2>1, LoadQueue
<1>7. CASE RunGet(c) \/ RunSet(c)
  BY <1>2, <1>4, <1>7 DEF RunGet, RunSet
<1>8. CASE RunReset(c)
  BY <1>2, <1>4, <1>5, <1>8 DEF RunReset
<1>9. CASE RunRestart(c)
  BY <1>2, <1>4, <1>6, <1>9 DEF RunRestart
<1> QED BY <1>1, <1>7, <1>8, <1>9

CommandsInv == QueueOK(invoked)

LEMMA CommandsInvNext == CallsInv /\ CommandsInv /\ [Next]_vars => CommandsInv'
<1> SUFFICES ASSUME CallsInv, QueueOK(invoked), [Next]_vars PROVE QueueOK(invoked')
  BY DEF CommandsInv
<1>1. CASE UNCHANGED invoked
  BY <1>1
<1>2. CASE FetchConfig
  <2>1. UNCHANGED invoked \/ invoked' = Append(invoked, Get)
    BY <1>2 DEF FetchConfig
  <2> QED BY <2>1, GetOK, QueueAppend
<1>3. CASE Notified
  BY <1>3, SessionQueue DEF Notified, ClearDevice
<1>4. CASE Yes
  BY <1>4, YesQueue
<1>5. CASE Save
  BY <1>5, SaveQueue
<1>6. CASE RunCommand
  BY <1>6, CommandQueue
<1>7. CASE Reload
  <2>1. PICK queue : queue = Abandoned(invoked) /\ QueueOK(queue)
    BY QueueLeft
  <2> QED BY <1>7, <2>1, LoadQueue DEF Reload
<1>8. CASE Relaunch
  <2>1. QueueOK(<<>>)
    BY NoCommands
  <2> QED BY <1>8, <2>1, LoadQueue DEF Relaunch
<1>9. CASE \E c \in calls : Receive(c)
  BY <1>9, ReceiveQueue
<1>10. CASE \/ Submit \/ Leave \/ Request \/ SendMessage \/ SaveTransferExpiry \/ OthersAct
            \/ AskAsHost \/ AskToRemove \/ AskToReset \/ AskToLeave \/ AskToRestore
            \/ AskToRestart \/ TypeVerification \/ Cancel \/ FoldersMove \/ UNCHANGED vars
            \/ (\E c \in calls : Serve(c) \/ Lose(c)) \/ (\E t \in resets : ResetStep(t))
  BY <1>1, <1>10
     DEF Submit, Leave, Request, SendMessage, SaveTransferExpiry, OthersAct, AskAsHost,
         AskToRemove, AskToReset, AskToLeave, AskToRestore, AskToRestart, Ask,
         TypeVerification, Cancel, FoldersMove, Serve, Lose, ResetStep, vars, form
<1> QED BY <1>2, <1>3, <1>4, <1>5, <1>6, <1>7, <1>8, <1>9, <1>10 DEF Next

\* Nothing the page asks about is done without the user's yes to the dialog that
\* named it: no call of the hub, and no command of the desktop shell, which may wait
\* behind others while pages are loaded and sessions end (dialogStore,
\* DesktopSettings, src-tauri/src/main.rs).
THEOREM AllIsConfirmed == Spec => []DoneAsAsked
<1>1. Init => CommandsInv
  <2>1. QueueOK(<<>>)
    BY NoCommands
  <2>2. QueueOK(<<Get>>)
    <3>1. PICK get, S, queue : get = Get /\ S = {get} /\ queue = <<get>>
      OBVIOUS
    <3>2. queue \in Seq(S)
      BY <3>1
    <3>3. \A c \in S : CommandOK(c)
      BY <3>1, GetOK
    <3>4. QueueOK(queue)
      BY <3>2, <3>3 DEF QueueOK
    <3> QED BY <3>1, <3>4
  <2> QED BY <2>1, <2>2 DEF Init, CommandsInv
<1>2. CallsInv /\ CommandsInv => DoneAsAsked
  <2> SUFFICES ASSUME CallsInv, QueueOK(invoked) PROVE DoneAsAsked
    BY DEF CommandsInv
  <2>1. CallsAsAsked
    BY DEF CallsInv, CallOK, ConfirmationOK, CallsAsAsked
  <2>2. \A n \in DOMAIN invoked : CommandOK(invoked[n])
    BY QueueElements
  <2>3. CommandsAsAsked
    BY <2>2 DEF CommandOK, CommandsAsAsked
  <2> QED BY <2>1, <2>3 DEF DoneAsAsked
<1> QED BY <1>1, <1>2, CallsInvInit, CallsInvNext, CommandsInvNext, PTL DEF Spec

(***************************************************************************)
(* The form for the transfer folder                                        *)
(***************************************************************************)
\* The hub runs with a folder that can be written to, as far as the shell knew
\* when it started it; a preference that cannot be used has made it fall back.
FoldersOK ==
  /\ usable \subseteq Folders
  /\ {pref, running} \subseteq Folders \cup {Default}
  /\ pref \notin usable \cup {Default} /\ ~moved => running = Default

\* What the form has read still is so, unless it was not told.
FormOK ==
  saved # NoFolder /\ ~untold =>
    /\ saved = pref
    /\ ~moved => (fallback <=> pref \notin usable \cup {Default})

FolderInv == FoldersOK /\ FormOK

LEMMA FoldersApart == Default \notin Folders /\ NoFolder \notin Folders \cup {Default}
BY PageAssumption DEF PageAssumption

LEMMA FolderQuiet ==
  ASSUME FolderInv, UNCHANGED shell, UNCHANGED <<saved, fallback, untold>>
  PROVE  FolderInv'
BY DEF FolderInv, FoldersOK, FormOK, shell

\* A form that is mounted anew has read nothing.
LEMMA FolderAnew ==
  ASSUME FolderInv, UNCHANGED shell, saved' = NoFolder
  PROVE  FolderInv'
BY DEF FolderInv, FoldersOK, FormOK, shell

LEMMA FolderSession ==
  ASSUME FolderInv, UNCHANGED shell, UNCHANGED untold, NEW d, NEW queue, SetSession(d, queue)
  PROVE  FolderInv'
BY FolderQuiet, FolderAnew DEF SetSession, MountForm

\* A command that writes the preference tells the form, or the form is not told.
LEMMA FolderWrite ==
  ASSUME FolderInv, UNCHANGED <<usable, running, moved>>, pref' \in usable \cup {Default},
         untold' \/ (saved' = pref' /\ fallback' = FALSE)
  PROVE  FolderInv'
<1>1. FoldersOK'
  BY DEF FolderInv, FoldersOK
<1>2. FormOK'
  BY DEF FormOK
<1> QED BY <1>1, <1>2 DEF FolderInv

LEMMA FolderFailed ==
  ASSUME FolderInv, FailToWrite, UNCHANGED <<usable, running, moved>>
  PROVE  FolderInv'
<1>1. CASE UNCHANGED <<pref, saved, fallback, untold>>
  BY <1>1, FolderQuiet DEF shell
<1>2. CASE pref' = Default /\ untold' = TRUE
  BY <1>2, FolderWrite
<1> QED BY <1>1, <1>2 DEF FailToWrite

LEMMA FolderCommand ==
  ASSUME FolderInv, RunCommand
  PROVE  FolderInv'
<1>1. PICK c : RunGet(c) \/ RunSet(c) \/ RunReset(c) \/ RunRestart(c)
  BY DEF RunCommand
<1>2. CASE RunGet(c)
  <2>1. UNCHANGED shell /\ Show(c, pref, pref \notin usable \cup {Default})
    BY <1>2 DEF RunGet
  <2>2. CASE c.live
    <3>1. saved' = pref /\ (fallback' <=> pref \notin usable \cup {Default})
      BY <2>1, <2>2 DEF Show
    <3> QED BY <2>1, <3>1 DEF FolderInv, FoldersOK, FormOK, shell
  <2>3. CASE ~c.live
    BY <2>1, <2>3 DEF Show, FolderInv, FoldersOK, FormOK, shell
  <2> QED BY <2>2, <2>3
<1>3. CASE RunSet(c)
  <2>1. UNCHANGED <<usable, running, moved>>
    BY <1>3 DEF RunSet
  <2>2. CASE c.folder \in usable \cup {Default} /\ pref' = c.folder /\ Show(c, c.folder, FALSE)
    BY <2>1, <2>2, FolderWrite DEF Show
  <2> QED BY <1>3, <2>1, <2>2, FolderFailed DEF RunSet
<1>4. CASE RunReset(c)
  <2>1. UNCHANGED <<usable, running, moved>>
    BY <1>4 DEF RunReset
  <2>2. CASE pref' = Default /\ (untold' = TRUE \/ Show(c, Default, FALSE))
    BY <2>1, <2>2, FolderWrite DEF Show
  <2> QED BY <1>4, <2>1, <2>2, FolderFailed DEF RunReset
<1>5. CASE RunRestart(c)
  <2>1. /\ UNCHANGED <<usable, pref, untold>>
        /\ \/ running' = FolderFor(pref)
           \/ running' = running /\ UNCHANGED moved
        /\ UNCHANGED moved \/ saved' = NoFolder
    BY <1>5 DEF RunRestart, Load, MountForm
  <2>2. FoldersOK'
    BY <2>1 DEF FolderInv, FoldersOK, FolderFor
  <2>3. FormOK'
    BY <1>5, <2>1 DEF FolderInv, FormOK, RunRestart, Load, MountForm
  <2> QED BY <2>2, <2>3 DEF FolderInv
<1> QED BY <1>1, <1>2, <1>3, <1>4, <1>5

LEMMA FolderInvNext == FolderInv /\ [Next]_vars => FolderInv'
<1> SUFFICES ASSUME FolderInv, [Next]_vars PROVE FolderInv'
  OBVIOUS
<1>1. CASE RunCommand
  BY <1>1, FolderCommand
<1>2. CASE Reload
  BY <1>2, FolderAnew DEF Reload, Load, MountForm
<1>3. CASE Relaunch
  <2>1. /\ UNCHANGED <<usable, pref>> /\ saved' = NoFolder
        /\ running' = FolderFor(pref)
    BY <1>3 DEF Relaunch, Load, MountForm
  <2>2. FoldersOK'
    BY <2>1 DEF FolderInv, FoldersOK, FolderFor
  <2> QED BY <2>1, <2>2 DEF FolderInv, FormOK
<1>4. CASE Notified \/ \E c \in calls : Receive(c)
  BY <1>4, FolderSession, FolderQuiet DEF Notified, Receive, ClearDevice, KeepSession
<1>5. CASE \/ Submit \/ Leave \/ Request \/ SendMessage \/ SaveTransferExpiry \/ FetchConfig
           \/ OthersAct \/ AskAsHost \/ AskToRemove \/ AskToReset \/ AskToLeave \/ AskToRestore
           \/ AskToRestart \/ TypeVerification \/ Cancel \/ Yes \/ Save \/ UNCHANGED vars
           \/ (\E c \in calls : Serve(c) \/ Lose(c)) \/ (\E t \in resets : ResetStep(t))
  BY <1>5, FolderQuiet
     DEF Submit, Leave, Request, SendMessage, SaveTransferExpiry, FetchConfig, OthersAct,
         AskAsHost, AskToRemove, AskToReset, AskToLeave, AskToRestore, AskToRestart, Ask,
         TypeVerification, Cancel, Yes, Save, Serve, Lose, ResetStep, vars, form
<1>6. CASE FoldersMove
  BY <1>6 DEF FoldersMove, FolderInv, FoldersOK, FormOK, form
<1> QED BY <1>1, <1>2, <1>3, <1>4, <1>5, <1>6 DEF Next

\* The transfer folder that the form shows is the preference that is kept, and a
\* restart is offered exactly if it would change the hub's folder: also when the hub
\* has fallen back to the default one, as long as no folder comes or goes while it
\* runs (DesktopSettings, src-tauri/src/main.rs).
THEOREM TheFolderFormIsRight == Spec => []FolderFormIsRight
<1>1. Init => FolderInv
  BY DEF Init, FolderInv, FoldersOK, FormOK
<1>2. FolderInv => FolderFormIsRight
  <2> SUFFICES ASSUME FolderInv, saved # NoFolder, ~untold
               PROVE  saved = pref /\ (dir = running /\ ~moved => (RestartOffered <=> FolderFor(pref) # running))
    BY DEF FolderFormIsRight
  <2>1. /\ saved = pref /\ running # NoFolder
        /\ ~moved => (fallback <=> pref \notin usable \cup {Default})
    BY FoldersApart DEF FolderInv, FoldersOK, FormOK
  <2>2. CASE pref \in usable \cup {Default}
    <3>1. FolderFor(pref) = pref
      BY <2>2 DEF FolderFor
    <3> QED BY <2>1, <2>2, <3>1 DEF RestartOffered
  <2>3. CASE pref \notin usable \cup {Default}
    <3>1. FolderFor(pref) = Default /\ (~moved => running = Default)
      BY <2>3 DEF FolderInv, FoldersOK, FolderFor
    <3> QED BY <2>1, <2>3, <3>1 DEF RestartOffered
  <2> QED BY <2>2, <2>3
<1> QED BY <1>1, <1>2, FolderInvNext, PTL DEF Spec

(***************************************************************************)
(* What ends a session                                                     *)
(***************************************************************************)
\* The devices the page has been so far.
Known == {NoDevice} \cup 1..born

Registrations == {c \in calls : c.op \in AnyRegistration}

Leaving == {"leave", "leaveDesktop"}

PeopleOK == born \in 0..MaxJoins /\ members \cup rows \subseteq 1..born /\ me \in Known

\* The devices that have had their sessions ever since they were admitted.
Standing == members \ revived

\* A dialog was opened in a session the page has had.
QuestionOK ==
  dialog # NoDialog =>
    /\ dialog.promise.asked \in Known
    /\ dialog.promise.op = "leaveDesktop" => dialog.promise.id = dialog.promise.asked

\* Nothing has been asked for by the device d.
Unused(d) ==
  /\ \A c \in calls : c.asked # d
  /\ dialog # NoDialog => dialog.promise.asked # d

\* The page registers once at a time and without a session, so the session it is
\* about to have is new to everything that is under way.
OneRegistration ==
  \A c \in Registrations :
    /\ me = NoDevice /\ c.asked = NoDevice
    /\ c.answer = "none" => born < MaxJoins
    /\ c.answer = "ok" => c.id \in 1..born /\ Unused(c.id)
    /\ \A e \in Registrations : e = c

\* A call of the present session carries its token, and whatever an answer says
\* is gone stays gone.
CallHonest(c) ==
  /\ c.asked \in Known /\ c.dev \in Known
  /\ c.op \notin AnyRegistration =>
       /\ c.asked = me /\ me # NoDevice => c.dev = me
       /\ c.answer = "unauthorized" => c.dev \notin Standing
  /\ c.op = "resetHost" /\ c.answer = "ok" => c.dev \notin Standing
  /\ c.op \in Leaving =>
       /\ c.id = c.asked
       /\ c.answer \in {"ok", "notFound"} => c.id \notin Standing

SessionInv ==
  PeopleOK /\ QuestionOK /\ OneRegistration /\ \A c \in calls : CallHonest(c)

LEMMA NoDeviceApart ==
  ASSUME PeopleOK
  PROVE  /\ born \in Nat /\ NoDevice \notin 1..born /\ NoDevice \notin members
         /\ (born < MaxJoins => NoDevice # born + 1)
<1>1. MaxJoins \in Nat /\ NoDevice \notin 0..MaxJoins
  BY PageAssumption
<1>2. born \in Nat /\ born <= MaxJoins
  BY <1>1 DEF PeopleOK
<1>3. 1..born \subseteq 0..MaxJoins
  BY <1>1, <1>2
<1>4. born < MaxJoins => born + 1 \in 0..MaxJoins
  BY <1>1, <1>2
<1> QED BY <1>1, <1>2, <1>3, <1>4 DEF PeopleOK

\* What neither calls nor asks nor admits; a session may end.
LEMMA QuietSession ==
  ASSUME SessionInv, calls' \subseteq calls, UNCHANGED born, members' \cup rows' \subseteq members \cup rows,
         Standing' \subseteq Standing,
         me' = me \/ me' = NoDevice, dialog' = dialog \/ dialog' = NoDialog
  PROVE  SessionInv'
<1>1. PeopleOK' /\ QuestionOK'
  BY DEF SessionInv, PeopleOK, QuestionOK, Known, NoDialog
<1>2. OneRegistration'
  BY DEF SessionInv, OneRegistration, Registrations, Unused, NoDialog
<1>3. \A c \in calls' : CallHonest(c)'
  BY DEF SessionInv, CallHonest, Known
<1> QED BY <1>1, <1>2, <1>3 DEF SessionInv

\* The present session and a dialog's are not the one about to begin.
LEMMA AskersAreOld ==
  ASSUME SessionInv, NEW c \in Registrations, c.answer = "ok"
  PROVE  me # c.id /\ (dialog # NoDialog => dialog.promise.asked # c.id)
<1>1. me = NoDevice /\ c.id \in 1..born /\ Unused(c.id)
  BY DEF SessionInv, OneRegistration
<1>2. NoDevice \notin 1..born
  BY NoDeviceApart DEF SessionInv
<1> QED BY <1>1, <1>2 DEF Unused

LEMMA StartSession ==
  ASSUME SessionInv, UNCHANGED <<born, members, rows, revived, me>>, dialog' = dialog \/ dialog' = NoDialog,
         NEW op, NEW id, NEW asked, NEW seen, Start(op, id, asked, seen),
         op \notin AnyRegistration,
         asked = me \/ (dialog # NoDialog /\ asked = dialog.promise.asked),
         op \in Leaving => id = asked
  PROVE  SessionInv'
<1>1. PICK e : e = [op |-> op, id |-> id, dev |-> me, asked |-> asked, seen |-> seen,
                    answer |-> "none"]
  OBVIOUS
<1>2. /\ e.op = op /\ e.id = id /\ e.dev = me /\ e.asked = asked /\ e.answer = "none"
  BY <1>1
<1>3. calls' = calls \cup {e}
  BY <1>1 DEF Start
<1>4. PeopleOK' /\ QuestionOK'
  BY DEF SessionInv, PeopleOK, QuestionOK, Known, NoDialog
<1>5. asked \in Known
  BY DEF SessionInv, PeopleOK, QuestionOK
<1>6. CallHonest(e)'
  BY <1>2, <1>5 DEF CallHonest, Standing, SessionInv, PeopleOK, Known
<1>7. \A c \in calls' : CallHonest(c)'
  BY <1>3, <1>6 DEF SessionInv, CallHonest, Standing, Known
<1>8. Registrations' = Registrations
  BY <1>2, <1>3 DEF Registrations
<1>9. ASSUME NEW c \in Registrations, c.answer = "ok" PROVE Unused(c.id)'
  <2>1. asked # c.id
    BY <1>9, AskersAreOld
  <2>2. Unused(c.id)
    BY <1>9 DEF SessionInv, OneRegistration
  <2> QED BY <1>2, <1>3, <2>1, <2>2 DEF Unused, NoDialog
<1>10. OneRegistration'
  BY <1>8, <1>9 DEF SessionInv, OneRegistration
<1> QED BY <1>4, <1>7, <1>10 DEF SessionInv

LEMMA SubmitSession ==
  ASSUME SessionInv, Submit
  PROVE  SessionInv'
<1>1. PICK op \in AnyRegistration : Start(op, NoDevice, me, Label)
  BY DEF Submit, Registration, AnyRegistration
<1>2. PICK e : e = [op |-> op, id |-> NoDevice, dev |-> me, asked |-> me, seen |-> Label,
                    answer |-> "none"]
  OBVIOUS
<1>3. /\ e.op = op /\ e.id = NoDevice /\ e.dev = me /\ e.asked = me /\ e.answer = "none"
  BY <1>2
<1>4. calls' = calls \cup {e}
  BY <1>1, <1>2 DEF Start
<1>5. me = NoDevice /\ born < MaxJoins /\ UNCHANGED <<born, members, rows, revived, me, dialog>>
  BY DEF Submit, hub, tables, session, prompt
<1>6. PeopleOK' /\ QuestionOK'
  BY <1>5 DEF SessionInv, PeopleOK, QuestionOK, Known
<1>7. Registrations = {}
  <2>1. ASSUME NEW c \in Registrations PROVE c.op \in AnyRegistration /\ c \in calls /\ c.asked = me
    BY <1>5 DEF SessionInv, OneRegistration, Registrations
  <2> QED BY <2>1 DEF Submit, Pending
<1>8. Registrations' = {e}
  BY <1>3, <1>4, <1>7 DEF Registrations
<1>9. OneRegistration'
  BY <1>3, <1>5, <1>8 DEF OneRegistration
<1>10. op \notin Leaving /\ op # "resetHost"
  BY DEF AnyRegistration, Leaving
<1>11. CallHonest(e)'
  BY <1>3, <1>5, <1>10 DEF CallHonest, Standing, Known
<1>12. \A c \in calls' : CallHonest(c)'
  BY <1>4, <1>5, <1>11 DEF SessionInv, CallHonest, Standing, Known
<1> QED BY <1>6, <1>9, <1>12 DEF SessionInv

LEMMA AskSession ==
  ASSUME SessionInv, NEW op, NEW id, Ask(op, id), op = "leaveDesktop" => id = me
  PROVE  SessionInv'
<1>1. PICK d : d = Dialog(op, id)
  OBVIOUS
<1>2. d.op = op /\ d.id = id /\ d.asked = me
  BY <1>1 DEF Dialog
<1>3. dialog' = [shown |-> d, typed |-> FALSE, promise |-> d]
  BY <1>1 DEF Ask, Confirm
<1>4. dialog'.promise = d
  BY <1>3
<1>5. UNCHANGED <<born, members, rows, revived, me, calls>>
  BY DEF Ask, hub, tables, session
<1>6. PeopleOK'
  BY <1>5 DEF SessionInv, PeopleOK, Known
<1>7. QuestionOK'
  BY <1>2, <1>4, <1>5 DEF SessionInv, PeopleOK, QuestionOK, Known
<1>8. ASSUME NEW c \in Registrations, c.answer = "ok" PROVE Unused(c.id)'
  <2>1. me # c.id
    BY <1>8, AskersAreOld
  <2>2. Unused(c.id)
    BY <1>8 DEF SessionInv, OneRegistration
  <2> QED BY <1>2, <1>4, <1>5, <2>1, <2>2 DEF Unused
<1>9. OneRegistration'
  BY <1>5, <1>8 DEF SessionInv, OneRegistration, Registrations
<1>10. \A c \in calls' : CallHonest(c)'
  BY <1>5 DEF SessionInv, CallHonest, Standing, Known
<1> QED BY <1>6, <1>7, <1>9, <1>10 DEF SessionInv

LEMMA AnswerSession ==
  ASSUME SessionInv, NEW c \in calls, IsCall(c), NEW answer, calls' = Answered(c, answer),
         UNCHANGED <<born, revived, me, dialog>>, members' \subseteq members, rows' \subseteq rows,
         c.op \in AnyRegistration => answer \notin {"ok", "none"},
         c.op \notin AnyRegistration /\ answer = "unauthorized" => c.dev \notin members',
         c.op = "resetHost" /\ answer = "ok" => c.dev \notin members',
         c.op \in Leaving /\ answer \in {"ok", "notFound"} => c.id \notin members'
  PROVE  SessionInv'
<1>1. PICK e : e = [c EXCEPT !.answer = answer]
  OBVIOUS
<1>2. /\ e.op = c.op /\ e.id = c.id /\ e.dev = c.dev /\ e.asked = c.asked /\ e.answer = answer
  BY <1>1 DEF IsCall
<1>3. calls' = (calls \ {c}) \cup {e}
  BY <1>1 DEF Answered
<1>4. PeopleOK' /\ QuestionOK'
  BY DEF SessionInv, PeopleOK, QuestionOK, Known
<1>5. CallHonest(c)
  BY DEF SessionInv
<1>6. CallHonest(e)'
  BY <1>2, <1>5 DEF CallHonest, Standing, Known
<1>7. \A d \in calls' : CallHonest(d)'
  BY <1>3, <1>6 DEF SessionInv, CallHonest, Standing, Known
<1>8. ASSUME NEW d, Unused(d) PROVE Unused(d)'
  BY <1>2, <1>3, <1>8 DEF Unused
<1>9. OneRegistration'
  <2>1. CASE c.op \in AnyRegistration
    <3>1. c \in Registrations /\ \A d \in Registrations : d = c
      BY <2>1 DEF SessionInv, OneRegistration, Registrations
    <3>2. Registrations' = {e}
      BY <1>2, <1>3, <2>1, <3>1 DEF Registrations
    <3> QED BY <1>2, <2>1, <3>1, <3>2 DEF SessionInv, OneRegistration
  <2>2. CASE c.op \notin AnyRegistration
    <3>1. Registrations' = Registrations
      BY <1>2, <1>3, <2>2 DEF Registrations
    <3> QED BY <1>8, <3>1 DEF SessionInv, OneRegistration
  <2> QED BY <2>1, <2>2
<1> QED BY <1>4, <1>7, <1>9 DEF SessionInv

\* The device that is admitted is new.
LEMMA AdmitSession ==
  ASSUME SessionInv, NEW c \in calls, IsCall(c), c.answer = "none", Admit(c),
         UNCHANGED <<me, dialog>>
  PROVE  SessionInv'
<1>0. PICK d : d = born + 1
  OBVIOUS
<1>1. c \in Registrations
  BY DEF Admit, Registrations
<1>2. /\ me = NoDevice /\ c.asked = NoDevice /\ born < MaxJoins
      /\ \A e \in Registrations : e = c
  BY <1>1 DEF SessionInv, OneRegistration
<1>3. born \in Nat /\ NoDevice \notin 1..born /\ NoDevice # d /\ MaxJoins \in Nat
  BY <1>0, <1>2, NoDeviceApart, PageAssumption DEF SessionInv
<1>4. CASE /\ born' = d /\ members' = members \cup {d} /\ rows' = rows \cup {d}
           /\ UNCHANGED revived
           /\ calls' = (calls \ {c}) \cup {[c EXCEPT !.answer = "ok", !.id = d]}
  <2>1. PICK e : e = [c EXCEPT !.answer = "ok", !.id = d]
    OBVIOUS
  <2>2. /\ e.op = c.op /\ e.id = d /\ e.dev = c.dev /\ e.asked = c.asked /\ e.answer = "ok"
    BY <2>1 DEF IsCall
  <2>3. calls' = (calls \ {c}) \cup {e}
    BY <1>4, <2>1
  <2>4. /\ 1..born' = (1..born) \cup {d} /\ d \notin 1..born
    BY <1>0, <1>3, <1>4
  <2>5. /\ Known \subseteq Known' /\ d \notin Known
    BY <1>0, <1>3, <2>4 DEF Known
  <2>6. PeopleOK' /\ QuestionOK'
    BY <1>0, <1>2, <1>3, <1>4, <2>4, <2>5 DEF SessionInv, PeopleOK, QuestionOK
  <2>7. c.op \notin Leaving /\ c.op # "resetHost" /\ c.op \in AnyRegistration
    BY <1>1 DEF Leaving, AnyRegistration, Registrations
  <2>8. CallHonest(e)'
    BY <2>2, <2>5, <2>7 DEF SessionInv, CallHonest, Standing
  <2>9. ASSUME NEW b \in calls \ {c} PROVE CallHonest(b)'
    <3>1. CallHonest(b) /\ b.asked # d /\ b.dev # d /\ (b.op \in Leaving => b.id # d)
      BY <2>5 DEF SessionInv, CallHonest
    <3> QED BY <1>4, <2>5, <3>1 DEF CallHonest, Standing
  <2>10. \A b \in calls' : CallHonest(b)'
    BY <2>3, <2>8, <2>9
  <2>11. Registrations' = {e}
    BY <1>2, <2>2, <2>3, <2>7 DEF Registrations
  <2>12. Unused(d)'
    BY <2>2, <2>3, <2>5 DEF SessionInv, QuestionOK, CallHonest, Unused
  <2>13. OneRegistration'
    BY <1>0, <1>2, <1>3, <1>4, <2>2, <2>4, <2>11, <2>12 DEF OneRegistration
  <2> QED BY <2>6, <2>10, <2>13 DEF SessionInv
<1>5. CASE calls' = Answered(c, "unauthorized") /\ UNCHANGED hub
  BY <1>1, <1>5, AnswerSession DEF hub, tables, Registrations, AnyRegistration, Leaving
<1> QED BY <1>0, <1>4, <1>5 DEF Admit

LEMMA ServeSession ==
  ASSUME SessionInv, CallsInv, NEW c \in calls, Serve(c)
  PROVE  SessionInv'
<1>1. IsCall(c) /\ CallHonest(c) /\ c.answer = "none" /\ UNCHANGED <<me, dialog>>
  BY DEF CallsInv, CallOK, SessionInv, Serve, session, prompt
<1>2. CASE Admit(c)
  BY <1>1, <1>2, AdmitSession
<1>3. CASE c.op \notin AnyRegistration /\ c.dev \notin members
           /\ calls' = Answered(c, "unauthorized") /\ UNCHANGED hub
  BY <1>1, <1>3, AnswerSession DEF hub, tables
<1>4. CASE Remove(c)
  <2>1. c.op \notin AnyRegistration /\ c.op # "resetHost"
    BY <1>4 DEF Remove, AnyRegistration
  <2>2. CASE calls' = Answered(c, "refused") /\ UNCHANGED hub
    BY <1>1, <2>1, <2>2, AnswerSession DEF hub, tables
  <2>3. CASE \E answer \in {"ok", "notFound"} :
               /\ calls' = Answered(c, answer) /\ members' = members \ {c.id}
               /\ rows' = rows \ {c.id} /\ UNCHANGED <<revived, born>>
    BY <1>1, <2>1, <2>3, AnswerSession
  <2> QED BY <1>4, <2>2, <2>3 DEF Remove
<1>5. CASE HostOnly(c)
  <2>1. c.op \notin AnyRegistration /\ c.op \notin Leaving
    BY <1>5 DEF HostOnly, AnyRegistration, Leaving
  <2>2. CASE calls' = Answered(c, "refused") /\ UNCHANGED <<members, rows, revived, born>>
    BY <1>1, <2>1, <2>2, AnswerSession
  <2>3. CASE /\ calls' = Answered(c, "ok") /\ UNCHANGED <<revived, born>>
             /\ IF c.op = "resetHost"
                  THEN members' = members \ {c.dev} /\ rows' = rows \ {c.dev}
                  ELSE UNCHANGED <<members, rows>>
    BY <1>1, <2>1, <2>3, AnswerSession
  <2> QED BY <1>5, <2>2, <2>3 DEF HostOnly, tables
<1>8. CASE ResetAll(c)
  <2>1. c.op \notin AnyRegistration /\ c.op \notin Leaving /\ c.op # "resetHost"
    BY <1>8 DEF ResetAll, AnyRegistration, Leaving
  <2>2. PICK answer \in {"serving", "refused"} : calls' = Answered(c, answer)
    BY <1>8 DEF ResetAll
  <2>3. UNCHANGED <<members, revived, born>> /\ (rows' = {} \/ UNCHANGED rows)
    BY <1>8 DEF ResetAll, BeginReset, hub, tables
  <2> QED BY <1>1, <2>1, <2>2, <2>3, AnswerSession
<1>6. CASE c.op \in {"request", "message"} /\ calls' = Answered(c, "ok") /\ UNCHANGED hub
  BY <1>1, <1>6, AnswerSession DEF hub, tables, AnyRegistration, Leaving
<1>7. CASE calls' = Answered(c, "refused") /\ UNCHANGED hub
  BY <1>1, <1>7, AnswerSession DEF hub, tables
<1> QED BY <1>2, <1>3, <1>4, <1>5, <1>6, <1>7, <1>8 DEF Serve

LEMMA ReceiveSession ==
  ASSUME SessionInv, NEW c \in calls, Receive(c)
  PROVE  SessionInv'
<1>1. calls' = calls \ {c} /\ UNCHANGED <<born, members, rows, revived, dialog>>
  BY DEF Receive, hub, tables, prompt
<1>2. CASE me' = me \/ me' = NoDevice
  BY <1>1, <1>2, QuietSession DEF Standing
<1>3. CASE c.op \in AnyRegistration /\ c.answer = "ok" /\ me' = c.id
  <2>1. c \in Registrations
    BY <1>3 DEF Registrations
  <2>2. c.id \in 1..born /\ Unused(c.id) /\ \A e \in Registrations : e = c
    BY <1>3, <2>1 DEF SessionInv, OneRegistration
  <2>3. Registrations' = {}
    BY <1>1, <2>2 DEF Registrations
  <2>4. PeopleOK' /\ QuestionOK'
    BY <1>1, <1>3, <2>2 DEF SessionInv, PeopleOK, QuestionOK, Known
  <2>5. \A e \in calls' : CallHonest(e)'
    BY <1>1, <1>3, <2>2 DEF SessionInv, CallHonest, Standing, Known, Unused
  <2> QED BY <2>3, <2>4, <2>5 DEF SessionInv, OneRegistration
<1> QED BY <1>2, <1>3 DEF Receive, ClearDevice, SetSession, KeepSession, session

LEMMA ResetSession ==
  ASSUME SessionInv, CallsInv, NEW t \in resets, ResetStep(t)
  PROVE  SessionInv'
<1>1. UNCHANGED <<born, rows, revived, me, dialog>> /\ members' \subseteq members
  BY DEF ResetStep, ClearSessions, ClearHost, Announce, Drop, tables, prompt
<1>2. CASE UNCHANGED calls
  <2>1. Standing' \subseteq Standing
    BY <1>1 DEF Standing
  <2> QED BY <1>1, <1>2, <2>1, QuietSession
<1>3. CASE \E c \in WaitsFor(t) : calls' = Answered(c, "ok")
  <2>1. PICK c \in WaitsFor(t) : calls' = Answered(c, "ok")
    BY <1>3
  <2>2. c \in calls /\ IsCall(c) /\ c.op = "resetAll"
    BY <2>1 DEF WaitsFor, CallsInv, CallOK, ServingOK
  <2>3. c.op \notin AnyRegistration /\ c.op \notin Leaving
    BY <2>2 DEF AnyRegistration, Leaving
  <2> QED BY <1>1, <2>1, <2>2, <2>3, AnswerSession
<1> QED BY <1>2, <1>3 DEF ResetStep, ClearSessions, ClearHost, Announce, Drop

LEMMA SessionInvInit == Init => SessionInv
BY PageAssumption DEF Init, SessionInv, Standing, PeopleOK, QuestionOK, OneRegistration, Registrations, Known

LEMMA SessionInvNext == CallsInv /\ SessionInv /\ [Next]_vars => SessionInv'
<1> SUFFICES ASSUME CallsInv, SessionInv, [Next]_vars PROVE SessionInv'
  OBVIOUS
<1>1. CASE Submit
  BY <1>1, SubmitSession
<1>2. CASE Leave \/ Request \/ SendMessage \/ SaveTransferExpiry
  <2>1. UNCHANGED <<born, members, rows, revived, me, dialog>>
    BY <1>2 DEF Leave, Request, SendMessage, SaveTransferExpiry, hub, tables, session, prompt
  <2>2. PICK op, id, seen : /\ Start(op, id, me, seen)
                            /\ op \in {"request", "message", "saveExpiry"} \/ (op = "leave" /\ id = me)
    BY <1>2 DEF Leave, Request, SendMessage, SaveTransferExpiry
  <2>3. op \notin AnyRegistration /\ (op \in Leaving => id = me)
    BY <2>2 DEF AnyRegistration, Leaving
  <2> QED BY <2>1, <2>2, <2>3, StartSession
<1>3. CASE FetchConfig \/ Save
  BY <1>3, QuietSession DEF FetchConfig, Save, Standing, hub, tables, session, prompt
<1>4. CASE OthersAct
  <2>1. /\ UNCHANGED <<calls, born, revived, me, dialog>>
        /\ members' \subseteq members /\ rows' \subseteq rows
    BY <1>4 DEF OthersAct, BeginReset, session, prompt
  <2>2. Standing' \subseteq Standing
    BY <2>1 DEF Standing
  <2> QED BY <2>1, <2>2, QuietSession
<1>5. CASE Notified
  BY <1>5, QuietSession DEF Notified, ClearDevice, SetSession, Standing, hub, tables, prompt
<1>6. CASE \/ AskAsHost \/ AskToRemove \/ AskToReset
          \/ AskToLeave \/ AskToRestore \/ AskToRestart
  <2>1. PICK op, id : Ask(op, id) /\ (op = "leaveDesktop" => id = me)
    BY <1>6 DEF AskAsHost, AskToRemove, AskToReset, AskToLeave, AskToRestore, AskToRestart
  <2> QED BY <2>1, AskSession
<1>7. CASE TypeVerification
  <2>1. PICK d, typed : dialog = [shown |-> d, typed |-> typed, promise |-> d]
    BY <1>7 DEF CallsInv, DialogOK, TypeVerification
  <2>2. PICK e : e = [dialog EXCEPT !.typed = TRUE]
    OBVIOUS
  <2>3. e.promise = dialog.promise /\ dialog' = e /\ dialog # NoDialog
    BY <1>7, <2>1, <2>2 DEF TypeVerification
  <2>4. UNCHANGED <<born, members, rows, revived, me, calls>>
    BY <1>7 DEF TypeVerification, hub, tables, session
  <2>5. PeopleOK' /\ QuestionOK'
    BY <2>3, <2>4 DEF SessionInv, PeopleOK, QuestionOK, Known
  <2>6. OneRegistration'
    BY <2>3, <2>4 DEF SessionInv, OneRegistration, Registrations, Unused
  <2>7. \A c \in calls' : CallHonest(c)'
    BY <2>4 DEF SessionInv, CallHonest, Standing, Known
  <2> QED BY <2>5, <2>6, <2>7 DEF SessionInv
<1>8. CASE Cancel
  BY <1>8, QuietSession DEF Cancel, Standing, hub, tables, session
<1>9. CASE Reload \/ Relaunch \/ FoldersMove
  <2>1. /\ calls' \subseteq calls /\ UNCHANGED <<born, me>>
        /\ dialog' = dialog \/ dialog' = NoDialog
        /\ (UNCHANGED <<members, rows, revived>>) \/ HubStarts
    BY <1>9 DEF Reload, Relaunch, FoldersMove, Load, HubStarts, hub, tables, session, prompt
  <2>2. members' \cup rows' \subseteq members \cup rows /\ Standing' \subseteq Standing
    BY <2>1 DEF HubStarts, Standing, tables
  <2> QED BY <2>1, <2>2, QuietSession
<1>10. CASE Yes
  <2>1. UNCHANGED <<born, members, rows, revived, me>> /\ dialog' = NoDialog /\ dialog # NoDialog
    BY <1>10 DEF Yes, hub, tables, session
  <2>2. PICK d : d = dialog.promise
    OBVIOUS
  <2>3. CASE UNCHANGED calls
    BY <2>1, <2>3, QuietSession DEF Standing
  <2>4. CASE \E seen : Start(d.op, d.id, d.asked, seen)
    <3>1. d.op \notin AnyRegistration
      BY <2>1, <2>2, OpsApart DEF CallsInv, DialogOK
    <3>2. d.op \in Leaving => d.id = d.asked
      <4>1. d.op # "leave"
        BY <2>1, <2>2 DEF CallsInv, DialogOK, Confirmed
      <4> QED BY <2>1, <2>2, <4>1 DEF SessionInv, QuestionOK, Leaving
    <3> QED BY <2>1, <2>2, <2>4, <3>1, <3>2, StartSession
  <2> QED BY <1>10, <2>2, <2>3, <2>4 DEF Yes
<1>11. CASE RunCommand
  <2>1. PICK c : RunGet(c) \/ RunSet(c) \/ RunReset(c) \/ RunRestart(c)
    BY <1>11 DEF RunCommand
  <2>2. calls' \subseteq calls /\ (dialog' = NoDialog \/ dialog' = dialog)
    BY <2>1 DEF RunGet, RunSet, RunReset, RunRestart, Load, prompt
  <2>3. /\ UNCHANGED born /\ (me' = me \/ me' = NoDevice)
        /\ (UNCHANGED <<members, rows, revived>>) \/ HubStarts
    BY <2>1 DEF RunGet, RunSet, RunReset, RunRestart, Load, SetSession, HubStarts, Standing, hub, tables, session
  <2>4. members' \cup rows' \subseteq members \cup rows /\ Standing' \subseteq Standing
    BY <2>3 DEF HubStarts, Standing, tables
  <2> QED BY <2>2, <2>3, <2>4, QuietSession
<1>12. CASE \E c \in calls : Serve(c)
  BY <1>12, ServeSession
<1>13. CASE \E c \in calls : Lose(c)
  <2>1. PICK c \in calls : Lose(c)
    BY <1>13
  <2>2. IsCall(c) /\ calls' = Answered(c, "lost") /\ UNCHANGED <<born, members, rows, revived, me, dialog>>
    BY <2>1 DEF CallsInv, CallOK, Lose, hub, tables, session, prompt
  <2> QED BY <2>2, AnswerSession
<1>14. CASE \E c \in calls : Receive(c)
  BY <1>14, ReceiveSession
<1>15. CASE UNCHANGED vars
  BY <1>15, QuietSession DEF Standing, vars, hub, tables, session, prompt
<1>16. CASE \E t \in resets : ResetStep(t)
  BY <1>16, ResetSession
<1> QED BY <1>1, <1>2, <1>3, <1>4, <1>5, <1>6, <1>7, <1>8, <1>9, <1>10, <1>11, <1>12, <1>13,
           <1>14, <1>15, <1>16 DEF Next

\* Once a full reset has emptied the sessions, the hub has only those of devices it
\* admitted meanwhile, and they may hear of it.
ResetsOK ==
  /\ (\E t \in resets : t.next \in {"host", "announcement"}) => members \subseteq caught
  /\ announced /\ me \in members => me \in caught

\* What begins no reset, admits nobody and opens no socket.
LEMMA QuietReset ==
  ASSUME ResetsOK, resets' \subseteq resets, members' \subseteq members, UNCHANGED caught,
         ~announced' \/ UNCHANGED <<me, announced>>
  PROVE  ResetsOK'
BY DEF ResetsOK

LEMMA AdmitReset ==
  ASSUME SessionInv, ResetsOK, NEW c \in calls, c.answer = "none", Admit(c),
         UNCHANGED <<me, announced>>
  PROVE  ResetsOK'
<1>1. me = NoDevice /\ NoDevice # born + 1 /\ NoDevice \notin members
  <2>1. c \in Registrations
    BY DEF Admit, Registrations
  <2>2. me = NoDevice /\ born < MaxJoins
    BY <2>1 DEF SessionInv, OneRegistration
  <2> QED BY <2>2, NoDeviceApart DEF SessionInv
<1>2. CASE UNCHANGED hub
  BY <1>2, QuietReset DEF hub
<1>3. CASE /\ members' = members \cup {born + 1} /\ UNCHANGED resets
           /\ caught' = IF resets = {} THEN caught ELSE caught \cup {born + 1}
  BY <1>1, <1>3 DEF ResetsOK
<1> QED BY <1>2, <1>3 DEF Admit

\* A full reset begins by emptying the tables.
LEMMA BeginResetStep ==
  ASSUME ResetsOK, NEW d, BeginReset(d), UNCHANGED <<me, announced>>
  PROVE  ResetsOK'
<1>1. PICK new : new = [by |-> d, next |-> "sessions"]
  OBVIOUS
<1>2. new.next = "sessions" /\ resets' = resets \cup {new}
  BY <1>1 DEF BeginReset
<1>3. UNCHANGED <<members, caught>>
  BY DEF BeginReset
<1> QED BY <1>2, <1>3 DEF ResetsOK

LEMMA ResetStepReset ==
  ASSUME ResetsOK, NEW t \in resets, ResetStep(t)
  PROVE  ResetsOK'
<1>1. UNCHANGED <<caught, me>>
  BY DEF ResetStep
<1>2. CASE ClearSessions(t)
  BY <1>1, <1>2 DEF ClearSessions, ResetsOK
<1>3. CASE ClearHost(t)
  BY <1>1, <1>3 DEF ClearHost, ResetsOK
<1>4. CASE Announce(t)
  BY <1>1, <1>4 DEF Announce, ResetsOK
<1>5. CASE Drop(t)
  BY <1>1, <1>5, QuietReset DEF Drop
<1> QED BY <1>2, <1>3, <1>4, <1>5 DEF ResetStep

LEMMA ResetsOKNext == SessionInv /\ ResetsOK /\ [Next]_vars => ResetsOK'
<1> SUFFICES ASSUME SessionInv, ResetsOK, [Next]_vars PROVE ResetsOK'
  OBVIOUS
<1>1. CASE \E c \in calls : Serve(c)
  <2>1. PICK c \in calls : Serve(c)
    BY <1>1
  <2>2. c.answer = "none" /\ UNCHANGED <<me, announced>>
    BY <2>1 DEF Serve, session
  <2>3. CASE Admit(c)
    BY <2>2, <2>3, AdmitReset
  <2>4. CASE ResetAll(c)
    BY <2>2, <2>4, BeginResetStep, QuietReset DEF ResetAll, hub
  <2>5. CASE Remove(c) \/ HostOnly(c) \/ UNCHANGED hub
    BY <2>2, <2>5, QuietReset DEF Remove, HostOnly, hub
  <2> QED BY <2>1, <2>3, <2>4, <2>5 DEF Serve
<1>2. CASE OthersAct
  <2>1. UNCHANGED <<me, announced, caught>>
    BY <1>2 DEF OthersAct, session
  <2>2. CASE BeginReset(Other)
    BY <2>1, <2>2, BeginResetStep
  <2>3. CASE members' \subseteq members /\ UNCHANGED resets
    BY <2>1, <2>3, QuietReset
  <2> QED BY <1>2, <2>2, <2>3 DEF OthersAct
<1>3. CASE \E t \in resets : ResetStep(t)
  BY <1>3, ResetStepReset
<1>4. CASE Notified \/ \E c \in calls : Receive(c)
  BY <1>4, QuietReset DEF Notified, Receive, ClearDevice, SetSession, KeepSession, session, hub
<1>5. CASE RunCommand
  <2>1. PICK c : RunGet(c) \/ RunSet(c) \/ RunReset(c) \/ RunRestart(c)
    BY <1>5 DEF RunCommand
  <2>2. CASE RunRestart(c)
    BY <2>2 DEF RunRestart, Load, HubStarts, ResetsOK
  <2>3. CASE RunGet(c) \/ RunSet(c) \/ RunReset(c)
    BY <2>3, QuietReset DEF RunGet, RunSet, RunReset, SetSession, session, hub
  <2> QED BY <2>1, <2>2, <2>3
<1>6. CASE Relaunch
  BY <1>6 DEF Relaunch, Load, HubStarts, ResetsOK
<1>7. CASE \/ Submit \/ Leave \/ Request \/ SendMessage \/ SaveTransferExpiry \/ FetchConfig
           \/ AskAsHost \/ AskToRemove \/ AskToReset \/ AskToLeave \/ AskToRestore \/ AskToRestart
           \/ TypeVerification \/ Cancel \/ Yes \/ Save \/ Reload \/ FoldersMove
           \/ UNCHANGED vars \/ \E c \in calls : Lose(c)
  BY <1>7, QuietReset
     DEF Submit, Leave, Request, SendMessage, SaveTransferExpiry, FetchConfig, AskAsHost,
         AskToRemove, AskToReset, AskToLeave, AskToRestore, AskToRestart, Ask, TypeVerification,
         Cancel, Yes, Save, Reload, Load, FoldersMove, Lose, session, hub, vars
<1> QED BY <1>1, <1>2, <1>3, <1>4, <1>5, <1>6, <1>7 DEF Next

\* What ends a session that the hub still has: an answer meant for a former
\* session, the page's own full reset, or the announcement of a full reset in the
\* middle of which the hub admitted the device; and neither a lost call, nor a dialog
\* that is answered late, nor a stale registration, nor the announcement that a
\* former session's socket was sent (api/client.ts, useWebSocketRefresh, DeviceSetup,
\* HostSettings, DesktopSettings, reset_desktop_data).
THEOREM SessionsEndForAReason == Spec => OnlyFormerCallsEndSession
<1> DEFINE Reason == \/ \E c \in calls : c \notin calls' /\ c.asked # me
                     \/ invoked # <<>> /\ Head(invoked).op = "resetAll"
                     \/ announced /\ me \in caught
                     \/ me \in revived
<1>1. ASSUME CallsInv, SessionInv, ResetsOK, [Next]_vars, me \in members, me' # me
      PROVE  Reason
  <2>1. me # NoDevice /\ NoDevice \notin members
    BY <1>1, NoDeviceApart DEF SessionInv
  <2>2. CASE \E c \in calls : Receive(c)
    <3>1. PICK c \in calls : Receive(c)
      BY <2>2
    <3>2. calls' = calls \ {c} /\ CallHonest(c)
      BY <1>1, <3>1 DEF Receive, SessionInv
    <3>3. CASE c.op \in AnyRegistration
      <4>1. c.asked = NoDevice
        BY <1>1, <3>3 DEF SessionInv, OneRegistration, Registrations
      <4> QED BY <2>1, <3>2, <4>1
    <3>4. CASE c.op \notin AnyRegistration
      <4>1. EndsSession(c)
        BY <1>1, <3>1, <3>4 DEF Receive, KeepSession, session
      <4>2. c.asked = me => c.dev = me
        BY <2>1, <3>2, <3>4 DEF CallHonest
      <4>3. c.asked # me \/ me \notin Standing
        BY <3>2, <3>4, <4>1, <4>2 DEF CallHonest, EndsSession, Leaving
      <4> QED BY <1>1, <3>2, <4>3 DEF Standing
    <3> QED BY <3>3, <3>4
  <2>3. CASE RunCommand
    <3>1. RunReset(Head(invoked)) /\ invoked # <<>>
      BY <1>1, <2>3 DEF RunCommand, RunGet, RunSet, RunRestart, Load, session
    <3>2. Head(invoked).op = "resetAll"
      BY <1>1, <3>1 DEF RunReset, session
    <3> QED BY <3>1, <3>2
  <2>4. CASE Notified
    BY <1>1, <2>4 DEF Notified, ResetsOK
  <2> QED
    BY <1>1, <2>2, <2>3, <2>4
    DEF Next, Submit, Leave, Request, SendMessage, SaveTransferExpiry, FetchConfig, OthersAct,
        AskAsHost, AskToRemove, AskToReset, AskToLeave, AskToRestore, AskToRestart, Ask,
        TypeVerification, Cancel, Yes, Save, Reload, Relaunch, FoldersMove, Load, Serve, Lose,
        ResetStep, session, vars
<1>2. CallsInv /\ SessionInv /\ ResetsOK /\ [Next]_vars
        => [(me \in members /\ me' # me) => Reason]_vars
  BY <1>1
<1>3. Init => ResetsOK
  BY DEF Init, ResetsOK
<1> QED BY <1>2, <1>3, CallsInvInit, CallsInvNext, SessionInvInit, SessionInvNext, ResetsOKNext,
           PTL DEF Spec, OnlyFormerCallsEndSession
=============================================================================
