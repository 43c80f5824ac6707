------------------------------ MODULE ShareQueue ------------------------------
(***************************************************************************)
(* The Android wrapper's share queue: files shared to Drop Den are copied  *)
(* into private storage, listed in the preferences, and uploaded one after *)
(* the other (MainActivity.java, ShareStagingStore.java,                   *)
(* TransferUploader.java, below android-wrapper).                          *)
(*                                                                         *)
(* Every activity has a main thread, which runs its methods and callbacks  *)
(* one at a time, a single-thread executor, and a store of its own whose   *)
(* methods are synchronized; the preferences and the files are shared by   *)
(* all.  One host is remembered.  A destroyed activity's executor ends the *)
(* job it is running.                                                      *)
(***************************************************************************)
EXTENDS Integers, Sequences, FiniteSets

CONSTANTS
  Activities,
  Items,        \* ids; one that nothing refers to any more is taken again
  NoItem,
  MaxItems,     \* MAX_ITEMS, which also stands for MAX_TOTAL_BYTES
  MaxFiles,     \* bound: how many files the user shares at once
  MaxJobs,      \* bound: the user shares or connects while fewer jobs are not done
  MaxJoins      \* bound: how often this device joins the den

ASSUME QueueAssumption ==
  /\ {MaxItems, MaxFiles, MaxJobs, MaxJoins} \subseteq Nat
  /\ NoItem \notin Items

VARIABLES
  listed,     \* the list in the preferences: item -> state
  dirs,       \* the directory of each item
  session,    \* the stored session, a number for each registration, or 0
  web,        \* the session the page in the WebView has, or 0
  honoured,   \* the session the hub honours, or 0
  joins,      \* how often this device has joined
  act,        \* the activities
  staged,     \* history: the items reported as staged, and
  published   \* the items the hub has published, until the app is done with both

den == <<web, honoured, joins>>
vars == <<listed, dirs, session, den, act, staged, published>>

(***************************************************************************)
(* State                                                                   *)
(***************************************************************************)
Shares == 0..MaxFiles

\* A job of the executor.  `todo` are a batch's items, `left` a share's files,
\* `list` is what loadItems gave the store's method it is in, `mark` the update
\* being made, `flag` that something was staged, or that the hub has answered 401.
Job(kind, todo, left, token) ==
  [kind |-> kind, pc |-> "begin", todo |-> todo, left |-> left, item |-> NoItem,
   list |-> <<>>, mark |-> "none", token |-> token, flag |-> FALSE]

Idle == Job("idle", {}, 0, 0)

\* An activity: how many files its intent shares, and the one that the system has on
\* record; the WebView, which may be loading the page to use it or to have the
\* user join; the flags; its executor's queue and running job, and what that
\* has posted to the main thread.
Unborn ==
  [life |-> "unborn", intent |-> 0, origin |-> 0, view |-> "none", awaiting |-> FALSE,
   flow |-> FALSE, staging |-> FALSE, uploading |-> FALSE,
   jobs |-> <<>>, job |-> Idle, posted |-> <<>>]

IsLive(a) == act[a].life = "live"

\* An activity whose process has ended: the system still has its first intent.
GoneActivity(a) == [Unborn EXCEPT !.intent = act[a].origin, !.origin = act[a].origin]

Init ==
  /\ listed = <<>>
  /\ dirs = [i \in Items |-> "none"]
  /\ session = 0 /\ web = 0 /\ honoured = 0 /\ joins = 0
  /\ act = [a \in Activities |-> Unborn]
  /\ staged = {} /\ published = {}

(***************************************************************************)
(* The store                                                               *)
(***************************************************************************)
\* What loadItems returns and saves: items that have their file, interrupted
\* uploads as pending.
Recovered ==
  [i \in {x \in DOMAIN listed : dirs[x] = "whole"} |->
     IF listed[i] = "uploading" THEN "pending" ELSE listed[i]]

\* The storage when only the directories of `kept` are left.
Keeping(kept) == [i \in Items |-> IF i \in kept THEN dirs[i] ELSE "none"]

\* Mutant of LoadItems: directories of no item are left alone.
LoadListOnly ==
  /\ listed' = Recovered
  /\ UNCHANGED dirs

\* loadItems: it also removes the directories of no item.  A list that cannot be
\* parsed, which only this class writes, is not modelled.
LoadItems ==
  /\ listed' = Recovered
  /\ dirs' = Keeping(DOMAIN Recovered)

\* The executor of a is inside a synchronized method of its store.
Locked(a) ==
  \/ act[a].job.kind = "stage"
  \/ act[a].job.kind = "batch" /\ act[a].job.pc \in {"persist", "delete"}

LoadIf(a, needed) ==
  IF needed THEN ~Locked(a) /\ LoadItems ELSE UNCHANGED <<listed, dirs>>

(***************************************************************************)
(* The main thread: what its methods make of an activity r                 *)
(***************************************************************************)
OpenHost(r, wait) ==
  [r EXCEPT !.view = IF wait THEN "joining" ELSE "loading", !.awaiting = FALSE]

Enqueue(r, job) == [r EXCEPT !.jobs = Append(@, job)]

\* ensureRegisteredDevice without a session.
AwaitRegistration(r) ==
  IF r.view = "none" THEN OpenHost(r, TRUE) ELSE [r EXCEPT !.awaiting = TRUE]

\* uploadPendingItems.
UploadPendingItems(r, token) ==
  IF r.uploading THEN r
  ELSE IF Recovered = <<>> THEN [r EXCEPT !.flow = FALSE]
  ELSE IF token = 0 THEN AwaitRegistration(r)
  ELSE Enqueue([r EXCEPT !.uploading = TRUE], Job("batch", DOMAIN Recovered, 0, token))

EnsureRegisteredDevice(r, token) ==
  IF token = 0 THEN AwaitRegistration(r)
  ELSE UploadPendingItems(IF r.view = "none" THEN OpenHost(r, FALSE) ELSE r, token)

\* openHost for a share, and the upload if the device has a session.
OpenAndUpload(r) ==
  IF session = 0 THEN OpenHost(r, TRUE)
  ELSE UploadPendingItems(OpenHost(r, FALSE), session)

\* handleShareIntent, for n files.
HandleShareIntent(r, n) ==
  LET shown == [r EXCEPT !.intent = n, !.flow = TRUE, !.staging = TRUE, !.awaiting = FALSE]
      open == IF r.view = "none" THEN OpenHost(shown, session = 0)
              ELSE [shown EXCEPT !.awaiting = (session = 0)]
  IN  Enqueue(open, Job("stage", {}, n, 0))

\* onCreate.
Created(n) ==
  LET r == [Unborn EXCEPT !.life = "live", !.origin = n] IN
  IF n # 0 THEN HandleShareIntent(r, n)
  ELSE IF Recovered # <<>> THEN OpenAndUpload([r EXCEPT !.flow = TRUE])
  ELSE Enqueue(r, Job("verify", {}, 0, 0))

\* The process ends.
Gone == [a \in Activities |-> GoneActivity(a)]

\* A callback ends.  The executor of a destroyed activity is shut down: a job
\* given to it is rejected by an exception, which ends the process.
Return(a, r) ==
  act' = IF r.life = "destroyed" /\ r.jobs # <<>> THEN Gone ELSE [act EXCEPT ![a] = r]

(***************************************************************************)
(* The user and the system                                                 *)
(***************************************************************************)
\* A new activity can take this place.
IsFree(a) ==
  /\ ~IsLive(a)
  /\ act[a].jobs = <<>> /\ act[a].job = Idle /\ act[a].posted = <<>>

\* The app is opened from the launcher.
Launch(a) ==
  /\ IsFree(a)
  /\ LoadItems
  /\ act' = [act EXCEPT ![a] = Created(0)]
  /\ UNCHANGED <<session, den, staged, published>>

Undone(a) == Len(act[a].jobs) + Len(act[a].posted) + (IF act[a].job = Idle THEN 0 ELSE 1)

\* The user shares n files: with an activity on top of its task (onNewIntent)
\* or with a new one, in the task of the app that shares them.
Share(a, n) ==
  /\ n \in Shares \ {0}
  /\ \/ IsLive(a) /\ Undone(a) < MaxJobs /\ act' = [act EXCEPT ![a] = HandleShareIntent(@, n)]
     \/ IsFree(a) /\ act' = [act EXCEPT ![a] = Created(n)]
  /\ UNCHANGED <<listed, dirs, session, den, staged, published>>

\* Android creates an activity again that it has destroyed or whose process
\* has ended: with the intent it had last if its configuration has changed,
\* else with the one on record.
Relaunch(b) ==
  /\ IsFree(b)
  /\ \E a \in Activities : \E n \in {act[a].intent, act[a].origin} :
       /\ ~IsLive(a) /\ n # 0
       /\ act' = [act EXCEPT ![a].intent = 0, ![a].origin = 0,
                             ![b] = [Created(n) EXCEPT !.origin = act[a].origin]]
  /\ UNCHANGED <<listed, dirs, session, den, staged, published>>

\* onDestroy: what the executor has not begun is dropped.
Destroyed(a) ==
  [act[a] EXCEPT !.life = "destroyed", !.view = "none", !.awaiting = FALSE, !.jobs = <<>>]

\* A change of configuration, or memory is short.
Destroy(a) ==
  /\ IsLive(a)
  /\ act' = [act EXCEPT ![a] = Destroyed(a)]
  /\ UNCHANGED <<listed, dirs, session, den, staged, published>>

\* handleBack lets the activity finish.
Finish(a) ==
  /\ IsLive(a) /\ ~act[a].uploading
  /\ act[a].view = "none" \/ session # 0
  /\ act' = [act EXCEPT ![a] = [Destroyed(a) EXCEPT !.intent = 0, !.origin = 0]]
  /\ UNCHANGED <<listed, dirs, session, den, staged, published>>

\* The process is killed, perhaps in the middle of loadItems, which removes the
\* directories one by one before it saves the list.
Die ==
  /\ \E a \in Activities : act[a].life # "unborn"
  /\ act' = Gone
  /\ \E kept \in SUBSET Items : DOMAIN Recovered \subseteq kept /\ dirs' = Keeping(kept)
  /\ UNCHANGED <<listed, session, den, staged, published>>

\* "retry" in the page's upload list.
Retry(a) ==
  /\ IsLive(a) /\ act[a].view = "loaded"
  /\ LoadIf(a, session # 0 /\ ~act[a].uploading)
  /\ Return(a, IF session # 0 THEN UploadPendingItems(act[a], session)
               ELSE OpenHost(act[a], TRUE))
  /\ UNCHANGED <<session, den, staged, published>>

\* "change-host": the connection screen.
ChangeHost(a) ==
  /\ IsLive(a) /\ act[a].view = "loaded"
  /\ LoadIf(a, TRUE)
  /\ act' = [act EXCEPT ![a].view = "none", ![a].awaiting = FALSE]
  /\ UNCHANGED <<session, den, staged, published>>

\* handleBack where there is no session: the connection screen.
Back(a) ==
  /\ IsLive(a) /\ ~act[a].uploading
  /\ act[a].view # "none" /\ session = 0
  /\ LoadIf(a, act[a].flow)
  /\ act' = [act EXCEPT ![a].view = "none", ![a].awaiting = FALSE]
  /\ UNCHANGED <<session, den, staged, published>>

\* The button of the connection screen, disabled while it connects.
Connect(a) ==
  /\ Undone(a) < MaxJobs
  /\ IsLive(a) /\ act[a].view = "none"
  /\ \A n \in DOMAIN act[a].jobs : act[a].jobs[n].kind # "verify"
  /\ \A n \in DOMAIN act[a].posted : act[a].posted[n].what # "connected"
  /\ act' = [act EXCEPT ![a] = Enqueue(@, Job("verify", {}, 0, 0))]
  /\ UNCHANGED <<listed, dirs, session, den, staged, published>>

\* The user joins the den in the page; the host removes the device; the page
\* finds its session gone.
Join ==
  /\ web = 0 /\ joins < MaxJoins
  /\ \E a \in Activities : act[a].view = "loaded"
  /\ web' = joins + 1 /\ honoured' = joins + 1 /\ joins' = joins + 1
  /\ UNCHANGED <<listed, dirs, session, act, staged, published>>

HubRemovesDevice ==
  /\ honoured # 0
  /\ honoured' = 0
  /\ UNCHANGED <<listed, dirs, session, web, joins, act, staged, published>>

WebForgets ==
  /\ web # honoured
  /\ web' = 0
  /\ UNCHANGED <<listed, dirs, session, honoured, joins, act, staged, published>>

(***************************************************************************)
(* Callbacks on the main thread                                            *)
(***************************************************************************)
\* onPageFinished: the identity is polled for, or captured once.
PageFinished(a) ==
  /\ act[a].view \in {"loading", "joining"}
  /\ act' = [act EXCEPT ![a].view = "loaded",
                        ![a].awaiting = @ \/ act[a].view = "joining"]
  /\ session' = IF act[a].view = "loading" /\ web # 0 THEN web ELSE session
  /\ UNCHANGED <<listed, dirs, den, staged, published>>

\* onReceivedError: the connection screen.
PageFails(a) ==
  /\ act[a].view \in {"loading", "joining"}
  /\ LoadIf(a, act[a].flow)
  /\ act' = [act EXCEPT ![a].view = "none", ![a].awaiting = FALSE]
  /\ UNCHANGED <<session, den, staged, published>>

\* identityPoll and captureWebIdentity: the page has a session; it is stored
\* and what waits for it goes on, unless files are being staged.
CaptureWebIdentity(a) ==
  /\ act[a].awaiting /\ act[a].view = "loaded"
  /\ web # 0
  /\ session' = web
  /\ LET goOn == act[a].flow /\ ~act[a].staging IN
       /\ LoadIf(a, goOn /\ ~act[a].uploading)
       /\ IF goOn
            THEN Return(a, UploadPendingItems([act[a] EXCEPT !.awaiting = FALSE], web))
            ELSE UNCHANGED act
  /\ UNCHANGED <<den, staged, published>>

Posted(a, what) == act[a].posted # <<>> /\ Head(act[a].posted).what = what

Taken(a) == [act[a] EXCEPT !.posted = Tail(@)]

Flag(a) == Head(act[a].posted).flag

\* The intent's files are staged or rejected.
OnStaged(a) ==
  /\ Posted(a, "staged")
  /\ LoadIf(a, TRUE)
  /\ LET r == [Taken(a) EXCEPT !.staging = FALSE] IN
       Return(a, IF ~Flag(a) /\ Recovered = <<>> THEN [r EXCEPT !.flow = FALSE]
                 ELSE EnsureRegisteredDevice(r, session))
  /\ UNCHANGED <<session, den, staged, published>>

\* Mutant of OnBatchDone: what was staged during the batch is left alone.
OnBatchDoneOnly(a) ==
  /\ Posted(a, "done")
  /\ LoadIf(a, TRUE)
  /\ session' = IF Flag(a) THEN 0 ELSE session
  /\ Return(a, [Taken(a) EXCEPT !.uploading = FALSE, !.flow = (Recovered # <<>>)])
  /\ UNCHANGED <<den, staged, published>>

\* The batch is done; another one follows if something is left that has not
\* failed, unless the hub has refused the session.
OnBatchDone(a) ==
  /\ Posted(a, "done")
  /\ LoadIf(a, TRUE)
  /\ session' = IF Flag(a) THEN 0 ELSE session
  /\ LET r == [Taken(a) EXCEPT !.uploading = FALSE, !.flow = (Recovered # <<>>)]
         queued == \E i \in DOMAIN Recovered : Recovered[i] # "failed"
     IN  Return(a, IF ~Flag(a) /\ queued THEN UploadPendingItems(r, session) ELSE r)
  /\ UNCHANGED <<den, staged, published>>

\* The host has answered.
OnConnected(a) ==
  /\ Posted(a, "connected")
  /\ LoadIf(a, act[a].flow)
  /\ LET r == Taken(a) IN
       Return(a, IF r.flow /\ Recovered # <<>> THEN OpenAndUpload(r) ELSE OpenHost(r, FALSE))
  /\ UNCHANGED <<session, den, staged, published>>

(***************************************************************************)
(* The executor                                                            *)
(***************************************************************************)
Running(a, kind, pc) == act[a].job.kind = kind /\ act[a].job.pc = pc

\* The executor is idle and has a job of this kind next.
NextJob(a, kind) ==
  act[a].job = Idle /\ act[a].jobs # <<>> /\ Head(act[a].jobs).kind = kind

Post(r, what, flag) == [r EXCEPT !.posted = Append(@, [what |-> what, flag |-> flag])]

\* The job is over; it has posted a callback.
EndJob(a, what) ==
  act' = [act EXCEPT ![a] = Post([@ EXCEPT !.job = Idle], what, act[a].job.flag)]

\* connect: the host answers or it does not.
VerifyHost(a) ==
  /\ NextJob(a, "verify")
  /\ LET done == [act[a] EXCEPT !.jobs = Tail(@)] IN
       act' \in {[act EXCEPT ![a] = r] : r \in {done, Post(done, "connected", FALSE)}}
  /\ UNCHANGED <<listed, dirs, session, den, staged, published>>

\* stage: the store is locked from here until EndStaging.
BeginStaging(a) ==
  /\ NextJob(a, "stage")
  /\ LoadItems
  /\ LET job == Head(act[a].jobs)
         room == Cardinality(DOMAIN Recovered) + job.left <= MaxItems
     IN  act' = [act EXCEPT ![a].jobs = Tail(@),
                            ![a].job = [job EXCEPT !.pc = "files", !.list = Recovered,
                                                   !.left = IF room THEN @ ELSE 0]]
  /\ UNCHANGED <<session, den, staged, published>>

\* What a job refers to.
Held(j) == j.todo \cup {j.item} \cup DOMAIN j.list

Fresh ==
  {i \in Items \ (DOMAIN listed \cup staged) :
     /\ dirs[i] = "none"
     /\ \A a \in Activities :
          i \notin Held(act[a].job) \cup UNION {Held(act[a].jobs[n]) : n \in DOMAIN act[a].jobs}}

\* The next file; which of the fresh ids it has makes no difference.
CopyUri(a) ==
  /\ Running(a, "stage", "files") /\ act[a].job.left > 0
  /\ Fresh # {}
  /\ LET i == CHOOSE x \in Fresh : TRUE IN
       /\ dirs' = [dirs EXCEPT ![i] = "partial"]
       /\ act' = [act EXCEPT ![a].job.pc = "copying", ![a].job.item = i, ![a].job.left = @ - 1]
  /\ UNCHANGED <<listed, session, den, staged, published>>

\* The copy is renamed to its final name.
CommitFile(a) ==
  /\ Running(a, "stage", "copying")
  /\ dirs[act[a].job.item] = "partial"
  /\ dirs' = [dirs EXCEPT ![act[a].job.item] = "whole"]
  /\ act' = [act EXCEPT ![a].job.pc = "copied"]
  /\ UNCHANGED <<listed, session, den, staged, published>>

\* The file cannot be read, is too large, or its directory is gone.
RejectFile(a) ==
  /\ Running(a, "stage", "copying")
  /\ dirs' = [dirs EXCEPT ![act[a].job.item] = "none"]
  /\ act' = [act EXCEPT ![a].job.pc = "files", ![a].job.item = NoItem]
  /\ UNCHANGED <<listed, session, den, staged, published>>

\* The list as the job has it, with its item.
WithItem(a) ==
  [i \in DOMAIN act[a].job.list \cup {act[a].job.item} |->
     IF i = act[a].job.item THEN "pending" ELSE act[a].job.list[i]]

\* persistItems; the item counts as staged.
ListItem(a) ==
  /\ Running(a, "stage", "copied")
  /\ listed' = WithItem(a)
  /\ staged' = staged \cup {act[a].job.item}
  /\ act' = [act EXCEPT ![a].job.list = WithItem(a), ![a].job.item = NoItem,
                        ![a].job.pc = "files", ![a].job.flag = TRUE]
  /\ UNCHANGED <<dirs, session, den, published>>

\* commit() returns false, which it may do although others now read the new
\* list; the file is deleted and the item is not in the next list saved.
ListFails(a) ==
  /\ Running(a, "stage", "copied")
  /\ listed' = WithItem(a)
  /\ dirs' = [dirs EXCEPT ![act[a].job.item] = "none"]
  /\ act' = [act EXCEPT ![a].job.pc = "files", ![a].job.item = NoItem]
  /\ UNCHANGED <<session, den, staged, published>>

EndStaging(a) ==
  /\ Running(a, "stage", "files") /\ act[a].job.left = 0
  /\ EndJob(a, "staged")
  /\ UNCHANGED <<listed, dirs, session, den, staged, published>>

BeginBatch(a) ==
  /\ NextJob(a, "batch")
  /\ act' = [act EXCEPT ![a].job = Head(act[a].jobs), ![a].jobs = Tail(@)]
  /\ UNCHANGED <<listed, dirs, session, den, staged, published>>

\* updateItem and removeItem load the list,
Mark(a, mark, flag) ==
  /\ LoadItems
  /\ act' = [act EXCEPT ![a].job.pc = "persist", ![a].job.mark = mark,
                        ![a].job.list = Recovered, ![a].job.flag = @ \/ flag]
  /\ UNCHANGED <<session, den, staged, published>>

\* change the item's entry if there is one, and save it.
PersistUpdate(a) ==
  LET job == act[a].job IN
  /\ Running(a, "batch", "persist")
  /\ listed' = IF job.mark = "gone" THEN [i \in DOMAIN job.list \ {job.item} |-> job.list[i]]
               ELSE IF job.item \in DOMAIN job.list THEN [job.list EXCEPT ![job.item] = job.mark]
               ELSE listed
  /\ act' = [act EXCEPT ![a].job.list = <<>>, ![a].job.mark = "none",
       ![a].job.item = IF job.mark = "failed" THEN NoItem ELSE @,
       ![a].job.pc = CASE job.mark = "gone" -> "delete"
                       [] job.mark = "uploading" -> "send"
                       [] job.mark = "failed" -> "begin"]
  /\ LET done == IF job.mark = "gone" THEN published \cap {job.item} ELSE {} IN
       staged' = staged \ done /\ published' = published \ done
  /\ UNCHANGED <<dirs, session, den>>

DeleteFile(a) ==
  /\ Running(a, "batch", "delete")
  /\ dirs' = [dirs EXCEPT ![act[a].job.item] = "none"]
  /\ act' = [act EXCEPT ![a].job.pc = "begin", ![a].job.item = NoItem]
  /\ UNCHANGED <<listed, session, den, staged, published>>

\* The next item is marked as uploading, or as failed when it is larger than
\* the host accepts.
NextItem(a) ==
  /\ Running(a, "batch", "begin")
  /\ LoadItems
  /\ \E i \in act[a].job.todo, mark \in {"uploading", "failed"} :
       act' = [act EXCEPT ![a].job.item = i, ![a].job.todo = @ \ {i},
                          ![a].job.pc = "persist", ![a].job.mark = mark,
                          ![a].job.list = Recovered]
  /\ UNCHANGED <<session, den, staged, published>>

\* upload: the hub takes the file,
Publish(a) ==
  /\ Running(a, "batch", "send")
  /\ dirs[act[a].job.item] = "whole"
  /\ act[a].job.token = honoured
  /\ published' = published \cup {act[a].job.item}
  /\ act' = [act EXCEPT ![a].job.pc = "sent"]
  /\ UNCHANGED <<listed, dirs, session, den, staged>>

\* and its answer arrives.
Uploaded(a) == Running(a, "batch", "sent") /\ Mark(a, "gone", FALSE)

Sending(a) == act[a].job.kind = "batch" /\ act[a].job.pc \in {"send", "sent"}

\* Mutant of Interrupted: a lost answer is taken for a success.
InterruptedIsDone(a) == Sending(a) /\ Mark(a, "gone", FALSE)

\* No answer, one that cannot be used, or a refusal for now; or no file.
Interrupted(a) == Sending(a) /\ Mark(a, "failed", FALSE)

\* 401.
Unauthorized(a) ==
  /\ Running(a, "batch", "send")
  /\ dirs[act[a].job.item] = "whole" /\ act[a].job.token # honoured
  /\ Mark(a, "failed", TRUE)

EndBatch(a) ==
  /\ Running(a, "batch", "begin") /\ act[a].job.todo = {}
  /\ EndJob(a, "done")
  /\ UNCHANGED <<listed, dirs, session, den, staged, published>>

(***************************************************************************)
(* The specification                                                       *)
(***************************************************************************)
UseApp(a) ==
  \/ Launch(a) \/ Relaunch(a) \/ Destroy(a) \/ Finish(a)
  \/ Retry(a) \/ ChangeHost(a) \/ Back(a) \/ Connect(a)

RunPage(a) == PageFinished(a) \/ PageFails(a)
RunCallback(a) == OnStaged(a) \/ OnBatchDone(a) \/ OnConnected(a)

Stage(a) ==
  \/ BeginStaging(a) \/ CopyUri(a) \/ CommitFile(a) \/ RejectFile(a)
  \/ ListItem(a) \/ ListFails(a) \/ EndStaging(a)

Upload(a) ==
  \/ BeginBatch(a) \/ NextItem(a) \/ PersistUpdate(a) \/ DeleteFile(a)
  \/ Publish(a) \/ Uploaded(a) \/ Interrupted(a) \/ Unauthorized(a) \/ EndBatch(a)

RunExecutor(a) == VerifyHost(a) \/ Stage(a) \/ Upload(a)

\* Everything but that the user shares something.
Proceed ==
  \/ \E a \in Activities :
       UseApp(a) \/ RunPage(a) \/ CaptureWebIdentity(a) \/ RunCallback(a) \/ RunExecutor(a)
  \/ Die \/ Join \/ HubRemovesDevice \/ WebForgets

Next == Proceed \/ \E a \in Activities, n \in Shares : Share(a, n)

Spec == Init /\ [][Next]_vars

\* The executors and the main thread's queues keep running, and a call of the
\* hub returns or times out.  Nothing is asked of the page.
FairSpec ==
  /\ Spec
  /\ \A a \in Activities :
       /\ WF_vars(RunExecutor(a))
       /\ WF_vars(RunCallback(a))

(***************************************************************************)
(* Properties                                                              *)
(***************************************************************************)
\* Nothing shared is lost: an item that was reported as staged is listed, with
\* its whole file, until the hub has published it, whenever the process ends.
StagedIsKept ==
  \A i \in staged :
    \/ i \in DOMAIN listed /\ dirs[i] = "whole"
    \/ i \in published

\* The private storage never holds more files than the limit, counting the
\* copies that crashes and failed commits have left behind.
StorageIsBounded == Cardinality({i \in Items : dirs[i] # "none"}) <= MaxItems

\* While an activity stages or uploads, nothing it has staged stays: each item
\* is uploaded or marked as failed in the end, also one that is staged meanwhile
\* and however much is shared, unless the session is missing or refused.
Waiting(i) == i \in staged \cap DOMAIN listed /\ listed[i] # "failed"

StagedIsSettled ==
  \A a \in Activities, i \in Items :
    (Waiting(i) /\ IsLive(a) /\ (act[a].staging \/ act[a].uploading))
      ~> (~Waiting(i) \/ ~IsLive(a) \/ session = 0)
=============================================================================
