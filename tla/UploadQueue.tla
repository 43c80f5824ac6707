----------------------------- MODULE UploadQueue -----------------------------
(***************************************************************************)
(* The page's upload queue (frontend/src/components/FileUpload.tsx and     *)
(* uploadTransfer, uploadLocalPaths in api/transfers.ts): files chosen in  *)
(* the browser go up one request at a time, paths dropped on the desktop   *)
(* window are copied by one call for all of them, failures can be retried, *)
(* and the Android wrapper reports its own shares in the same list.        *)
(*                                                                         *)
(* An event handler runs to its next await without interruption.  The      *)
(* component is mounted while the page has a session; its list ends with   *)
(* it, its running calls and desktop listeners need not.  Sizes, progress, *)
(* the destination and the wording of errors are left out.                 *)
(***************************************************************************)
EXTENDS Naturals, FiniteSets

CONSTANTS
  Files,      \* the files the user has
  TooLarge,   \* those over max_upload_size_bytes
  NoFile,
  Shares,     \* ids of the Android wrapper's shares
  Runtimes,   \* what the page may run in
  MaxStarts,  \* bound: how many batches are started
  MaxPages,   \* bound: how often the page joins
  MaxEvents   \* bound: both together

ASSUME UploadAssumption ==
  /\ TooLarge \subseteq Files /\ NoFile \notin Files
  /\ Runtimes \subseteq {"browser", "desktop", "android"}
  /\ {MaxStarts, MaxPages, MaxEvents} \subseteq Nat

VARIABLES
  runtime,
  joined,      \* the page has a session and the component is mounted
  page,        \* number of the mounted, or last mounted, component
  uploads,     \* the component's list
  running,     \* the batches that wait for an answer
  starts,      \* how many batches have been started
  registering, \* components whose onDragDropEvent has not resolved
  listeners,   \* components whose desktop listener is registered
  lastDrop,    \* what each listener was given less than 1.5 s ago
  native,      \* nativeShareQueue
  chosen,      \* history: how often the user gave each file,
  stored,      \* how often the hub has stored it,
  unsure,      \* files stored by a call that was reported as failed,
  crossed      \* and whether a drop came while another batch of the page ran,
               \* or reached two components

server == <<chosen, stored, unsure, crossed>>
desktop == <<registering, listeners, lastDrop>>
vars == <<runtime, joined, page, uploads, running, starts, desktop, native, server>>

Statuses == {"queued", "uploading", "success", "error"}
Active == {"queued", "uploading"}

\* An item of the list; `n` is its batch, which with the file is its id.
Items == [n : 1..MaxStarts, file : Files, local : BOOLEAN, status : Statuses]

Item(n, f, local, status) == [n |-> n, file |-> f, local |-> local, status |-> status]

\* A batch: one call for all `files`, or one for `now`, then for each of `files`.
\* `auth`: the call was made with a session.  `empty`: files without content,
\* made up for a path by createSyntheticFileFromPath.
Batches ==
  [n : 1..MaxStarts, page : 1..MaxPages, local : BOOLEAN, files : SUBSET Files,
   now : Files \cup {NoFile}, auth : BOOLEAN, empty : SUBSET Files]

\* "active" is queued or uploading; of errors, some can be retried.
NativeStatuses == {"active", "retryable", "fatal", "success"}

TypeOK ==
  /\ runtime \in {"browser", "desktop", "android"}
  /\ joined \in BOOLEAN /\ crossed \in BOOLEAN
  /\ page \in 0..MaxPages /\ starts \in 0..MaxStarts
  /\ joined => page > 0
  /\ uploads \subseteq Items
  /\ running \subseteq Batches
  /\ \A b \in running : b.local \/ b.now \in Files
  /\ \A set \in {registering, listeners} : set \subseteq 1..MaxPages
  /\ lastDrop \subseteq [page : 1..MaxPages, files : SUBSET Files]
  /\ native \subseteq [id : Shares, status : NativeStatuses]
  /\ {chosen, stored} \subseteq [Files -> Nat]
  /\ unsure \subseteq Files

Init ==
  /\ runtime \in Runtimes
  /\ joined = FALSE /\ page = 0
  /\ uploads = {} /\ running = {} /\ starts = 0
  /\ registering = {} /\ listeners = {} /\ lastDrop = {}
  /\ native = {}
  /\ chosen = [f \in Files |-> 0] /\ stored = [f \in Files |-> 0]
  /\ unsure = {} /\ crossed = FALSE

(***************************************************************************)
(* What the component derives from its lists                               *)
(***************************************************************************)
IsUploading == \E u \in uploads : u.status \in Active
Failed == {u \in uploads : u.status = "error"}
Completed == {u \in uploads : u.status = "success"}
NativeActive == {s \in native : s.status = "active"}
Retryable == {s \in native : s.status = "retryable"}
Dismissible == {s \in native : s.status \in {"success", "fatal"}}

\* The input and the drop area take files.
CanChoose == joined /\ ~IsUploading

\* The Retry button, and the early return of retryFailedUploads.
CanRetry ==
  /\ joined /\ ~IsUploading /\ NativeActive = {}
  /\ Failed # {} \/ Retryable # {}

CanClear == joined /\ (Completed # {} \/ Dismissible # {})

FilesOf(items) == {u.file : u \in items}
LocalOf(items) == FilesOf({u \in items : u.local})

Count(counts, files) == [f \in Files |-> counts[f] + (IF f \in files THEN 1 ELSE 0)]

WithinBound == starts + page < MaxEvents

(***************************************************************************)
(* Joining and leaving                                                     *)
(***************************************************************************)
\* The component is mounted; on the desktop it starts to register a listener.
Join ==
  /\ ~joined /\ page < MaxPages /\ WithinBound
  /\ joined' = TRUE /\ page' = page + 1
  /\ registering' = IF runtime = "desktop" THEN registering \cup {page'} ELSE registering
  /\ UNCHANGED <<runtime, uploads, running, starts, listeners, lastDrop, native, server>>

\* The component is unmounted with its list.  Its cleanup calls `unlisten` if
\* the registration has resolved, and can do nothing about one that has not.
Unmount ==
  /\ joined' = FALSE /\ uploads' = {}
  /\ listeners' = IF joined THEN listeners \ {page} ELSE listeners
  /\ UNCHANGED <<registering, lastDrop>>

\* The user leaves, or another request finds the session gone.
Leave ==
  /\ joined
  /\ Unmount
  /\ UNCHANGED <<runtime, page, running, starts, native, server>>

\* onDragDropEvent resolves, also for a component that is gone, or fails.
ListenerReady(p) ==
  /\ p \in registering
  /\ registering' = registering \ {p}
  /\ listeners' \in {listeners, listeners \cup {p}}
  /\ UNCHANGED <<runtime, joined, page, uploads, running, starts, lastDrop, native, server>>

(***************************************************************************)
(* Starting a batch                                                        *)
(***************************************************************************)
\* Mutant of ShowOnly: the new items are added to the list.
AddToShown(items) == uploads' = uploads \cup items

\* setUploads(uploadItems): the list is replaced.
ShowOnly(items) == uploads' = items

\* uploadFiles: what is too large is left out; the first file is sent.
UploadFiles(files, empty) ==
  LET allowed == files \ TooLarge
      n == starts + 1
  IN  IF allowed = {} THEN UNCHANGED <<uploads, running, starts>>
      ELSE \E f \in allowed :
        /\ starts < MaxStarts /\ WithinBound /\ starts' = n
        /\ ShowOnly({Item(n, g, FALSE, IF g = f THEN "uploading" ELSE "queued") : g \in allowed})
        /\ running' = running \cup
             {[n |-> n, page |-> page, local |-> FALSE, files |-> allowed \ {f}, now |-> f,
               auth |-> TRUE, empty |-> empty]}

\* uploadDroppedLocalPaths, called in the components `pages`.
UploadDroppedLocalPaths(files, pages) ==
  LET n == starts + 1 IN
  /\ starts < MaxStarts /\ WithinBound /\ starts' = n
  /\ IF joined /\ page \in pages THEN ShowOnly({Item(n, f, TRUE, "uploading") : f \in files})
     ELSE UNCHANGED uploads
  /\ running' = running \cup
       {[n |-> n, page |-> p, local |-> TRUE, files |-> files, now |-> NoFile,
         auth |-> joined, empty |-> {}] : p \in pages}

\* onFileChange, and onDrop outside the desktop shell.
ChooseFiles(files) ==
  /\ CanChoose
  /\ files # {}
  /\ UploadFiles(files, {})
  /\ chosen' = Count(chosen, files \ TooLarge)
  /\ UNCHANGED <<runtime, joined, page, desktop, native, stored, unsure, crossed>>

\* Paths are dropped on the desktop window, at any time: every registered
\* listener is called and ignores what it was given a moment ago.
DropPaths(files) ==
  LET called == {p \in listeners : [page |-> p, files |-> files] \notin lastDrop} IN
  /\ files # {} /\ called # {}
  /\ UploadDroppedLocalPaths(files, called)
  /\ lastDrop' = {[page |-> p, files |-> files] : p \in listeners}
  /\ chosen' = Count(chosen, files)
  /\ crossed' = (\/ crossed
                 \/ Cardinality(called) > 1
                 \/ \E b \in running : b.page \in called)
  /\ UNCHANGED <<runtime, joined, page, registering, listeners, native, stored, unsure>>

\* 1.5 s pass.
ForgetDrop ==
  /\ lastDrop # {}
  /\ lastDrop' = {}
  /\ UNCHANGED <<runtime, joined, page, uploads, running, starts, registering, listeners,
                 native, server>>

\* Mutant of RetriedItems: everything in the list is sent again.
WholeList == uploads

RetriedItems == Failed

\* retryFailedUploads: the wrapper is asked to retry its shares, and the page's
\* own failures go up again.
RetryFailed ==
  LET files == FilesOf(RetriedItems)
      local == LocalOf(RetriedItems)
  IN
  /\ CanRetry
  /\ native' = {IF s \in Retryable THEN [s EXCEPT !.status = "active"] ELSE s : s \in native}
  /\ IF Failed = {} THEN UNCHANGED <<uploads, running, starts>>
     ELSE IF local = files THEN UploadDroppedLocalPaths(files, {page})
     ELSE UploadFiles(files, local)
  /\ UNCHANGED <<runtime, joined, page, desktop, server>>

(***************************************************************************)
(* Answers                                                                 *)
(***************************************************************************)
\* The list of b's component becomes `items`, unless it is unmounted.
Show(b, items) == uploads' = IF joined /\ page = b.page THEN items ELSE uploads

\* Mutant of Marked: every item is marked.
MarkedAll(b, f, status) == {[u EXCEPT !.status = status] : u \in uploads}

\* The item with the id of b's file f is marked.
Marked(b, f, status) ==
  {IF u.n = b.n /\ u.file = f THEN [u EXCEPT !.status = status] ELSE u : u \in uploads}

\* What is left of b when f is sent, with a session or without.
Sending(b, f, auth) == [b EXCEPT !.now = f, !.files = @ \ {f}, !.auth = auth]

MarkedNext(b, f, status) ==
  {IF u.n = b.n /\ u.file = f THEN [u EXCEPT !.status = "uploading"] ELSE u :
     u \in Marked(b, b.now, status)}

\* Mutant of Proceed: an upload that fails ends the loop.
ProceedIfStored(b, status) ==
  \/ /\ b.files = {} \/ status = "error"
     /\ running' = running \ {b}
     /\ Show(b, Marked(b, b.now, status))
  \/ \E f \in b.files :
       /\ status # "error"
       /\ running' = (running \ {b}) \cup {Sending(b, f, joined)}
       /\ Show(b, MarkedNext(b, f, status))

\* The rest of the loop's body: the item is marked, the next one is sent with
\* whatever session the page has by then.
Proceed(b, status) ==
  \/ /\ b.files = {}
     /\ running' = running \ {b}
     /\ Show(b, Marked(b, b.now, status))
  \/ \E f \in b.files :
       /\ running' = (running \ {b}) \cup {Sending(b, f, joined)}
       /\ Show(b, MarkedNext(b, f, status))

\* The hub has stored the file and its answer arrives.
FileStored(b) ==
  /\ ~b.local /\ b.auth
  /\ Proceed(b, "success")
  /\ stored' = Count(stored, {b.now})
  /\ UNCHANGED <<runtime, joined, page, starts, desktop, native, chosen, unsure, crossed>>

\* The hub refuses it, or the connection breaks, perhaps after it was stored.
FileFails(b) ==
  /\ ~b.local
  /\ Proceed(b, "error")
  /\ \/ UNCHANGED <<stored, unsure>>
     \/ b.auth /\ stored' = Count(stored, {b.now}) /\ unsure' = unsure \cup {b.now}
  /\ UNCHANGED <<runtime, joined, page, starts, desktop, native, chosen, crossed>>

\* The hub answers 401: clearSessionOnUnauthorized ends the session the page has
\* now, which need not be the one of the call.  The loop goes on without one.
FileUnauthorized(b) ==
  /\ ~b.local
  /\ \/ b.files = {} /\ running' = running \ {b}
     \/ \E f \in b.files : running' = (running \ {b}) \cup {Sending(b, f, FALSE)}
  /\ Unmount
  /\ UNCHANGED <<runtime, page, starts, native, server>>

\* The call for all paths returns: every item in the list by then is marked.
PathsCopied(b) ==
  /\ b.local /\ b.auth /\ b.files \cap TooLarge = {}
  /\ running' = running \ {b}
  /\ Show(b, {[u EXCEPT !.status = "success"] : u \in uploads})
  /\ stored' = Count(stored, b.files)
  /\ UNCHANGED <<runtime, joined, page, starts, desktop, native, chosen, unsure, crossed>>

\* It fails: what the hub had published by then stays published.
PathsFail(b) ==
  /\ b.local
  /\ running' = running \ {b}
  /\ Show(b, {[u EXCEPT !.status = "error"] : u \in uploads})
  /\ \E done \in SUBSET b.files :
       /\ ~b.auth \/ b.files \cap TooLarge # {} => done = {}
       /\ stored' = Count(stored, done)
       /\ unsure' = unsure \cup done
  /\ UNCHANGED <<runtime, joined, page, starts, desktop, native, chosen, crossed>>

PathsUnauthorized(b) ==
  /\ b.local
  /\ running' = running \ {b}
  /\ Unmount
  /\ UNCHANGED <<runtime, page, starts, native, server>>

Answer(b) ==
  \/ FileStored(b) \/ FileFails(b) \/ FileUnauthorized(b)
  \/ PathsCopied(b) \/ PathsFail(b) \/ PathsUnauthorized(b)

(***************************************************************************)
(* Completed items, and the wrapper's shares                               *)
(***************************************************************************)
\* The timer of 8 s that starts again when other items complete.
AutoClear ==
  /\ joined /\ Completed # {}
  /\ uploads' = uploads \ Completed
  /\ UNCHANGED <<runtime, joined, page, running, starts, desktop, native, server>>

\* clearCompletedUploads; the wrapper also drops failures that cannot be retried.
ClearCompleted ==
  /\ CanClear
  /\ uploads' = uploads \ Completed
  /\ native' = native \ Dismissible
  /\ UNCHANGED <<runtime, joined, page, running, starts, desktop, server>>

\* The timer of 8 s for the wrapper's shares asks for the same.
NativeAutoClear ==
  /\ joined /\ \E s \in native : s.status = "success"
  /\ native' = native \ Dismissible
  /\ UNCHANGED <<runtime, joined, page, uploads, running, starts, desktop, server>>

\* The wrapper stages a share, uploads it, and reports its new list.
NativeReport ==
  /\ runtime = "android"
  /\ \/ \E i \in Shares :
          /\ \A s \in native : s.id # i
          /\ \E status \in {"active", "fatal"} :
               native' = native \cup {[id |-> i, status |-> status]}
     \/ \E s \in NativeActive : \E status \in NativeStatuses \ {s.status} :
          native' = (native \ {s}) \cup {[s EXCEPT !.status = status]}
  /\ UNCHANGED <<runtime, joined, page, uploads, running, starts, desktop, server>>

(***************************************************************************)
(* The specification                                                       *)
(***************************************************************************)
Next ==
  \/ Join \/ Leave \/ ForgetDrop \/ RetryFailed
  \/ AutoClear \/ ClearCompleted \/ NativeAutoClear \/ NativeReport
  \/ \E p \in registering : ListenerReady(p)
  \/ \E files \in SUBSET Files : ChooseFiles(files) \/ DropPaths(files)
  \/ \E b \in running : Answer(b)

Spec == Init /\ [][Next]_vars

AnswerOf(n, p) == \E b \in running : b.n = n /\ b.page = p /\ Answer(b)

\* Every call of the hub is answered or its connection breaks.
FairSpec ==
  Spec /\ \A n \in 1..MaxStarts, p \in 1..MaxPages : WF_vars(AnswerOf(n, p))

(***************************************************************************)
(* Properties                                                              *)
(***************************************************************************)
\* What the list shows as uploaded, the hub has stored, whatever fails, is
\* retried or goes on in the background (with drops that do not overlap).
SuccessWasStored ==
  ~crossed => \A u \in Completed : stored[u.file] > 0

\* Retrying stores no file again: a file is stored no more often than it was given,
\* unless a call had stored it and failed afterwards (or drops overlapped).
StoredOnce ==
  ~crossed => \A f \in Files \ unsure : stored[f] <= chosen[f]

\* A retry sends what the user gave: uploadFiles never gets the empty file that
\* stands for a path, since the list never mixes paths and browser files.
RetryKeepsContent == \A b \in running : b.empty = {}

\* The input, disabled while anything is queued or uploading, comes back:
\* no failure, overlapping drop or lost session leaves an item active for ever.
PickerComesBack == IsUploading ~> ~IsUploading
=============================================================================
